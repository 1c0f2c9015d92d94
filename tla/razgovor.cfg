CONSTANTS
  Programs <- Conversation
  Tikova = 5
  Prolaza = 2
  MaxRaised = 0
SPECIFICATION Spec
PROPERTY ConversationEnds
CHECK_DEADLOCK FALSE
