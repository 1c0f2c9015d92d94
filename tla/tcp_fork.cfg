CONSTANTS
  a = a
  b = b
  text = text
  KRAJ = KRAJ
  IZLAZIM = IZLAZIM
  None = None
  Clients = {a, b}
  Messages = {text, KRAJ}
  Script <- Conversations
  BACKLOG = 0
  MaxTrouble = 1
SPECIFICATION Spec
INVARIANTS
  TypeOK
  NoForgottenZombie
  OneConnectionInHand
  StopIsRemembered
  NoSilentDrop
  AtMostOneMore
PROPERTIES
  ImplementsService
  EveryConversationEnds
CHECK_DEADLOCK FALSE
