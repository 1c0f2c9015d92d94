CONSTANTS
  a = a
  b = b
  text = text
  KRAJ = KRAJ
  IZLAZIM = IZLAZIM
  None = None
  Clients = {a}
  Messages = {text, KRAJ}
  Script <- LoneKRAJ
  BACKLOG = 0
  MaxTrouble = 0
SPECIFICATION Spec
PROPERTY StopsWhenAsked
CHECK_DEADLOCK FALSE
