CONSTANTS
  s1 = s1
  s2 = s2
  a = a
  b = b
  n = n
  Servers <- TwoServers
  Clients <- ThreeClients
  Pieces <- AllPieces
  Message <- Messages
  Transports <- AllTransports
  Backlog = 0
  MaxTrouble = 1
  None = None
SPECIFICATION Spec
INVARIANTS
  TypeOK
  AnswersMatch
  AloneKeepsAddress
  LeavesOnRequest
PROPERTIES
  EveryClientEnds
CHECK_DEADLOCK FALSE
