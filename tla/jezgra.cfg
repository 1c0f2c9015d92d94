SPECIFICATION Spec
CONSTANTS
  Scenes <- AllScenes
  Pids <- SevenPids
  MaxFd = 5
  PipeSize = 2
  mq_maxmsg = 1
  MaxTrouble = 2
INVARIANTS
  TypeOK
  NothingLost
  Delivered
  HandlerFindsZombie
  OwnArgument
  InterruptAnswered
PROPERTY
  EveryoneEnds
CHECK_DEADLOCK FALSE
