SPECIFICATION Spec
CONSTANTS
  Scenes <- Demonstration
  Pids <- SevenPids
  MaxFd = 5
  PipeSize = 2
  mq_maxmsg = 3
  MaxTrouble = 0
INVARIANT
  DescendingPriorities
CHECK_DEADLOCK FALSE
