CONSTANTS
  Programs <- AllPrograms
  Tikova = 5
  Prolaza = 5
  MaxRaised = 7
SPECIFICATION Spec
INVARIANTS
  TypeOK
  NoAlarmLost
PROPERTIES
  LinesReportNews
  AlarmEndsSleep
CHECK_DEADLOCK FALSE
