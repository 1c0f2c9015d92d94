CONSTANTS
  t1 = t1
  t2 = t2
  t3 = t3
  Threads = {t1, t2, t3}
  cnt = 3
  Locking <- BothPrograms
  Nobody = Nobody
SPECIFICATION Spec
INVARIANTS
  TypeOK
  ResultInRange
  ExactWithMutex
PROPERTY AllJoined
