CONSTANTS
  Producers = {p1, p2}
  Consumers = {c1, c2}
  VEL_BUFFERA = 2
  Quota = 3
  Wakeup = "broadcast"
  MaxSpurious = 1
  Nobody = Nobody
  Zero = Zero
SPECIFICATION Spec
INVARIANTS
  TypeOK
  MutualExclusion
  FifoDelivery
  NoLostWakeup
  NeverBothAsleep
PROPERTIES
  EverythingDelivered
  ImplementsChannel
