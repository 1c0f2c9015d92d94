CONSTANTS
  Producers = {p1}
  Consumers = {c1}
  VEL_BUFFERA = 4
  Quota = 30
  Wakeup = "signal"
  MaxSpurious = 2
  Nobody = Nobody
  Zero = Zero
SPECIFICATION Spec
PROPERTY EverythingDelivered
