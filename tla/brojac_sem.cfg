CONSTANTS
  Runs = {r1, r2}
  ITERACIJA = 3
  Overlap = FALSE
  MaxKills = 2
  None = None
SPECIFICATION Spec
INVARIANTS
  TypeOK
  Exclusion
  ExactResult
PROPERTY EndsUnlessOrphaned
CHECK_DEADLOCK FALSE
