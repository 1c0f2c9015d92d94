CONSTANTS
  Runs = {r1, r2}
  ITERACIJA = 1
  Overlap = TRUE
  MaxKills = 0
  None = None
SPECIFICATION Spec
INVARIANT ExactResult
CHECK_DEADLOCK FALSE
