SPECIFICATION Spec
CONSTANTS
  Visits = {v1, v2}
  MaxPlaced = 3
  MaxFaults = 0
  Ambiguous = FALSE
  SlowRuns = FALSE
SYMMETRY Symmetry
CHECK_DEADLOCK FALSE
INVARIANT LockTakenOnce
