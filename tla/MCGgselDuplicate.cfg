SPECIFICATION Spec
CONSTANTS
  Poller = poller
  Visits = {v1}
  MaxPlaced = 2
  MaxFaults = 0
  Ambiguous = FALSE
  SlowRuns = FALSE
CHECK_DEADLOCK FALSE
INVARIANT OneOrderPerCode
