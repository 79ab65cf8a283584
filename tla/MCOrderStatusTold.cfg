SPECIFICATION Spec
CONSTANTS
  Poller = poller
  Checks = {check}
  Visits = {visit1}
  MaxTold = 2
  MaxFaults = 0
  Ambiguous = FALSE
INVARIANT ClosedMeansTold
