SPECIFICATION FairSpec
CONSTANTS
  Poller = poller
  Visits = {v1, v2}
  MaxPlaced = 4
  MaxFaults = 2
  Ambiguous = FALSE
  SlowRuns = FALSE
CHECK_DEADLOCK FALSE
INVARIANTS TypeOK LockExclusive OnceUnlessOverlapping
PROPERTIES KeepsSaleContract Launched
