SPECIFICATION Spec
CONSTANTS
  Visits = {v1, v2, v3}
  MaxPlaced = 3
  MaxFaults = 1
  Ambiguous = FALSE
  SlowRuns = TRUE
SYMMETRY Symmetry
CHECK_DEADLOCK FALSE
INVARIANTS TypeOK ProcessedIsSettled AcceptedIsProcessed OnceUnlessOverlapping
PROPERTY KeepsSaleContract
