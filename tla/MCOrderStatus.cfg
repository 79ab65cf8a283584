SPECIFICATION FairSpec
CONSTANTS
  Poller = poller
  Checks = {check}
  Visits = {visit1}
  MaxTold = 2
  MaxFaults = 1
  Ambiguous = FALSE
INVARIANTS TypeOK ToldOnce MarksHaveReason ClosedOnlyWhenFinal
PROPERTIES ClosedEventually
