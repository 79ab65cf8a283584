SPECIFICATION FairSpec
CONSTANTS
  Pollers = {worker}
  Worker = worker
  Page = 2
  MaxMsgs = 3
  MaxTold = 4
  MaxFaults = 2
  Ambiguous = FALSE
INVARIANTS TypeOK NothingPassedOver NoneOvertaken OnceEach
PROPERTIES Forwarded MarkMovesOn
CHECK_DEADLOCK FALSE
