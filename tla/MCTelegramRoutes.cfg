SPECIFICATION FairSpec
CONSTANTS
  Sends = {s1, s2, s3}
  MaxRoutes = 3
  RetryTotal = 1
INVARIANTS TypeOK EveryRouteTried
PROPERTIES KeepsTelegramContract Returns
CHECK_DEADLOCK FALSE
