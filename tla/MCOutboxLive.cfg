SPECIFICATION FairSpec
CONSTANTS
  Keys = {k1, k2}
  Workers = {w1}
  Tokens = {t1,t2,t3}
  NoToken = NoToken
  NoKey = NoKey
  MaxMsgs = 2
  Limit = 1
  Lease = 1
  BackoffBase = 1
  BackoffMax = 1
  MaxAttempts = 1
  Retention = 1
  MaxOverdue = 1
  MaxPlaced = 1
  MaxFaults = 2
  SlowCalls = {}
PROPERTIES EventuallySettled
