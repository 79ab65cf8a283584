SPECIFICATION Spec
CONSTANTS
  Keys = {k1, k2}
  Workers = {w1, w2}
  Tokens = {t1, t2, t3, t4}
  NoToken = NoToken
  NoKey = NoKey
  MaxMsgs = 2
  Limit = 2
  Lease = 2
  BackoffBase = 1
  BackoffMax = 2
  MaxAttempts = 1
  Retention = 1
  MaxOverdue = 0
  MaxPlaced = 2
  MaxFaults = 1
  SlowCalls = {1}
SYMMETRY Symmetry
INVARIANTS TypeOK BooksAgree ExclusiveDelivery OrdersAccounted ChecksFollowBooks
PROPERTIES LeaseRespected KeepsContract
