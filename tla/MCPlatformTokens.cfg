SPECIFICATION FairSpec
CONSTANTS
  Callers = {c1, c2}
  NoCaller = NoCaller
  Tokens = {t1, t2, t3}
  NoToken = NoToken
  Lives = {2, 5}
  Margin = 2
  Fallback = 3
  MaxClock = 2
  MaxRevoked = 1
INVARIANTS TypeOK
PROPERTIES HandsOutFresh NoneWasted Recovers
