SPECIFICATION FairSpec
CONSTANTS
  Deliveries = {d1, d2}
  Checks = {c1, c2}
INVARIANTS TypeOK NothingAfterClose
PROPERTIES Exits
