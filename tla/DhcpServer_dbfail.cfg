CONSTANTS
  Mac = {m1, m2}
  PoolStart = 1
  PoolEnd = 2
  Foreign = 9
  LeaseTime = 3
  OfferTimeout = 2
  Quarantine = 1
  MaxTime = 3
  DbMayFail = TRUE
SPECIFICATION Spec
INVARIANTS
  OwnedNotFree
