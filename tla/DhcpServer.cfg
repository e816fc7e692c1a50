CONSTANTS
  Mac = {m1, m2, m3}
  PoolStart = 1
  PoolEnd = 2
  Foreign = 9
  LeaseTime = 3
  OfferTimeout = 2
  Quarantine = 1
  MaxTime = 4
  DbMayFail = FALSE
SPECIFICATION Spec
INVARIANTS
  TypeOK
  PoolAccounting
  ExclusiveOwnership
  ExcludedNotServed
  NoSharedBinding
  AckedIsPersisted
