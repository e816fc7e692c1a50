CONSTANTS
  Key <- MCKey
  ShardOf <- MCShardOf
  Shards = 2
  Thread = {t1, t2}
  MaxEntries = 2
  SampleSize = 2
  \* A tick is longer than the TTL: an entry expires at the next tick.
  Ttl = {0}
  MaxTime = 1
SPECIFICATION FairSpec
INVARIANTS
  TypeOK
  OvershootBounded
PROPERTIES
  InsertProgress
  ExpiredReclaimed
