CONSTANTS
  Message <- MCMessage
  UpstreamLists <- MCUpstreamLists
  Query = {q1, q2}
  Socket = {s1, s2}
  \* A unit is the five seconds that the code gives to both.
  PerAttempt = 1
  Overall = 1
  Ttls = {0, 2}
  MaxTime = 2
  None = None
SPECIFICATION FairSpec
CHECK_DEADLOCK FALSE
INVARIANTS
  TypeOK
  AnswersQuestion
  SocketsExclusive
  PoolBounded
  CachedWithinTtl
  ToldWithinTtl
PROPERTIES
  FailsAfterAll
  EveryQueryEnds
