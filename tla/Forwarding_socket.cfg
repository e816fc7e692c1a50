CONSTANTS
  Message <- MCMessage
  UpstreamLists <- MCUpstreamLists
  Query = {q1, q2}
  Socket = {s1, s2}
  PerAttempt = 1
  Overall = 1
  Ttls = {2}
  MaxTime = 2
  None = None
SPECIFICATION Spec
CHECK_DEADLOCK FALSE
INVARIANT OwnSocket
