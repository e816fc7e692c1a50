CONSTANTS
  Query = {q1, q2, q3}
  Conn = {k1, k2}
  ChannelBound = 1
  IdSpace = 3
  MaxDrawn = 3
  None = None
SPECIFICATION FairSpec
INVARIANTS
  AnswersOwnQuery
  WaiterNotForgotten
PROPERTIES
  DisconnectFailsFast
  AbandonedSwept
  DeadSenderReplaced
\* The calls and the connection tasks that may be spawned are numbered.
CHECK_DEADLOCK FALSE
