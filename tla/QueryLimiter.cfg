CONSTANTS
  Client = {c1, c2}
  Task = {t1, t2, t3}
  MaxConcurrent = 3
  PerClient = 2
  MaxQueries = 2
SPECIFICATION FairSpec
INVARIANTS
  PermitAccounting
  ClientAccounting
  ClientCapRespected
  OnlyActiveClients
PROPERTIES
  SlotsComeBack
\* Both accept loops end on shutdown and the last tasks with them.
CHECK_DEADLOCK FALSE
