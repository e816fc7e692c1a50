CONSTANTS
  MaxQuery = 3
  MaxClient = 1
  Status = {"blocked"}
  Kind = {"blocked"}
  MaxQps = 1
  CleanupAfter = 1
  Slots = 2
  Interval = 1
  ChannelBound = 1
  BatchSize = 2
  Retention = 1
  MaxLag = 1
  MaxTime = 4
  MaxPurges = 1
SPECIFICATION Spec
INVARIANTS
  FloodShed
  HistoryExact
PROPERTIES
  ImplementsLog
  LogCatchesUp
\* The queries are numbered, and the clock stops.
CHECK_DEADLOCK FALSE
