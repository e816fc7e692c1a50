\* Two instances at a time and any number in turn, a process id in reserve
\* that may be used again, two rows of the query log.
SPECIFICATION Spec
CONSTANTS
  Proc = {p1, p2}
  Pid = {k1, k2, k3}
  MaxRow = 2
INVARIANTS
  RowsKept
PROPERTIES
  FailsForCause
  CheckDecides
