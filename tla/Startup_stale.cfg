\* One instance after another: after a crash the file is still there, and a new
\* process may get the id in it, as the first process of a container does.
SPECIFICATION Spec
CONSTANTS
  Proc = {p1, p2}
  Pid = {k1, k2}
  MaxRow = 1
PROPERTIES
  RefusedForOther
