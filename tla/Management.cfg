CONSTANTS
  Password = {0, 1}
  EnvMode = "disabled"
  MaxSid = 2
  \* A tick is longer than the timeout: a session expires at the next tick.
  Timeout = 0
  Client = {"unknown"}
  MaxAttempts = 1
  Window = 2
  MaxTime = 2
  Request = {r1, r2}
  Patches <- MCPatches
  Edited <- MCEdited
  MaxRequests = 3
  MaxEvents = 1
SPECIFICATION Spec
INVARIANTS
  ConfigSettles
  LogoutHolds
  GuessesBounded
CHECK_DEADLOCK FALSE
SYMMETRY Symmetry
