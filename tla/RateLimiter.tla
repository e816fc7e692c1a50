---------------------------- MODULE RateLimiter -----------------------------
(***************************************************************************)
(* The rate limiter of the router (nimbus-core/src/dns/router.rs:475-529): *)
(* a window of one second per client, opened by a query that comes after   *)
(* the last one is over.  check reads the clock first and takes the lock   *)
(* of the client's entry later, so the readings it compares may be out of  *)
(* order; `read` below is the caller's reading.                            *)
(***************************************************************************)
EXTENDS Naturals

CONSTANTS
  Client,        \* client IP addresses
  MaxQps,        \* dns.rate_limit
  CleanupAfter   \* the map is cleaned up this long after the last time

VARIABLES
  window,        \* clients: the count and the start of each one's window
  lastCleanup    \* last_cleanup

\* A tick is a second.  A window lasts until more than WindowLength ticks
\* have gone by; the cleanup keeps what is younger than StaleAfter.
WindowLength == 1
StaleAfter   == 2

Absent == [count |-> 0, start |-> 0]   \* no entry for this client

\* Counts above the limit are only compared with MaxQps + 1: all that are
\* past it are one value.
Counts == 0..(MaxQps + 2)

TypeOK ==
  /\ window \in [Client -> [count : Counts, start : Nat]]
  /\ lastCleanup \in Nat

NoWindows == [c \in Client |-> Absent]

\* Instant::duration_since saturates at zero.
Since(read, earlier) == IF read < earlier THEN 0 ELSE read - earlier

CleanupDue(read) == Since(read, lastCleanup) > CleanupAfter

Kept(c, read) ==
  IF CleanupDue(read) /\ Since(read, window[c].start) >= StaleAfter
    THEN Absent ELSE window[c]

\* The entry of a client whose query comes at `read`, this query counted.
Counted(old, read) ==
  IF old.count = 0 THEN [count |-> 1, start |-> read]
  ELSE IF Since(read, old.start) > WindowLength THEN [count |-> 1, start |-> read]
  ELSE [old EXCEPT !.count = IF @ = MaxQps + 2 THEN @ ELSE @ + 1]

Decision_LogsAll(entry) == IF entry.count <= MaxQps THEN "allowed" ELSE "limitedFirst"

Decision(entry) ==
  IF entry.count <= MaxQps THEN "allowed"
  ELSE IF entry.count = MaxQps + 1 THEN "limitedFirst"
  ELSE "limited"

Check(c, read) ==
  /\ window' = [x \in Client |-> IF x = c THEN Counted(Kept(c, read), read) ELSE Kept(x, read)]
  /\ lastCleanup' = IF CleanupDue(read) THEN read ELSE lastCleanup

=============================================================================
