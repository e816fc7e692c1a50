------------------------------ MODULE Sessions ------------------------------
(***************************************************************************)
(* The sessions of the API: rows in the database, the cache in front of    *)
(* them, and the limiter of login attempts (nimbus-api/src/auth.rs,        *)
(* nimbus-core/src/database/queries.rs).  A session is its number, and its *)
(* row and its cache entry are the time it expires, 0 for none.            *)
(***************************************************************************)
EXTENDS Integers, Sequences, FiniteSets

CONSTANTS
  MaxSid,       \* bound: sessions created
  Timeout,      \* webserver.session_timeout
  Client,       \* keys of the login limiter
  MaxAttempts, Window,
  MaxTime       \* bound: the clock

Sid  == 1..MaxSid
Time == 0..MaxTime

ASSUME SessionsAssumption ==
  /\ MaxSid \in Nat \ {0} /\ Timeout \in Nat /\ MaxTime \in Nat \ {0}
  /\ MaxAttempts \in Nat \ {0} /\ Window \in Nat \ {0} /\ Client # {}

VARIABLES
  now,
  rows,      \* table sessions
  cached,    \* SessionCache
  attempts   \* AuthRateLimiter

sessionVars == <<rows, cached, attempts>>

SessionTypeOK ==
  /\ now \in 1..MaxTime
  /\ rows \in [Sid -> 0..(MaxTime + Timeout)]
  /\ cached \in [Sid -> 0..(MaxTime + Timeout)]
  /\ attempts \in [Client -> Seq(Time)]

SetRow(s, expires)    == rows' = [rows EXCEPT ![s] = expires]
SetCached(s, expires) == cached' = [cached EXCEPT ![s] = expires]

\* AuthRateLimiter::check, under the lock of the entry.  The attempts are in the
\* order of their times, and those that retain removes are the first.
Recent(c) ==
  LET old == {i \in DOMAIN attempts[c] : attempts[c][i] <= now - Window} IN
  SubSeq(attempts[c], Cardinality(old) + 1, Len(attempts[c]))
Allowed(c) == Len(Recent(c)) < MaxAttempts
CheckAttempt_PrunesEarly(c) ==
  attempts' = [attempts EXCEPT ![c] =
     LET recent == SelectSeq(attempts[c], LAMBDA t : t >= now) IN
     IF Allowed(c) THEN Append(recent, now) ELSE recent]

CheckAttempt(c) ==
  attempts' = [attempts EXCEPT ![c] = IF Allowed(c) THEN Append(Recent(c), now) ELSE Recent(c)]

RecordSuccess(c) == attempts' = [attempts EXCEPT ![c] = <<>>]

\* cleanup_expired_sessions and SessionCache::remove_expired
RemoveExpiredRows   == rows' = [s \in Sid |-> IF rows[s] < now THEN 0 ELSE rows[s]]
RemoveExpiredCached == cached' = [s \in Sid |-> IF cached[s] < now THEN 0 ELSE cached[s]]
=============================================================================
