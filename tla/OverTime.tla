------------------------------ MODULE OverTime ------------------------------
(***************************************************************************)
(* Statistics in memory (nimbus-core/src/over_time/mod.rs): counters since *)
(* the start, a ring of time slots that covers a day, and one such ring    *)
(* per client.  A slot is found by its place in the ring and taken over    *)
(* by the first query of a new round.                                      *)
(***************************************************************************)
EXTENDS Integers

CONSTANTS
  Client,    \* client IP addresses
  Status,    \* how a query that is not refused may end
  Kind,      \* those with a counter of their own: blocked, cached, forwarded
  Slots,     \* HISTORY_SLOTS
  Interval   \* SLOT_INTERVAL

VARIABLES
  counters,   \* total_queries and the counters per kind
  ring,       \* slot_state
  histories   \* client_histories: rings, and when the client was last active

Counter == Kind \cup {"total"}
Zero    == [k \in Counter |-> 0]
Blank   == [timestamp |-> 0, n |-> Zero]
Empty   == [i \in 0..(Slots - 1) |-> Blank]
NoHistory == [lastActive |-> 0, slots |-> Empty]   \* a client not in the map

Day == Slots * Interval

TypeOK ==
  LET Ring == [0..(Slots - 1) -> [timestamp : Nat, n : [Counter -> Nat]]] IN
  /\ counters \in [Counter -> Nat]
  /\ ring \in Ring
  /\ histories \in [Client -> [lastActive : Nat, slots : Ring]]

NoHistories == [c \in Client |-> NoHistory]

SlotIndex(t)     == (t \div Interval) % Slots
SlotTimestamp(t) == (t \div Interval) * Interval

Plus(n, status) == [k \in Counter |-> IF k \in {"total", status} THEN n[k] + 1 ELSE n[k]]

Bump_KeepsOldRound(slots, t, status) ==
  [slots EXCEPT ![SlotIndex(t)] = [timestamp |-> SlotTimestamp(t), n |-> Plus(@.n, status)]]

\* The slot of an earlier round is reset first.
Bump(slots, t, status) ==
  [slots EXCEPT ![SlotIndex(t)] =
     [timestamp |-> SlotTimestamp(t),
      n |-> Plus(IF @.timestamp = SlotTimestamp(t) THEN @.n ELSE Zero, status)]]

\* record_query: counters, ring and history have a lock each, but nobody
\* reads two of them together.
RecordQuery(c, t, status) ==
  /\ counters' = Plus(counters, status)
  /\ ring' = Bump(ring, t, status)
  /\ histories' = [histories EXCEPT ![c] =
                     [lastActive |-> t, slots |-> Bump(@.slots, t, status)]]

\* Clients with no query for a day.
CleanupStaleClients(t) ==
  /\ histories' = [c \in Client |->
                     IF histories[c].lastActive > t - Day THEN histories[c] ELSE NoHistory]
  /\ UNCHANGED <<counters, ring>>

\* get_history and get_client_history at time t.
Recent(slots, t) ==
  {s \in {slots[i] : i \in 0..(Slots - 1)} :
     s.timestamp > 0 /\ SlotTimestamp(t) - s.timestamp <= Day}

\* What a history says of the slot that begins at s.
Reported(history, s) ==
  IF \E x \in history : x.timestamp = s
    THEN (CHOOSE x \in history : x.timestamp = s).n ELSE Zero

=============================================================================
