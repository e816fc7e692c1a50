--------------------------- MODULE DotConnection ---------------------------
(***************************************************************************)
(* DNS over TLS to one upstream (nimbus-core/src/dns/dot.rs): the callers  *)
(* of DotManager::send_query, the map entry that leads them to a           *)
(* connection task, that task with its bounded channel, and the reader     *)
(* task of its current connection.                                         *)
(*                                                                         *)
(* Queries share a connection and are told apart by an id drawn from one   *)
(* counter for all upstreams.  The counter is kept as the number of draws; *)
(* the id is that number modulo IdSpace (65536 in the code).               *)
(*                                                                         *)
(* Left out: the TLS stream and the framing, the caller's own id, which is *)
(* put aside and restored, and the branch for queries of less than two     *)
(* bytes, which no caller makes.                                           *)
(***************************************************************************)
EXTENDS Integers, Sequences, FiniteSets, Functions

CONSTANTS
  Query,         \* calls of send_query
  Conn,          \* identities for the connection tasks spawned
  ChannelBound,  \* CHANNEL_BOUND
  IdSpace,       \* number of transaction ids
  MaxDrawn,      \* bound of the draws made for other upstreams
  None

\* unique_conn_id spins when every id is pending.  65536 ids are more than
\* the queries the listener lets be under way.
ASSUME DotAssumption ==
  /\ ChannelBound \in Nat \ {0}
  /\ IsFiniteSet(Query) /\ IdSpace \in Nat \ {0} /\ IdSpace >= Cardinality(Query)
  /\ MaxDrawn \in Nat /\ None \notin Conn

VARIABLES
  upstream,  \* the sender in DotManager.upstreams, as the task it leads to
  caller,    \* the calls
  task,      \* what each connection task is doing
  queue,     \* the channel of each task
  pending,   \* the pending map of each task's connection: id -> entry
  reader,    \* the reader task of that connection
  wire,      \* queries sent on that connection and not answered yet
  current,   \* the id of the query being written
  drawn      \* NEXT_ID, not wrapped

vars == <<upstream, caller, task, queue, pending, reader, wire, current, drawn>>

Idle == [pc |-> "idle"]
Sent == [query : Query, seq : Nat]
Result == [pc : {"done"}, result : {"answer"}, seq : Nat, from : Sent]
            \cup [pc : {"done"}, result : {"timeout", "queue full", "closed", "io"}]

Call == {Idle} \cup [pc : {"sending", "waiting"}, conn : Conn] \cup Result

Alive == {"connecting", "backoff", "open", "writing", "closing"}
Ids   == 0..IdSpace - 1

TypeOK ==
  /\ upstream \in Conn \cup {None}
  /\ caller \in [Query -> Call]
  /\ task \in [Conn -> {"none", "ended", "dead"} \cup Alive]
  /\ queue \in [Conn -> Seq(Query)] /\ \A k \in Conn : Len(queue[k]) <= ChannelBound
  /\ DOMAIN pending = Conn
  /\ \A k \in Conn :
       DOMAIN pending[k] \subseteq Ids /\ pending[k] \in [DOMAIN pending[k] -> Sent]
  /\ reader \in [Conn -> {"none", "reading", "ended"}]
  /\ wire \in [Conn -> SUBSET Sent]
  /\ current \in [Conn -> Ids \cup {None}]
  /\ drawn \in Nat

Empty == [i \in {} |-> 0]

Init ==
  /\ upstream = None
  /\ caller = [q \in Query |-> Idle]
  /\ task = [k \in Conn |-> "none"]
  /\ queue = [k \in Conn |-> <<>>]
  /\ pending = [k \in Conn |-> Empty]
  /\ reader = [k \in Conn |-> "none"]
  /\ wire = [k \in Conn |-> {}]
  /\ current = [k \in Conn |-> None]
  /\ drawn = 1

-----------------------------------------------------------------------------
Waiting(q) == caller[q].pc = "waiting"
Sending(q, k) == caller[q] = [pc |-> "sending", conn |-> k]

Failed(result) == [pc |-> "done", result |-> result]

\* The oneshot: a caller that is not waiting any more gets nothing.
Reply(Q, result) ==
  caller' = [q \in Query |-> IF q \in Q /\ Waiting(q) THEN result ELSE caller[q]]

Owners(k) == {pending[k][i].query : i \in DOMAIN pending[k]}

Id(seq) == seq % IdSpace

-----------------------------------------------------------------------------
(* send_query.                                                             *)

\* Under the lock of the map: the task of the upstream, a new one if need be.
Start(q) ==
  /\ caller[q] = Idle
  /\ \E k \in Conn :
       /\ \/ upstream = k /\ UNCHANGED <<upstream, task>>
          \/ /\ upstream = None /\ task[k] = "none"
             /\ upstream' = k
             /\ task' = [task EXCEPT ![k] = "connecting"]
       /\ caller' = [caller EXCEPT ![q] = [pc |-> "sending", conn |-> k]]
  /\ UNCHANGED <<queue, pending, reader, wire, current, drawn>>

\* The channel has room.
Enqueue(q) ==
  /\ \E k \in Conn :
       /\ Sending(q, k) /\ task[k] \in Alive
       /\ Len(queue[k]) < ChannelBound
       /\ queue' = [queue EXCEPT ![k] = Append(@, q)]
       /\ caller' = [caller EXCEPT ![q].pc = "waiting"]
  /\ UNCHANGED <<upstream, task, pending, reader, wire, current, drawn>>

\* It had none for the whole of the caller's timeout.
SendTimeout(q) ==
  /\ \E k \in Conn :
       Sending(q, k) /\ task[k] \in Alive /\ Len(queue[k]) = ChannelBound
  /\ caller' = [caller EXCEPT ![q] = Failed("timeout")]
  /\ UNCHANGED <<upstream, task, queue, pending, reader, wire, current, drawn>>

SendClosed_KeepsSender(q) ==
  /\ \E k \in Conn : Sending(q, k) /\ task[k] \notin Alive
  /\ caller' = [caller EXCEPT ![q] = Failed("queue full")]
  /\ UNCHANGED <<upstream, task, queue, pending, reader, wire, current, drawn>>

\* The task is gone: the sender in the map is removed, whichever it is by now.
SendClosed(q) ==
  /\ \E k \in Conn : Sending(q, k) /\ task[k] \notin Alive
  /\ caller' = [caller EXCEPT ![q] = Failed("queue full")]
  /\ upstream' = None
  /\ UNCHANGED <<task, queue, pending, reader, wire, current, drawn>>

\* No reply within the timeout: the receiver is dropped, and nothing else.
WaitTimeout(q) ==
  /\ Waiting(q)
  /\ caller' = [caller EXCEPT ![q] = Failed("timeout")]
  /\ UNCHANGED <<upstream, task, queue, pending, reader, wire, current, drawn>>

-----------------------------------------------------------------------------
(* tls_connection_task.                                                    *)

Goto(k, state) == task' = [task EXCEPT ![k] = state]

\* Connected: a reader is spawned for the new connection and its own map.
Connect(k) ==
  /\ task[k] = "connecting"
  /\ Goto(k, "open")
  /\ reader' = [reader EXCEPT ![k] = "reading"]
  /\ UNCHANGED <<upstream, caller, queue, pending, wire, current, drawn>>

ConnectFails(k) ==
  /\ task[k] = "connecting"
  /\ Goto(k, "backoff")
  /\ UNCHANGED <<upstream, caller, queue, pending, reader, wire, current, drawn>>

\* The five seconds are over.
Retry(k) ==
  /\ task[k] = "backoff"
  /\ Goto(k, "connecting")
  /\ UNCHANGED <<upstream, caller, queue, pending, reader, wire, current, drawn>>

FreshSeq_NoSkip(k) == drawn

FreshSeq_LowestFree(k) ==
  CHOOSE i \in Ids \ DOMAIN pending[k] : \A j \in Ids \ DOMAIN pending[k] : i <= j

\* unique_conn_id: the next number whose id is not pending.
FreshSeq(k) ==
  CHOOSE n \in drawn..drawn + IdSpace - 1 :
    /\ Id(n) \notin DOMAIN pending[k]
    /\ \A m \in drawn..n - 1 : Id(m) \in DOMAIN pending[k]

\* A query is taken from the channel and registered, then its write begins.
\* From here on the server may have it, whatever comes of the write.
Take(k) ==
  /\ task[k] = "open" /\ queue[k] # <<>>
  /\ LET seq  == FreshSeq(k)
         sent == [query |-> Head(queue[k]), seq |-> seq]
     IN  /\ pending' = [pending EXCEPT ![k] =
                [i \in DOMAIN @ \cup {Id(seq)} |-> IF i = Id(seq) THEN sent ELSE @[i]]]
         /\ wire' = [wire EXCEPT ![k] = @ \cup {sent}]
         /\ drawn' = seq + 1
         /\ current' = [current EXCEPT ![k] = Id(seq)]
  /\ queue' = [queue EXCEPT ![k] = Tail(@)]
  /\ Goto(k, "writing")
  /\ UNCHANGED <<upstream, caller, reader>>

WriteOk(k) ==
  /\ task[k] = "writing"
  /\ Goto(k, "open")
  /\ current' = [current EXCEPT ![k] = None]
  /\ UNCHANGED <<upstream, caller, queue, pending, reader, wire, drawn>>

\* write_all fails: its entry is withdrawn if still there, and the reader
\* aborted; that takes effect when the reader next waits.
WriteFails(k) ==
  /\ task[k] = "writing"
  /\ Reply({pending[k][i].query : i \in DOMAIN pending[k] \cap {current[k]}}, Failed("io"))
  /\ pending' = [pending EXCEPT ![k] = Restrict(@, DOMAIN @ \ {current[k]})]
  /\ current' = [current EXCEPT ![k] = None]
  /\ Goto(k, "closing")
  /\ UNCHANGED <<upstream, queue, reader, wire, drawn>>

\* The select sees that the reader has ended.
ReaderDone(k) ==
  /\ task[k] = "open" /\ reader[k] = "ended"
  /\ Goto(k, "closing")
  /\ UNCHANGED <<upstream, caller, queue, pending, reader, wire, current, drawn>>

Reconnect_KeepsPending(k) ==
  /\ task[k] = "closing"
  /\ reader' = [reader EXCEPT ![k] = "none"]
  /\ wire' = [wire EXCEPT ![k] = {}]
  /\ Goto(k, "connecting")
  /\ UNCHANGED <<upstream, caller, queue, pending, current, drawn>>

\* What is still pending fails, and the loop begins again with a new map.
Reconnect(k) ==
  /\ task[k] = "closing"
  /\ Reply(Owners(k), Failed("closed"))
  /\ pending' = [pending EXCEPT ![k] = Empty]
  /\ reader' = [reader EXCEPT ![k] = "none"]
  /\ wire' = [wire EXCEPT ![k] = {}]
  /\ Goto(k, "connecting")
  /\ UNCHANGED <<upstream, queue, current, drawn>>

Abandoned(k, i) == ~Waiting(pending[k][i].query)

Sweep_EveryManyWrites(k) ==
  /\ task[k] = "open" /\ drawn % 64 = 0
  /\ pending' = [pending EXCEPT ![k] =
        Restrict(@, {i \in DOMAIN @ : ~Abandoned(k, i)})]
  /\ UNCHANGED <<upstream, caller, task, queue, reader, wire, current, drawn>>

\* sweep_stale_pending, on a timer while no write is under way.
Sweep(k) ==
  /\ task[k] = "open"
  /\ pending' = [pending EXCEPT ![k] =
        Restrict(@, {i \in DOMAIN @ : ~Abandoned(k, i)})]
  /\ UNCHANGED <<upstream, caller, task, queue, reader, wire, current, drawn>>

\* The callers that still hold a sender: it lives as long as send_query.
Senders(k) == {q \in Query : caller[q].pc \in {"sending", "waiting"} /\ caller[q].conn = k}

\* recv() yields None: nobody can send any more, and the task returns.
ChannelClosed(k) ==
  /\ task[k] = "open" /\ queue[k] = <<>>
  /\ upstream # k /\ Senders(k) = {}
  /\ Goto(k, "ended")
  /\ pending' = [pending EXCEPT ![k] = Empty]
  /\ reader' = [reader EXCEPT ![k] = "none"]
  /\ wire' = [wire EXCEPT ![k] = {}]
  /\ UNCHANGED <<upstream, caller, queue, current, drawn>>

\* The task panics, which send_query provides for.  Its channel goes with it; a
\* reader that has not been aborted keeps the pending map and reads on.
TaskDies(k) ==
  /\ task[k] \in Alive
  /\ LET detached == task[k] \in {"open", "writing"} /\ reader[k] = "reading" IN
       /\ Reply(Range(queue[k]) \cup (IF detached THEN {} ELSE Owners(k)), Failed("closed"))
       /\ IF detached THEN UNCHANGED <<pending, reader, wire>>
          ELSE /\ pending' = [pending EXCEPT ![k] = Empty]
               /\ reader' = [reader EXCEPT ![k] = "none"]
               /\ wire' = [wire EXCEPT ![k] = {}]
  /\ queue' = [queue EXCEPT ![k] = <<>>]
  /\ current' = [current EXCEPT ![k] = None]
  /\ Goto(k, "dead")
  /\ UNCHANGED <<upstream, drawn>>

-----------------------------------------------------------------------------
(* The reader task, the server's answers, and the other upstreams.         *)

\* Some query is answered, in any order.  If its id is pending the entry's
\* caller gets the answer, else it is discarded.
ReadResponse(k) ==
  /\ reader[k] = "reading"
  /\ \E r \in wire[k] :
       /\ wire' = [wire EXCEPT ![k] = @ \ {r}]
       /\ \/ /\ Id(r.seq) \in DOMAIN pending[k]
             /\ LET entry == pending[k][Id(r.seq)] IN
                  Reply({entry.query},
                        [pc |-> "done", result |-> "answer", seq |-> entry.seq, from |-> r])
             /\ pending' = [pending EXCEPT ![k] = Restrict(@, DOMAIN @ \ {Id(r.seq)})]
          \/ Id(r.seq) \notin DOMAIN pending[k] /\ UNCHANGED <<caller, pending>>
  /\ UNCHANGED <<upstream, task, queue, reader, current, drawn>>

\* The connection breaks or is closed: everything pending fails.
ReadError(k) ==
  /\ reader[k] = "reading"
  /\ Reply(Owners(k), Failed("closed"))
  /\ pending' = [pending EXCEPT ![k] = Empty]
  /\ reader' = [reader EXCEPT ![k] = "ended"]
  /\ UNCHANGED <<upstream, task, queue, wire, current, drawn>>

OtherUpstreamDraws ==
  /\ drawn < MaxDrawn
  /\ drawn' = drawn + 1
  /\ UNCHANGED <<upstream, caller, task, queue, pending, reader, wire, current>>

-----------------------------------------------------------------------------
CallerStep(q) ==
  \/ Start(q)
  \/ Enqueue(q)
  \/ SendTimeout(q)
  \/ SendClosed(q)
  \/ WaitTimeout(q)

TaskStep(k) ==
  \/ Connect(k) \/ ConnectFails(k) \/ Retry(k)
  \/ Take(k)
  \/ WriteOk(k) \/ WriteFails(k)
  \/ ReaderDone(k)
  \/ Reconnect(k)
  \/ Sweep(k)
  \/ ChannelClosed(k)

Next ==
  \/ \E q \in Query : CallerStep(q)
  \/ \E k \in Conn : TaskStep(k) \/ ReadResponse(k) \/ ReadError(k) \/ TaskDies(k)
  \/ OtherUpstreamDraws

Spec == Init /\ [][Next]_vars

\* The connection task runs; connecting ends by the timeouts of TCP and of the
\* handshake.  Nothing bounds a write: that it ends is assumed, because the
\* server takes what it is sent or the connection breaks.  Nothing is assumed of
\* its answers, nor of the callers' timeouts.
Fairness ==
  /\ \A k \in Conn :
       /\ WF_vars(Connect(k) \/ ConnectFails(k)) /\ WF_vars(Retry(k))
       /\ WF_vars(WriteOk(k) \/ WriteFails(k))
       /\ WF_vars(ReaderDone(k)) /\ WF_vars(Reconnect(k)) /\ WF_vars(Sweep(k))
  /\ \A q \in Query : WF_vars(SendClosed(q))

FairSpec == Spec /\ Fairness

-----------------------------------------------------------------------------
(* Properties.                                                             *)

\* A caller gets the answer to its own query.  An answer that comes late can
\* only reach another caller once the counter has gone through all ids in
\* between, reconnects, sweeps and other upstreams notwithstanding.
AnswersOwnQuery ==
  \A q \in Query :
    caller[q].pc = "done" /\ caller[q].result = "answer" =>
      caller[q].from.query = q \/ caller[q].seq - caller[q].from.seq >= IdSpace

\* A caller that waits is in the channel of its task or has an entry in the
\* map of a connection whose reader or task will still see to it.
WaiterNotForgotten ==
  \A q \in Query : Waiting(q) =>
    LET k == caller[q].conn IN
      \/ task[k] \in Alive /\ q \in Range(queue[k])
      \/ q \in Owners(k) /\ (task[k] \in Alive \/ reader[k] = "reading")

\* "In-flight queries at disconnect fail fast": a query pending when the
\* connection has ended is answered without waiting for the caller's timeout,
\* also the one registered after the reader failed all the others.
DisconnectFailsFast ==
  \A k \in Conn, q \in Query :
    (Waiting(q) /\ q \in Owners(k) /\ reader[k] # "reading") ~> ~Waiting(q)

\* "Entries can't leak under low traffic": an entry whose caller has given up
\* leaves the map of a running task although no answer and no query comes.
AbandonedSwept ==
  \A k \in Conn, i \in Ids :
    (task[k] \in Alive /\ i \in DOMAIN pending[k] /\ Abandoned(k, i)) ~>
      (task[k] \notin Alive \/ i \notin DOMAIN pending[k] \/ ~Abandoned(k, i))

\* A caller that meets a dead task takes its sender out of the map, "instead
\* of returning QueueFull forever".
DeadSenderReplaced ==
  \A k \in Conn :
    (upstream = k /\ task[k] = "dead" /\ \E q \in Query : Sending(q, k)) ~> upstream # k
=============================================================================
