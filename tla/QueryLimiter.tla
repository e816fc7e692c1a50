---------------------------- MODULE QueryLimiter ----------------------------
(***************************************************************************)
(* Admission of queries by the DNS listener (nimbus-core/src/dns/          *)
(* listener.rs): the UDP and the TCP accept loops, QueryLimiter, the       *)
(* QueryPermit each spawned task holds, and the life of a task up to the   *)
(* release of its permit.                                                  *)
(*                                                                         *)
(* A permit is two counts, and both its acquisition and its release take   *)
(* them in two separate steps: the per-client entry of a concurrent map,   *)
(* and one permit of a semaphore.  Everything interesting happens between  *)
(* the two.                                                                *)
(***************************************************************************)
EXTENDS Naturals, FiniteSets

CONSTANTS
  Client,         \* client IP addresses
  Task,           \* identities for spawned tasks
  MaxConcurrent,  \* dns.max_concurrent_queries
  PerClient,      \* dns.max_concurrent_per_client
  MaxQueries      \* MAX_QUERIES_PER_TCP_CONN

Max1(n) == IF n = 0 THEN 1 ELSE n

\* QueryLimiter::new: a zero limit counts as one.
Permits   == Max1(MaxConcurrent)
ClientCap == Max1(PerClient)

\* A task exists per permit taken, so Permits identities are never too few.
ASSUME LimitsAssumption ==
  /\ MaxConcurrent \in Nat /\ PerClient \in Nat
  /\ MaxQueries \in Nat \ {0}
  /\ IsFiniteSet(Task) /\ Cardinality(Task) >= Permits

Listener == {"udp", "tcp"}

VARIABLES
  inFlight,  \* in_flight: the map's entries, client -> count
  free,      \* sem: permits available
  listener,  \* what each accept loop is doing
  task       \* the spawned tasks and the permit each one holds

vars == <<inFlight, free, listener, task>>

Recv    == [pc |-> "recv"]
Backoff == [pc |-> "backoff"]   \* sleeping SOCKET_ERROR_BACKOFF
Stopped == [pc |-> "stopped"]
Reserved(c) == [pc |-> "reserved", client |-> c]   \* counted, no permit yet

NoTask == [state |-> "none"]
TaskRecord ==
  [state : {"serving", "writing", "dropping"},
   kind : Listener, client : Client, served : 0..MaxQueries]

EntryMap == UNION {[S -> 1..ClientCap] : S \in SUBSET Client}

TypeOK ==
  /\ inFlight \in EntryMap
  /\ free \in 0..Permits
  /\ listener \in [Listener -> {Recv, Backoff, Stopped} \cup {Reserved(c) : c \in Client}]
  /\ task \in [Task -> {NoTask} \cup TaskRecord]

Init ==
  /\ inFlight = [c \in {} |-> 0]
  /\ free = Permits
  /\ listener = [l \in Listener |-> Recv]
  /\ task = [t \in Task |-> NoTask]

-----------------------------------------------------------------------------
(* The map: entry().or_insert(0) and remove_if_mut.                        *)

InFlight(c) == IF c \in DOMAIN inFlight THEN inFlight[c] ELSE 0

SetEntry(c, n) ==
  inFlight' = [x \in DOMAIN inFlight \cup {c} |-> IF x = c THEN n ELSE inFlight[x]]

RemoveEntry(c) == inFlight' = [x \in DOMAIN inFlight \ {c} |-> inFlight[x]]

Decrement_KeepsZero(c) ==
  IF c \in DOMAIN inFlight THEN SetEntry(c, inFlight[c] - 1) ELSE UNCHANGED inFlight

\* An entry that reaches zero leaves the map; an absent one stays absent.
Decrement(c) ==
  IF c \notin DOMAIN inFlight THEN UNCHANGED inFlight
  ELSE IF inFlight[c] = 1 THEN RemoveEntry(c)
  ELSE SetEntry(c, inFlight[c] - 1)

-----------------------------------------------------------------------------
(* try_acquire, called by one accept loop for a packet or a connection     *)
(* of client c.                                                            *)

EnterClient_OffByOne(l, c) ==
  /\ listener[l] = Recv
  /\ InFlight(c) <= ClientCap
  /\ SetEntry(c, InFlight(c) + 1)
  /\ listener' = [listener EXCEPT ![l] = Reserved(c)]
  /\ UNCHANGED <<free, task>>

\* The entry's shard lock makes test and increment one step.
EnterClient(l, c) ==
  /\ listener[l] = Recv
  /\ InFlight(c) < ClientCap
  /\ SetEntry(c, InFlight(c) + 1)
  /\ listener' = [listener EXCEPT ![l] = Reserved(c)]
  /\ UNCHANGED <<free, task>>

\* The client is at its cap: the packet is dropped. or_insert leaves an entry.
RefuseClient(l, c) ==
  /\ listener[l] = Recv
  /\ InFlight(c) >= ClientCap
  /\ SetEntry(c, InFlight(c))
  /\ UNCHANGED <<free, listener, task>>

\* The semaphore has a permit: the task that serves the request is spawned.
TakeGlobal(l) ==
  /\ listener[l].pc = "reserved" /\ free > 0
  /\ free' = free - 1
  /\ \E t \in Task :
       /\ task[t] = NoTask
       /\ task' = [task EXCEPT ![t] = [state |-> "serving", kind |-> l,
                                       client |-> listener[l].client, served |-> 0]]
  /\ listener' = [listener EXCEPT ![l] = Recv]
  /\ UNCHANGED inFlight

Abandon_LeaksCount(l) ==
  /\ listener[l].pc = "reserved" /\ free = 0
  /\ listener' = [listener EXCEPT ![l] = Recv]
  /\ UNCHANGED <<inFlight, free, task>>

\* The semaphore is exhausted: the reservation is undone.
Abandon(l) ==
  /\ listener[l].pc = "reserved" /\ free = 0
  /\ Decrement(listener[l].client)
  /\ listener' = [listener EXCEPT ![l] = Recv]
  /\ UNCHANGED <<free, task>>

\* recv_from or accept fails: pause, then try again.
SocketError(l) ==
  /\ listener[l] = Recv
  /\ listener' = [listener EXCEPT ![l] = Backoff]
  /\ UNCHANGED <<inFlight, free, task>>

Resume(l) ==
  /\ listener[l] = Backoff
  /\ listener' = [listener EXCEPT ![l] = Recv]
  /\ UNCHANGED <<inFlight, free, task>>

\* shutdown_rx: the loop ends; the tasks it spawned run on.
StopListener(l) ==
  /\ listener[l] = Recv
  /\ listener' = [listener EXCEPT ![l] = Stopped]
  /\ UNCHANGED <<inFlight, free, task>>

-----------------------------------------------------------------------------
(* The tasks.                                                              *)

Serving(t) == task[t].state = "serving"

\* QueryPermit::drop: the client's count first, the semaphore permit after it.
DropPermit(t) ==
  /\ Decrement(task[t].client)
  /\ task' = [task EXCEPT ![t].state = "dropping"]
  /\ UNCHANGED <<free, listener>>

\* process_udp_query returns, whatever it did with the datagram.
FinishUdp(t) == Serving(t) /\ task[t].kind = "udp" /\ DropPermit(t)

\* serve_tcp_connection reads a query and routes it; the answer is to be written.
ReadQuery(t) ==
  /\ Serving(t) /\ task[t].kind = "tcp" /\ task[t].served < MaxQueries
  /\ task' = [task EXCEPT ![t].state = "writing"]
  /\ UNCHANGED <<inFlight, free, listener>>

\* A message with QR=1 is not answered, but it uses up a round of the loop.
IgnoreResponse(t) ==
  /\ Serving(t) /\ task[t].kind = "tcp" /\ task[t].served < MaxQueries
  /\ task' = [task EXCEPT ![t].served = @ + 1]
  /\ UNCHANGED <<inFlight, free, listener>>

WriteAnswer_NotCounted(t) ==
  /\ task[t].state = "writing"
  /\ task' = [task EXCEPT ![t].state = "serving"]
  /\ UNCHANGED <<inFlight, free, listener>>

\* write_all completes; the peer must take the bytes for that.
WriteAnswer(t) ==
  /\ task[t].state = "writing"
  /\ task' = [task EXCEPT ![t].state = "serving", ![t].served = @ + 1]
  /\ UNCHANGED <<inFlight, free, listener>>

WriteFails(t) == task[t].state = "writing" /\ DropPermit(t)

\* Idle for IDLE_TIMEOUT, closed, a bad length, an undecodable message, or
\* the last of the queries allowed on a connection.
CloseTcp(t) == Serving(t) /\ task[t].kind = "tcp" /\ DropPermit(t)

ReleaseGlobal_Forgotten(t) ==
  /\ task[t].state = "dropping"
  /\ task' = [task EXCEPT ![t] = NoTask]
  /\ UNCHANGED <<inFlight, free, listener>>

\* The fields of QueryPermit are dropped after its Drop::drop has run.
ReleaseGlobal(t) ==
  /\ task[t].state = "dropping"
  /\ free' = free + 1
  /\ task' = [task EXCEPT ![t] = NoTask]
  /\ UNCHANGED <<inFlight, listener>>

-----------------------------------------------------------------------------
ListenerStep(l) ==
  \/ \E c \in Client : EnterClient(l, c) \/ RefuseClient(l, c)
  \/ TakeGlobal(l)
  \/ Abandon(l)
  \/ SocketError(l)
  \/ Resume(l)
  \/ StopListener(l)

TaskStep(t) ==
  \/ FinishUdp(t)
  \/ ReadQuery(t)
  \/ IgnoreResponse(t)
  \/ WriteAnswer(t)
  \/ WriteFails(t)
  \/ CloseTcp(t)
  \/ ReleaseGlobal(t)

Next ==
  \/ \E l \in Listener : ListenerStep(l)
  \/ \E t \in Task : TaskStep(t)

Spec == Init /\ [][Next]_vars

\* What the runtime and the timers guarantee: a loop that has reserved goes
\* on; a task gets to run, and its reads and its routing end in bounded time.
\* Nothing in the code bounds a write.
ServerFairness ==
  /\ \A l \in Listener : WF_vars(TakeGlobal(l) \/ Abandon(l))
  /\ \A t \in Task :
       /\ WF_vars(FinishUdp(t))
       /\ WF_vars(ReadQuery(t) \/ IgnoreResponse(t) \/ CloseTcp(t))
       /\ WF_vars(ReleaseGlobal(t))

\* A peer that reads its answers, or whose connection breaks.
PeerFairness == \A t \in Task : WF_vars(WriteAnswer(t) \/ WriteFails(t))

FairSpec == Spec /\ ServerFairness /\ PeerFairness

-----------------------------------------------------------------------------
(* Properties.                                                             *)

Live(t)    == task[t].state \in {"serving", "writing"}
Holders(c) == {t \in Task : Live(t) /\ task[t].client = c}
Reservers(c) == {l \in Listener : listener[l] = Reserved(c)}
Occupied   == {t \in Task : task[t] # NoTask}

\* No slot of the server is lost or invented: the free permits and the tasks
\* that have one, those half way through the release included, are all of them.
PermitAccounting == free + Cardinality(Occupied) = Permits

\* A client's count is exactly its tasks at work plus the accept loops between
\* the two halves of try_acquire for it, whatever the interleaving of the two
\* loops and of the drops.
ClientAccounting ==
  \A c \in Client : InFlight(c) = Cardinality(Holders(c)) + Cardinality(Reservers(c))

\* The per-client cap of QueryLimiter bounds the tasks at work for one client,
\* although test, increment and the two decrements belong to different actors.
ClientCapRespected == \A c \in Client : Cardinality(Holders(c)) <= ClientCap

\* "the map only holds clients with queries in flight": an entry is there
\* exactly while some task or accept loop accounts for it, so the map cannot
\* grow with the number of clients ever seen.
OnlyActiveClients ==
  \A c \in Client : c \in DOMAIN inFlight <=> Holders(c) \cup Reservers(c) # {}

\* MAX_QUERIES_PER_TCP_CONN "bounds how long one client keeps a connection
\* slot": every task that took a permit ends and gives it back, a TCP connection
\* after MaxQueries messages of any sort.  It needs peers that read (FairSpec).
SlotsComeBack == \A t \in Task : (task[t] # NoTask) ~> (task[t] = NoTask)
=============================================================================
