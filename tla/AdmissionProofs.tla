--------------------------- MODULE AdmissionProofs ---------------------------
(***************************************************************************)
(* Proofs about what a query must pass before it is looked up or forwarded *)
(* (the limits of QueryLimiter and the lists of BlockingLists), for every  *)
(* set of clients, names, texts and requests and every limit.  Neither     *)
(* part uses a definition of the other.                                    *)
(*                                                                         *)
(* QueryLimiter: the inductive invariant is the type invariant with the    *)
(* two accountings: the semaphore's permits are the tasks that have one,   *)
(* and a client's count is its tasks at work plus the accept loops half    *)
(* way through try_acquire for it.  Without the second, a decrement could  *)
(* meet an absent entry and nothing would bound the tasks of a client.     *)
(***************************************************************************)
EXTENDS QueryLimiter, BlockingLists, FiniteSetTheorems, TLAPS

\* A connection whose answer is being written has not had its last message.
WritingBelowLimit == \A t \in Task : task[t].state = "writing" => task[t].served < MaxQueries

IInv == TypeOK /\ PermitAccounting /\ ClientAccounting /\ WritingBelowLimit

\* A zero limit counts as one.
LEMMA LimitsAreNat == Permits \in Nat \ {0} /\ ClientCap \in Nat \ {0}
BY LimitsAssumption DEF Permits, ClientCap, Max1

\* What the map's operations do to the counts.
LEMMA SetEntryCounts ==
  ASSUME NEW c \in Client, NEW n \in 1..ClientCap,
         inFlight \in EntryMap, SetEntry(c, n)
  PROVE  /\ inFlight' \in EntryMap
         /\ InFlight(c)' = n
         /\ \A d \in Client \ {c} : InFlight(d)' = InFlight(d)
<1>1. PICK S \in SUBSET Client : inFlight \in [S -> 1..ClientCap]
  BY DEF EntryMap
<1>2. inFlight' \in [S \cup {c} -> 1..ClientCap]
  BY <1>1 DEF SetEntry
<1>3. QED
  BY <1>1, <1>2 DEF SetEntry, EntryMap, InFlight

\* Removing an entry makes its count zero.
LEMMA RemoveEntryCounts ==
  ASSUME NEW c \in Client, inFlight \in EntryMap, RemoveEntry(c)
  PROVE  /\ inFlight' \in EntryMap
         /\ InFlight(c)' = 0
         /\ \A d \in Client \ {c} : InFlight(d)' = InFlight(d)
<1>1. PICK S \in SUBSET Client : inFlight \in [S -> 1..ClientCap]
  BY DEF EntryMap
<1>2. inFlight' \in [S \ {c} -> 1..ClientCap]
  BY <1>1 DEF RemoveEntry
<1>3. QED
  BY <1>1, <1>2 DEF RemoveEntry, EntryMap, InFlight

\* An entry is never zero and never over the cap.
LEMMA EntryBounds ==
  ASSUME NEW c \in Client, inFlight \in EntryMap
  PROVE  /\ InFlight(c) \in 0..ClientCap
         /\ c \in DOMAIN inFlight <=> InFlight(c) # 0
<1>1. PICK S \in SUBSET Client : inFlight \in [S -> 1..ClientCap]
  BY DEF EntryMap
<1>2. QED
  BY <1>1, LimitsAreNat DEF InFlight

\* Decrement lowers a positive count by one.
LEMMA DecrementCounts ==
  ASSUME NEW c \in Client, inFlight \in EntryMap, InFlight(c) >= 1, Decrement(c)
  PROVE  /\ inFlight' \in EntryMap
         /\ InFlight(c)' = InFlight(c) - 1
         /\ \A d \in Client \ {c} : InFlight(d)' = InFlight(d)
<1>1. c \in DOMAIN inFlight /\ inFlight[c] = InFlight(c) /\ InFlight(c) \in 1..ClientCap
  BY EntryBounds, LimitsAreNat DEF InFlight
<1>2. CASE inFlight[c] = 1
  BY <1>1, <1>2, RemoveEntryCounts DEF Decrement
<1>3. CASE inFlight[c] # 1
  <2>1. inFlight[c] - 1 \in 1..ClientCap
    BY <1>1, <1>3, LimitsAreNat
  <2>2. SetEntry(c, inFlight[c] - 1)
    BY <1>1, <1>3 DEF Decrement
  <2>3. QED BY <1>1, <2>1, <2>2, SetEntryCounts
<1>4. QED BY <1>2, <1>3

\* The sets that are counted are finite.
LEMMA CountedSetsFinite ==
  ASSUME NEW c \in Client
  PROVE  /\ IsFiniteSet(Holders(c)) /\ Cardinality(Holders(c)) \in Nat
         /\ IsFiniteSet(Reservers(c)) /\ Cardinality(Reservers(c)) \in Nat
<1>1. IsFiniteSet(Listener)
  <2>1. IsFiniteSet({"udp"}) BY FS_Singleton
  <2>2. Listener = {"udp"} \cup {"tcp"} BY DEF Listener
  <2>3. QED BY <2>1, <2>2, FS_AddElement
<1>2. Holders(c) \in SUBSET Task /\ Reservers(c) \in SUBSET Listener
  BY DEF Holders, Reservers
<1>3. IsFiniteSet(Holders(c)) /\ IsFiniteSet(Reservers(c))
  BY <1>1, <1>2, FS_Subset, LimitsAssumption
<1>4. QED BY <1>3, FS_CardinalityType

\* So is the set of tasks that have a permit.
LEMMA OccupiedFinite == IsFiniteSet(Occupied) /\ Cardinality(Occupied) \in Nat
<1>1. Occupied \in SUBSET Task BY DEF Occupied
<1>2. IsFiniteSet(Occupied) BY <1>1, FS_Subset, LimitsAssumption
<1>3. QED BY <1>2, FS_CardinalityType

-----------------------------------------------------------------------------
(* Steps that leave both counts alone.                                     *)

\* A step that changes nothing the invariant reads.
LEMMA QuietStep ==
  ASSUME IInv, UNCHANGED <<inFlight, free>>, TypeOK', WritingBelowLimit',
         Occupied' = Occupied,
         \A c \in Client : Holders(c)' = Holders(c) /\ Reservers(c)' = Reservers(c)
  PROVE  IInv'
<1>1. PermitAccounting' BY DEF IInv, PermitAccounting
<1>2. \A c \in Client : InFlight(c)' = InFlight(c) BY DEF InFlight
<1>3. ClientAccounting' BY <1>2 DEF IInv, ClientAccounting
<1>4. QED BY <1>1, <1>3 DEF IInv

\* An accept loop moves between states that have no client.
LEMMA ListenerMoves ==
  ASSUME IInv, NEW l \in Listener,
         SocketError(l) \/ Resume(l) \/ StopListener(l)
  PROVE  IInv'
<1>1. UNCHANGED <<inFlight, free, task>>
  BY DEF SocketError, Resume, StopListener
<1>2. TypeOK'
  BY <1>1 DEF IInv, TypeOK, SocketError, Resume, StopListener
<1>3. \A c \in Client : Reservers(c)' = Reservers(c)
  BY DEF IInv, TypeOK, SocketError, Resume, StopListener, Reservers, Reserved,
         Recv, Backoff, Stopped
<1>4. Occupied' = Occupied /\ WritingBelowLimit' /\ \A c \in Client : Holders(c)' = Holders(c)
  BY <1>1 DEF IInv, Occupied, WritingBelowLimit, Holders, Live
<1>5. QED BY <1>1, <1>2, <1>3, <1>4, QuietStep

\* A task at work stays at work, for the same client.
LEMMA TaskMoves ==
  ASSUME IInv, NEW t \in Task,
         ReadQuery(t) \/ IgnoreResponse(t) \/ WriteAnswer(t)
  PROVE  IInv'
<1>1. UNCHANGED <<inFlight, free, listener>>
  BY DEF ReadQuery, IgnoreResponse, WriteAnswer
<1>2. task[t] \in TaskRecord /\ Live(t) /\ task[t].served < MaxQueries
  BY DEF IInv, TypeOK, WritingBelowLimit, ReadQuery, IgnoreResponse, WriteAnswer,
         Serving, Live, NoTask
<1>3. PICK s \in {"serving", "writing"}, n \in 0..MaxQueries :
        /\ task' = [task EXCEPT ![t].state = s, ![t].served = n]
        /\ s = "writing" => n < MaxQueries
  <2>1. CASE ReadQuery(t)
    <3>1. task' = [task EXCEPT ![t].state = "writing", ![t].served = task[t].served]
      BY <1>2, <2>1 DEF ReadQuery, IInv, TypeOK, TaskRecord
    <3>2. QED BY <3>1, <1>2 DEF TaskRecord
  <2>2. CASE IgnoreResponse(t)
    <3>1. task' = [task EXCEPT ![t].state = "serving", ![t].served = task[t].served + 1]
      BY <1>2, <2>2 DEF IgnoreResponse, Serving, IInv, TypeOK, TaskRecord
    <3>2. task[t].served + 1 \in 0..MaxQueries
      BY <1>2, LimitsAssumption DEF TaskRecord
    <3>3. QED BY <3>1, <3>2
  <2>3. CASE WriteAnswer(t)
    <3>1. task' = [task EXCEPT ![t].state = "serving", ![t].served = task[t].served + 1]
      BY <2>3 DEF WriteAnswer
    <3>2. task[t].served + 1 \in 0..MaxQueries
      BY <1>2, LimitsAssumption DEF TaskRecord
    <3>3. QED BY <3>1, <3>2
  <2>4. QED BY <2>1, <2>2, <2>3
<1>4. task'[t] \in TaskRecord /\ task'[t].client = task[t].client
      /\ task'[t].state = s /\ task'[t].served = n
  BY <1>2, <1>3 DEF IInv, TypeOK, TaskRecord
<1>5. \A u \in Task \ {t} : task'[u] = task[u]
  BY <1>3 DEF IInv, TypeOK
<1>6. TypeOK'
  BY <1>1, <1>3, <1>4 DEF IInv, TypeOK
<1>7. WritingBelowLimit'
  BY <1>3, <1>4, <1>5 DEF IInv, WritingBelowLimit
<1>8. \A c \in Client : Holders(c)' = Holders(c) /\ Reservers(c)' = Reservers(c)
  BY <1>1, <1>2, <1>4, <1>5 DEF Holders, Live, Reservers
<1>9. Occupied' = Occupied
  <2>1. task[t] # NoTask /\ task'[t] # NoTask BY <1>2, <1>4 DEF Live, NoTask
  <2>2. QED BY <2>1, <1>5 DEF Occupied
<1>10. QED BY <1>1, <1>6, <1>7, <1>8, <1>9, QuietStep

-----------------------------------------------------------------------------
(* Steps of try_acquire.                                                   *)

\* A reservation: one count and one reserving loop more.
LEMMA EnterClientStep ==
  ASSUME IInv, NEW l \in Listener, NEW c \in Client, EnterClient(l, c)
  PROVE  IInv'
<1>1. UNCHANGED <<free, task>> /\ listener' = [listener EXCEPT ![l] = Reserved(c)]
      /\ listener[l] = Recv
  BY DEF EnterClient
<1>2. InFlight(c) + 1 \in 1..ClientCap
  BY EntryBounds, LimitsAreNat DEF IInv, TypeOK, EnterClient
<1>3. /\ inFlight' \in EntryMap
      /\ InFlight(c)' = InFlight(c) + 1
      /\ \A d \in Client \ {c} : InFlight(d)' = InFlight(d)
  BY <1>2, SetEntryCounts DEF IInv, TypeOK, EnterClient
<1>4. TypeOK'
  BY <1>1, <1>3 DEF IInv, TypeOK
<1>5. Occupied' = Occupied /\ WritingBelowLimit' /\ \A d \in Client : Holders(d)' = Holders(d)
  BY <1>1 DEF IInv, Occupied, WritingBelowLimit, Holders, Live
<1>6. PermitAccounting' BY <1>1, <1>5 DEF IInv, PermitAccounting
<1>7. ClientAccounting'
  <2> SUFFICES ASSUME NEW d \in Client
               PROVE  InFlight(d)' = Cardinality(Holders(d)') + Cardinality(Reservers(d)')
    BY DEF ClientAccounting
  <2>1. InFlight(d) = Cardinality(Holders(d)) + Cardinality(Reservers(d))
    BY DEF IInv, ClientAccounting
  <2>2. CASE d = c
    <3>1. Reservers(c)' = Reservers(c) \cup {l} /\ l \notin Reservers(c)
      BY <1>1 DEF IInv, TypeOK, Reservers, Reserved, Recv
    <3>2. Cardinality(Reservers(c)') = Cardinality(Reservers(c)) + 1
      BY <3>1, CountedSetsFinite, FS_AddElement
    <3>3. QED BY <2>1, <2>2, <3>2, <1>3, <1>5, CountedSetsFinite
  <2>3. CASE d # c
    <3>1. Reservers(d)' = Reservers(d)
      BY <1>1, <2>3 DEF IInv, TypeOK, Reservers, Reserved, Recv
    <3>2. QED BY <2>1, <2>3, <3>1, <1>3, <1>5
  <2>4. QED BY <2>2, <2>3
<1>8. QED BY <1>4, <1>5, <1>6, <1>7 DEF IInv

\* A refusal writes the count that was there.
LEMMA RefuseClientStep ==
  ASSUME IInv, NEW l \in Listener, NEW c \in Client, RefuseClient(l, c)
  PROVE  IInv'
<1>1. UNCHANGED <<free, listener, task>> BY DEF RefuseClient
<1>2. InFlight(c) \in 1..ClientCap
  BY EntryBounds, LimitsAreNat DEF IInv, TypeOK, RefuseClient
<1>3. inFlight' \in EntryMap /\ \A d \in Client : InFlight(d)' = InFlight(d)
  BY <1>2, SetEntryCounts DEF IInv, TypeOK, RefuseClient
<1>4. TypeOK' BY <1>1, <1>3 DEF IInv, TypeOK
<1>5. /\ Occupied' = Occupied /\ WritingBelowLimit'
      /\ \A d \in Client : Holders(d)' = Holders(d) /\ Reservers(d)' = Reservers(d)
  BY <1>1 DEF IInv, Occupied, WritingBelowLimit, Holders, Live, Reservers
<1>6. PermitAccounting' BY <1>1, <1>5 DEF IInv, PermitAccounting
<1>7. ClientAccounting' BY <1>3, <1>5 DEF IInv, ClientAccounting
<1>8. QED BY <1>4, <1>5, <1>6, <1>7 DEF IInv

\* The reservation becomes a task: for the client one count replaces the other.
LEMMA TakeGlobalStep ==
  ASSUME IInv, NEW l \in Listener, TakeGlobal(l)
  PROVE  IInv'
<1>1. PICK c \in Client : listener[l] = Reserved(c) /\ listener[l].client = c
  BY DEF IInv, TypeOK, TakeGlobal, Recv, Backoff, Stopped, Reserved
<1>2. PICK t \in Task :
        /\ task[t] = NoTask
        /\ task' = [task EXCEPT ![t] = [state |-> "serving", kind |-> l,
                                        client |-> c, served |-> 0]]
  BY <1>1 DEF TakeGlobal
<1>3. /\ free' = free - 1 /\ free > 0 /\ UNCHANGED inFlight
      /\ listener' = [listener EXCEPT ![l] = Recv]
  BY DEF TakeGlobal
<1>4. task'[t] = [state |-> "serving", kind |-> l, client |-> c, served |-> 0]
      /\ task'[t] \in TaskRecord /\ \A u \in Task \ {t} : task'[u] = task[u]
  BY <1>2, LimitsAssumption DEF IInv, TypeOK, TaskRecord
<1>5. TypeOK'
  BY <1>2, <1>3, <1>4, LimitsAreNat DEF IInv, TypeOK
<1>6. WritingBelowLimit' BY <1>4 DEF IInv, WritingBelowLimit
<1>7. PermitAccounting'
  <2>1. Occupied' = Occupied \cup {t} /\ t \notin Occupied
    BY <1>2, <1>4 DEF Occupied, NoTask
  <2>2. Cardinality(Occupied') = Cardinality(Occupied) + 1
    BY <2>1, OccupiedFinite, FS_AddElement
  <2>3. QED BY <2>2, <1>3, OccupiedFinite DEF IInv, TypeOK, PermitAccounting
<1>8. ClientAccounting'
  <2> SUFFICES ASSUME NEW d \in Client
               PROVE  InFlight(d)' = Cardinality(Holders(d)') + Cardinality(Reservers(d)')
    BY DEF ClientAccounting
  <2>1. InFlight(d)' = Cardinality(Holders(d)) + Cardinality(Reservers(d))
    BY <1>3 DEF IInv, ClientAccounting, InFlight
  <2>2. CASE d = c
    <3>1. Holders(c)' = Holders(c) \cup {t} /\ t \notin Holders(c)
      BY <1>2, <1>4 DEF Holders, Live, NoTask
    <3>2. Reservers(c)' = Reservers(c) \ {l} /\ l \in Reservers(c)
      BY <1>1, <1>3 DEF IInv, TypeOK, Reservers, Reserved, Recv
    <3>3. Cardinality(Holders(c)') = Cardinality(Holders(c)) + 1
      BY <3>1, CountedSetsFinite, FS_AddElement
    <3>4. Cardinality(Reservers(c)') = Cardinality(Reservers(c)) - 1
      BY <3>2, CountedSetsFinite, FS_RemoveElement
    <3>5. QED BY <2>1, <2>2, <3>3, <3>4, CountedSetsFinite
  <2>3. CASE d # c
    <3>1. Holders(d)' = Holders(d)
      BY <1>2, <1>4, <2>3 DEF Holders, Live, NoTask
    <3>2. Reservers(d)' = Reservers(d)
      BY <1>1, <1>3, <2>3 DEF IInv, TypeOK, Reservers, Reserved, Recv
    <3>3. QED BY <2>1, <3>1, <3>2
  <2>4. QED BY <2>2, <2>3
<1>9. QED BY <1>5, <1>6, <1>7, <1>8 DEF IInv

\* The reservation undone: one count and one reserving loop less.
LEMMA AbandonStep ==
  ASSUME IInv, NEW l \in Listener, Abandon(l)
  PROVE  IInv'
<1>1. PICK c \in Client : listener[l] = Reserved(c)
  BY DEF IInv, TypeOK, Abandon, Recv, Backoff, Stopped
<1>2. UNCHANGED <<free, task>> /\ listener' = [listener EXCEPT ![l] = Recv] /\ Decrement(c)
  BY <1>1 DEF Abandon, Reserved
<1>3. Reservers(c)' = Reservers(c) \ {l} /\ l \in Reservers(c)
  BY <1>1, <1>2 DEF IInv, TypeOK, Reservers, Reserved, Recv
<1>4. Cardinality(Reservers(c)') = Cardinality(Reservers(c)) - 1
  BY <1>3, CountedSetsFinite, FS_RemoveElement
<1>5. InFlight(c) >= 1
  <2>1. Cardinality(Reservers(c)) # 0 BY <1>3, CountedSetsFinite, FS_EmptySet
  <2>2. InFlight(c) = Cardinality(Holders(c)) + Cardinality(Reservers(c))
    BY DEF IInv, ClientAccounting
  <2>3. QED BY <2>1, <2>2, CountedSetsFinite
<1>6. /\ inFlight' \in EntryMap
      /\ InFlight(c)' = InFlight(c) - 1
      /\ \A d \in Client \ {c} : InFlight(d)' = InFlight(d)
  BY <1>2, <1>5, DecrementCounts DEF IInv, TypeOK
<1>7. TypeOK' BY <1>2, <1>6 DEF IInv, TypeOK
<1>8. Occupied' = Occupied /\ WritingBelowLimit' /\ \A d \in Client : Holders(d)' = Holders(d)
  BY <1>2 DEF IInv, Occupied, WritingBelowLimit, Holders, Live
<1>9. PermitAccounting' BY <1>2, <1>8 DEF IInv, PermitAccounting
<1>10. ClientAccounting'
  <2> SUFFICES ASSUME NEW d \in Client
               PROVE  InFlight(d)' = Cardinality(Holders(d)') + Cardinality(Reservers(d)')
    BY DEF ClientAccounting
  <2>1. InFlight(d) = Cardinality(Holders(d)) + Cardinality(Reservers(d))
    BY DEF IInv, ClientAccounting
  <2>2. CASE d = c
    BY <2>1, <2>2, <1>4, <1>6, <1>8, CountedSetsFinite
  <2>3. CASE d # c
    <3>1. Reservers(d)' = Reservers(d)
      BY <1>1, <1>2, <2>3 DEF IInv, TypeOK, Reservers, Reserved, Recv
    <3>2. QED BY <2>1, <2>3, <3>1, <1>6, <1>8
  <2>4. QED BY <2>2, <2>3
<1>11. QED BY <1>7, <1>8, <1>9, <1>10 DEF IInv

-----------------------------------------------------------------------------
(* The two halves of dropping a permit.                                    *)

\* A task at work ends: one count and one holder less.
LEMMA DropPermitStep ==
  ASSUME IInv, NEW t \in Task, Live(t), DropPermit(t)
  PROVE  IInv'
<1>0. task[t] \in TaskRecord
  BY DEF IInv, TypeOK, Live, NoTask
<1>1. PICK c \in Client : c = task[t].client
  BY <1>0 DEF TaskRecord
<1>2. /\ UNCHANGED <<free, listener>> /\ Decrement(c)
      /\ task' = [task EXCEPT ![t].state = "dropping"]
  BY <1>1 DEF DropPermit
<1>3. /\ task'[t] \in TaskRecord /\ task'[t].state = "dropping"
      /\ \A u \in Task \ {t} : task'[u] = task[u]
  BY <1>0, <1>2 DEF IInv, TypeOK, TaskRecord
<1>4. Holders(c)' = Holders(c) \ {t} /\ t \in Holders(c)
  BY <1>1, <1>3 DEF Holders, Live
<1>5. Cardinality(Holders(c)') = Cardinality(Holders(c)) - 1
  BY <1>1, <1>4, CountedSetsFinite, FS_RemoveElement
<1>6. InFlight(c) >= 1
  <2>1. Cardinality(Holders(c)) # 0 BY <1>1, <1>4, CountedSetsFinite, FS_EmptySet
  <2>2. InFlight(c) = Cardinality(Holders(c)) + Cardinality(Reservers(c))
    BY <1>1 DEF IInv, ClientAccounting
  <2>3. QED BY <1>1, <2>1, <2>2, CountedSetsFinite
<1>7. /\ inFlight' \in EntryMap
      /\ InFlight(c)' = InFlight(c) - 1
      /\ \A d \in Client \ {c} : InFlight(d)' = InFlight(d)
  BY <1>1, <1>2, <1>6, DecrementCounts DEF IInv, TypeOK
<1>8. TypeOK' BY <1>2, <1>3, <1>7 DEF IInv, TypeOK
<1>9. WritingBelowLimit' BY <1>3 DEF IInv, WritingBelowLimit
<1>10. PermitAccounting'
  <2>1. task[t] # NoTask /\ task'[t] # NoTask BY <1>3 DEF Live, NoTask
  <2>2. Occupied' = Occupied BY <2>1, <1>3 DEF Occupied
  <2>3. QED BY <1>2, <2>2 DEF IInv, PermitAccounting
<1>11. ClientAccounting'
  <2> SUFFICES ASSUME NEW d \in Client
               PROVE  InFlight(d)' = Cardinality(Holders(d)') + Cardinality(Reservers(d)')
    BY DEF ClientAccounting
  <2>1. InFlight(d) = Cardinality(Holders(d)) + Cardinality(Reservers(d))
    BY DEF IInv, ClientAccounting
  <2>2. Reservers(d)' = Reservers(d) BY <1>2 DEF Reservers
  <2>3. CASE d = c
    BY <1>5, <1>7, <2>1, <2>2, <2>3, CountedSetsFinite
  <2>4. CASE d # c
    <3>1. Holders(d)' = Holders(d) BY <1>1, <1>3, <2>4 DEF Holders, Live
    <3>2. QED BY <1>7, <2>1, <2>2, <2>4, <3>1
  <2>5. QED BY <2>3, <2>4
<1>12. QED BY <1>8, <1>9, <1>10, <1>11 DEF IInv

\* The permit returns as its task disappears.
LEMMA ReleaseGlobalStep ==
  ASSUME IInv, NEW t \in Task, ReleaseGlobal(t)
  PROVE  IInv'
<1>1. /\ free' = free + 1 /\ UNCHANGED <<inFlight, listener>>
      /\ task' = [task EXCEPT ![t] = NoTask] /\ task[t].state = "dropping"
  BY DEF ReleaseGlobal
<1>2. task'[t] = NoTask /\ task[t] # NoTask /\ \A u \in Task \ {t} : task'[u] = task[u]
  BY <1>1 DEF IInv, TypeOK, NoTask
<1>3. PermitAccounting'
  <2>1. Occupied' = Occupied \ {t} /\ t \in Occupied BY <1>2 DEF Occupied
  <2>2. Cardinality(Occupied') = Cardinality(Occupied) - 1
    BY <2>1, OccupiedFinite, FS_RemoveElement
  <2>3. QED BY <2>2, <1>1, OccupiedFinite DEF IInv, TypeOK, PermitAccounting
<1>4. free' \in 0..Permits
  <2>1. IsFiniteSet(Occupied') /\ Cardinality(Occupied') \in Nat
    <3>1. Occupied' \in SUBSET Task BY DEF Occupied
    <3>2. IsFiniteSet(Occupied') BY <3>1, FS_Subset, LimitsAssumption
    <3>3. QED BY <3>2, FS_CardinalityType
  <2>2. QED BY <2>1, <1>1, <1>3, LimitsAreNat DEF IInv, TypeOK, PermitAccounting
<1>5. TypeOK' BY <1>1, <1>4 DEF IInv, TypeOK
<1>6. WritingBelowLimit' BY <1>2 DEF IInv, WritingBelowLimit, NoTask
<1>7. \A c \in Client : Holders(c)' = Holders(c) /\ Reservers(c)' = Reservers(c)
                        /\ InFlight(c)' = InFlight(c)
  BY <1>1, <1>2 DEF Holders, Live, Reservers, InFlight, NoTask
<1>8. ClientAccounting' BY <1>7 DEF IInv, ClientAccounting
<1>9. QED BY <1>3, <1>5, <1>6, <1>8 DEF IInv

-----------------------------------------------------------------------------
\* The two facts that make IInv an invariant.
LEMMA InitIInv == Init => IInv
<1> SUFFICES ASSUME Init PROVE IInv OBVIOUS
<1>1. TypeOK
  <2>1. inFlight \in [{} -> 1..ClientCap] BY DEF Init
  <2>2. inFlight \in EntryMap BY <2>1 DEF EntryMap
  <2>3. QED BY <2>2, LimitsAreNat DEF Init, TypeOK
<1>2. Occupied = {} BY DEF Init, Occupied
<1>3. PermitAccounting BY <1>2, FS_EmptySet, LimitsAreNat DEF Init, PermitAccounting
<1>4. \A c \in Client : Holders(c) = {} /\ Reservers(c) = {} /\ InFlight(c) = 0
  BY DEF Init, Holders, Live, NoTask, Reservers, Reserved, Recv, InFlight
<1>5. ClientAccounting BY <1>4, FS_EmptySet DEF ClientAccounting
<1>6. WritingBelowLimit BY DEF Init, WritingBelowLimit, NoTask
<1>7. QED BY <1>1, <1>3, <1>5, <1>6 DEF IInv

\* One step of the listener or of a task.
LEMMA NextIInv == IInv /\ [Next]_vars => IInv'
<1> SUFFICES ASSUME IInv, [Next]_vars PROVE IInv' OBVIOUS
<1>1. ASSUME NEW l \in Listener, ListenerStep(l) PROVE IInv'
  BY <1>1, EnterClientStep, RefuseClientStep, TakeGlobalStep, AbandonStep, ListenerMoves
     DEF ListenerStep
<1>2. ASSUME NEW t \in Task, TaskStep(t) PROVE IInv'
  <2>1. CASE FinishUdp(t) \/ WriteFails(t) \/ CloseTcp(t)
    BY <2>1, DropPermitStep DEF FinishUdp, WriteFails, CloseTcp, Serving, Live
  <2>2. QED BY <1>2, <2>1, TaskMoves, ReleaseGlobalStep DEF TaskStep
<1>3. CASE UNCHANGED vars
  <2>1. TypeOK' /\ WritingBelowLimit' BY <1>3 DEF vars, IInv, TypeOK, WritingBelowLimit
  <2>2. /\ Occupied' = Occupied /\ UNCHANGED <<inFlight, free>>
        /\ \A c \in Client : Holders(c)' = Holders(c) /\ Reservers(c)' = Reservers(c)
    BY <1>3 DEF vars, Occupied, Holders, Live, Reservers
  <2>3. QED BY <2>1, <2>2, QuietStep
<1>4. QED BY <1>1, <1>2, <1>3 DEF Next

\* The strengthening holds in every state: types, the accounting of the permits and
\* that of the clients, from which the other theorems follow.
THEOREM Inductive == Spec => []IInv
<1>1. Init => IInv BY InitIInv
<1>2. IInv /\ [Next]_vars => IInv' BY NextIInv
<1>3. QED BY <1>1, <1>2, PTL DEF Spec

-----------------------------------------------------------------------------
\* Type correctness: in particular no entry of the map is ever zero or above
\* the cap, and the semaphore never has more permits than it was created with.
THEOREM TypeCorrect == Spec => []TypeOK
<1>1. IInv => TypeOK BY DEF IInv
<1>2. QED BY <1>1, Inductive, PTL

\* For any limit and any number of tasks, no permit of the semaphore is lost
\* or released twice by try_acquire, the spawned tasks and QueryPermit::drop.
THEOREM PermitsAccounted == Spec => []PermitAccounting
<1>1. IInv => PermitAccounting BY DEF IInv
<1>2. QED BY <1>1, Inductive, PTL

\* For any set of clients, a client's in_flight count is what it stands for.
THEOREM ClientsAccounted == Spec => []ClientAccounting
<1>1. IInv => ClientAccounting BY DEF IInv
<1>2. QED BY <1>1, Inductive, PTL

\* The cap holds whatever the interleaving of the two accept loops with the
\* drops of permits.
THEOREM CapRespected == Spec => []ClientCapRespected
<1>1. IInv => ClientCapRespected
  <2> SUFFICES ASSUME IInv, NEW c \in Client PROVE Cardinality(Holders(c)) <= ClientCap
    BY DEF ClientCapRespected
  <2>1. InFlight(c) = Cardinality(Holders(c)) + Cardinality(Reservers(c))
    BY DEF IInv, ClientAccounting
  <2>2. InFlight(c) \in 0..ClientCap BY EntryBounds DEF IInv, TypeOK
  <2>3. QED BY <2>1, <2>2, CountedSetsFinite, LimitsAreNat
<1>2. QED BY <1>1, Inductive, PTL

\* The map holds the clients with queries in flight and no others, so it does
\* not grow with the clients ever seen.
THEOREM MapHoldsActiveClients == Spec => []OnlyActiveClients
<1>1. IInv => OnlyActiveClients
  <2> SUFFICES ASSUME IInv, NEW c \in Client
               PROVE  c \in DOMAIN inFlight <=> Holders(c) \cup Reservers(c) # {}
    BY DEF OnlyActiveClients
  <2>1. InFlight(c) = Cardinality(Holders(c)) + Cardinality(Reservers(c))
    BY DEF IInv, ClientAccounting
  <2>2. c \in DOMAIN inFlight <=> InFlight(c) # 0 BY EntryBounds DEF IInv, TypeOK
  <2>3. /\ Cardinality(Holders(c)) = 0 <=> Holders(c) = {}
        /\ Cardinality(Reservers(c)) = 0 <=> Reservers(c) = {}
    BY CountedSetsFinite, FS_EmptySet
  <2>4. InFlight(c) # 0 <=> (Holders(c) # {} \/ Reservers(c) # {})
    BY <2>1, <2>3, CountedSetsFinite
  <2>5. QED BY <2>2, <2>4
<1>2. QED BY <1>1, Inductive, PTL

-----------------------------------------------------------------------------
(* BlockingLists.  The invariant says, text by text and not name by name,  *)
(* where the copy and each load under way agree with the rows: wherever no *)
(* doubt is recorded and no change is still to come.                       *)

LowerText == {t \in Text : t.spelled = "lower"}
Wildcard(w) == [wild |-> TRUE, spelled |-> "lower", name |-> w]

\* The part of the copy that holds a list, and what the rows say it holds.
Field(list) == IF list = "gravity" THEN "exact" ELSE list

Stored(list) ==
  IF list = "gravity" THEN {Lower(t) : t \in {u \in gravity : ~u.wild}}
  ELSE {Lower(row.text) : row \in {s \in rows : s.kind = list}}

WildRows   == {t \in gravity : t.wild}
StoredWild == {t.name : t \in WildRows}

\* The changes of a text, or of a wildcard, that are written and not applied.
ChangesOf(list, x) ==
  {r \in Request : Pending(r) /\ request[r].list = list /\ Lower(request[r].text) = x}
WildChanges(w) ==
  {r \in Request : /\ Pending(r) /\ request[r].list = "gravity"
                   /\ request[r].text.wild /\ request[r].text.name = w}

\* What a load counts: wildcards by their rows, everything else by the copy.
Total(l) ==
  Cardinality(l.exact) + Cardinality(l.deny) + Cardinality(WildRows) + Cardinality(DenyRegex)

Neat(l) ==
  /\ \A field \in {"allow", "deny", "exact"} : l[field] \subseteq LowerText /\ IsFiniteSet(l[field])
  /\ IsFiniteSet(l.wild)

RowsFinite == IsFiniteSet(rows) /\ IsFiniteSet(gravity)

\* A row that was found may have gone, but no other row has its id.
Numbered ==
  /\ \A s, t \in rows : s.id = t.id => s = t
  /\ \A s \in rows : s.id <= changes
  /\ \A r \in Request : request[r].pc = "remove" => \A row \in request[r].row :
       /\ row.id = request[r].id /\ row.kind = request[r].list /\ row.id <= changes
       /\ \A s \in rows : s.id = row.id => s = row

\* A change still to come brings what the rows say.
ChangeRight(r) == Pending(r) =>
  /\ request[r].text.name \notin doubt =>
       /\ request[r].add <=> Lower(request[r].text) \in Stored(request[r].list)
       /\ ~request[r].add => request[r].text.spelled = "lower"
  /\ request[r].list = "gravity" /\ request[r].text.wild => Touches(request[r].text) \subseteq doubt

CopyRight ==
  /\ \A list \in Listing, x \in LowerText :
       x.name \notin doubt /\ ChangesOf(list, x) = {} =>
         (x \in lists[Field(list)] <=> x \in Stored(list))
  /\ \A w \in Name :
       ~(Touches(Wildcard(w)) \subseteq doubt) => (w \in lists.wild <=> w \in StoredWild)

\* What a load has read at a stage, and that it is right unless it missed
\* something or a change knows that it was under way.
ReadBy(stage) ==
  CASE stage = "deny" -> {"allow"} [] stage = "gravity" -> Kind [] stage = "swap" -> Listing [] OTHER -> {}

LoadRight(l) ==
  /\ \A list \in ReadBy(loader[l].pc), x \in LowerText :
       x.name \notin missed[l] /\ (\A r \in ChangesOf(list, x) : l \notin request[r].during) =>
         (x \in loader[l].new[Field(list)] <=> x \in Stored(list))
  /\ loader[l].pc = "swap" => \A w \in Name :
       ~(Touches(Wildcard(w)) \subseteq missed[l]) /\ (\A r \in WildChanges(w) : l \notin request[r].during) =>
         (w \in loader[l].new.wild <=> w \in StoredWild)

Tidy ==
  /\ Neat(lists)
  /\ \A l \in Loader : loader[l].pc \in {"allow", "deny", "gravity", "swap"} => Neat(loader[l].new)

\* The same of the total.
TotalRight ==
  /\ doubt = {} => lists.total = Total(lists)
  /\ \A l \in Loader :
       loader[l].pc = "swap" /\ missed[l] = {}
         /\ (\A r \in Request : Pending(r) /\ request[r].list = "gravity" /\ request[r].text.wild =>
               l \notin request[r].during) =>
       loader[l].new.total = Total(loader[l].new)

ListsInv ==
  /\ RowsFinite /\ Numbered /\ Tidy
  /\ \A r \in Request : ChangeRight(r)
  /\ CopyRight
  /\ \A l \in Loader : LoadRight(l)
  /\ TotalRight

ListsIInv == ListsTypeOK /\ ListsInv

\* IsSuffix is what is_match asks: the name ends at a boundary in the suffix.
LEMMA Suffixed ==
  ASSUME NEW w \in Name, NEW n \in Name
  PROVE  IsSuffix(w, n) <=> \E i \in DOMAIN n : SubSeq(n, i, Len(n)) = w
<1> DEFINE S == UNION {Range(m) : m \in Name}
<1>1. w \in Seq(Range(w)) /\ n \in Seq(Range(n)) /\ w # <<>> /\ n # <<>>
  BY ListsAssumption
<1>2. Range(w) \subseteq S /\ Range(n) \subseteq S
  OBVIOUS
<1> HIDE DEF S
<1>3. w \in Seq(S) /\ n \in Seq(S) /\ Len(w) \in Nat \ {0} /\ Len(n) \in Nat \ {0}
  BY <1>1, <1>2
<1>4. ASSUME IsSuffix(w, n) PROVE \E i \in DOMAIN n : SubSeq(n, i, Len(n)) = w
  <2> DEFINE i == Len(n) - Len(w) + 1
  <2>1. /\ Len(Reverse(w)) = Len(w) /\ Len(Reverse(n)) = Len(n)
        /\ \A k \in 1..Len(w) : Reverse(w)[k] = w[Len(w) - k + 1]
        /\ \A k \in 1..Len(n) : Reverse(n)[k] = n[Len(n) - k + 1]
        /\ Reverse(w) \in Seq(S) /\ Reverse(n) \in Seq(S)
    BY <1>3 DEF Reverse
  <2>2. /\ Len(w) <= Len(n)
        /\ SubSeq(Reverse(w), 1, Len(w)) = SubSeq(Reverse(n), 1, Len(w))
    BY <1>4, <2>1 DEF IsSuffix, IsPrefix
  <2>3. i \in DOMAIN n
    BY <1>3, <2>2
  <2>4. \A k \in 1..Len(w) : Reverse(w)[k] = Reverse(n)[k]
    BY <1>3, <2>1, <2>2
  <2>5. \A k \in 1..Len(w) : w[k] = n[Len(n) - Len(w) + k]
    <3> TAKE k \in 1..Len(w)
    <3> DEFINE m == Len(w) - k + 1
    <3>1. m \in 1..Len(w) /\ m \in 1..Len(n) /\ Len(w) - m + 1 = k /\ Len(n) - m + 1 = Len(n) - Len(w) + k
      BY <1>3, <2>2
    <3> HIDE DEF m
    <3>2. Reverse(w)[m] = Reverse(n)[m]
      BY <2>4, <3>1
    <3>3. Reverse(w)[m] = w[Len(w) - m + 1] /\ Reverse(n)[m] = n[Len(n) - m + 1]
      BY <2>1, <3>1
    <3> QED  BY <3>1, <3>2, <3>3
  <2>6. SubSeq(n, i, Len(n)) = w
    BY <1>3, <2>2, <2>5
  <2> QED  BY <2>3, <2>6
<1>5. ASSUME NEW i \in DOMAIN n, SubSeq(n, i, Len(n)) = w PROVE IsSuffix(w, n)
  <2>1. i \in 1..Len(n) /\ Len(w) = Len(n) - i + 1
    BY <1>3, <1>5
  <2>2. ASSUME NEW k \in 1..Len(w) PROVE w[k] = n[i + k - 1]
    <3>1. SubSeq(n, i, Len(n))[k] = n[i + k - 1]
      BY <1>3, <2>1
    <3> QED  BY <1>5, <3>1
  <2>3. /\ Len(Reverse(w)) = Len(w) /\ Len(Reverse(n)) = Len(n)
        /\ \A k \in 1..Len(w) : Reverse(w)[k] = w[Len(w) - k + 1]
        /\ \A k \in 1..Len(n) : Reverse(n)[k] = n[Len(n) - k + 1]
        /\ Reverse(w) \in Seq(S) /\ Reverse(n) \in Seq(S)
    BY <1>3 DEF Reverse
  <2>4. ASSUME NEW k \in 1..Len(w) PROVE Reverse(w)[k] = Reverse(n)[k]
    <3> DEFINE m == Len(w) - k + 1
    <3>1. Len(w) \in Int /\ Len(n) \in Int /\ i \in Int /\ k \in Int
      BY <1>3, <2>1
    <3>2. m \in 1..Len(w) /\ k \in 1..Len(n) /\ i + m - 1 = Len(n) - k + 1
      BY <2>1, <3>1
    <3> HIDE DEF m
    <3>3. w[m] = n[i + m - 1]
      BY <2>2, <3>2
    <3> QED  BY <2>3, <3>2, <3>3 DEF m
  <2>5. SubSeq(Reverse(w), 1, Len(w)) = SubSeq(Reverse(n), 1, Len(w))
    <3> DEFINE a == Reverse(w)
               b == Reverse(n)
    <3>1. a \in Seq(S) /\ b \in Seq(S) /\ Len(w) \in Nat /\ Len(w) <= Len(a) /\ Len(w) <= Len(b)
      BY <1>3, <2>1, <2>3
    <3>2. \A k \in 1..Len(w) : a[k] = b[k]
      BY <2>4
    <3> HIDE DEF a, b
    <3>3. SubSeq(a, 1, Len(w)) = SubSeq(b, 1, Len(w))
      BY <3>1, <3>2
    <3> QED  BY <3>3 DEF a, b
  <2> QED  BY <1>3, <2>1, <2>3, <2>5 DEF IsSuffix, IsPrefix
<1> QED  BY <1>4, <1>5
-----------------------------------------------------------------------------
(* Types.                                                                  *)

Removal == [pc : {"remove"}, list : Kind, row : SUBSET RowType, id : Nat]
Loading == [pc : {"allow", "deny", "gravity", "swap"}, new : ListsType]

\* A record is told by its pc.
LEMMA RequestTypes ==
  ASSUME ListsTypeOK, NEW r \in Request
  PROVE  /\ request[r] = Free \/ request[r] \in DeltaType \/ request[r] \in Removal
            \/ request[r] \in [pc : {"refresh"}]
         /\ Pending(r) <=> request[r] \in DeltaType
         /\ request[r].pc = "remove" <=> request[r] \in Removal
         /\ request[r] = Free => request[r].pc = "free"
<1>1. request[r] \in {Free} \cup DeltaType \cup Removal \cup [pc : {"refresh"}]
  BY DEF ListsTypeOK, Removal
<1> QED  BY <1>1 DEF Free, DeltaType, Removal, Pending

LEMMA LoaderTypes ==
  ASSUME ListsTypeOK, NEW l \in Loader
  PROVE  /\ loader[l] = Resting \/ loader[l] \in [pc : {"fetch"}] \/ loader[l] \in Loading
         /\ loader[l].pc \in {"allow", "deny", "gravity", "swap"} <=> loader[l] \in Loading
         /\ loader[l] = Resting <=> loader[l].pc = "idle"
<1>1. loader[l] \in {Resting} \cup [pc : {"fetch"}] \cup Loading
  BY DEF ListsTypeOK, Loading
<1> QED  BY <1>1 DEF Resting, Loading

\* What a handler has to leave to its task.
LEMMA DeltaTyped ==
  ASSUME NEW list \in Listing, NEW add \in BOOLEAN, NEW t \in Text
  PROVE  /\ Written(list, add, t) \in DeltaType
         /\ Written(list, add, t).pc = "written" /\ Written(list, add, t).list = list
         /\ Written(list, add, t).add = add /\ Written(list, add, t).text = t
         /\ Written(list, add, t).during = Reading
BY DEF Written, DeltaType, Reading

\* Bringing a text to lower case keeps its name.
LEMMA Texts ==
  ASSUME NEW t \in Text
  PROVE  /\ Lower(t) \in LowerText /\ Lower(t) \in Text
         /\ Lower(t).name = t.name /\ Lower(t).wild = t.wild
         /\ t.name \in Name /\ t.wild \in BOOLEAN
         /\ t.spelled = "lower" => Lower(t) = t
BY DEF Text, Lower, LowerText, Spelling

LEMMA Named ==
  ASSUME NEW n \in Name
  PROVE  /\ Literal(n) \in LowerText /\ Literal(n).name = n /\ ~Literal(n).wild
         /\ Wildcard(n) \in LowerText /\ Wildcard(n).name = n /\ Wildcard(n).wild
BY DEF Literal, Wildcard, Text, LowerText, Spelling

LEMMA Touching ==
  ASSUME NEW t \in Text
  PROVE  /\ Touches(t) \subseteq Name /\ t.name \in Touches(t)
         /\ t.wild => Touches(t) = Touches(Wildcard(t.name))
         /\ ~t.wild => Touches(t) = {t.name}
BY Texts, Named DEF Touches, Wildcard

LEMMA Fields == Field("allow") = "allow" /\ Field("deny") = "deny" /\ Field("gravity") = "exact"
BY DEF Field

LEMMA StoredTexts ==
  ASSUME rows \subseteq RowType, gravity \subseteq Text, NEW list \in Listing
  PROVE  Stored(list) \subseteq LowerText /\ Stored(list) \subseteq Text /\ StoredWild \subseteq Name
<1>1. \A row \in rows : Lower(row.text) \in LowerText /\ Lower(row.text) \in Text
  BY Texts DEF RowType
<1>2. \A t \in gravity : Lower(t) \in LowerText /\ Lower(t) \in Text /\ t.name \in Name
  BY Texts
<1> QED  BY <1>1, <1>2 DEF Stored, StoredWild, WildRows

\* The image of a finite set is finite.
LEMMA FiniteImage ==
  ASSUME NEW S, IsFiniteSet(S), NEW f, NEW T, T = {f[x] : x \in S}
  PROVE  IsFiniteSet(T)
<1> DEFINE g == [x \in S |-> f[x]]
<1>1. g \in Surjection(S, T)
  BY DEF Surjection
<1> QED  BY <1>1, FS_Surjection

LEMMA StoredFinite ==
  ASSUME RowsFinite, NEW list \in Listing
  PROVE  IsFiniteSet(Stored(list)) /\ IsFiniteSet(StoredWild)
<1> DEFINE R == {s \in rows : s.kind = list}
           L == {u \in gravity : ~u.wild}
           W == {u \in gravity : u.wild}
<1>1. IsFiniteSet(R) /\ IsFiniteSet(L) /\ IsFiniteSet(W)
  BY FS_Subset DEF RowsFinite
<1>2. IsFiniteSet({Lower(row.text) : row \in R})
  <2> DEFINE f == [row \in R |-> Lower(row.text)]
             T == {Lower(row.text) : row \in R}
  <2>1. T = {f[x] : x \in R}
    OBVIOUS
  <2> HIDE DEF f, T, R
  <2>2. IsFiniteSet(T)
    BY <1>1, <2>1, FiniteImage
  <2> QED  BY <2>2 DEF T
<1>3. IsFiniteSet({Lower(t) : t \in L})
  <2> DEFINE f == [t \in L |-> Lower(t)]
             T == {Lower(t) : t \in L}
  <2>1. T = {f[x] : x \in L}
    OBVIOUS
  <2> HIDE DEF f, T, L
  <2>2. IsFiniteSet(T)
    BY <1>1, <2>1, FiniteImage
  <2> QED  BY <2>2 DEF T
<1>4. IsFiniteSet({t.name : t \in W})
  <2> DEFINE f == [t \in W |-> t.name]
             T == {t.name : t \in W}
  <2>1. T = {f[x] : x \in W}
    OBVIOUS
  <2> HIDE DEF f, T, W
  <2>2. IsFiniteSet(T)
    BY <1>1, <2>1, FiniteImage
  <2> QED  BY <2>2 DEF T
<1> QED  BY <1>2, <1>3, <1>4 DEF Stored, StoredWild, WildRows

-----------------------------------------------------------------------------
(* Loads and deltas.                                                       *)

LEMMA TotalNat ==
  ASSUME NEW l, Neat(l)
  PROVE  RowsFinite => Total(l) \in Nat
<1> SUFFICES ASSUME RowsFinite PROVE Total(l) \in Nat
  OBVIOUS
<1>1. IsFiniteSet(WildRows)
  BY FS_Subset DEF RowsFinite, WildRows
<1>2. IsFiniteSet(l.exact) /\ IsFiniteSet(l.deny) /\ IsFiniteSet(DenyRegex)
  BY ListsAssumption DEF Neat
<1> QED  BY <1>1, <1>2, FS_CardinalityType DEF Total

LEMMA EmptyNeat == NoLists \in ListsType /\ Neat(NoLists)
BY FS_EmptySet DEF NoLists, ListsType, Neat

\* Each query of a load brings one part of the copy up to date.
LEMMA LoadedAllow ==
  ASSUME rows \subseteq RowType, gravity \subseteq Text, RowsFinite, NEW l \in ListsType, Neat(l)
  PROVE  /\ LoadAllow(l) \in ListsType /\ Neat(LoadAllow(l))
         /\ LoadAllow(l) = [l EXCEPT !.allow = Stored("allow")]
<1>1. Stored("allow") \subseteq LowerText /\ Stored("allow") \subseteq Text /\ IsFiniteSet(Stored("allow"))
  BY StoredTexts, StoredFinite DEF Listing, Kind
<1>2. LoadAllow(l) = [l EXCEPT !.allow = Stored("allow")]
  BY DEF LoadAllow, Stored
<1> QED  BY <1>1, <1>2 DEF ListsType, Neat

LEMMA LoadedDeny ==
  ASSUME rows \subseteq RowType, gravity \subseteq Text, RowsFinite, NEW l \in ListsType, Neat(l)
  PROVE  /\ LoadDeny(l) \in ListsType /\ Neat(LoadDeny(l))
         /\ LoadDeny(l) = [l EXCEPT !.deny = Stored("deny")]
<1>1. Stored("deny") \subseteq LowerText /\ Stored("deny") \subseteq Text /\ IsFiniteSet(Stored("deny"))
  BY StoredTexts, StoredFinite DEF Listing, Kind
<1>2. LoadDeny(l) = [l EXCEPT !.deny = Stored("deny")]
  BY DEF LoadDeny, Stored
<1> QED  BY <1>1, <1>2 DEF ListsType, Neat

LEMMA LoadedGravity ==
  ASSUME rows \subseteq RowType, gravity \subseteq Text, RowsFinite, NEW l \in ListsType, Neat(l)
  PROVE  LET m == LoadGravity(l) IN
         /\ m \in ListsType /\ Neat(m) /\ m.total = Total(m)
         /\ m.allow = l.allow /\ m.deny = l.deny
         /\ m.exact = Stored("gravity") /\ m.wild = StoredWild
<1> DEFINE m == LoadGravity(l)
<1>1. /\ Stored("gravity") \subseteq LowerText /\ Stored("gravity") \subseteq Text
      /\ StoredWild \subseteq Name /\ IsFiniteSet(Stored("gravity")) /\ IsFiniteSet(StoredWild)
  BY StoredTexts, StoredFinite DEF Listing
<1>2. /\ {Lower(t) : t \in gravity \ WildRows} = Stored("gravity")
      /\ {t.name : t \in WildRows} = StoredWild
  BY DEF WildRows, Stored, StoredWild
<1>3. m = [l EXCEPT !.exact = Stored("gravity"), !.wild = StoredWild,
             !.total = Cardinality(Stored("gravity")) + Cardinality(l.deny)
                       + Cardinality(WildRows) + Cardinality(DenyRegex)]
  BY <1>2 DEF LoadGravity, WildRows
<1> HIDE DEF m
<1>4. /\ m.exact = Stored("gravity") /\ m.wild = StoredWild
      /\ m.allow = l.allow /\ m.deny = l.deny /\ m.total = Total(m)
  BY <1>3 DEF ListsType, Total
<1>5. Neat(m)
  BY <1>1, <1>4 DEF Neat
<1>6. m.total \in Nat
  BY <1>4, <1>5, TotalNat
<1>7. m \in ListsType
  BY <1>1, <1>3, <1>4, <1>6 DEF ListsType
<1> QED  BY <1>4, <1>5, <1>7 DEF m

\* A load nothing interrupts.
LEMMA AllLoaded ==
  ASSUME rows \subseteq RowType, gravity \subseteq Text, RowsFinite
  PROVE  /\ Loaded \in ListsType /\ Neat(Loaded) /\ Loaded.total = Total(Loaded)
         /\ Loaded.allow = Stored("allow") /\ Loaded.deny = Stored("deny")
         /\ Loaded.exact = Stored("gravity") /\ Loaded.wild = StoredWild
<1> DEFINE a == LoadAllow(NoLists)
           d == LoadDeny(a)
<1>1. a \in ListsType /\ Neat(a) /\ a.allow = Stored("allow")
  BY EmptyNeat, LoadedAllow DEF ListsType
<1> HIDE DEF a
<1>2. d \in ListsType /\ Neat(d) /\ d.allow = Stored("allow") /\ d.deny = Stored("deny")
  BY <1>1, LoadedDeny DEF ListsType
<1> HIDE DEF d
<1> QED  BY <1>2, LoadedGravity DEF a, d, Loaded

\* m is l with a change taken in.
Taken(l, m, list, add, t) ==
  /\ m \in ListsType /\ Neat(m) /\ m.wild = l.wild
  /\ m[Field(list)] = IF add THEN l[Field(list)] \cup {Lower(t)} ELSE l[Field(list)] \ {t}
  /\ \A other \in Listing \ {list} : m[Field(other)] = l[Field(other)]

\* The copy after a delta: one list has one text more or less.
LEMMA DeltaTaken ==
  ASSUME NEW l \in ListsType, Neat(l),
         NEW list \in Listing, NEW add \in BOOLEAN, NEW t \in Text,
         NEW m, m = WithDelta(l, list, add, t)
  PROVE  Taken(l, m, list, add, t)
<1> DEFINE new == IF add THEN l[Field(list)] \cup {Lower(t)} ELSE l[Field(list)] \ {t}
           total == IF list = "allow" \/ new = l[Field(list)] THEN l.total
                    ELSE IF add THEN l.total + 1 ELSE IF l.total = 0 THEN 0 ELSE l.total - 1
<1>1. Lower(t) \in LowerText /\ Lower(t) \in Text
  BY Texts
<1>2. /\ Field(list) \in {"allow", "deny", "exact"}
      /\ \A other \in Listing \ {list} : Field(other) # Field(list) /\ Field(other) \in {"allow", "deny", "exact"}
  BY DEF Field, Listing, Kind
<1>3. IsFiniteSet(l[Field(list)]) /\ l[Field(list)] \subseteq LowerText
  BY <1>2 DEF Neat
<1>4. l[Field(list)] \subseteq Text
  BY <1>2 DEF ListsType
<1>5. IsFiniteSet(new) /\ new \subseteq LowerText /\ new \subseteq Text
  BY <1>1, <1>3, <1>4, FS_AddElement, FS_RemoveElement
<1>6. l.total \in Nat /\ total \in Nat
  BY DEF ListsType
<1>7. m = [l EXCEPT ![Field(list)] = new, !.total = total]
  BY DEF WithDelta, Field
<1> HIDE DEF new, total
<1>8. /\ m[Field(list)] = new /\ m.wild = l.wild
      /\ \A other \in {"allow", "deny", "exact"} : other # Field(list) => m[other] = l[other]
  BY <1>2, <1>7 DEF ListsType
<1>9. m \in ListsType
  BY <1>2, <1>5, <1>6, <1>7 DEF ListsType
<1>10. Neat(m)
  BY <1>5, <1>8 DEF Neat
<1> QED  BY <1>2, <1>8, <1>9, <1>10 DEF new, Taken

\* The total follows the copy.
LEMMA DeltaCounted ==
  ASSUME NEW l \in ListsType, Neat(l), RowsFinite,
         NEW list \in Listing, NEW add \in BOOLEAN, NEW t \in Text, l.total = Total(l)
  PROVE  WithDelta(l, list, add, t).total = Total(WithDelta(l, list, add, t))
<1> DEFINE new == IF add THEN l[Field(list)] \cup {Lower(t)} ELSE l[Field(list)] \ {t}
           m == WithDelta(l, list, add, t)
<1>1. /\ IsFiniteSet(l.exact) /\ IsFiniteSet(l.deny) /\ IsFiniteSet(WildRows) /\ IsFiniteSet(DenyRegex)
  BY ListsAssumption, FS_Subset DEF Neat, RowsFinite, WildRows
<1>2. /\ Cardinality(l.exact) \in Nat /\ Cardinality(l.deny) \in Nat
      /\ Cardinality(WildRows) \in Nat /\ Cardinality(DenyRegex) \in Nat
  BY <1>1, FS_CardinalityType
<1>3. ASSUME NEW S, IsFiniteSet(S), NEW x
      PROVE  /\ Cardinality(S \cup {x}) = IF x \in S THEN Cardinality(S) ELSE Cardinality(S) + 1
             /\ Cardinality(S \ {x}) = IF x \in S THEN Cardinality(S) - 1 ELSE Cardinality(S)
             /\ x \in S => Cardinality(S) # 0
  <2>1. x \in S => Cardinality(S) # 0
    BY <1>3, FS_EmptySet
  <2> QED  BY <1>3, <2>1, FS_AddElement, FS_RemoveElement
<1>4. CASE list = "allow"
  <2>1. m.total = l.total /\ m.exact = l.exact /\ m.deny = l.deny
    BY <1>4 DEF WithDelta, ListsType
  <2> QED  BY <2>1 DEF Total
<1>5. CASE list = "deny"
  <2> DEFINE n == IF add THEN l.deny \cup {Lower(t)} ELSE l.deny \ {t}
  <2>1. /\ m.exact = l.exact /\ m.deny = n
        /\ m.total = IF n = l.deny THEN l.total
                     ELSE IF add THEN l.total + 1 ELSE IF l.total = 0 THEN 0 ELSE l.total - 1
    BY <1>5 DEF WithDelta, ListsType
  <2>2. CASE add
    <3>1. CASE Lower(t) \in l.deny
      <4>1. n = l.deny
        BY <2>2, <3>1
      <4> QED  BY <2>1, <4>1 DEF Total
    <3>2. CASE Lower(t) \notin l.deny
      <4>1. n # l.deny /\ Cardinality(n) = Cardinality(l.deny) + 1
        BY <1>1, <1>3, <2>2, <3>2
      <4> QED  BY <1>2, <2>1, <2>2, <4>1 DEF Total
    <3> QED  BY <3>1, <3>2
  <2>3. CASE ~add
    <3>1. CASE t \notin l.deny
      <4>1. n = l.deny
        BY <2>3, <3>1
      <4> QED  BY <2>1, <4>1 DEF Total
    <3>2. CASE t \in l.deny
      <4>1. n # l.deny /\ Cardinality(n) = Cardinality(l.deny) - 1 /\ Cardinality(l.deny) # 0
        BY <1>1, <1>3, <2>3, <3>2
      <4> QED  BY <1>2, <2>1, <2>3, <4>1 DEF Total
    <3> QED  BY <3>1, <3>2
  <2> QED  BY <2>2, <2>3
<1>6. CASE list = "gravity"
  <2> DEFINE n == IF add THEN l.exact \cup {Lower(t)} ELSE l.exact \ {t}
  <2>1. /\ m.deny = l.deny /\ m.exact = n
        /\ m.total = IF n = l.exact THEN l.total
                     ELSE IF add THEN l.total + 1 ELSE IF l.total = 0 THEN 0 ELSE l.total - 1
    BY <1>6 DEF WithDelta, ListsType
  <2>2. CASE add
    <3>1. CASE Lower(t) \in l.exact
      <4>1. n = l.exact
        BY <2>2, <3>1
      <4> QED  BY <2>1, <4>1 DEF Total
    <3>2. CASE Lower(t) \notin l.exact
      <4>1. n # l.exact /\ Cardinality(n) = Cardinality(l.exact) + 1
        BY <1>1, <1>3, <2>2, <3>2
      <4> QED  BY <1>2, <2>1, <2>2, <4>1 DEF Total
    <3> QED  BY <3>1, <3>2
  <2>3. CASE ~add
    <3>1. CASE t \notin l.exact
      <4>1. n = l.exact
        BY <2>3, <3>1
      <4> QED  BY <2>1, <4>1 DEF Total
    <3>2. CASE t \in l.exact
      <4>1. n # l.exact /\ Cardinality(n) = Cardinality(l.exact) - 1 /\ Cardinality(l.exact) # 0
        BY <1>1, <1>3, <2>3, <3>2
      <4> QED  BY <1>2, <2>1, <2>3, <4>1 DEF Total
    <3> QED  BY <3>1, <3>2
  <2> QED  BY <2>2, <2>3
<1> QED  BY <1>4, <1>5, <1>6 DEF Listing, Kind

-----------------------------------------------------------------------------
(* Steps that change the database.                                         *)

\* Changes under way before and after a step that keeps them.
SameChanges ==
  \A r \in Request : /\ Pending(r)' <=> Pending(r)
                     /\ Pending(r) => /\ request'[r].list = request[r].list /\ request'[r].add = request[r].add
                                      /\ request'[r].text = request[r].text
                                      /\ request'[r].during = request[r].during

LEMMA SameSets ==
  ASSUME SameChanges
  PROVE  \A list, x : ChangesOf(list, x)' = ChangesOf(list, x)
BY DEF SameChanges, ChangesOf, Pending

\* A load that has read something goes on as it was, or another one begins.
LoadersKept ==
  \A l \in Loader : \/ loader'[l] = loader[l]
                    \/ /\ loader'[l].pc \notin {"deny", "gravity", "swap"}
                       /\ loader'[l].pc = "allow" => loader'[l].new = NoLists

LEMMA ReadByPc ==
  ASSUME NEW stage
  PROVE  /\ ReadBy(stage) \subseteq Listing
         /\ stage \notin {"deny", "gravity", "swap"} => ReadBy(stage) = {}
BY DEF ReadBy, Listing, Kind

\* A step that changes the database, if at all, at some names, tells the loads
\* under way and the history, and leaves the changes under way alone.
LEMMA Aside ==
  ASSUME ListsTypeOK, ListsInv, NEW names \in SUBSET Name,
         SameChanges, LoadersKept, UNCHANGED lists,
         doubt' = doubt \cup names,
         \A l \in Reading : missed'[l] = missed[l] \cup names,
         \A list \in Listing, x \in LowerText :
           x.name \notin names => (x \in Stored(list)' <=> x \in Stored(list)),
         \A w \in Name :
           ~(Touches(Wildcard(w)) \subseteq names) => (w \in StoredWild' <=> w \in StoredWild),
         names = {} => UNCHANGED WildRows
  PROVE  /\ \A r \in Request : ChangeRight(r)'
         /\ CopyRight' /\ TotalRight'
         /\ \A l \in Loader : LoadRight(l)'
<1>1. ASSUME NEW r \in Request PROVE ChangeRight(r)'
  <2>1. SUFFICES ASSUME Pending(r)' PROVE ChangeRight(r)'
    BY DEF ChangeRight
  <2>2. /\ Pending(r) /\ request[r] \in DeltaType
        /\ request'[r].list = request[r].list /\ request'[r].add = request[r].add
        /\ request'[r].text = request[r].text
    BY <2>1, RequestTypes DEF SameChanges
  <2>3. Lower(request[r].text) \in LowerText /\ Lower(request[r].text).name = request[r].text.name
    BY <2>2, Texts DEF DeltaType
  <2>4. ChangeRight(r)
    BY DEF ListsInv
  <2>5. request[r].list \in Listing
    BY <2>2 DEF DeltaType
  <2> QED  BY <2>2, <2>3, <2>4, <2>5 DEF ChangeRight
<1>2. CopyRight'
  <2>1. CopyRight
    BY DEF ListsInv
  <2>2. ASSUME NEW list \in Listing, NEW x \in LowerText, x.name \notin doubt', ChangesOf(list, x)' = {}
        PROVE  x \in lists'[Field(list)] <=> x \in Stored(list)'
    BY <2>1, <2>2, SameSets DEF CopyRight
  <2>3. ASSUME NEW w \in Name, ~(Touches(Wildcard(w)) \subseteq doubt')
        PROVE  w \in lists'.wild <=> w \in StoredWild'
    BY <2>1, <2>3 DEF CopyRight
  <2> QED  BY <2>2, <2>3 DEF CopyRight
<1>3. ASSUME NEW l \in Loader PROVE LoadRight(l)'
  <2>1. CASE loader'[l].pc \notin {"deny", "gravity", "swap"}
    BY <2>1, ReadByPc DEF LoadRight
  <2>2. CASE loader'[l].pc \in {"deny", "gravity", "swap"}
    <3>1. loader'[l] = loader[l] /\ l \in Reading /\ missed'[l] = missed[l] \cup names
      BY <2>2 DEF LoadersKept, Reading
    <3>2. LoadRight(l)
      BY DEF ListsInv
    <3>3. ASSUME NEW list \in ReadBy(loader[l].pc), NEW x \in LowerText, x.name \notin missed'[l],
                 \A r \in ChangesOf(list, x)' : l \notin request'[r].during
          PROVE  x \in loader[l].new[Field(list)] <=> x \in Stored(list)'
      <4>1. \A r \in ChangesOf(list, x) : l \notin request[r].during
        BY <3>3, SameSets DEF SameChanges, ChangesOf
      <4>2. x \in Stored(list)' <=> x \in Stored(list)
        BY <3>1, <3>3, ReadByPc
      <4> QED  BY <3>1, <3>2, <3>3, <4>1, <4>2 DEF LoadRight
    <3>4. ASSUME loader[l].pc = "swap", NEW w \in Name, ~(Touches(Wildcard(w)) \subseteq missed'[l]),
                 \A r \in WildChanges(w)' : l \notin request'[r].during
          PROVE  w \in loader[l].new.wild <=> w \in StoredWild'
      <4>1. \A r \in WildChanges(w) : l \notin request[r].during
        BY <3>4 DEF SameChanges, WildChanges
      <4>2. w \in StoredWild' <=> w \in StoredWild
        BY <3>1, <3>4
      <4> QED  BY <3>1, <3>2, <3>4, <4>1, <4>2 DEF LoadRight
    <3> QED  BY <3>1, <3>3, <3>4 DEF LoadRight
  <2> QED  BY <2>1, <2>2
<1>4. TotalRight'
  <2>1. TotalRight
    BY DEF ListsInv
  <2>2. ASSUME doubt' = {} PROVE lists'.total = Total(lists)'
    BY <2>1, <2>2 DEF TotalRight, Total
  <2>3. ASSUME NEW l \in Loader, loader'[l].pc = "swap", missed'[l] = {},
               \A r \in Request : Pending(r)' /\ request'[r].list = "gravity" /\ request'[r].text.wild =>
                  l \notin request'[r].during
        PROVE  loader'[l].new.total = Total(loader[l].new)'
    <3>1. loader'[l] = loader[l] /\ l \in Reading /\ missed'[l] = missed[l] \cup names
      BY <2>3 DEF LoadersKept, Reading
    <3>2. loader[l].new.total = Total(loader[l].new)
      BY <2>1, <2>3, <3>1 DEF TotalRight, SameChanges
    <3> QED  BY <2>3, <3>1, <3>2 DEF Total
  <2>4. \A l \in Loader : loader'[l].pc = "swap" => loader'[l] = loader[l]
    BY DEF LoadersKept
  <2> QED  BY <2>2, <2>3, <2>4 DEF TotalRight, Total
<1> QED  BY <1>1, <1>2, <1>3, <1>4

\* A step that writes one text to the database and leaves it to a task to bring
\* it to the copy.
LEMMA Changed ==
  ASSUME ListsTypeOK, ListsInv,
         NEW r \in Request, NEW list \in Listing, NEW add \in BOOLEAN, NEW t \in Text,
         ~Pending(r), request' = [request EXCEPT ![r] = Written(list, add, t)],
         UNCHANGED <<lists, loader, missed>>, doubt \subseteq doubt',
         \A other \in Listing, x \in LowerText :
           other # list \/ x # Lower(t) => (x \in Stored(other)' <=> x \in Stored(other)),
         \A w \in Name : ~(list = "gravity" /\ t.wild /\ w = t.name) =>
           (w \in StoredWild' <=> w \in StoredWild),
         ~(list = "gravity" /\ t.wild) => UNCHANGED WildRows,
         list = "gravity" /\ t.wild => Touches(t) \subseteq doubt',
         t.name \notin doubt' =>
           /\ add <=> Lower(t) \in Stored(list)'
           /\ ~add => t.spelled = "lower"
           /\ ~Crossing(r, list, add, t)
  PROVE  /\ \A p \in Request : ChangeRight(p)'
         /\ CopyRight' /\ TotalRight'
         /\ \A l \in Loader : LoadRight(l)'
<1>1. /\ request'[r].pc = "written" /\ request'[r].list = list /\ request'[r].add = add
      /\ request'[r].text = t /\ request'[r].during = Reading
      /\ \A p \in Request \ {r} : request'[p] = request[p]
  BY DeltaTyped DEF ListsTypeOK
<1>2. /\ Pending(r)' /\ \A p \in Request \ {r} : Pending(p)' <=> Pending(p)
  BY <1>1 DEF Pending
<1>3. /\ Lower(t) \in LowerText /\ Lower(t).name = t.name /\ t.name \in Name
      /\ t.name \in Touches(t)
      /\ t.wild => Touches(t) = Touches(Wildcard(t.name))
  BY Texts, Touching
<1>4. \A other \in Listing, x \in LowerText :
        /\ ChangesOf(other, x) \subseteq ChangesOf(other, x)'
        /\ other = list /\ x = Lower(t) => r \in ChangesOf(other, x)'
  BY <1>1, <1>2 DEF ChangesOf
<1>5. ASSUME NEW p \in Request PROVE ChangeRight(p)'
  <2>1. CASE p = r
    BY <1>1, <1>3, <2>1 DEF ChangeRight
  <2>2. CASE p # r
    <3>1. SUFFICES ASSUME Pending(p)' PROVE ChangeRight(p)'
      BY DEF ChangeRight
    <3>2. Pending(p) /\ request'[p] = request[p] /\ request[p] \in DeltaType /\ ChangeRight(p)
      BY <1>1, <1>2, <2>2, <3>1, RequestTypes DEF ListsInv
    <3>3. PICK u \in Text, k \in Listing, a \in BOOLEAN : request[p] =
            [pc |-> request[p].pc, list |-> k, add |-> a, text |-> u, during |-> request[p].during]
      BY <3>2 DEF DeltaType
    <3>4. Lower(u) \in LowerText /\ Lower(u).name = u.name
      BY <3>3, Texts
    <3>5. ASSUME u.name \notin doubt'
          PROVE  a <=> Lower(u) \in Stored(k)'
      <4>1. a <=> Lower(u) \in Stored(k)
        BY <3>2, <3>3, <3>5 DEF ChangeRight
      <4>2. CASE k # list \/ Lower(u) # Lower(t)
        BY <3>3, <3>4, <4>1, <4>2
      <4>3. CASE k = list /\ Lower(u) = Lower(t)
        <5>1. u.name = t.name
          BY <1>3, <3>4, <4>3
        <5>2. ~Crossing(r, list, add, t) /\ (add <=> Lower(t) \in Stored(list)')
          BY <3>5, <5>1
        <5>3. a = add
          BY <2>2, <3>2, <3>3, <4>3, <5>1, <5>2 DEF Crossing
        <5> QED  BY <4>3, <5>2, <5>3
      <4> QED  BY <4>2, <4>3
    <3> QED  BY <3>2, <3>3, <3>5 DEF ChangeRight
  <2> QED  BY <2>1, <2>2
<1>6. CopyRight'
  <2>1. CopyRight
    BY DEF ListsInv
  <2>2. ASSUME NEW other \in Listing, NEW x \in LowerText, x.name \notin doubt', ChangesOf(other, x)' = {}
        PROVE  x \in lists'[Field(other)] <=> x \in Stored(other)'
    <3>1. ChangesOf(other, x) = {} /\ ~(other = list /\ x = Lower(t))
      BY <1>4, <2>2
    <3>2. x \in Stored(other)' <=> x \in Stored(other)
      BY <2>2, <3>1
    <3> QED  BY <2>1, <2>2, <3>1, <3>2 DEF CopyRight
  <2>3. ASSUME NEW w \in Name, ~(Touches(Wildcard(w)) \subseteq doubt')
        PROVE  w \in lists'.wild <=> w \in StoredWild'
    <3>1. ~(list = "gravity" /\ t.wild /\ w = t.name)
      BY <1>3, <2>3
    <3>2. ~(Touches(Wildcard(w)) \subseteq doubt)
      BY <2>3
    <3> QED  BY <2>1, <2>3, <3>1, <3>2 DEF CopyRight
  <2> QED  BY <2>2, <2>3 DEF CopyRight
<1>7. ASSUME NEW l \in Loader PROVE LoadRight(l)'
  <2>1. CASE loader[l].pc \notin {"deny", "gravity", "swap"}
    BY <2>1, ReadByPc DEF LoadRight
  <2>2. CASE loader[l].pc \in {"deny", "gravity", "swap"}
    <3>1. l \in Reading /\ LoadRight(l)
      BY <2>2 DEF Reading, ListsInv
    <3>2. ASSUME NEW other \in ReadBy(loader[l].pc), NEW x \in LowerText, x.name \notin missed[l],
                 \A p \in ChangesOf(other, x)' : l \notin request'[p].during
          PROVE  x \in loader[l].new[Field(other)] <=> x \in Stored(other)'
      <4>1. other \in Listing
        BY ReadByPc
      <4>2. other # list \/ x # Lower(t)
        BY <1>1, <1>4, <3>1, <3>2, <4>1
      <4>3. \A p \in ChangesOf(other, x) : l \notin request[p].during
        BY <1>1, <1>4, <3>2, <4>1 DEF ChangesOf
      <4> QED  BY <3>1, <3>2, <4>1, <4>2, <4>3 DEF LoadRight
    <3>3. ASSUME loader[l].pc = "swap", NEW w \in Name, ~(Touches(Wildcard(w)) \subseteq missed[l]),
                 \A p \in WildChanges(w)' : l \notin request'[p].during
          PROVE  w \in loader[l].new.wild <=> w \in StoredWild'
      <4>1. ~(list = "gravity" /\ t.wild /\ w = t.name)
        BY <1>1, <1>2, <3>1, <3>3 DEF WildChanges
      <4>2. \A p \in WildChanges(w) : l \notin request[p].during
        BY <1>1, <1>2, <3>3 DEF WildChanges
      <4> QED  BY <3>1, <3>3, <4>1, <4>2 DEF LoadRight
    <3> QED  BY <3>2, <3>3 DEF LoadRight
  <2> QED  BY <2>1, <2>2
<1>8. TotalRight'
  <2>1. TotalRight
    BY DEF ListsInv
  <2>2. ASSUME doubt' = {} PROVE lists'.total = Total(lists)'
    <3>1. doubt = {} /\ UNCHANGED WildRows
      BY <1>3, <2>2
    <3> QED  BY <2>1, <3>1 DEF TotalRight, Total
  <2>3. ASSUME NEW l \in Loader, loader[l].pc = "swap", missed[l] = {},
               \A p \in Request : Pending(p)' /\ request'[p].list = "gravity" /\ request'[p].text.wild =>
                  l \notin request'[p].during
        PROVE  loader[l].new.total = Total(loader[l].new)'
    <3>1. l \in Reading
      BY <2>3 DEF Reading
    <3>2. UNCHANGED WildRows
      BY <1>1, <1>2, <2>3, <3>1
    <3>3. \A p \in Request : Pending(p) /\ request[p].list = "gravity" /\ request[p].text.wild =>
            l \notin request[p].during
      BY <1>1, <1>2, <2>3
    <3>4. loader[l].new.total = Total(loader[l].new)
      BY <2>1, <2>3, <3>3 DEF TotalRight
    <3> QED  BY <3>2, <3>4 DEF Total
  <2> QED  BY <2>2, <2>3 DEF TotalRight, Total
<1> QED  BY <1>5, <1>6, <1>7, <1>8

-----------------------------------------------------------------------------
(* The actions, one by one.                                                *)

LEMMA NumberedKept ==
  ASSUME ListsTypeOK, Numbered, rows' \subseteq rows, changes' \in Nat, changes' >= changes,
         \A r \in Request : request'[r] = request[r] \/ request'[r].pc # "remove"
  PROVE  Numbered'
<1>1. \A s \in rows : s.id \in Nat
  BY DEF ListsTypeOK, RowType
<1>2. changes \in Nat
  BY ListsAssumption DEF ListsTypeOK
<1>3. ASSUME NEW r \in Request, request[r].pc = "remove", NEW row \in request[r].row
      PROVE  row.id \in Nat
  BY <1>3, RequestTypes DEF Removal, RowType
<1> QED  BY <1>1, <1>2, <1>3 DEF Numbered

LEMMA TidyKept ==
  ASSUME ListsTypeOK, Tidy, UNCHANGED lists, LoadersKept
  PROVE  Tidy'
BY EmptyNeat DEF Tidy, LoadersKept, Neat, NoLists

\* Nothing is stored or loaded, and no change begins or ends.
LEMMA NothingStored ==
  ASSUME ListsIInv, UNCHANGED <<rows, gravity, lists, history>>, SameChanges, LoadersKept,
         Numbered'
  PROVE  ListsInv'
<1>1. /\ \A list \in Listing : Stored(list)' = Stored(list)
      /\ StoredWild' = StoredWild /\ WildRows' = WildRows
  BY DEF Stored, StoredWild, WildRows
<1>2. doubt' = doubt \cup {} /\ \A l \in Reading : missed'[l] = missed[l] \cup {}
  BY DEF history
<1>3. ListsTypeOK /\ ListsInv /\ UNCHANGED lists
  BY DEF ListsIInv
<1>4. /\ \A r \in Request : ChangeRight(r)'
      /\ CopyRight' /\ TotalRight'
      /\ \A l \in Loader : LoadRight(l)'
  <2> DEFINE names == {}
  <2>1. /\ \A list \in Listing, x \in LowerText :
             x.name \notin names => (x \in Stored(list)' <=> x \in Stored(list))
        /\ \A w \in Name :
             ~(Touches(Wildcard(w)) \subseteq names) => (w \in StoredWild' <=> w \in StoredWild)
        /\ names = {} => UNCHANGED WildRows
        /\ doubt' = doubt \cup names /\ names \in SUBSET Name
        /\ \A l \in Reading : missed'[l] = missed[l] \cup names
    BY <1>1, <1>2
  <2> HIDE DEF names
  <2> QED  BY <1>3, <2>1, Aside
<1>5. Tidy'
  BY <1>3, TidyKept DEF ListsInv
<1>6. RowsFinite'
  BY <1>3 DEF ListsInv, RowsFinite
<1> QED  BY <1>4, <1>5, <1>6 DEF ListsInv

LEMMA StepSighup == ListsIInv /\ Sighup => ListsIInv'
<1> SUFFICES ASSUME ListsIInv, Sighup PROVE ListsIInv'
  OBVIOUS
<1>1. ListsTypeOK /\ ListsInv
  BY DEF ListsIInv
<1>2. ListsTypeOK'
  BY <1>1, EmptyNeat, ListsAssumption DEF ListsTypeOK, Sighup, At, BeginLoad, history, Loader
<1>3. SameChanges /\ LoadersKept
  BY <1>1 DEF Sighup, SameChanges, LoadersKept, Pending, ListsTypeOK, At, BeginLoad
<1>4. Numbered'
  BY <1>1, NumberedKept, ListsAssumption DEF Sighup, ListsInv, ListsTypeOK
<1> QED  BY <1>2, <1>3, <1>4, NothingStored DEF ListsIInv, Sighup

LEMMA StepRefreshDue == ListsIInv /\ RefreshDue => ListsIInv'
<1> SUFFICES ASSUME ListsIInv, RefreshDue PROVE ListsIInv'
  OBVIOUS
<1>1. ListsTypeOK /\ ListsInv
  BY DEF ListsIInv
<1>2. ListsTypeOK'
  BY <1>1 DEF ListsTypeOK, RefreshDue, At, history, Loader
<1>3. SameChanges /\ LoadersKept
  BY <1>1 DEF RefreshDue, SameChanges, LoadersKept, Pending, ListsTypeOK, At
<1>4. Numbered'
  BY <1>1, NumberedKept, ListsAssumption DEF RefreshDue, ListsInv, ListsTypeOK
<1> QED  BY <1>2, <1>3, <1>4, NothingStored DEF ListsIInv, RefreshDue

LEMMA StepFetchFails == ListsIInv /\ FetchFails => ListsIInv'
<1> SUFFICES ASSUME ListsIInv, FetchFails PROVE ListsIInv'
  OBVIOUS
<1>1. ListsTypeOK /\ ListsInv
  BY DEF ListsIInv
<1>2. ListsTypeOK'
  BY <1>1 DEF ListsTypeOK, FetchFails, At, history, Loader
<1>3. SameChanges /\ LoadersKept
  BY <1>1 DEF FetchFails, SameChanges, LoadersKept, Pending, ListsTypeOK, At, Resting
<1>4. Numbered'
  BY <1>1, NumberedKept, ListsAssumption DEF FetchFails, ListsInv, ListsTypeOK
<1> QED  BY <1>2, <1>3, <1>4, NothingStored DEF ListsIInv, FetchFails

\* A request that is accepted.
LEMMA Accepted ==
  ASSUME ListsTypeOK, NEW r \in Request, Accept(r)
  PROVE  /\ request[r] = Free /\ ~Pending(r) /\ request[r].pc = "free"
         /\ changes' = changes + 1 /\ changes' \in 0..MaxChanges /\ changes \in Nat /\ changes' \in Nat
BY ListsAssumption DEF Accept, ListsTypeOK, Pending, Free

LEMMA StepAskRefresh == \A r \in Request : ListsIInv /\ AskRefresh(r) => ListsIInv'
<1> SUFFICES ASSUME NEW r \in Request, ListsIInv, AskRefresh(r) PROVE ListsIInv'
  OBVIOUS
<1>1. ListsTypeOK /\ ListsInv /\ Accept(r)
  BY DEF ListsIInv, AskRefresh
<1>2. ListsTypeOK'
  BY <1>1, Accepted DEF ListsTypeOK, AskRefresh, Reply, history
<1>3. SameChanges /\ LoadersKept
  BY <1>1, Accepted DEF AskRefresh, SameChanges, LoadersKept, Pending, ListsTypeOK, Reply
<1>4. \A p \in Request : request'[p] = request[p] \/ request'[p].pc # "remove"
  BY <1>1 DEF AskRefresh, Reply, ListsTypeOK
<1>5. Numbered'
  BY <1>1, <1>4, Accepted, NumberedKept DEF AskRefresh, ListsInv, ListsTypeOK
<1> QED  BY <1>2, <1>3, <1>5, NothingStored DEF ListsIInv, AskRefresh

LEMMA StepRefreshFails == \A r \in Request : ListsIInv /\ RefreshFails(r) => ListsIInv'
<1> SUFFICES ASSUME NEW r \in Request, ListsIInv, RefreshFails(r) PROVE ListsIInv'
  OBVIOUS
<1>1. ListsTypeOK /\ ListsInv
  BY DEF ListsIInv
<1>2. ListsTypeOK'
  BY <1>1 DEF ListsTypeOK, RefreshFails, Reply, history
<1>3. SameChanges /\ LoadersKept
  BY <1>1 DEF RefreshFails, SameChanges, LoadersKept, Pending, ListsTypeOK, Reply, Free
<1>4. \A p \in Request : request'[p] = request[p] \/ request'[p].pc # "remove"
  BY <1>1 DEF RefreshFails, Reply, ListsTypeOK, Free
<1>5. Numbered'
  BY <1>1, <1>4, NumberedKept, ListsAssumption DEF RefreshFails, ListsInv, ListsTypeOK
<1> QED  BY <1>2, <1>3, <1>5, NothingStored DEF ListsIInv, RefreshFails

LEMMA StepFindListed ==
  \A r \in Request, kind \in Kind, id \in {row.id : row \in rows} : ListsIInv /\ FindListed(r, kind, id) => ListsIInv'
<1> SUFFICES ASSUME NEW r \in Request, NEW kind \in Kind, NEW id \in {row.id : row \in rows},
                    ListsIInv, FindListed(r, kind, id)
             PROVE  ListsIInv'
  OBVIOUS
<1>1. ListsTypeOK /\ ListsInv /\ Accept(r) /\ id \in Nat
  BY DEF ListsIInv, FindListed, ListsTypeOK, RowType
<1> DEFINE found == {row \in rows : row.kind = kind /\ row.id = id}
           removal == [pc |-> "remove", list |-> kind, id |-> id, row |-> found]
<1>2. removal \in Removal /\ request' = [request EXCEPT ![r] = removal] /\ removal.pc = "remove"
  BY <1>1 DEF ListsTypeOK, Removal, FindListed, Reply
<1>3. ListsTypeOK'
  BY <1>1, <1>2, Accepted DEF ListsTypeOK, FindListed, history, Removal
<1>4. SameChanges /\ LoadersKept
  BY <1>1, <1>2, Accepted DEF FindListed, SameChanges, LoadersKept, Pending, ListsTypeOK
<1>5. Numbered'
  <2>1. Numbered /\ UNCHANGED rows /\ changes' = changes + 1 /\ changes \in Nat
    BY <1>1, Accepted DEF FindListed, ListsInv
  <2>2. \A s \in rows : s.id <= changes' /\ s.id \in Nat
    BY <1>1, <2>1 DEF Numbered, ListsTypeOK, RowType
  <2>3. ASSUME NEW p \in Request, request'[p].pc = "remove", NEW row \in request'[p].row
        PROVE  /\ row.id = request'[p].id /\ row.kind = request'[p].list /\ row.id <= changes'
               /\ \A s \in rows : s.id = row.id => s = row
    <3>1. CASE p = r
      <4>1. row \in rows /\ row.kind = kind /\ row.id = id /\ request'[p].id = id /\ request'[p].list = kind
        BY <1>1, <1>2, <2>3, <3>1 DEF ListsTypeOK
      <4> QED  BY <2>1, <2>2, <4>1 DEF Numbered
    <3>2. CASE p # r
      <4>1. request'[p] = request[p] /\ row.id \in Nat
        BY <1>1, <1>2, <2>3, <3>2, RequestTypes DEF ListsTypeOK, Removal, RowType
      <4> QED  BY <2>1, <2>3, <4>1 DEF Numbered
    <3> QED  BY <3>1, <3>2
  <2> QED  BY <2>1, <2>2, <2>3 DEF Numbered
<1> QED  BY <1>3, <1>4, <1>5, NothingStored DEF ListsIInv, FindListed

\* The conjuncts of ListsInv that Changed leaves over.
LEMMA RestChanged ==
  ASSUME ListsIInv, NEW r \in Request, NEW list \in Listing, NEW add \in BOOLEAN, NEW t \in Text,
         request' = [request EXCEPT ![r] = Written(list, add, t)],
         UNCHANGED <<lists, loader, reloads, missed>>, doubt' \in SUBSET Name,
         rows' \in SUBSET RowType, gravity' \in SUBSET Text, changes' \in 0..MaxChanges
  PROVE  ListsTypeOK' /\ Tidy'
<1>1. ListsTypeOK /\ Tidy
  BY DEF ListsIInv, ListsInv
<1>2. ListsTypeOK'
  <2>1. Written(list, add, t) \in DeltaType
    BY DeltaTyped
  <2> QED  BY <1>1, <2>1 DEF ListsTypeOK
<1>3. LoadersKept
  BY DEF LoadersKept
<1> QED  BY <1>1, <1>2, <1>3, TidyKept

\* The request has a delta to hand over.
LEMMA DeltaReplies ==
  ASSUME ListsTypeOK, NEW r \in Request, NEW list \in Listing, NEW add \in BOOLEAN, NEW t \in Text,
         request' = [request EXCEPT ![r] = Written(list, add, t)]
  PROVE  \A p \in Request : request'[p] = request[p] \/ request'[p].pc # "remove"
<1>1. Written(list, add, t).pc = "written"
  BY DEF Written
<1> QED  BY <1>1 DEF ListsTypeOK

LEMMA StepAddListed ==
  \A r \in Request, kind \in Kind, t \in ListedText : ListsIInv /\ AddListed(r, kind, t) => ListsIInv'
<1> SUFFICES ASSUME NEW r \in Request, NEW kind \in Kind, NEW t \in ListedText,
                    ListsIInv, AddListed(r, kind, t)
             PROVE  ListsIInv'
  OBVIOUS
<1>1. ListsTypeOK /\ ListsInv /\ Accept(r) /\ t \in Text /\ kind \in Listing /\ kind # "gravity"
  BY ListsAssumption DEF ListsIInv, AddListed, Listing, Kind
<1>2. CASE UNCHANGED <<rows, request, history>>
  <2>1. ListsTypeOK'
    BY <1>1, <1>2, Accepted DEF ListsTypeOK, AddListed, history
  <2>2. SameChanges /\ LoadersKept
    BY <1>2 DEF AddListed, SameChanges, LoadersKept, Pending
  <2>3. Numbered'
    BY <1>1, <1>2, Accepted, NumberedKept DEF ListsInv
  <2> QED  BY <1>2, <2>1, <2>2, <2>3, NothingStored DEF ListsIInv, AddListed
<1>3. CASE ~(\E row \in rows : row.kind = kind /\ row.text = t)
  <2> DEFINE row == [id |-> changes', kind |-> kind, text |-> t]
             x == Lower(t)
  <2>1. /\ rows' = rows \cup {row}
        /\ request' = [request EXCEPT ![r] = Written(kind, TRUE, t)]
        /\ UNCHANGED <<gravity, lists, loader, reloads, missed>>
        /\ doubt' = doubt \cup (IF Crossing(r, kind, TRUE, t) THEN {t.name} ELSE {})
    BY <1>3 DEF AddListed, Reply, Doubtful
  <2>2. row \in RowType /\ row.id = changes' /\ row.kind = kind /\ row.text = t
    BY <1>1, Accepted DEF RowType
  <2>3. x \in LowerText /\ t.name \in Name
    BY <1>1, Texts
  <2>4. \A s \in rows' : s \in rows \/ s = row
    BY <2>1
  <2>5. ListsTypeOK' /\ Tidy'
    BY <1>1, <2>1, <2>2, <2>3, Accepted, RestChanged DEF ListsTypeOK
  <2>6. /\ Stored(kind)' = Stored(kind) \cup {x}
        /\ \A other \in Listing \ {kind} : Stored(other)' = Stored(other)
        /\ StoredWild' = StoredWild /\ WildRows' = WildRows
    BY <1>1, <2>1, <2>2 DEF Stored, StoredWild, WildRows
  <2>7. /\ \A p \in Request : ChangeRight(p)'
        /\ CopyRight' /\ TotalRight'
        /\ \A l \in Loader : LoadRight(l)'
    <3>1. /\ \A other \in Listing, y \in LowerText :
               other # kind \/ y # Lower(t) => (y \in Stored(other)' <=> y \in Stored(other))
          /\ t.name \notin doubt' =>
               /\ TRUE <=> Lower(t) \in Stored(kind)'
               /\ ~TRUE => t.spelled = "lower"
               /\ ~Crossing(r, kind, TRUE, t)
      BY <2>1, <2>6
    <3>2. ~Pending(r) /\ TRUE \in BOOLEAN /\ doubt \subseteq doubt'
      BY <1>1, <2>1, Accepted
    <3>3. /\ \A w \in Name : ~(kind = "gravity" /\ t.wild /\ w = t.name) =>
                (w \in StoredWild' <=> w \in StoredWild)
          /\ ~(kind = "gravity" /\ t.wild) => UNCHANGED WildRows
          /\ kind = "gravity" /\ t.wild => Touches(t) \subseteq doubt'
      BY <1>1, <2>6
    <3> HIDE DEF row, x
    <3> QED  BY <1>1, <2>1, <3>1, <3>2, <3>3, Changed
  <2>8. RowsFinite'
    BY <1>1, <2>1, FS_AddElement DEF ListsInv, RowsFinite
  <2>9. Numbered'
    <3>1. Numbered /\ changes' = changes + 1 /\ changes \in Nat
      BY <1>1, Accepted DEF ListsInv
    <3>2. \A s \in rows : s.id \in Nat /\ s.id <= changes
      BY <1>1, <3>1 DEF ListsTypeOK, RowType, Numbered
    <3>3. \A s \in rows' : s.id <= changes'
      BY <2>2, <2>4, <3>1, <3>2
    <3>4. \A s, u \in rows' : s.id = u.id => s = u
      BY <2>2, <2>4, <3>1, <3>2 DEF Numbered
    <3>5. ASSUME NEW p \in Request, request'[p].pc = "remove", NEW a \in request'[p].row
          PROVE  /\ a.id = request'[p].id /\ a.kind = request'[p].list /\ a.id <= changes'
                 /\ \A s \in rows' : s.id = a.id => s = a
      <4>1. p # r /\ request'[p] = request[p]
        BY <1>1, <2>1, <3>5, DeltaTyped DEF ListsTypeOK
      <4>2. a.id \in Nat
        BY <1>1, <3>5, <4>1, RequestTypes DEF Removal, RowType
      <4>3. /\ a.id = request[p].id /\ a.kind = request[p].list /\ a.id <= changes
            /\ \A s \in rows : s.id = a.id => s = a
        BY <3>1, <3>5, <4>1 DEF Numbered
      <4> QED  BY <2>2, <2>4, <3>1, <4>1, <4>2, <4>3
    <3> QED  BY <3>3, <3>4, <3>5 DEF Numbered
  <2> QED  BY <2>5, <2>7, <2>8, <2>9 DEF ListsIInv, ListsInv
<1> QED  BY <1>2, <1>3 DEF AddListed

LEMMA StepAddGravity == \A r \in Request, t \in GravityText : ListsIInv /\ AddGravity(r, t) => ListsIInv'
<1> SUFFICES ASSUME NEW r \in Request, NEW t \in GravityText, ListsIInv, AddGravity(r, t) PROVE ListsIInv'
  OBVIOUS
<1>1. ListsTypeOK /\ ListsInv /\ Accept(r) /\ t \in Text /\ "gravity" \in Listing /\ TRUE \in BOOLEAN
  BY ListsAssumption DEF ListsIInv, AddGravity, Listing
<1> DEFINE x == Lower(t)
           wrong == t.wild \/ Crossing(r, "gravity", TRUE, t)
<1>2. /\ gravity' = gravity \cup {t}
      /\ request' = [request EXCEPT ![r] = Written("gravity", TRUE, t)]
      /\ UNCHANGED <<rows, lists, loader, reloads, missed>>
      /\ doubt' = doubt \cup (IF wrong THEN Touches(t) ELSE {})
  BY DEF AddGravity, Reply, Doubtful
<1>3. x \in LowerText /\ t.name \in Name /\ t.wild \in BOOLEAN /\ Touches(t) \subseteq Name /\ t.name \in Touches(t)
  BY <1>1, Texts, Touching
<1>4. ListsTypeOK' /\ Tidy'
  BY <1>1, <1>2, <1>3, Accepted, RestChanged DEF ListsTypeOK
<1>5. /\ \A other \in Listing \ {"gravity"} : Stored(other)' = Stored(other)
      /\ t.wild => /\ Stored("gravity")' = Stored("gravity")
                   /\ StoredWild' = StoredWild \cup {t.name}
      /\ ~t.wild => /\ Stored("gravity")' = Stored("gravity") \cup {x}
                    /\ StoredWild' = StoredWild /\ WildRows' = WildRows
  BY <1>2 DEF Stored, StoredWild, WildRows
<1>6. /\ \A p \in Request : ChangeRight(p)'
      /\ CopyRight' /\ TotalRight'
      /\ \A l \in Loader : LoadRight(l)'
  <2>1. \A other \in Listing, y \in LowerText :
          other # "gravity" \/ y # Lower(t) => (y \in Stored(other)' <=> y \in Stored(other))
    BY <1>3, <1>5
  <2>2. t.name \notin doubt' =>
          /\ TRUE <=> Lower(t) \in Stored("gravity")'
          /\ ~TRUE => t.spelled = "lower"
          /\ ~Crossing(r, "gravity", TRUE, t)
    BY <1>2, <1>3, <1>5
  <2>3. ~Pending(r) /\ doubt \subseteq doubt'
    BY <1>1, <1>2, Accepted
  <2>4. /\ \A w \in Name : ~("gravity" = "gravity" /\ t.wild /\ w = t.name) =>
              (w \in StoredWild' <=> w \in StoredWild)
        /\ ~("gravity" = "gravity" /\ t.wild) => UNCHANGED WildRows
        /\ "gravity" = "gravity" /\ t.wild => Touches(t) \subseteq doubt'
    BY <1>2, <1>3, <1>5
  <2> HIDE DEF x, wrong
  <2> QED  BY <1>1, <1>2, <2>1, <2>2, <2>3, <2>4, Changed
<1>7. RowsFinite'
  BY <1>1, <1>2, FS_AddElement DEF ListsInv, RowsFinite
<1>8. Numbered'
  <2>1. \A p \in Request : request'[p] = request[p] \/ request'[p].pc # "remove"
    BY <1>1, <1>2, DeltaReplies
  <2>2. changes' \in Nat /\ changes' >= changes /\ rows' \subseteq rows
    BY <1>1, <1>2, Accepted
  <2>3. Numbered
    BY <1>1 DEF ListsInv
  <2> QED  BY <1>1, <2>1, <2>2, <2>3, NumberedKept
<1> QED  BY <1>4, <1>6, <1>7, <1>8 DEF ListsIInv, ListsInv

LEMMA StepRemoveGravity == \A r \in Request, t \in GravityText : ListsIInv /\ RemoveGravity(r, t) => ListsIInv'
<1> SUFFICES ASSUME NEW r \in Request, NEW t \in GravityText, ListsIInv, RemoveGravity(r, t) PROVE ListsIInv'
  OBVIOUS
<1>1. ListsTypeOK /\ ListsInv /\ Accept(r) /\ t \in Text /\ "gravity" \in Listing /\ FALSE \in BOOLEAN
  BY ListsAssumption DEF ListsIInv, RemoveGravity, Listing
<1> DEFINE x == Lower(t)
           wrong == \/ t.wild \/ t.spelled = "mixed"
                    \/ \E s \in gravity' : ~s.wild /\ s.name = t.name
                    \/ Crossing(r, "gravity", FALSE, t)
<1>2. /\ gravity' = gravity \ {t}
      /\ request' = [request EXCEPT ![r] = Written("gravity", FALSE, t)]
      /\ UNCHANGED <<rows, lists, loader, reloads, missed>>
      /\ doubt' = doubt \cup (IF wrong THEN Touches(t) ELSE {})
  BY DEF RemoveGravity, Reply, Doubtful
<1>3. /\ x \in LowerText /\ x.name = t.name /\ t.name \in Name /\ t.wild \in BOOLEAN
      /\ Touches(t) \subseteq Name /\ t.name \in Touches(t)
      /\ t.spelled \in {"lower", "mixed"}
  BY <1>1, Texts, Touching DEF Text, Spelling
<1>4. ListsTypeOK' /\ Tidy'
  BY <1>1, <1>2, <1>3, Accepted, RestChanged DEF ListsTypeOK
<1>5. /\ \A other \in Listing \ {"gravity"} : Stored(other)' = Stored(other)
      /\ t.wild => /\ Stored("gravity")' = Stored("gravity")
                   /\ \A w \in Name \ {t.name} : w \in StoredWild' <=> w \in StoredWild
      /\ ~t.wild => /\ \A y \in LowerText \ {x} : y \in Stored("gravity")' <=> y \in Stored("gravity")
                    /\ StoredWild' = StoredWild /\ WildRows' = WildRows
  BY <1>2 DEF Stored, StoredWild, WildRows
<1>6. ASSUME ~wrong PROVE x \notin Stored("gravity")'
  <2>1. \A s \in gravity' : ~s.wild => Lower(s).name # x.name
    BY <1>1, <1>2, <1>3, <1>6, Texts DEF ListsTypeOK
  <2> QED  BY <2>1 DEF Stored
<1>7. /\ \A p \in Request : ChangeRight(p)'
      /\ CopyRight' /\ TotalRight'
      /\ \A l \in Loader : LoadRight(l)'
  <2>1. \A other \in Listing, y \in LowerText :
          other # "gravity" \/ y # Lower(t) => (y \in Stored(other)' <=> y \in Stored(other))
    BY <1>3, <1>5
  <2>2. t.name \notin doubt' =>
          /\ FALSE <=> Lower(t) \in Stored("gravity")'
          /\ ~FALSE => t.spelled = "lower"
          /\ ~Crossing(r, "gravity", FALSE, t)
    BY <1>2, <1>3, <1>6
  <2>3. ~Pending(r) /\ doubt \subseteq doubt'
    BY <1>1, <1>2, Accepted
  <2>4. /\ \A w \in Name : ~("gravity" = "gravity" /\ t.wild /\ w = t.name) =>
              (w \in StoredWild' <=> w \in StoredWild)
        /\ ~("gravity" = "gravity" /\ t.wild) => UNCHANGED WildRows
        /\ "gravity" = "gravity" /\ t.wild => Touches(t) \subseteq doubt'
    BY <1>2, <1>3, <1>5
  <2> HIDE DEF x, wrong
  <2> QED  BY <1>1, <1>2, <2>1, <2>2, <2>3, <2>4, Changed
<1>8. RowsFinite'
  BY <1>1, <1>2, FS_RemoveElement DEF ListsInv, RowsFinite
<1>9. Numbered'
  <2>1. \A p \in Request : request'[p] = request[p] \/ request'[p].pc # "remove"
    BY <1>1, <1>2, DeltaReplies
  <2>2. changes' \in Nat /\ changes' >= changes /\ rows' \subseteq rows
    BY <1>1, <1>2, Accepted
  <2>3. Numbered
    BY <1>1 DEF ListsInv
  <2> QED  BY <1>1, <2>1, <2>2, <2>3, NumberedKept
<1> QED  BY <1>4, <1>7, <1>8, <1>9 DEF ListsIInv, ListsInv

\* What Unseen does.
LEMMA UnseenTyped ==
  ASSUME ListsTypeOK, NEW names \in SUBSET Name, Unseen(names)
  PROVE  /\ missed' \in [Loader -> SUBSET Name] /\ doubt' \in SUBSET Name
         /\ doubt' = doubt \cup names
         /\ \A l \in Reading : missed'[l] = missed[l] \cup names
BY DEF ListsTypeOK, Unseen, Reading

LEMMA StepRemoveListed == \A r \in Request : ListsIInv /\ RemoveListed(r) => ListsIInv'
<1> SUFFICES ASSUME NEW r \in Request, ListsIInv, RemoveListed(r) PROVE ListsIInv'
  OBVIOUS
<1> DEFINE gone == {row \in rows : row.id = request[r].id}
<1>1. ListsTypeOK /\ ListsInv /\ request[r].pc = "remove" /\ request[r] \in Removal /\ ~Pending(r)
  BY RequestTypes DEF ListsIInv, RemoveListed, Pending
<1>2. PICK kind \in Kind : request[r].list = kind
  BY <1>1 DEF Removal
<1>3. kind \in Listing /\ kind # "gravity" /\ request[r].row \subseteq RowType
  BY <1>1 DEF Removal, Listing, Kind
<1>4. rows' = rows \ gone /\ UNCHANGED <<gravity, lists, loader, changes, reloads>>
  BY DEF RemoveListed
<1>5. rows' \subseteq rows /\ rows' \in SUBSET RowType /\ changes \in Nat /\ gone \subseteq RowType
  BY <1>1, <1>4, ListsAssumption DEF ListsTypeOK
<1>6. RowsFinite'
  BY <1>1, <1>4, <1>5, FS_Subset DEF ListsInv, RowsFinite
<1>7. \A other \in Listing : other = "gravity" => Stored(other)' = Stored(other)
  BY <1>4 DEF Stored
<1>8. StoredWild' = StoredWild /\ WildRows' = WildRows
  BY <1>4 DEF StoredWild, WildRows
<1>9. CASE request[r].row = {}
  <2> DEFINE names == {row.text.name : row \in gone}
  <2>1. request' = [request EXCEPT ![r] = Free] /\ Unseen(names)
    BY <1>9 DEF RemoveListed, Reply
  <2>2. names \in SUBSET Name
    BY <1>5, Texts DEF RowType
  <2>3. ListsTypeOK'
    BY <1>1, <1>4, <1>5, <2>1, <2>2, UnseenTyped DEF ListsTypeOK
  <2>4. SameChanges /\ LoadersKept
    BY <1>1, <1>4, <2>1 DEF SameChanges, LoadersKept, Pending, ListsTypeOK, Free
  <2>5. \A list \in Listing, x \in LowerText :
          x.name \notin names => (x \in Stored(list)' <=> x \in Stored(list))
    <3> TAKE list \in Listing, x \in LowerText
    <3> SUFFICES ASSUME x.name \notin names, list # "gravity"
                 PROVE  x \in Stored(list)' <=> x \in Stored(list)
      BY <1>7
    <3>1. \A row \in gone : Lower(row.text) # x
      BY <1>5, Texts DEF RowType
    <3> QED  BY <1>4, <3>1 DEF Stored
  <2>6. /\ \A p \in Request : ChangeRight(p)'
        /\ CopyRight' /\ TotalRight'
        /\ \A l \in Loader : LoadRight(l)'
    <3>1. /\ doubt' = doubt \cup names
          /\ \A l \in Reading : missed'[l] = missed[l] \cup names
      BY <1>1, <2>1, <2>2, UnseenTyped
    <3>2. /\ \A w \in Name :
               ~(Touches(Wildcard(w)) \subseteq names) => (w \in StoredWild' <=> w \in StoredWild)
          /\ names = {} => UNCHANGED WildRows
          /\ UNCHANGED lists
      BY <1>4, <1>8
    <3> HIDE DEF names, gone
    <3> QED  BY <1>1, <2>2, <2>4, <2>5, <3>1, <3>2, Aside
  <2>7. Numbered'
    <3>1. \A p \in Request : request'[p] = request[p] \/ request'[p].pc # "remove"
      BY <1>1, <2>1 DEF ListsTypeOK, Free
    <3>2. changes' \in Nat /\ changes' >= changes /\ Numbered
      BY <1>1, <1>4, <1>5 DEF ListsInv
    <3> QED  BY <1>1, <1>5, <3>1, <3>2, NumberedKept
  <2>8. Tidy'
    BY <1>1, <1>4, <2>4, TidyKept DEF ListsInv
  <2> QED  BY <1>6, <2>3, <2>6, <2>7, <2>8 DEF ListsIInv, ListsInv
<1>10. CASE request[r].row # {}
  <2> DEFINE Wrong(row) == \/ row.text.spelled = "mixed"
                           \/ \E s \in rows' : s.kind = kind /\ Lower(s.text) = Lower(row.text)
                           \/ Crossing(r, kind, FALSE, row.text)
  <2>1. PICK row \in request[r].row :
          /\ request' = [request EXCEPT ![r] = Written(kind, FALSE, row.text)]
          /\ doubt' = doubt \cup (IF Wrong(row) THEN {row.text.name} ELSE {})
          /\ UNCHANGED missed
    BY <1>2, <1>10 DEF RemoveListed, Reply, Doubtful
  <2>2. row \in RowType /\ row.kind = kind /\ \A s \in gone : s = row
    <3>1. row.id = request[r].id /\ row.kind = kind /\ \A s \in rows : s.id = row.id => s = row
      BY <1>1, <1>2, <2>1 DEF ListsInv, Numbered
    <3> QED  BY <1>2, <1>3, <2>1, <3>1
  <2> DEFINE t == row.text
             x == Lower(row.text)
  <2>3. /\ t \in Text /\ x \in LowerText /\ t.name \in Name /\ t.spelled \in {"lower", "mixed"}
        /\ FALSE \in BOOLEAN
    BY <2>2, Texts DEF RowType, Text, Spelling
  <2>4. ListsTypeOK' /\ Tidy'
    BY <1>1, <1>2, <1>3, <1>4, <1>5, <2>1, <2>3, RestChanged DEF ListsTypeOK
  <2>5. \A other \in Listing, y \in LowerText :
          other # kind \/ y # x => (y \in Stored(other)' <=> y \in Stored(other))
    <3> TAKE other \in Listing, y \in LowerText
    <3> SUFFICES ASSUME other # kind \/ y # x, other # "gravity"
                 PROVE  y \in Stored(other)' <=> y \in Stored(other)
      BY <1>7
    <3>1. \A s \in gone : ~(s.kind = other /\ Lower(s.text) = y)
      BY <2>2
    <3>2. \A s : s \in rows' <=> s \in rows /\ s \notin gone
      BY <1>4
    <3> QED  BY <3>1, <3>2 DEF Stored
  <2>6. ~Wrong(row) => x \notin Stored(kind)'
    BY <1>2, <1>3 DEF Stored
  <2>7. /\ \A p \in Request : ChangeRight(p)'
        /\ CopyRight' /\ TotalRight'
        /\ \A l \in Loader : LoadRight(l)'
    <3>1. t.name \notin doubt' =>
            /\ FALSE <=> Lower(t) \in Stored(kind)'
            /\ ~FALSE => t.spelled = "lower"
            /\ ~Crossing(r, kind, FALSE, t)
      BY <2>1, <2>3, <2>6
    <3>2. /\ \A w \in Name : ~(kind = "gravity" /\ t.wild /\ w = t.name) =>
                (w \in StoredWild' <=> w \in StoredWild)
          /\ ~(kind = "gravity" /\ t.wild) => UNCHANGED WildRows
          /\ kind = "gravity" /\ t.wild => Touches(t) \subseteq doubt'
      BY <1>2, <1>3, <1>8
    <3>3. doubt \subseteq doubt' /\ UNCHANGED <<lists, loader, missed>>
      BY <1>4, <2>1
    <3>4. request' = [request EXCEPT ![r] = Written(kind, FALSE, t)]
      BY <2>1
    <3>5. \A other \in Listing, y \in LowerText :
          other # kind \/ y # Lower(t) => (y \in Stored(other)' <=> y \in Stored(other))
      BY <2>5
    <3> HIDE DEF t, x, Wrong, gone
    <3> QED  BY <1>1, <1>2, <1>3, <2>3, <3>1, <3>2, <3>3, <3>4, <3>5, Changed
  <2>8. Numbered'
    <3>1. \A p \in Request : request'[p] = request[p] \/ request'[p].pc # "remove"
      <4>1. request' = [request EXCEPT ![r] = Written(kind, FALSE, t)]
        BY <2>1
      <4> HIDE DEF t
      <4> QED  BY <1>1, <1>3, <2>3, <4>1, DeltaReplies
    <3>2. changes' \in Nat /\ changes' >= changes /\ Numbered
      BY <1>1, <1>4, <1>5 DEF ListsInv
    <3> QED  BY <1>1, <1>5, <3>1, <3>2, NumberedKept
  <2> QED  BY <1>6, <2>4, <2>7, <2>8 DEF ListsIInv, ListsInv
<1> QED  BY <1>9, <1>10

\* An import: what it adds and removes is what it tells of.
LEMMA Imported ==
  ASSUME ListsIInv, NEW published \in Published, Import(published), SameChanges, LoadersKept,
         UNCHANGED <<rows, lists, changes, reloads>>,
         \A r \in Request : request'[r] = request[r] \/ request'[r].pc # "remove"
  PROVE  /\ gravity' \subseteq Text /\ ListsInv'
         /\ missed' \in [Loader -> SUBSET Name] /\ doubt' \in SUBSET Name
<1> DEFINE imported == {Lower(t) : t \in published}
           differing == (gravity \ imported) \cup (imported \ gravity)
           names == UNION {Touches(t) : t \in differing}
<1>1. /\ ListsTypeOK /\ ListsInv /\ gravity \subseteq Text /\ gravity' = imported /\ Unseen(names)
      /\ published \subseteq Text /\ IsFiniteSet(published)
  BY ListsAssumption DEF ListsIInv, ListsTypeOK, Import
<1>2. imported \subseteq Text /\ IsFiniteSet(imported)
  <2>1. imported \subseteq Text
    BY <1>1, Texts
  <2> DEFINE f == [t \in published |-> Lower(t)]
  <2>2. imported = {f[t] : t \in published}
    OBVIOUS
  <2> HIDE DEF f, imported
  <2> QED  BY <1>1, <2>1, <2>2, FiniteImage
<1>3. differing \subseteq Text /\ \A t \in gravity \cup imported : t \in differing \/ (t \in gravity /\ t \in imported)
  BY <1>1, <1>2
<1>4. names \in SUBSET Name
  BY <1>3, Touching
<1>5. /\ missed' \in [Loader -> SUBSET Name] /\ doubt' \in SUBSET Name
      /\ doubt' = doubt \cup names
      /\ \A l \in Reading : missed'[l] = missed[l] \cup names
  BY <1>1, <1>4, UnseenTyped
<1>6. ASSUME NEW t \in Text, t \in gravity \cup imported, ~(Touches(t) \subseteq names)
      PROVE  t \in gravity /\ t \in imported
  BY <1>3, <1>6
<1>7. \A list \in Listing, x \in LowerText :
        x.name \notin names => (x \in Stored(list)' <=> x \in Stored(list))
  <2> TAKE list \in Listing, x \in LowerText
  <2> SUFFICES ASSUME x.name \notin names PROVE x \in Stored(list)' <=> x \in Stored(list)
    OBVIOUS
  <2>1. CASE list # "gravity"
    BY <2>1 DEF Stored
  <2>2. CASE list = "gravity"
    <3>1. ASSUME NEW t \in gravity \cup imported, Lower(t) = x PROVE t \in gravity /\ t \in imported
      <4>1. t \in Text /\ t.name \in Touches(t) /\ t.name = x.name
        BY <1>1, <1>2, <3>1, Texts, Touching
      <4> QED  BY <1>6, <4>1
    <3> HIDE DEF imported, names
    <3> QED  BY <1>1, <2>2, <3>1 DEF Stored
  <2> QED  BY <2>1, <2>2
<1>8. \A w \in Name :
        ~(Touches(Wildcard(w)) \subseteq names) => (w \in StoredWild' <=> w \in StoredWild)
  <2> TAKE w \in Name
  <2> SUFFICES ASSUME ~(Touches(Wildcard(w)) \subseteq names) PROVE w \in StoredWild' <=> w \in StoredWild
    OBVIOUS
  <2>1. ASSUME NEW t \in gravity \cup imported, t.wild, t.name = w PROVE t \in gravity /\ t \in imported
    <3>1. t \in Text /\ Touches(t) = Touches(Wildcard(w))
      BY <1>1, <1>2, <2>1, Touching
    <3> QED  BY <1>6, <3>1
  <2> HIDE DEF imported, names
  <2> QED  BY <1>1, <2>1 DEF StoredWild, WildRows
<1>9. names = {} => UNCHANGED WildRows
  <2>1. ASSUME names = {} PROVE gravity' = gravity
    <3>1. \A t \in gravity \cup imported : t \in Text /\ t.name \in Touches(t)
      BY <1>1, <1>2, Touching
    <3>2. \A t \in gravity \cup imported : ~(Touches(t) \subseteq names)
      BY <2>1, <3>1
    <3>3. \A t \in gravity \cup imported : t \in gravity /\ t \in imported
      BY <1>6, <3>1, <3>2
    <3> HIDE DEF imported, names
    <3> QED  BY <1>1, <3>3
  <2> QED  BY <2>1 DEF WildRows
<1>10. /\ \A r \in Request : ChangeRight(r)'
       /\ CopyRight' /\ TotalRight'
       /\ \A l \in Loader : LoadRight(l)'
  <2>1. UNCHANGED lists
    OBVIOUS
  <2> HIDE DEF imported, names, differing
  <2> QED  BY <1>1, <1>4, <1>5, <1>7, <1>8, <1>9, <2>1, Aside
<1>11. RowsFinite' /\ Tidy'
  <2> HIDE DEF imported
  <2> QED  BY <1>1, <1>2, TidyKept DEF ListsInv, RowsFinite
<1>12. Numbered'
  BY <1>1, NumberedKept, ListsAssumption DEF ListsInv, ListsTypeOK
<1> QED  BY <1>1, <1>2, <1>5, <1>10, <1>11, <1>12 DEF ListsInv

LEMMA StepRefreshImports ==
  \A r \in Request, published \in Published : ListsIInv /\ RefreshImports(r, published) => ListsIInv'
<1> SUFFICES ASSUME NEW r \in Request, NEW published \in Published, ListsIInv, RefreshImports(r, published)
             PROVE  ListsIInv'
  OBVIOUS
<1>1. ListsTypeOK /\ request[r].pc = "refresh" /\ request' = [request EXCEPT ![r] = Free]
  BY DEF ListsIInv, RefreshImports, Reply
<1>2. SameChanges /\ LoadersKept
  BY <1>1 DEF RefreshImports, SameChanges, LoadersKept, Pending, ListsTypeOK, Free
<1>3. \A p \in Request : request'[p] = request[p] \/ request'[p].pc # "remove"
  BY <1>1 DEF ListsTypeOK, Free
<1>4. /\ gravity' \subseteq Text /\ ListsInv'
      /\ missed' \in [Loader -> SUBSET Name] /\ doubt' \in SUBSET Name
  BY <1>2, <1>3, Imported DEF RefreshImports
<1>5. ListsTypeOK'
  BY <1>1, <1>4 DEF ListsTypeOK, RefreshImports
<1> QED  BY <1>4, <1>5 DEF ListsIInv

LEMMA StepFetch == \A published \in Published : ListsIInv /\ Fetch(published) => ListsIInv'
<1> SUFFICES ASSUME NEW published \in Published, ListsIInv, Fetch(published) PROVE ListsIInv'
  OBVIOUS
<1>1. ListsTypeOK /\ "fetcher" \in Loader /\ loader' = [loader EXCEPT !["fetcher"] = BeginLoad]
  BY DEF ListsIInv, Fetch, At, Loader
<1>2. SameChanges /\ LoadersKept
  BY <1>1 DEF Fetch, SameChanges, LoadersKept, Pending, ListsTypeOK, BeginLoad
<1>3. /\ gravity' \subseteq Text /\ ListsInv'
      /\ missed' \in [Loader -> SUBSET Name] /\ doubt' \in SUBSET Name
  BY <1>2, Imported DEF Fetch
<1>4. ListsTypeOK'
  BY <1>1, <1>3, EmptyNeat DEF ListsTypeOK, Fetch, BeginLoad
<1> QED  BY <1>3, <1>4 DEF ListsIInv

\* A change ends, in the copy or with its handler: the loads that do not have it
\* are told, and the other changes stay as they were.
LEMMA ChangeEnds ==
  ASSUME ListsIInv, NEW r \in Request, Pending(r), LoadsMiss(r),
         request' = [request EXCEPT ![r] = Free], UNCHANGED <<rows, gravity, loader, changes>>,
         doubt \subseteq doubt'
  PROVE  /\ RowsFinite' /\ Numbered'
         /\ \A p \in Request : ChangeRight(p)'
         /\ \A l \in Loader : LoadRight(l)'
         /\ \A other \in Listing, y \in LowerText :
              ~(other = request[r].list /\ y = Lower(request[r].text)) => ChangesOf(other, y)' = ChangesOf(other, y)
         /\ \A l \in Loader :
              loader[l].pc = "swap" /\ missed'[l] = {}
                /\ (\A p \in Request : Pending(p)' /\ request'[p].list = "gravity" /\ request'[p].text.wild =>
                      l \notin request'[p].during) =>
              loader[l].new.total = Total(loader[l].new)
         /\ missed' \in [Loader -> SUBSET Name]
         /\ request' \in [Request -> {Free} \cup DeltaType \cup Removal \cup [pc : {"refresh"}]]
<1>1. ListsTypeOK /\ ListsInv /\ request[r] \in DeltaType
  BY RequestTypes DEF ListsIInv
<1>2. PICK list \in Listing, add \in BOOLEAN, t \in Text, during \in SUBSET Loader :
        request[r] = [pc |-> "written", list |-> list, add |-> add, text |-> t, during |-> during]
  BY <1>1 DEF DeltaType
<1> DEFINE x == Lower(t)
           behind == Touches(t)
<1>3. /\ request[r].list = list /\ request[r].text = t /\ request[r].during = during
      /\ missed' = [l \in Loader |-> IF l \in during THEN missed[l] \cup behind ELSE missed[l]]
  BY <1>2 DEF LoadsMiss
<1>4. /\ x \in LowerText /\ x.name = t.name /\ t.name \in Name /\ t.wild \in BOOLEAN
      /\ t.name \in Touches(t) /\ Touches(t) \subseteq Name
      /\ t.wild => Touches(t) = Touches(Wildcard(t.name))
  BY Texts, Touching
<1>5. /\ TotalRight
      /\ missed \in [Loader -> SUBSET Name] /\ request \in [Request -> {Free} \cup DeltaType \cup Removal \cup [pc : {"refresh"}]]
  BY <1>1 DEF ListsTypeOK, ListsInv, Removal
<1>6. /\ missed' \in [Loader -> SUBSET Name]
      /\ request' \in [Request -> {Free} \cup DeltaType \cup Removal \cup [pc : {"refresh"}]]
  BY <1>3, <1>4, <1>5
<1>7. /\ \A other \in Listing : Stored(other)' = Stored(other)
      /\ StoredWild' = StoredWild /\ WildRows' = WildRows
  BY DEF Stored, StoredWild, WildRows
<1>8. /\ ~Pending(r)' /\ \A p \in Request \ {r} : request'[p] = request[p] /\ (Pending(p)' <=> Pending(p))
      /\ \A p \in Request : request'[p] = request[p] \/ request'[p].pc # "remove"
  BY <1>5 DEF Pending, Free
<1>10. RowsFinite'
  BY <1>1 DEF ListsInv, RowsFinite
<1>11. Numbered'
  BY <1>1, <1>8, NumberedKept, ListsAssumption DEF ListsInv, ListsTypeOK
<1>12. ASSUME NEW other \in Listing, NEW y \in LowerText, ~(other = list /\ y = x)
       PROVE  ChangesOf(other, y)' = ChangesOf(other, y)
  BY <1>3, <1>8, <1>12 DEF ChangesOf
<1>13. ASSUME NEW p \in Request PROVE ChangeRight(p)'
  <2>1. ChangeRight(p)
    BY <1>1 DEF ListsInv
  <2>2. CASE p = r
    BY <1>8, <2>2 DEF ChangeRight
  <2>3. CASE p # r /\ Pending(p)
    <3>1. request'[p] = request[p] /\ request[p].list \in Listing
      BY <1>1, <1>8, <2>3, RequestTypes DEF DeltaType
    <3> QED  BY <1>7, <2>1, <2>3, <3>1 DEF ChangeRight
  <2>4. CASE p # r /\ ~Pending(p)
    BY <1>8, <2>4 DEF ChangeRight
  <2> QED  BY <2>2, <2>3, <2>4
<1>14. ASSUME NEW l \in Loader PROVE LoadRight(l)'
  <2>1. LoadRight(l)
    BY <1>1 DEF ListsInv
  <2>2. /\ missed[l] \subseteq missed'[l]
        /\ l \in during => behind \subseteq missed'[l]
    BY <1>3, <1>5
  <2>3. ASSUME NEW other \in ReadBy(loader[l].pc), NEW y \in LowerText, y.name \notin missed'[l],
               \A p \in ChangesOf(other, y)' : l \notin request'[p].during
        PROVE  y \in loader[l].new[Field(other)] <=> y \in Stored(other)
    <3>1. y.name \notin missed[l] /\ (l \in during => y # x)
      BY <1>4, <2>2, <2>3
    <3>2. \A p \in ChangesOf(other, y) : l \notin request[p].during
      BY <1>3, <1>8, <2>3, <3>1 DEF ChangesOf
    <3> QED  BY <2>1, <2>3, <3>1, <3>2 DEF LoadRight
  <2>4. ASSUME loader[l].pc = "swap", NEW w \in Name, ~(Touches(Wildcard(w)) \subseteq missed'[l]),
               \A p \in WildChanges(w)' : l \notin request'[p].during
        PROVE  w \in loader[l].new.wild <=> w \in StoredWild
    <3>1. ~(Touches(Wildcard(w)) \subseteq missed[l]) /\ (l \in during => ~(t.wild /\ t.name = w))
      BY <1>4, <2>2, <2>4
    <3>2. \A p \in WildChanges(w) : l \notin request[p].during
      BY <1>3, <1>8, <2>4, <3>1 DEF WildChanges
    <3> QED  BY <2>1, <2>4, <3>1, <3>2 DEF LoadRight
  <2>5. ReadBy(loader[l].pc) \subseteq Listing
    BY ReadByPc
  <2> QED  BY <1>7, <2>3, <2>4, <2>5 DEF LoadRight
<1>15. ASSUME NEW l \in Loader, loader[l].pc = "swap", missed'[l] = {},
              \A p \in Request : Pending(p)' /\ request'[p].list = "gravity" /\ request'[p].text.wild =>
                 l \notin request'[p].during
       PROVE  loader[l].new.total = Total(loader[l].new)
  <2>1. l \notin during /\ missed[l] = {}
    BY <1>3, <1>4, <1>5, <1>15
  <2>2. \A p \in Request : Pending(p) /\ request[p].list = "gravity" /\ request[p].text.wild =>
          l \notin request[p].during
    BY <1>3, <1>8, <1>15, <2>1
  <2> QED  BY <1>5, <1>15, <2>1, <2>2 DEF TotalRight
<1> QED  BY <1>3, <1>6, <1>10, <1>11, <1>12, <1>13, <1>14, <1>15

LEMMA StepApplyDelta == \A r \in Request : ListsIInv /\ ApplyDelta(r) => ListsIInv'
<1> SUFFICES ASSUME NEW r \in Request, ListsIInv, ApplyDelta(r) PROVE ListsIInv'
  OBVIOUS
<1>1. ListsTypeOK /\ ListsInv /\ Pending(r) /\ request[r] \in DeltaType
  BY RequestTypes DEF ListsIInv, ApplyDelta, Pending
<1>2. PICK list \in Listing, add \in BOOLEAN, t \in Text, during \in SUBSET Loader :
        request[r] = [pc |-> "written", list |-> list, add |-> add, text |-> t, during |-> during]
  BY <1>1 DEF DeltaType, ApplyDelta
<1> DEFINE x == Lower(t)
           taken == WithDelta(lists, list, add, t)
<1>3. /\ lists' = taken /\ LoadsMiss(r)
      /\ request' = [request EXCEPT ![r] = Free]
      /\ UNCHANGED <<rows, gravity, loader, changes, reloads, doubt>>
      /\ request[r].list = list /\ request[r].text = t /\ request[r].add = add
  <2>1. /\ request[r].list = list /\ request[r].add = add
        /\ request[r].text = t
    BY <1>2
  <2> QED  BY <2>1 DEF ApplyDelta, Reply
<1>4. x \in LowerText /\ x.name = t.name
  BY Texts
<1>5. /\ lists \in ListsType /\ Neat(lists) /\ RowsFinite /\ CopyRight /\ TotalRight /\ ChangeRight(r)
  BY <1>1 DEF ListsTypeOK, ListsInv, Tidy
<1>6. /\ taken \in ListsType /\ Neat(taken) /\ taken.wild = lists.wild
      /\ taken[Field(list)] = IF add THEN lists[Field(list)] \cup {x} ELSE lists[Field(list)] \ {t}
      /\ \A other \in Listing \ {list} : taken[Field(other)] = lists[Field(other)]
  <2>1. Taken(lists, taken, list, add, t)
    BY <1>5, DeltaTaken
  <2> HIDE DEF taken
  <2> QED  BY <2>1 DEF Taken
<1>7. /\ \A other \in Listing : Stored(other)' = Stored(other)
      /\ StoredWild' = StoredWild /\ WildRows' = WildRows
  BY <1>3 DEF Stored, StoredWild, WildRows
<1> HIDE DEF taken
<1>8. /\ RowsFinite' /\ Numbered'
      /\ \A p \in Request : ChangeRight(p)'
      /\ \A l \in Loader : LoadRight(l)'
      /\ \A other \in Listing, y \in LowerText :
           ~(other = list /\ y = x) => ChangesOf(other, y)' = ChangesOf(other, y)
      /\ \A l \in Loader :
           loader[l].pc = "swap" /\ missed'[l] = {}
             /\ (\A p \in Request : Pending(p)' /\ request'[p].list = "gravity" /\ request'[p].text.wild =>
                   l \notin request'[p].during) =>
           loader[l].new.total = Total(loader[l].new)
      /\ missed' \in [Loader -> SUBSET Name]
      /\ request' \in [Request -> {Free} \cup DeltaType \cup Removal \cup [pc : {"refresh"}]]
  BY <1>1, <1>3, ChangeEnds
<1>9. ListsTypeOK'
  BY <1>1, <1>3, <1>6, <1>8 DEF ListsTypeOK, Removal
<1>10. Tidy'
  BY <1>1, <1>3, <1>6 DEF ListsInv, Tidy, Neat
<1>11. CopyRight'
  <2>1. ASSUME NEW other \in Listing, NEW y \in LowerText, y.name \notin doubt, ChangesOf(other, y)' = {}
        PROVE  y \in taken[Field(other)] <=> y \in Stored(other)
    <3>1. CASE other = list /\ y = x
      <4>1. /\ add <=> x \in Stored(list)
            /\ ~add => t.spelled = "lower"
        BY <1>1, <1>3, <1>4, <1>5, <2>1, <3>1 DEF ChangeRight
      <4>2. ~add => t = x
        BY <4>1, Texts
      <4> HIDE DEF x
      <4> QED  BY <1>6, <3>1, <4>1, <4>2
    <3>2. CASE ~(other = list /\ y = x)
      <4>1. ChangesOf(other, y) = {}
        BY <1>8, <2>1, <3>2
      <4>2. y \in taken[Field(other)] <=> y \in lists[Field(other)]
        <5>1. CASE other # list
          BY <1>6, <5>1
        <5>2. CASE other = list
          <6>1. y # t
            BY <3>2, <5>2, Texts DEF LowerText
          <6> HIDE DEF x
          <6> QED  BY <1>6, <3>2, <5>2, <6>1
        <5> QED  BY <5>1, <5>2
      <4> QED  BY <1>5, <2>1, <4>1, <4>2 DEF CopyRight
    <3> QED  BY <3>1, <3>2
  <2> QED  BY <1>3, <1>5, <1>6, <1>7, <2>1 DEF CopyRight
<1>12. TotalRight'
  <2>1. doubt = {} => taken.total = Total(taken)
    BY <1>5, DeltaCounted DEF TotalRight, taken
  <2> QED  BY <1>3, <1>7, <1>8, <2>1 DEF TotalRight, Total
<1> QED  BY <1>8, <1>9, <1>10, <1>11, <1>12 DEF ListsIInv, ListsInv

LEMMA StepClientGone == \A r \in Request : ListsIInv /\ ClientGone(r) => ListsIInv'
<1> SUFFICES ASSUME NEW r \in Request, ListsIInv, ClientGone(r) PROVE ListsIInv'
  OBVIOUS
<1>1. /\ ListsTypeOK /\ ListsInv
      /\ request' = [request EXCEPT ![r] = Free]
      /\ UNCHANGED <<rows, gravity, lists, loader, changes, reloads>>
  BY DEF ListsIInv, ClientGone, Reply
<1>2. LoadersKept
  BY <1>1 DEF LoadersKept
<1>3. CASE request[r].pc = "remove" /\ UNCHANGED history
  <2>1. ListsTypeOK'
    BY <1>1, <1>3 DEF ListsTypeOK, history
  <2>2. SameChanges
    BY <1>1, <1>3 DEF SameChanges, Pending, ListsTypeOK, Free
  <2>3. \A p \in Request : request'[p] = request[p] \/ request'[p].pc # "remove"
    BY <1>1 DEF ListsTypeOK, Free
  <2>4. Numbered'
    BY <1>1, <2>3, NumberedKept, ListsAssumption DEF ListsInv, ListsTypeOK
  <2> QED  BY <1>1, <1>2, <1>3, <2>1, <2>2, <2>4, NothingStored DEF ListsIInv
<1>4. CASE Pending(r) /\ LoadsMiss(r) /\ doubt' = doubt \cup Touches(request[r].text)
  <2>1. Pending(r) /\ request[r] \in DeltaType
    BY <1>1, <1>4, RequestTypes DEF Pending
  <2>2. PICK t \in Text : request[r].text = t
    BY <2>1 DEF DeltaType
  <2>3. /\ Lower(t).name = t.name /\ t.name \in Name
        /\ t.name \in Touches(t) /\ Touches(t) \subseteq Name
    BY Texts, Touching
  <2>4. /\ RowsFinite' /\ Numbered'
        /\ \A p \in Request : ChangeRight(p)'
        /\ \A l \in Loader : LoadRight(l)'
        /\ \A other \in Listing, y \in LowerText :
             ~(other = request[r].list /\ y = Lower(t)) => ChangesOf(other, y)' = ChangesOf(other, y)
        /\ \A l \in Loader :
             loader[l].pc = "swap" /\ missed'[l] = {}
               /\ (\A p \in Request : Pending(p)' /\ request'[p].list = "gravity" /\ request'[p].text.wild =>
                     l \notin request'[p].during) =>
             loader[l].new.total = Total(loader[l].new)
        /\ missed' \in [Loader -> SUBSET Name]
        /\ request' \in [Request -> {Free} \cup DeltaType \cup Removal \cup [pc : {"refresh"}]]
    BY <1>1, <1>4, <2>1, <2>2, ChangeEnds
  <2>5. ListsTypeOK'
    BY <1>1, <1>4, <2>2, <2>3, <2>4 DEF ListsTypeOK, Removal
  <2>6. /\ \A other \in Listing : Stored(other)' = Stored(other)
        /\ StoredWild' = StoredWild /\ WildRows' = WildRows
    BY <1>1 DEF Stored, StoredWild, WildRows
  <2>7. CopyRight'
    <3>1. CopyRight
      BY <1>1 DEF ListsInv
    <3>2. ASSUME NEW other \in Listing, NEW y \in LowerText, y.name \notin doubt', ChangesOf(other, y)' = {}
          PROVE  y \in lists[Field(other)] <=> y \in Stored(other)
      <4>1. y.name \notin doubt /\ y # Lower(t)
        BY <1>4, <2>2, <2>3, <3>2
      <4>2. ChangesOf(other, y) = {}
        BY <2>4, <3>2, <4>1
      <4> QED  BY <3>1, <4>1, <4>2 DEF CopyRight
    <3>3. \A w \in Name : ~(Touches(Wildcard(w)) \subseteq doubt') => (w \in lists.wild <=> w \in StoredWild)
      BY <1>4, <3>1 DEF CopyRight
    <3> QED  BY <1>1, <2>6, <3>2, <3>3 DEF CopyRight
  <2>8. TotalRight'
    <3>1. doubt' # {}
      BY <1>4, <2>2, <2>3
    <3> QED  BY <1>1, <2>4, <2>6, <3>1 DEF TotalRight, Total
  <2>9. Tidy'
    BY <1>1, <1>2, TidyKept DEF ListsInv
  <2> QED  BY <2>4, <2>5, <2>7, <2>8, <2>9 DEF ListsIInv, ListsInv
<1> QED  BY <1>3, <1>4 DEF ClientGone

LEMMA StepLoadStep == \A l \in Loader : ListsIInv /\ LoadStep(l) => ListsIInv'
<1> SUFFICES ASSUME NEW l \in Loader, ListsIInv, LoadStep(l) PROVE ListsIInv'
  OBVIOUS
<1>1. ListsTypeOK /\ ListsInv /\ RowsFinite /\ loader[l] \in Loading
  BY LoaderTypes DEF ListsIInv, LoadStep, ListsInv
<1>2. UNCHANGED <<rows, gravity, lists, request, changes, reloads, missed, doubt>>
  BY DEF LoadStep, history
<1>3. PICK pc \in {"allow", "deny", "gravity"}, old \in ListsType : loader[l] = [pc |-> pc, new |-> old]
  BY <1>1 DEF LoadStep, Loading
<1>4. Neat(old)
  BY <1>1, <1>3 DEF ListsInv, Tidy
<1>5. PICK next \in {"deny", "gravity", "swap"}, new \in ListsType :
        /\ loader' = [loader EXCEPT ![l] = [pc |-> next, new |-> new]]
        /\ Neat(new)
        /\ next = "deny" => new.allow = Stored("allow") /\ pc = "allow"
        /\ next = "gravity" => new.allow = old.allow /\ new.deny = Stored("deny") /\ pc = "deny"
        /\ next = "swap" => /\ pc = "gravity" /\ new.allow = old.allow /\ new.deny = old.deny
                            /\ new.exact = Stored("gravity") /\ new.wild = StoredWild
                            /\ new.total = Total(new)
  <2>1. loader[l].pc = pc /\ loader[l].new = old
    BY <1>3
  <2>2. CASE pc = "allow"
    <3>1. loader' = [loader EXCEPT ![l] = [pc |-> "deny", new |-> LoadAllow(old)]]
      BY <2>1, <2>2 DEF LoadStep, At
    <3>2. /\ LoadAllow(old) \in ListsType /\ Neat(LoadAllow(old))
          /\ LoadAllow(old) = [old EXCEPT !.allow = Stored("allow")]
      BY <1>1, <1>4, LoadedAllow DEF ListsTypeOK
    <3>3. LoadAllow(old).allow = Stored("allow")
      BY <3>2 DEF ListsType
    <3> QED  BY <2>2, <3>1, <3>2, <3>3
  <2>3. CASE pc = "deny"
    <3>1. loader' = [loader EXCEPT ![l] = [pc |-> "gravity", new |-> LoadDeny(old)]]
      BY <2>1, <2>3 DEF LoadStep, At
    <3>2. /\ LoadDeny(old) \in ListsType /\ Neat(LoadDeny(old))
          /\ LoadDeny(old) = [old EXCEPT !.deny = Stored("deny")]
      BY <1>1, <1>4, LoadedDeny DEF ListsTypeOK
    <3>3. LoadDeny(old).deny = Stored("deny") /\ LoadDeny(old).allow = old.allow
      BY <3>2 DEF ListsType
    <3> QED  BY <2>3, <3>1, <3>2, <3>3
  <2>4. CASE pc = "gravity"
    <3>1. loader' = [loader EXCEPT ![l] = [pc |-> "swap", new |-> LoadGravity(old)]]
      BY <2>1, <2>4 DEF LoadStep, At
    <3>2. /\ LoadGravity(old) \in ListsType /\ Neat(LoadGravity(old))
          /\ LoadGravity(old).total = Total(LoadGravity(old))
          /\ LoadGravity(old).allow = old.allow /\ LoadGravity(old).deny = old.deny
          /\ LoadGravity(old).exact = Stored("gravity") /\ LoadGravity(old).wild = StoredWild
      BY <1>1, <1>4, LoadedGravity DEF ListsTypeOK
    <3> QED  BY <2>4, <3>1, <3>2
  <2> QED  BY <2>2, <2>3, <2>4
<1>6. /\ loader'[l] = [pc |-> next, new |-> new]
      /\ \A k \in Loader \ {l} : loader'[k] = loader[k]
  BY <1>1, <1>5 DEF ListsTypeOK
<1>7. /\ \A list \in Listing : Stored(list)' = Stored(list)
      /\ StoredWild' = StoredWild /\ WildRows' = WildRows
      /\ \A list, x : ChangesOf(list, x)' = ChangesOf(list, x)
      /\ \A w : WildChanges(w)' = WildChanges(w)
  BY <1>2 DEF Stored, StoredWild, WildRows, ChangesOf, WildChanges, Pending
<1>8. ListsTypeOK'
  BY <1>1, <1>2, <1>5 DEF ListsTypeOK
<1>9. RowsFinite' /\ Numbered'
  BY <1>1, <1>2 DEF ListsInv, RowsFinite, Numbered
<1>10. Tidy'
  BY <1>1, <1>2, <1>5, <1>6 DEF ListsInv, Tidy, Neat
<1>11. ASSUME NEW r \in Request PROVE ChangeRight(r)'
  <2>1. SUFFICES ASSUME Pending(r) PROVE ChangeRight(r)'
    BY <1>2 DEF ChangeRight, Pending
  <2>2. ChangeRight(r) /\ request[r].list \in Listing
    BY <1>1, <2>1, RequestTypes DEF ListsInv, DeltaType
  <2> QED  BY <1>2, <1>7, <2>2 DEF ChangeRight, Pending
<1>12. CopyRight'
  BY <1>1, <1>2, <1>7 DEF ListsInv, CopyRight
<1>13. ASSUME NEW k \in Loader PROVE LoadRight(k)'
  <2>1. LoadRight(k) /\ LoadRight(l)
    BY <1>1 DEF ListsInv
  <2>2. CASE k # l
    <3>1. ReadBy(loader[k].pc) \subseteq Listing
      BY ReadByPc
    <3> QED  BY <1>2, <1>6, <1>7, <2>1, <2>2, <3>1 DEF LoadRight
  <2>3. CASE k = l
    <3>1. ASSUME NEW list \in ReadBy(next), NEW x \in LowerText, x.name \notin missed[l],
                 \A r \in ChangesOf(list, x) : l \notin request[r].during
          PROVE  x \in new[Field(list)] <=> x \in Stored(list)
      <4>1. CASE list \in ReadBy(pc)
        <5>1. list # "gravity" /\ (next = "gravity" => list = "allow") /\ next # "deny"
          BY <1>5, <4>1 DEF ReadBy, Kind, Listing
        <5>2. list \in {"allow", "deny"} /\ new[Field(list)] = old[Field(list)]
          BY <1>5, <4>1, <5>1 DEF Field, ReadBy, Kind, Listing
        <5>3. x \in old[Field(list)] <=> x \in Stored(list)
          BY <1>3, <2>1, <3>1, <4>1 DEF LoadRight
        <5> QED  BY <5>2, <5>3
      <4>2. CASE list \notin ReadBy(pc)
        <5>1. new[Field(list)] = Stored(list)
          BY <1>5, <3>1, <4>2 DEF Field, ReadBy, Kind, Listing
        <5> QED  BY <5>1
      <4> QED  BY <4>1, <4>2
    <3>2. ReadBy(next) \subseteq Listing
      BY ReadByPc
    <3> QED  BY <1>2, <1>5, <1>6, <1>7, <2>3, <3>1, <3>2 DEF LoadRight
  <2> QED  BY <2>2, <2>3
<1>14. TotalRight'
  <2>1. TotalRight
    BY <1>1 DEF ListsInv
  <2>2. doubt' = {} => lists'.total = Total(lists)'
    BY <1>2, <1>7, <2>1 DEF TotalRight, Total
  <2>3. ASSUME NEW k \in Loader, loader'[k].pc = "swap", missed'[k] = {},
               \A r \in Request : Pending(r)' /\ request'[r].list = "gravity" /\ request'[r].text.wild =>
                  k \notin request'[r].during
        PROVE  loader'[k].new.total = Cardinality(loader'[k].new.exact) + Cardinality(loader'[k].new.deny)
                                        + Cardinality(WildRows) + Cardinality(DenyRegex)
    <3>1. CASE k = l
      BY <1>5, <1>6, <2>3, <3>1 DEF Total
    <3>2. CASE k # l
      BY <1>2, <1>6, <2>1, <2>3, <3>2 DEF TotalRight, Total, Pending
    <3> QED  BY <3>1, <3>2
  <2> QED  BY <1>7, <2>2, <2>3 DEF TotalRight, Total
<1> QED  BY <1>8, <1>9, <1>10, <1>11, <1>12, <1>13, <1>14 DEF ListsIInv, ListsInv

LEMMA StepSwap == \A l \in Loader : ListsIInv /\ Swap(l) => ListsIInv'
<1> SUFFICES ASSUME NEW l \in Loader, ListsIInv, Swap(l) PROVE ListsIInv'
  OBVIOUS
<1>1. ListsTypeOK /\ ListsInv /\ loader[l] \in Loading /\ loader[l].pc = "swap"
  BY LoaderTypes DEF ListsIInv, Swap
<1>2. PICK new \in ListsType : loader[l] = [pc |-> "swap", new |-> new]
  BY <1>1 DEF Loading
<1> DEFINE coming == UNION {Touches(request[r].text) : r \in {p \in Request : Pending(p)}}
<1>3. /\ UNCHANGED <<rows, gravity, changes, reloads>>
      /\ lists' = new
      /\ missed' = [missed EXCEPT ![l] = {}]
      /\ doubt' = missed[l] \cup (doubt \cap coming)
  BY <1>2 DEF Swap
<1>4. /\ loader'[l] = Resting /\ \A k \in Loader \ {l} : loader'[k] = loader[k]
      /\ loader' = [loader EXCEPT ![l] = Resting]
      /\ missed'[l] = {} /\ \A k \in Loader \ {l} : missed'[k] = missed[k]
  BY <1>1, <1>3 DEF ListsTypeOK, Swap, At
<1>5. ASSUME NEW r \in Request
      PROVE  /\ Pending(r)' <=> Pending(r)
             /\ ~Pending(r) => request'[r] = request[r]
             /\ Pending(r) => /\ request[r] \in DeltaType /\ request'[r] \in DeltaType
                              /\ request'[r].list = request[r].list /\ request'[r].add = request[r].add
                              /\ request'[r].text = request[r].text
                              /\ request'[r].during = request[r].during \ {l}
  <2>1. CASE Pending(r)
    <3>1. PICK list \in Listing, add \in BOOLEAN, t \in Text, during \in SUBSET Loader :
            request[r] = [pc |-> "written", list |-> list, add |-> add, text |-> t, during |-> during]
      BY <1>1, <2>1, RequestTypes DEF DeltaType
    <3>2. request'[r] = [pc |-> "written", list |-> list, add |-> add, text |-> t, during |-> during \ {l}]
      <4> DEFINE d == [pc |-> "written", list |-> list, add |-> add, text |-> t, during |-> during]
                 e == [pc |-> "written", list |-> list, add |-> add, text |-> t, during |-> during \ {l}]
      <4>1. [d EXCEPT !.during = d.during \ {l}] = e
        OBVIOUS
      <4>2. request'[r] = [request[r] EXCEPT !.during = request[r].during \ {l}]
        BY <2>1 DEF Swap
      <4>3. request[r] = d
        BY <3>1
      <4> HIDE DEF d, e
      <4>4. request'[r] = e
        BY <4>1, <4>2, <4>3
      <4> QED  BY <4>4 DEF e
    <3> QED  BY <2>1, <3>1, <3>2 DEF Pending, DeltaType
  <2>2. CASE ~Pending(r)
    BY <2>2 DEF Swap, Pending
  <2> QED  BY <2>1, <2>2
<1>6. /\ \A list \in Listing : Stored(list)' = Stored(list)
      /\ StoredWild' = StoredWild /\ WildRows' = WildRows
  BY <1>3 DEF Stored, StoredWild, WildRows
<1>7. /\ \A list, x : ChangesOf(list, x)' = ChangesOf(list, x)
      /\ \A w : WildChanges(w)' = WildChanges(w)
  BY <1>5 DEF ChangesOf, WildChanges
<1>8. missed \in [Loader -> SUBSET Name] /\ doubt \in SUBSET Name
  BY <1>1 DEF ListsTypeOK
<1>9. ListsTypeOK'
  <2>1. request' \in [Request -> {Free} \cup DeltaType \cup
       [pc : {"remove"}, list : Kind, row : SUBSET RowType, id : Nat] \cup [pc : {"refresh"}]]
    <3>1. request' = [r \in Request |-> request'[r]]
      BY DEF Swap
    <3>2. ASSUME NEW r \in Request
          PROVE  request'[r] \in {Free} \cup DeltaType \cup Removal \cup [pc : {"refresh"}]
      BY <1>1, <1>5, RequestTypes
    <3> QED  BY <3>1, <3>2 DEF Removal
  <2>2. doubt' \in SUBSET Name /\ missed' \in [Loader -> SUBSET Name]
    BY <1>3, <1>8
  <2>3. loader' \in [Loader -> {Resting} \cup [pc : {"fetch"}] \cup
       [pc : {"allow", "deny", "gravity", "swap"}, new : ListsType]]
    BY <1>1, <1>4 DEF ListsTypeOK
  <2> QED  BY <1>1, <1>3, <2>1, <2>2, <2>3 DEF ListsTypeOK
<1>10. RowsFinite'
  BY <1>1, <1>3 DEF ListsInv, RowsFinite
<1>11. Numbered'
  <2>1. \A r \in Request : request'[r] = request[r] \/ request'[r].pc # "remove"
    BY <1>5 DEF Pending
  <2> QED  BY <1>1, <1>3, <2>1, NumberedKept, ListsAssumption DEF ListsInv, ListsTypeOK
<1>12. Tidy'
  <2>1. Neat(new)
    BY <1>1, <1>2 DEF ListsInv, Tidy
  <2>2. \A k \in Loader : loader'[k].pc \in {"allow", "deny", "gravity", "swap"} => k # l
    BY <1>4 DEF Resting
  <2> QED  BY <1>1, <1>3, <1>4, <2>1, <2>2 DEF ListsInv, Tidy, Neat
<1>13. ASSUME NEW r \in Request, Pending(r), NEW n \in Touches(request[r].text)
       PROVE  n \in coming
  BY <1>13
<1>14. ASSUME NEW r \in Request PROVE ChangeRight(r)'
  <2>1. SUFFICES ASSUME Pending(r) PROVE ChangeRight(r)'
    BY <1>5 DEF ChangeRight
  <2>2. /\ ChangeRight(r) /\ request[r].list \in Listing /\ request[r].text \in Text
        /\ request[r].text.name \in Touches(request[r].text)
    BY <1>1, <1>5, <2>1, Touching DEF ListsInv, DeltaType
  <2>3. \A n \in Touches(request[r].text) : n \in doubt => n \in doubt'
    BY <1>3, <1>13, <2>1
  <2> HIDE DEF coming
  <2> QED  BY <1>5, <1>6, <2>1, <2>2, <2>3 DEF ChangeRight
<1>15. LoadRight(l)
  BY <1>1 DEF ListsInv
<1>16. CopyRight'
  <2>1. ASSUME NEW list \in Listing, NEW x \in LowerText, x.name \notin doubt', ChangesOf(list, x) = {}
        PROVE  x \in new[Field(list)] <=> x \in Stored(list)
    <3>1. list \in ReadBy("swap") /\ x.name \notin missed[l]
      BY <1>3, <2>1 DEF ReadBy
    <3> QED  BY <1>2, <1>15, <2>1, <3>1 DEF LoadRight
  <2>2. ASSUME NEW w \in Name, ~(Touches(Wildcard(w)) \subseteq doubt')
        PROVE  w \in new.wild <=> w \in StoredWild
    <3>1. ~(Touches(Wildcard(w)) \subseteq missed[l])
      BY <1>3, <2>2
    <3>2. ASSUME NEW r \in WildChanges(w) PROVE FALSE
      <4>1. /\ r \in Request /\ Pending(r) /\ request[r].list = "gravity" /\ request[r].text.wild
            /\ request[r].text.name = w /\ request[r].text \in Text
        BY <1>5, <3>2 DEF WildChanges, DeltaType
      <4>2. Touches(request[r].text) = Touches(Wildcard(w))
        BY <4>1, Touching
      <4>3. Touches(request[r].text) \subseteq doubt
        BY <1>1, <4>1 DEF ListsInv, ChangeRight
      <4>4. \A n \in Touches(Wildcard(w)) : n \in doubt'
        BY <1>3, <1>13, <4>1, <4>2, <4>3
      <4> QED  BY <2>2, <4>4
    <3> QED  BY <1>2, <1>15, <3>1, <3>2 DEF LoadRight
  <2> HIDE DEF coming
  <2> QED  BY <1>3, <1>6, <1>7, <2>1, <2>2 DEF CopyRight
<1>17. ASSUME NEW k \in Loader PROVE LoadRight(k)'
  <2>1. CASE k = l
    BY <1>4, <2>1 DEF LoadRight, ReadBy, Resting
  <2>2. CASE k # l
    <3>1. LoadRight(k) /\ ReadBy(loader[k].pc) \subseteq Listing
      BY <1>1, ReadByPc DEF ListsInv
    <3>2. \A r \in Request : Pending(r) => (k \in request'[r].during <=> k \in request[r].during)
      BY <1>5, <2>2
    <3>3. ASSUME NEW list \in ReadBy(loader[k].pc), NEW x \in LowerText, x.name \notin missed[k],
                 \A r \in ChangesOf(list, x) : k \notin request'[r].during
          PROVE  x \in loader[k].new[Field(list)] <=> x \in Stored(list)
      <4>1. \A r \in ChangesOf(list, x) : k \notin request[r].during
        BY <3>2, <3>3 DEF ChangesOf
      <4> QED  BY <3>1, <3>3, <4>1 DEF LoadRight
    <3>4. ASSUME loader[k].pc = "swap", NEW w \in Name, ~(Touches(Wildcard(w)) \subseteq missed[k]),
                 \A r \in WildChanges(w) : k \notin request'[r].during
          PROVE  w \in loader[k].new.wild <=> w \in StoredWild
      <4>1. \A r \in WildChanges(w) : k \notin request[r].during
        BY <3>2, <3>4 DEF WildChanges
      <4> QED  BY <3>1, <3>4, <4>1 DEF LoadRight
    <3> QED  BY <1>4, <1>6, <1>7, <2>2, <3>1, <3>3, <3>4 DEF LoadRight
  <2> QED  BY <2>1, <2>2
<1>18. TotalRight'
  <2>1. TotalRight
    BY <1>1 DEF ListsInv
  <2>2. ASSUME doubt' = {} PROVE new.total = Total(new)
    <3>1. missed[l] = {}
      BY <1>3, <2>2
    <3>2. ASSUME NEW r \in Request, Pending(r), request[r].list = "gravity", request[r].text.wild
          PROVE  FALSE
      <4>1. request[r].text.name \in Touches(request[r].text)
        BY <1>5, <3>2, Touching DEF DeltaType
      <4>2. request[r].text.name \in doubt
        BY <1>1, <3>2, <4>1 DEF ListsInv, ChangeRight
      <4> QED  BY <1>3, <1>13, <2>2, <3>2, <4>1, <4>2
    <3> QED  BY <1>2, <2>1, <3>1, <3>2 DEF TotalRight
  <2>3. ASSUME NEW k \in Loader, loader'[k].pc = "swap", missed'[k] = {},
               \A r \in Request : Pending(r)' /\ request'[r].list = "gravity" /\ request'[r].text.wild =>
                  k \notin request'[r].during
        PROVE  loader[k].new.total = Total(loader[k].new) /\ loader'[k] = loader[k]
    <3>1. k # l
      BY <1>4, <2>3 DEF Resting
    <3>2. \A r \in Request : Pending(r) /\ request[r].list = "gravity" /\ request[r].text.wild =>
            k \notin request[r].during
      BY <1>5, <2>3, <3>1
    <3> QED  BY <1>4, <2>1, <2>3, <3>1, <3>2 DEF TotalRight
  <2> HIDE DEF coming
  <2> QED  BY <1>3, <1>6, <2>2, <2>3 DEF TotalRight, Total
<1> QED  BY <1>9, <1>10, <1>11, <1>12, <1>14, <1>16, <1>17, <1>18 DEF ListsIInv, ListsInv

\* Everything has just been loaded, and nothing is under way.
Fresh ==
  /\ lists = Loaded
  /\ request = [r \in Request |-> Free]
  /\ loader = Restarted(gravity)
  /\ missed = [l \in Loader |-> {}] /\ doubt = {}

Sensible ==
  /\ rows \in SUBSET RowType /\ gravity \in SUBSET Text /\ RowsFinite
  /\ changes \in 0..MaxChanges /\ reloads \in 0..MaxReloads
  /\ \A s, t \in rows : s.id = t.id => s = t
  /\ \A s \in rows : s.id <= changes

LEMMA FreshIsRight == Fresh /\ Sensible => ListsIInv
<1> SUFFICES ASSUME Fresh, Sensible PROVE ListsIInv
  OBVIOUS
<1>1. rows \subseteq RowType /\ gravity \subseteq Text /\ RowsFinite
  BY DEF Sensible
<1>2. /\ lists \in ListsType /\ Neat(lists) /\ lists.total = Total(lists)
      /\ lists.allow = Stored("allow") /\ lists.deny = Stored("deny")
      /\ lists.exact = Stored("gravity") /\ lists.wild = StoredWild
  BY <1>1, AllLoaded DEF Fresh
<1>3. ListsTypeOK
  BY <1>1, <1>2 DEF Fresh, Sensible, ListsTypeOK, Restarted, Loader, Resting
<1>4. \A r \in Request : request[r].pc = "free" /\ ~Pending(r)
  BY DEF Fresh, Free, Pending
<1>5. \A l \in Loader : loader[l].pc \in {"idle", "fetch"}
  BY DEF Fresh, Restarted, Resting
<1>6. Numbered
  BY <1>4 DEF Numbered, Sensible
<1>7. Tidy /\ TotalRight
  BY <1>2, <1>5 DEF Tidy, TotalRight
<1>8. CopyRight
  <2>1. \A list \in Listing : lists[Field(list)] = Stored(list)
    BY <1>2, Fields DEF Listing, Kind
  <2> QED  BY <1>2, <2>1 DEF CopyRight
<1>9. \A r \in Request : ChangeRight(r)
  BY <1>4 DEF ChangeRight
<1>10. \A l \in Loader : LoadRight(l)
  BY <1>5 DEF LoadRight, ReadBy
<1> QED  BY <1>1, <1>3, <1>6, <1>7, <1>8, <1>9, <1>10 DEF ListsIInv, ListsInv

LEMMA ListsInvInit == ListsInit => ListsIInv
<1>1. ASSUME ListsInit PROVE Fresh /\ Sensible
  <2>1. gravity \in SUBSET Text /\ IsFiniteSet(gravity) /\ rows = {} /\ Fresh
    BY <1>1, ListsAssumption, FS_EmptySet DEF ListsInit, Fresh
  <2> QED  BY <1>1, <2>1, ListsAssumption, FS_EmptySet DEF ListsInit, Sensible, RowsFinite
<1> QED  BY <1>1, FreshIsRight

LEMMA StepRestart == ListsIInv /\ Restart => ListsIInv'
<1>1. ASSUME ListsIInv, Restart PROVE Fresh' /\ Sensible'
  <2>1. ListsTypeOK /\ RowsFinite /\ Numbered
    BY <1>1 DEF ListsIInv, ListsInv
  <2>2. UNCHANGED <<rows, gravity, changes>> /\ reloads' \in 0..MaxReloads
    BY <1>1, <2>1, ListsAssumption DEF Restart, ListsTypeOK
  <2>3. Loaded' = Loaded
    BY <2>2 DEF Loaded, LoadGravity, LoadDeny, LoadAllow
  <2>4. Fresh'
    BY <1>1, <2>2, <2>3 DEF Restart, Fresh, Restarted
  <2>5. Sensible'
    BY <2>1, <2>2 DEF Sensible, RowsFinite, ListsTypeOK, Numbered
  <2> QED  BY <2>4, <2>5
<1> QED  BY <1>1, FreshIsRight, PTL

LEMMA ListsInvNext == ListsIInv /\ [ListsNext]_listsVars => ListsIInv'
<1> SUFFICES ASSUME ListsIInv, [ListsNext]_listsVars PROVE ListsIInv'
  OBVIOUS
<1>1. CASE UNCHANGED listsVars
  <2>1. UNCHANGED <<rows, gravity, lists, request, loader, changes, reloads, missed, doubt>>
    BY <1>1 DEF listsVars, history
  <2>2. SameChanges /\ LoadersKept
    BY <2>1 DEF SameChanges, LoadersKept, Pending
  <2>3. ListsTypeOK' /\ Numbered'
    BY <2>1 DEF ListsIInv, ListsInv, ListsTypeOK, Numbered
  <2> QED  BY <2>1, <2>2, <2>3, NothingStored DEF ListsIInv, history
<1>2. ASSUME NEW r \in Request, RequestStep(r) PROVE ListsIInv'
  BY <1>2, StepAddListed, StepFindListed, StepRemoveListed, StepAddGravity, StepRemoveGravity,
     StepAskRefresh, StepRefreshImports, StepRefreshFails, StepClientGone, StepApplyDelta
     DEF RequestStep
<1>3. CASE Sighup \/ RefreshDue \/ FetchFails \/ Restart
  BY <1>3, StepSighup, StepRefreshDue, StepFetchFails, StepRestart
<1>4. CASE \E published \in Published : Fetch(published)
  BY <1>4, StepFetch
<1>5. CASE \E l \in Loader : LoadStep(l) \/ Swap(l)
  BY <1>5, StepLoadStep, StepSwap
<1> QED  BY <1>1, <1>2, <1>3, <1>4, <1>5 DEF ListsNext

LEMMA ListsInductive == ListsSpec => []ListsIInv
BY ListsInvInit, ListsInvNext, PTL DEF ListsSpec

\* The rows, the copy, the requests and the loads keep their types, however
\* many requests are under way.
THEOREM ListsTypeCorrect == ListsSpec => []ListsTypeOK
<1>1. ListsIInv => ListsTypeOK
  BY DEF ListsIInv
<1> QED  BY <1>1, ListsInductive, PTL

-----------------------------------------------------------------------------
(* What the copy decides.                                                  *)

\* A name is touched by a wildcard if is_match would find it.
LEMMA Touched ==
  ASSUME NEW t \in Text, NEW n \in Name
  PROVE  n \in Touches(t) <=> IF t.wild THEN \E i \in DOMAIN n : SubSeq(n, i, Len(n)) = t.name ELSE n = t.name
<1>1. t.name \in Name /\ t.wild \in BOOLEAN
  BY Texts
<1>2. \E i \in DOMAIN n : SubSeq(n, i, Len(n)) = n
  <2>1. n \in Seq(Range(n)) \ {<<>>}
    BY ListsAssumption
  <2>2. 1 \in DOMAIN n /\ SubSeq(n, 1, Len(n)) = n
    BY <2>1
  <2> QED  BY <2>2
<1>3. IsSuffix(t.name, n) <=> \E i \in DOMAIN n : SubSeq(n, i, Len(n)) = t.name
  BY <1>1, Suffixed
<1>4. n \in Touches(t) <=> (n = t.name \/ (t.wild /\ IsSuffix(t.name, n)))
  BY DEF Touches
<1> QED  BY <1>1, <1>2, <1>3, <1>4

\* A literal text is loaded if a row says so.
LEMMA LiteralStored ==
  ASSUME ListsTypeOK, NEW n \in Name
  PROVE  /\ \A kind \in Kind : Literal(n) \in Stored(kind) <=> Listed(kind, n)
         /\ Literal(n) \in Stored("gravity") <=> \E t \in gravity : ~t.wild /\ t.name = n
<1>1. ASSUME NEW t \in Text PROVE Lower(t) = Literal(n) <=> (~t.wild /\ t.name = n)
  <2>1. PICK w \in BOOLEAN, s \in Spelling, m \in Name : t = [wild |-> w, spelled |-> s, name |-> m]
    BY DEF Text
  <2>2. Lower(t) = [wild |-> w, spelled |-> "lower", name |-> m]
    BY <2>1 DEF Lower
  <2>3. Lower(t).wild = w /\ Lower(t).name = m /\ Literal(n).wild = FALSE /\ Literal(n).name = n
    BY <2>2 DEF Literal
  <2>4. w = FALSE /\ m = n => Lower(t) = Literal(n)
    BY <2>2 DEF Literal
  <2>5. t.wild = w /\ t.name = m
    BY <2>1
  <2> QED  BY <2>3, <2>4, <2>5
<1>2. \A row \in rows : row.text \in Text
  BY DEF ListsTypeOK, RowType
<1>3. gravity \subseteq Text
  BY DEF ListsTypeOK
<1> QED  BY <1>1, <1>2, <1>3 DEF Stored, Listed, Kind

\* For a name that is neither in doubt nor changing, the copy and the rows give
\* the same answer to each of the questions that decide it.
LEMMA SameAnswers ==
  ASSUME ListsTypeOK, ListsInv, NEW n \in Name \ doubt, Quiet(n)
  PROVE  /\ Literal(n) \in lists.allow <=> Listed("allow", n)
         /\ Literal(n) \in lists.deny <=> Listed("deny", n)
         /\ (Literal(n) \in lists.exact \/ IsMatch(lists.wild, n)) <=> \E t \in gravity : n \in Touches(t)
<1>1. CopyRight /\ Literal(n) \in LowerText /\ Literal(n).name = n
  BY Named DEF ListsInv
<1>2. \A list \in Listing : ChangesOf(list, Literal(n)) = {}
  <2>1. ASSUME NEW r \in Request, Pending(r), Lower(request[r].text) = Literal(n) PROVE FALSE
    <3>1. request[r].text \in Text /\ request[r].text.name \in Touches(request[r].text)
      BY <2>1, RequestTypes, Touching DEF DeltaType
    <3>2. request[r].text.name = n
      BY <1>1, <2>1, <3>1, Texts
    <3> QED  BY <2>1, <3>1, <3>2 DEF Quiet
  <2> QED  BY <2>1 DEF ChangesOf
<1>3. \A list \in Listing : Literal(n) \in lists[Field(list)] <=> Literal(n) \in Stored(list)
  BY <1>1, <1>2 DEF CopyRight
<1>4. /\ Literal(n) \in lists.allow <=> Literal(n) \in Stored("allow")
      /\ Literal(n) \in lists.deny <=> Literal(n) \in Stored("deny")
      /\ Literal(n) \in lists.exact <=> Literal(n) \in Stored("gravity")
  BY <1>3, Fields DEF Listing, Kind
<1>5. ASSUME NEW w \in Name, n \in Touches(Wildcard(w)) PROVE w \in lists.wild <=> w \in StoredWild
  BY <1>1, <1>5 DEF CopyRight
<1>6. IsMatch(lists.wild, n) <=> \E t \in gravity : t.wild /\ n \in Touches(t)
  <2>1. ASSUME NEW w \in Name
        PROVE  n \in Touches(Wildcard(w)) <=> \E i \in DOMAIN n : SubSeq(n, i, Len(n)) = w
    <3>1. Wildcard(w) \in Text /\ Wildcard(w).wild /\ Wildcard(w).name = w
      BY Named DEF LowerText
    <3> QED  BY <3>1, Touched
  <2>2. lists.wild \subseteq Name /\ gravity \subseteq Text
    BY DEF ListsTypeOK, ListsType
  <2>3. IsMatch(lists.wild, n) <=> \E w \in lists.wild : n \in Touches(Wildcard(w))
    BY <2>1, <2>2 DEF IsMatch
  <2>4. (\E w \in lists.wild : n \in Touches(Wildcard(w))) <=> \E w \in StoredWild : n \in Touches(Wildcard(w))
    <3>1. StoredWild \subseteq Name
      BY <2>2, Texts DEF StoredWild, WildRows
    <3> QED  BY <1>5, <2>2, <3>1
  <2>5. \A t \in gravity : t.wild => Touches(t) = Touches(Wildcard(t.name))
    BY <2>2, Touching
  <2>6. (\E w \in StoredWild : n \in Touches(Wildcard(w))) <=> \E t \in gravity : t.wild /\ n \in Touches(t)
    BY <2>5 DEF StoredWild, WildRows
  <2> QED  BY <2>3, <2>4, <2>6
<1>7. \A t \in gravity : ~t.wild => (n \in Touches(t) <=> t.name = n)
  <2>1. gravity \subseteq Text
    BY DEF ListsTypeOK
  <2> QED  BY <2>1, Touching
<1> QED  BY <1>4, <1>6, <1>7, LiteralStored DEF Kind

\* Without doubt or pending change the total is that of a load.
LEMMA SameTotal ==
  ASSUME ListsTypeOK, ListsInv, doubt = {}, \A r \in Request : ~Pending(r)
  PROVE  lists.total = Loaded.total
<1>1. CopyRight /\ Neat(lists) /\ lists.total = Total(lists) /\ RowsFinite
  BY DEF ListsInv, Tidy, TotalRight
<1>2. \A list \in Listing, x \in LowerText : x \in lists[Field(list)] <=> x \in Stored(list)
  BY <1>1 DEF CopyRight, ChangesOf
<1>3. \A list \in Listing : Stored(list) \subseteq LowerText
  BY StoredTexts DEF ListsTypeOK
<1>4. lists.deny = Stored("deny") /\ lists.exact = Stored("gravity")
  <2>1. lists.deny \subseteq LowerText /\ lists.exact \subseteq LowerText
    BY <1>1 DEF Neat
  <2>2. \A x \in LowerText : /\ x \in lists.deny <=> x \in Stored("deny")
                             /\ x \in lists.exact <=> x \in Stored("gravity")
    BY <1>2, Fields DEF Listing, Kind
  <2>3. Stored("deny") \subseteq LowerText /\ Stored("gravity") \subseteq LowerText
    BY <1>3 DEF Listing, Kind
  <2> QED  BY <2>1, <2>2, <2>3
<1>5. Loaded.total = Total(Loaded) /\ Loaded.deny = Stored("deny") /\ Loaded.exact = Stored("gravity")
  BY <1>1, AllLoaded DEF ListsTypeOK
<1> QED  BY <1>1, <1>4, <1>5 DEF Total

\* Outside the situations FollowsDatabase names, a name is decided in memory as
\* the rows say, and the total shown is the total a load would count, for all
\* names, texts and lists and any number of overlapping requests and loads
\* (lib.rs:553-653, 1256-1300, blocking/mod.rs:84-157, 209-297).
THEOREM CopyFollows == ListsSpec => []FollowsDatabase
<1>1. ListsIInv => FollowsDatabase
  <2> SUFFICES ASSUME ListsIInv PROVE FollowsDatabase
    OBVIOUS
  <2>1. ASSUME NEW n \in Name \ doubt, Quiet(n) PROVE CheckBlocked(lists, n) <=> ShouldBlock(n)
    <3>1. /\ Literal(n) \in lists.allow <=> Listed("allow", n)
          /\ Literal(n) \in lists.deny <=> Listed("deny", n)
          /\ (Literal(n) \in lists.exact \/ IsMatch(lists.wild, n)) <=> \E t \in gravity : n \in Touches(t)
      BY <2>1, SameAnswers DEF ListsIInv
    <3> QED  BY <3>1, Zenon DEF CheckBlocked, ShouldBlock
  <2>2. (doubt = {} /\ \A r \in Request : ~Pending(r)) => lists.total = Loaded.total
    BY SameTotal DEF ListsIInv
  <2> QED  BY <2>1, <2>2 DEF FollowsDatabase
<1> QED  BY <1>1, ListsInductive, PTL
=============================================================================
