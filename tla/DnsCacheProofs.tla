--------------------------- MODULE DnsCacheProofs ---------------------------
(***************************************************************************)
(* Proofs about DnsCache, for any number of tasks, keys, shards, entries.  *)
(*                                                                         *)
(* TypeOK is inductive once the entries on their way into the map are not  *)
(* stamped ahead of the clock either.  OvershootBounded rests on the order *)
(* in which the walks of len() began; see the second half.                 *)
(***************************************************************************)
EXTENDS DnsCache, FiniteSetTheorems, TLAPS

StampedInPast == \A t \in Thread : Inserting(t) => thread[t].entry.at <= now

IInv == TypeOK /\ StampedInPast

-----------------------------------------------------------------------------
(* Types of the map and of the calls.                                      *)

\* What TypeOK says of the map.
LEMMA MapType ==
  ASSUME TypeOK
  PROVE  /\ Cached \subseteq Key /\ IsFiniteSet(Cached)
         /\ \A k \in Cached : entries[k] \in Entry /\ entries[k].at <= now
         /\ \A i : InShard(i) \subseteq Cached /\ Cardinality(InShard(i)) \in Nat
<1>1. Cached \subseteq Key /\ \A k \in Cached : entries[k] \in Entry /\ entries[k].at <= now
  BY DEF TypeOK, Cached
<1>2. IsFiniteSet(Cached) /\ \A i : InShard(i) \subseteq Cached
  BY <1>1, FS_Subset, CacheAssumption DEF InShard
<1>3. \A i : IsFiniteSet(InShard(i))
  BY <1>2, FS_Subset
<1> QED
  BY <1>1, <1>2, <1>3, FS_CardinalityType

\* A map built from entries is a map of the declared type.
LEMMA MapIsTyped ==
  ASSUME NEW S \in SUBSET Key, NEW f \in [S -> Entry]
  PROVE  f \in UNION {[D -> Entry] : D \in SUBSET Key}
  OBVIOUS

\* The part of TypeOK about the map.
MapOK ==
  /\ entries \in UNION {[S -> Entry] : S \in SUBSET Key}
  /\ \A k \in DOMAIN entries : entries[k].at <= now

\* Removing keys, or doing nothing, keeps it.
LEMMA RemovalType ==
  ASSUME TypeOK, (entries' = entries) \/ (\E K : entries' = Without(K)), now' = now
  PROVE  MapOK'
<1>1. CASE entries' = entries
  BY <1>1 DEF TypeOK, MapOK
<1>2. ASSUME NEW K, entries' = Without(K) PROVE MapOK'
  <2>1. Cached \ K \in SUBSET Key /\ Without(K) \in [Cached \ K -> Entry]
    BY MapType DEF Without
  <2>2. entries' \in UNION {[S -> Entry] : S \in SUBSET Key}
    BY <1>2, <2>1, MapIsTyped
  <2>3. DOMAIN entries' = Cached \ K /\ \A k \in Cached \ K : entries'[k] = entries[k]
    BY <1>2 DEF Without
  <2> QED
    BY <2>2, <2>3, MapType DEF MapOK
<1> QED
  BY <1>1, <1>2

\* The locals of an insert.
LEMMA InsertLocals ==
  ASSUME TypeOK, NEW t \in Thread, Inserting(t)
  PROVE  thread[t] \in InsertCall
<1>1. thread[t] \in Call
  BY DEF TypeOK
<1> QED
  BY <1>1 DEF Call, Inserting, InsertPc, Idle

\* An insert that goes on with a new walk.
LEMMA AtType ==
  ASSUME TypeOK, NEW t \in Thread, Inserting(t), NEW pc \in InsertPc
  PROVE  /\ At(t, pc) \in InsertCall
         /\ At(t, pc).pc = pc /\ At(t, pc).entry = thread[t].entry
         /\ At(t, pc).pos = 1 /\ At(t, pc).n = 0
<1>1. thread[t] \in InsertCall /\ 1 \in Pos
  BY InsertLocals, CacheAssumption DEF Pos
<1> QED
  BY <1>1 DEF At, InsertCall

\* What is chosen for eviction is typed.
LEMMA BestType ==
  ASSUME TypeOK, NEW K \in SUBSET Cached, NEW best \in SUBSET Candidate, NEW b \in Best(K, best)
  PROVE  b \in SUBSET Candidate
<1>1. \A k \in K : [key |-> k, at |-> entries[k].at] \in Candidate
  BY MapType DEF Candidate, Entry
<1> QED
  BY <1>1 DEF Best, Older

\* A step of one task to a call of the declared type that is not stamped ahead.
LEMMA GotoInv ==
  ASSUME IInv, NEW t \in Thread, NEW call \in Call, Goto(t, call),
         call.pc \in InsertPc => call.entry.at <= now, now' = now
  PROVE  thread' \in [Thread -> Call] /\ StampedInPast'
<1>1. thread' \in [Thread -> Call]
  BY DEF IInv, TypeOK, Goto
<1>2. \A u \in Thread : thread'[u] = IF u = t THEN call ELSE thread[u]
  BY DEF IInv, TypeOK, Goto
<1> QED
  BY <1>1, <1>2 DEF IInv, StampedInPast, Inserting

-----------------------------------------------------------------------------
(* Type correctness.                                                       *)

\* A step of an insert that leaves the map or removes keys from it.
LEMMA InsertStepInv ==
  ASSUME IInv, NEW t \in Thread,
         \/ CheckCapacity(t) \/ PurgeStep(t) \/ TestFull(t)
         \/ EvictSample(t) \/ EvictRemove(t)
  PROVE  IInv'
<1>1. Inserting(t) /\ now' = now /\ sweeper' = sweeper
  BY DEF CheckCapacity, PurgeStep, TestFull, EvictSample, EvictRemove, InCall, Inserting, InsertPc
<1>2. thread[t] \in InsertCall /\ thread[t].entry.at <= now
  BY <1>1, InsertLocals DEF IInv, StampedInPast
<1>3. \A pc \in InsertPc : At(t, pc) \in InsertCall /\ At(t, pc).entry = thread[t].entry
  BY <1>1, AtType DEF IInv
<1>4. MapOK'
  BY <1>1, RemovalType
     DEF IInv, CheckCapacity, PurgeStep, PurgeShard, TestFull, EvictSample, EvictRemove
<1>5. \E call \in InsertCall : Goto(t, call) /\ call.entry = thread[t].entry
  <2>1. ASSUME CountShard(t)
        PROVE  \E call \in InsertCall : Goto(t, call) /\ call.entry = thread[t].entry
    <3> DEFINE next == [thread[t] EXCEPT !.pos = @ + 1,
                                         !.n = @ + Cardinality(InShard(thread[t].pos))]
    <3>1. Cardinality(InShard(thread[t].pos)) \in Nat
      BY MapType DEF IInv
    <3>2. thread[t].pos + 1 \in Pos /\ thread[t].n + Cardinality(InShard(thread[t].pos)) \in Nat
      BY <1>2, <2>1, <3>1, CacheAssumption DEF InsertCall, Pos, CountShard
    <3>3. next \in InsertCall /\ next.entry = thread[t].entry
      BY <1>2, <3>2 DEF InsertCall
    <3> QED
      BY <2>1, <3>3 DEF CountShard
  <2>2. CASE CheckCapacity(t)
    BY <2>1, <2>2, <1>3 DEF CheckCapacity, InsertPc
  <2>3. CASE PurgeStep(t)
    <3> DEFINE next == [thread[t] EXCEPT !.pos = @ + 1]
    <3>1. ~AtLastShard(t) => thread[t].pos + 1 \in Pos
      BY <1>2, CacheAssumption DEF InsertCall, Pos, AtLastShard
    <3>2. ~AtLastShard(t) => next \in InsertCall /\ next.entry = thread[t].entry
      BY <1>2, <3>1 DEF InsertCall
    <3> QED
      BY <2>3, <3>2, <1>3 DEF PurgeStep, InsertPc
  <2>4. CASE TestFull(t)
    BY <2>1, <2>4, <1>3 DEF TestFull, InsertPc
  <2>5. CASE EvictSample(t)
    <3> DEFINE here == InShard(thread[t].pos)
               size == Min2(SampleSize - thread[t].n, Cardinality(here))
    <3>0. PICK K \in SUBSET here : \E best \in Best(K, thread[t].best) :
            /\ Cardinality(K) = size
            /\ Goto(t, IF thread[t].n + size < SampleSize /\ ~AtLastShard(t)
                       THEN [thread[t] EXCEPT !.pos = @ + 1, !.n = @ + size, !.best = best]
                       ELSE IF best = {} THEN At(t, "evict")
                       ELSE [At(t, "remove") EXCEPT !.best = best])
      BY <2>5 DEF EvictSample
    <3>1. PICK best \in Best(K, thread[t].best) :
            /\ Cardinality(K) = size
            /\ Goto(t, IF thread[t].n + size < SampleSize /\ ~AtLastShard(t)
                       THEN [thread[t] EXCEPT !.pos = @ + 1, !.n = @ + size, !.best = best]
                       ELSE IF best = {} THEN At(t, "evict")
                       ELSE [At(t, "remove") EXCEPT !.best = best])
      BY <3>0
    <3>2. IsFiniteSet(here) /\ K \in SUBSET Cached
      BY MapType, FS_Subset DEF IInv
    <3>3. size \in Nat
      BY <3>1, <3>2, FS_Subset, FS_CardinalityType
    <3>4. best \in SUBSET Candidate
      BY <1>2, <3>2, BestType DEF IInv, InsertCall
    <3>5. [At(t, "remove") EXCEPT !.best = best] \in InsertCall
          /\ [At(t, "remove") EXCEPT !.best = best].entry = thread[t].entry
      BY <1>3, <3>4 DEF InsertCall, InsertPc
    <3>6. ASSUME ~AtLastShard(t)
          PROVE  LET next == [thread[t] EXCEPT !.pos = @ + 1, !.n = @ + size, !.best = best]
                 IN  next \in InsertCall /\ next.entry = thread[t].entry
      <4>1. thread[t].pos + 1 \in Pos /\ thread[t].n + size \in Nat
        BY <1>2, <3>3, <3>6, CacheAssumption DEF InsertCall, Pos, AtLastShard
      <4> HIDE DEF size
      <4> QED
        BY <1>2, <3>4, <4>1 DEF InsertCall
    <3> HIDE DEF size
    <3> QED
      BY <1>3, <3>1, <3>5, <3>6 DEF InsertPc
  <2>6. CASE EvictRemove(t)
    BY <2>6, <1>3 DEF EvictRemove, InsertPc
  <2> QED
    BY <2>2, <2>3, <2>4, <2>5, <2>6
<1>6. thread' \in [Thread -> Call] /\ StampedInPast'
  BY <1>1, <1>2, <1>5, GotoInv DEF Call
<1> QED
  BY <1>1, <1>4, <1>6 DEF IInv, TypeOK, MapOK

\* The last step of an insert.
LEMMA StoreInv ==
  ASSUME IInv, NEW t \in Thread, Store(t)
  PROVE  IInv'
<1>1. Inserting(t) /\ now' = now /\ sweeper' = sweeper
  BY DEF Store, InCall, Inserting, InsertPc
<1>2. thread[t].key \in Key /\ thread[t].entry \in Entry /\ thread[t].entry.at <= now
  BY <1>1, InsertLocals DEF IInv, StampedInPast, InsertCall
<1>3. MapOK'
  <2>1. With(thread[t].key, thread[t].entry) \in [Cached \cup {thread[t].key} -> Entry]
    BY <1>2, MapType DEF With, IInv
  <2>2. Cached \cup {thread[t].key} \in SUBSET Key
    BY <1>2, MapType DEF IInv
  <2>3. \A k \in Cached : entries[k].at <= now
    BY DEF IInv, TypeOK, Cached
  <2> QED
    BY <1>1, <1>2, <2>1, <2>2, <2>3, MapIsTyped DEF Store, With, MapOK
<1>4. thread' \in [Thread -> Call] /\ StampedInPast'
  BY <1>1, GotoInv DEF Store, Call, Idle, InsertPc
<1> QED
  BY <1>1, <1>3, <1>4 DEF IInv, TypeOK, MapOK

\* The first step of an insert: the stamp is the current time.
LEMMA BeginInsertInv ==
  ASSUME IInv, NEW t \in Thread, NEW k \in Key, NEW ttl \in Ttl, BeginInsert(t, k, ttl)
  PROVE  IInv'
<1> DEFINE call == [pc |-> "check", key |-> k, entry |-> [at |-> now, ttl |-> ttl],
                    pos |-> 1, n |-> 0, best |-> {}]
<1>1. call \in Call /\ call.entry.at <= now
  BY CacheAssumption DEF Call, InsertCall, InsertPc, Entry, Pos, IInv, TypeOK
<1>2. thread' \in [Thread -> Call] /\ StampedInPast'
  BY <1>1, GotoInv DEF BeginInsert
<1>3. MapOK'
  BY RemovalType DEF BeginInsert, IInv
<1> QED
  BY <1>2, <1>3 DEF BeginInsert, IInv, TypeOK, MapOK

\* Lookups and removals, one call at a time.
LookupOrRemoval(t) ==
  \/ \E k \in Key : GetExpired(t, k)
  \/ RemoveExpired(t)
  \/ \E d \in {k[1] : k \in Key} : BeginRemoveDomain(t, d)
  \/ FindDomainStep(t) \/ RemoveDomainStep(t)
  \/ BeginClear(t) \/ ClearStep(t)

\* None of them is an insert afterwards.
LEMMA RemovalCall ==
  ASSUME TypeOK, NEW t \in Thread, LookupOrRemoval(t)
  PROVE  \E call \in Call : Goto(t, call) /\ call.pc \notin InsertPc
<1>1. thread[t] \in Call /\ 1 \in Pos
  BY CacheAssumption DEF TypeOK, Pos
<1>2. Idle \in Call /\ Idle.pc \notin InsertPc
  BY DEF Call, Idle, InsertPc
<1>3. CASE \E k \in Key : GetExpired(t, k)
  BY <1>3 DEF GetExpired, Call, InsertPc
<1>4. CASE RemoveExpired(t)
  BY <1>2, <1>4 DEF RemoveExpired
<1>5. CASE \E d \in {k[1] : k \in Key} : BeginRemoveDomain(t, d)
  BY <1>1, <1>5 DEF BeginRemoveDomain, Call, InsertPc
<1>6. CASE FindDomainStep(t)
  <2> DEFINE todo == thread[t].todo \cup {k \in InShard(thread[t].pos) : k[1] = thread[t].domain}
  <2>1. thread[t] \in [pc : {"find"}, domain : {k[1] : k \in Key}, pos : Pos, todo : SUBSET Key]
    BY <1>1, <1>6 DEF FindDomainStep, InCall, Call, InsertCall, InsertPc, Idle
  <2>2. todo \in SUBSET Key
    BY <2>1, MapType
  <2>3. ASSUME ~AtLastShard(t)
        PROVE  LET next == [thread[t] EXCEPT !.pos = @ + 1, !.todo = todo]
               IN  /\ next \in [pc : {"find"}, domain : {k[1] : k \in Key}, pos : Pos,
                                todo : SUBSET Key]
                   /\ next.pc = "find"
    <3>1. thread[t].pos + 1 \in Pos
      BY <2>1, <2>3, CacheAssumption DEF Pos, AtLastShard
    <3> HIDE DEF todo
    <3> QED
      BY <2>1, <2>2, <3>1
  <2>4. [pc |-> "removing", todo |-> todo] \in Call
    BY <2>2 DEF Call
  <2> HIDE DEF todo
  <2>5. CASE ~AtLastShard(t)
    BY <1>6, <2>3, <2>5 DEF FindDomainStep, Call, InsertPc, todo
  <2>6. CASE AtLastShard(t)
    BY <1>2, <1>6, <2>4, <2>6 DEF FindDomainStep, InsertPc, todo
  <2> QED
    BY <2>5, <2>6
<1>7. CASE RemoveDomainStep(t)
  <2>1. thread[t] \in [pc : {"removing"}, todo : SUBSET Key]
    BY <1>1, <1>7 DEF RemoveDomainStep, InCall, Call, InsertCall, InsertPc, Idle
  <2>2. \A k : [pc |-> "removing", todo |-> thread[t].todo \ {k}] \in Call
    BY <2>1 DEF Call
  <2> QED
    BY <1>2, <1>7, <2>2 DEF RemoveDomainStep, InsertPc
<1>8. CASE BeginClear(t)
  BY <1>1, <1>8 DEF BeginClear, Call, InsertPc
<1>9. CASE ClearStep(t)
  <2>1. thread[t] \in [pc : {"clear"}, pos : Pos]
    BY <1>1, <1>9 DEF ClearStep, InCall, Call, InsertCall, InsertPc, Idle
  <2>2. ASSUME ~AtLastShard(t)
        PROVE  /\ [thread[t] EXCEPT !.pos = @ + 1] \in [pc : {"clear"}, pos : Pos]
               /\ [thread[t] EXCEPT !.pos = @ + 1].pc = "clear"
    <3>1. thread[t].pos + 1 \in Pos
      BY <2>1, <2>2, CacheAssumption DEF Pos, AtLastShard
    <3> QED
      BY <2>1, <3>1
  <2> QED
    BY <1>2, <1>9, <2>2 DEF ClearStep, Call, InsertPc
<1> QED
  BY <1>3, <1>4, <1>5, <1>6, <1>7, <1>8, <1>9 DEF LookupOrRemoval

\* What they do to the map.
LEMMA RemovalMap ==
  ASSUME NEW t \in Thread, LookupOrRemoval(t)
  PROVE  /\ (entries' = entries) \/ (\E K : entries' = Without(K))
         /\ now' = now /\ sweeper' = sweeper
  BY DEF LookupOrRemoval, GetExpired, RemoveExpired, BeginRemoveDomain, FindDomainStep,
         RemoveDomainStep, BeginClear, ClearStep

\* Lookups and removals keep the types.
LEMMA RemovalInv ==
  ASSUME IInv, NEW t \in Thread, LookupOrRemoval(t)
  PROVE  IInv'
<1>1. now' = now /\ sweeper' = sweeper /\ MapOK'
  BY RemovalMap, RemovalType DEF IInv
<1>2. thread' \in [Thread -> Call] /\ StampedInPast'
  BY <1>1, RemovalCall, GotoInv DEF IInv
<1> QED
  BY <1>1, <1>2 DEF IInv, TypeOK, MapOK

\* The sweep task and the clock.
SweepOrTick == SweepTick \/ SweepStep \/ StopSweeper \/ Tick \/ UNCHANGED vars

\* Time only makes the stamps older.
LEMMA SweepInv ==
  ASSUME IInv, SweepOrTick
  PROVE  IInv'
<1>1. thread' = thread /\ now \in 0..MaxTime /\ now' \in 0..MaxTime /\ now <= now'
  BY CacheAssumption
     DEF IInv, TypeOK, SweepOrTick, SweepTick, SweepStep, StopSweeper, Tick, vars
<1>2. MapOK'
  <2>1. (entries' = entries) \/ (now' = now /\ \E K : entries' = Without(K))
    BY DEF SweepOrTick, SweepTick, SweepStep, PurgeShard, StopSweeper, Tick, vars
  <2>2. CASE entries' = entries
    <3>1. \A k \in Cached : entries[k].at \in 0..MaxTime /\ entries[k].at <= now
      BY MapType DEF IInv, Entry
    <3> QED
      BY <1>1, <2>2, <3>1, CacheAssumption DEF IInv, TypeOK, MapOK, Cached
  <2>3. CASE now' = now /\ \E K : entries' = Without(K)
    BY <2>3, RemovalType DEF IInv
  <2> QED
    BY <2>1, <2>2, <2>3
<1>3. StampedInPast'
  <2>1. \A t \in Thread : Inserting(t) =>
          thread[t].entry.at \in 0..MaxTime /\ thread[t].entry.at <= now
    BY InsertLocals DEF IInv, StampedInPast, InsertCall, Entry
  <2> QED
    BY <1>1, <2>1, CacheAssumption DEF StampedInPast, Inserting
<1>4. sweeper' \in [pc : {"waiting", "stopped"}] \cup [pc : {"sweeping"}, pos : Pos]
  <2>1. 1 \in Pos
    BY CacheAssumption DEF Pos
  <2>2. CASE SweepStep
    <3>1. sweeper \in [pc : {"sweeping"}, pos : Pos]
      BY <2>2 DEF SweepStep, IInv, TypeOK
    <3>2. sweeper.pos # Shards => sweeper.pos + 1 \in Pos
      BY <3>1, CacheAssumption DEF Pos
    <3>3. sweeper.pos # Shards => [sweeper EXCEPT !.pos = @ + 1] \in [pc : {"sweeping"}, pos : Pos]
      BY <3>1, <3>2
    <3> QED
      BY <2>2, <3>3 DEF SweepStep
  <2> QED
    BY <2>1, <2>2 DEF SweepOrTick, IInv, TypeOK, SweepTick, StopSweeper, Tick, vars
<1> QED
  BY <1>1, <1>2, <1>3, <1>4 DEF IInv, TypeOK, MapOK

\* The two facts that make IInv an invariant.
LEMMA InitIInv == Init => IInv
<1> SUFFICES ASSUME Init PROVE IInv
  OBVIOUS
<1>1. MapOK
  <2>1. entries \in [{} -> Entry] /\ DOMAIN entries = {}
    BY DEF Init
  <2> QED
    BY <2>1, MapIsTyped DEF MapOK
<1>2. thread \in [Thread -> Call] /\ StampedInPast
  BY DEF Init, Call, Idle, StampedInPast, Inserting, InsertPc
<1>3. now \in 0..MaxTime
  BY CacheAssumption DEF Init
<1>4. sweeper \in [pc : {"waiting", "stopped"}]
  BY DEF Init
<1> QED
  BY <1>1, <1>2, <1>3, <1>4 DEF IInv, TypeOK, MapOK

\* The steps, sorted as the proofs take them.
LEMMA StepKinds ==
  ASSUME [Next]_vars
  PROVE  \/ SweepOrTick
         \/ \E t \in Thread :
              \/ LookupOrRemoval(t)
              \/ \E k \in Key, ttl \in Ttl : BeginInsert(t, k, ttl)
              \/ InsertStep(t)
  BY DEF Next, CallStep, LookupOrRemoval, SweepOrTick

\* Any step, by the lemmas above.
LEMMA StepIInv == IInv /\ [Next]_vars => IInv'
  BY StepKinds, InsertStepInv, StoreInv, BeginInsertInv, RemovalInv, SweepInv DEF InsertStep

\* Whatever lookups, inserts, removals and sweeps overlap, the map holds entries
\* for keys only, none of them stamped ahead of the clock, and each call is at a
\* point of the code with the locals that belong there.
THEOREM TypeCorrect == Spec => []TypeOK
<1>1. Init => IInv
  BY InitIInv
<1>2. IInv /\ [Next]_vars => IInv'
  BY StepIInv
<1>3. IInv => TypeOK
  BY DEF IInv
<1> QED
  BY <1>1, <1>2, <1>3, PTL DEF Spec

-----------------------------------------------------------------------------
(* The overshoot.  len() counts shard by shard, so a walk may miss entries *)
(* stored behind it, and no bound on what one walk misses is invariant: a  *)
(* task can store behind it and evict ahead of it again and again.  But    *)
(* that task's own walks, which let it store, began later.  Of the walks   *)
(* that have let a task through, consider the one that began last: since   *)
(* it began, no task can have both stored and been let through again, so   *)
(* the entries it has missed and the tasks now let through are at most one *)
(* per task, and it has counted fewer than MaxEntries.                     *)
(*                                                                         *)
(* The state does not record when a walk began, so the invariant says that *)
(* some history explains the state:                                        *)
(*   start[t]    when the walk of t began, on the clock c                  *)
(*   stored[t]   the tasks that have stored since                          *)
(*   fresh[t]    the keys they have stored                                 *)
(*   ws, sw, fw  the same of the walk that let a task through and began    *)
(*               last                                                      *)

Walking(t) == InCall(t, "evict")
Behind(t)  == {k \in Cached : ShardOf[k] < thread[t].pos}

HistoryType(c, start, stored, fresh, ws, sw, fw) ==
  /\ c \in Nat /\ ws \in 0..c
  /\ start \in [Thread -> 0..c]
  /\ stored \in [Thread -> SUBSET Thread] /\ fresh \in [Thread -> SUBSET Key]
  /\ sw \in SUBSET Thread /\ fw \in SUBSET Key

\* What a walk knows that no task let through has overtaken.
WalkOf(t, start, stored, fresh) ==
  /\ t \notin stored[t] /\ stored[t] \cap Committed = {}
  /\ Cardinality(fresh[t]) <= Cardinality(stored[t])
  /\ Cardinality(Behind(t) \ fresh[t]) <= thread[t].n
  /\ \A v \in stored[t] : Walking(v) => start[v] > start[t]

LastWalk(start, ws, sw, fw) ==
  /\ sw \cap Committed = {}
  /\ Cardinality(fw) <= Cardinality(sw)
  /\ Cardinality(Cached \ fw) < MaxEntries
  /\ \A v \in sw : Walking(v) => start[v] > ws

History(c, start, stored, fresh, ws, sw, fw) ==
  /\ HistoryType(c, start, stored, fresh, ws, sw, fw)
  /\ LastWalk(start, ws, sw, fw)
  /\ \A t \in Thread : Walking(t) /\ start[t] > ws => WalkOf(t, start, stored, fresh)

Explained == \E c, start, stored, fresh, ws, sw, fw : History(c, start, stored, fresh, ws, sw, fw)

\* A set of keys, and a subset of it.
LEMMA KeysCounted ==
  ASSUME NEW B \in SUBSET Key, NEW A \in SUBSET B
  PROVE  /\ IsFiniteSet(A) /\ Cardinality(A) \in Nat /\ Cardinality(B) \in Nat
         /\ Cardinality(A) <= Cardinality(B)
  BY FS_Subset, FS_CardinalityType, CacheAssumption

\* The same of tasks.
LEMMA ThreadsCounted ==
  ASSUME NEW B \in SUBSET Thread, NEW A \in SUBSET B
  PROVE  /\ IsFiniteSet(A) /\ Cardinality(A) \in Nat /\ Cardinality(B) \in Nat
         /\ Cardinality(A) <= Cardinality(B)
  BY FS_Subset, FS_CardinalityType, CacheAssumption

\* Disjoint sets are counted one after the other.
LEMMA DisjointUnion ==
  ASSUME NEW A, NEW B, IsFiniteSet(A), IsFiniteSet(B), A \cap B = {}
  PROVE  Cardinality(A \cup B) = Cardinality(A) + Cardinality(B)
<1>1. Cardinality(A \cap B) = 0
  BY FS_EmptySet
<1>2. Cardinality(A \cup B) = Cardinality(A) + Cardinality(B) - Cardinality(A \cap B)
  BY FS_Union
<1>3. Cardinality(A) \in Nat /\ Cardinality(B) \in Nat
  BY FS_CardinalityType
<1> QED
  BY <1>1, <1>2, <1>3

\* Disjoint sets of tasks are together no more than all tasks.
LEMMA DisjointThreads ==
  ASSUME NEW A \in SUBSET Thread, NEW B \in SUBSET Thread, A \cap B = {}
  PROVE  Cardinality(A) + Cardinality(B) <= Cardinality(Thread)
<1>1. IsFiniteSet(A) /\ IsFiniteSet(B) /\ Cardinality(A) \in Nat /\ Cardinality(B) \in Nat
  BY ThreadsCounted
<1>2. Cardinality(A \cup B) = Cardinality(A) + Cardinality(B)
  BY <1>1, DisjointUnion
<1>3. A \cup B \in SUBSET Thread /\ Thread \in SUBSET Thread
  OBVIOUS
<1>4. Cardinality(A \cup B) <= Cardinality(Thread)
  BY <1>3, ThreadsCounted
<1> QED
  BY <1>2, <1>4

\* A set of entries apart from a set of keys.
LEMMA SplitKeys ==
  ASSUME NEW A \in SUBSET Key, NEW F \in SUBSET Key
  PROVE  Cardinality(A) <= Cardinality(A \ F) + Cardinality(F)
<1>1. IsFiniteSet(A \ F) /\ IsFiniteSet(F)
  BY KeysCounted
<1>2. (A \ F) \cap F = {} /\ A \subseteq (A \ F) \cup F /\ (A \ F) \cup F \in SUBSET Key
  OBVIOUS
<1>3. Cardinality((A \ F) \cup F) = Cardinality(A \ F) + Cardinality(F)
  BY <1>1, <1>2, DisjointUnion
<1>4. Cardinality(A) <= Cardinality((A \ F) \cup F)
  BY <1>2, KeysCounted
<1> QED
  BY <1>3, <1>4

\* The bound follows from the last walk.
LEMMA ExplainedBound ==
  ASSUME IInv, Explained
  PROVE  OvershootBounded
<1>1. PICK c, start, stored, fresh, ws, sw, fw : History(c, start, stored, fresh, ws, sw, fw)
  BY DEF Explained
<1>2. Cached \in SUBSET Key /\ fw \in SUBSET Key
  BY <1>1, MapType DEF IInv, History, HistoryType
<1>3. Len <= Cardinality(Cached \ fw) + Cardinality(fw)
  BY <1>2, SplitKeys DEF Len
<1>4. Cardinality(sw) + Cardinality(Committed) <= Cardinality(Thread)
  <2>1. sw \in SUBSET Thread /\ Committed \in SUBSET Thread /\ sw \cap Committed = {}
    BY <1>1 DEF History, HistoryType, LastWalk, Committed
  <2> QED
    BY <2>1, DisjointThreads
<1>5. /\ Len \in Nat /\ Cardinality(Cached \ fw) \in Nat /\ Cardinality(fw) \in Nat
      /\ Cardinality(sw) \in Nat /\ Cardinality(Committed) \in Nat
      /\ Cardinality(Thread) \in Nat
  <2>1. sw \in SUBSET Thread /\ Committed \in SUBSET Thread
    BY <1>1 DEF History, HistoryType, Committed
  <2>2. Cardinality(sw) \in Nat /\ Cardinality(Committed) \in Nat /\ Cardinality(Thread) \in Nat
    BY <2>1, ThreadsCounted
  <2> QED
    BY <1>2, <2>2, KeysCounted DEF Len
<1>6. Cardinality(Cached \ fw) < MaxEntries /\ Cardinality(fw) <= Cardinality(sw)
  BY <1>1 DEF History, LastWalk
<1>7. Len + Cardinality(Committed) < MaxEntries + Cardinality(Thread)
  BY <1>3, <1>4, <1>5, <1>6, CacheAssumption
<1> QED
  BY <1>7 DEF OvershootBounded

\* A step in which nobody stores, is let through or walks on.
LEMMA QuietExplained ==
  ASSUME IInv, Explained, IInv',
         Cached' \subseteq Cached, Committed' \subseteq Committed,
         \A v \in Thread : Walking(v)' => Walking(v) /\ thread'[v] = thread[v]
  PROVE  Explained'
<1>1. PICK c, start, stored, fresh, ws, sw, fw : History(c, start, stored, fresh, ws, sw, fw)
  BY DEF Explained
<1> USE DEF History
<1>2. HistoryType(c, start, stored, fresh, ws, sw, fw)'
  BY <1>1 DEF HistoryType
<1>3. Cached \in SUBSET Key
  BY MapType DEF IInv
<1>4. LastWalk(start, ws, sw, fw)'
  <2>1. Cardinality(Cached' \ fw) <= Cardinality(Cached \ fw)
        /\ Cardinality(Cached' \ fw) \in Nat /\ Cardinality(Cached \ fw) \in Nat
    BY <1>3, KeysCounted
  <2>2. Cardinality(Cached' \ fw) < MaxEntries
    BY <1>1, <2>1, CacheAssumption DEF LastWalk
  <2>3. sw \in SUBSET Thread
    BY <1>1 DEF HistoryType
  <2> QED
    BY <1>1, <2>2, <2>3 DEF LastWalk
<1>5. ASSUME NEW t \in Thread, Walking(t)', start[t] > ws
      PROVE  WalkOf(t, start, stored, fresh)'
  <2>1. thread'[t] = thread[t] /\ WalkOf(t, start, stored, fresh) /\ Walking(t)
    BY <1>1, <1>5
  <2>2. Behind(t)' \subseteq Behind(t) /\ Behind(t) \subseteq Key
    BY <1>3, <2>1 DEF Behind
  <2>3. /\ Cardinality(Behind(t)' \ fresh[t]) <= Cardinality(Behind(t) \ fresh[t])
        /\ Cardinality(Behind(t)' \ fresh[t]) \in Nat /\ Cardinality(Behind(t) \ fresh[t]) \in Nat
    BY <2>2, KeysCounted
  <2>4. thread[t].n \in Nat
    BY <2>1, InsertLocals DEF Walking, InCall, Inserting, InsertPc, InsertCall, IInv
  <2>5. Cardinality(Behind(t)' \ fresh[t]) <= thread'[t].n
    BY <2>1, <2>3, <2>4 DEF WalkOf
  <2>6. stored[t] \in SUBSET Thread
    BY <1>1 DEF HistoryType
  <2> QED
    BY <2>1, <2>5, <2>6 DEF WalkOf
<1> QED
  BY <1>2, <1>4, <1>5 DEF Explained

\* A task begins a walk: nobody has stored since, and it is the last to begin.
LEMMA WalkBegins ==
  ASSUME IInv, Explained, IInv', NEW t \in Thread, Inserting(t),
         Cached' \subseteq Cached, Goto(t, At(t, "evict"))
  PROVE  Explained'
<1>1. PICK c, start, stored, fresh, ws, sw, fw : History(c, start, stored, fresh, ws, sw, fw)
  BY DEF Explained
<1> DEFINE c2      == c + 1
           start2  == [start EXCEPT ![t] = c2]
           stored2 == [stored EXCEPT ![t] = {}]
           fresh2  == [fresh EXCEPT ![t] = {}]
<1>2. HistoryType(c, start, stored, fresh, ws, sw, fw)
  BY <1>1 DEF History
<1>3. HistoryType(c2, start2, stored2, fresh2, ws, sw, fw)
  <2>1. start2 \in [Thread -> 0..c2] /\ ws \in 0..c2 /\ c2 \in Nat
    BY <1>2 DEF HistoryType
  <2>2. stored2 \in [Thread -> SUBSET Thread] /\ fresh2 \in [Thread -> SUBSET Key]
    BY <1>2 DEF HistoryType
  <2> HIDE DEF c2, start2, stored2, fresh2
  <2> QED
    BY <1>2, <2>1, <2>2 DEF HistoryType
<1>4. /\ \A v \in Thread : thread'[v] = IF v = t THEN At(t, "evict") ELSE thread[v]
      /\ At(t, "evict").pc = "evict" /\ At(t, "evict").pos = 1 /\ At(t, "evict").n = 0
  BY AtType DEF IInv, TypeOK, Goto, InsertPc
<1>5. Committed' \subseteq Committed
  BY <1>4 DEF Committed, InCall
<1>6. Cached \in SUBSET Key /\ Cached' \in SUBSET Key
  BY MapType DEF IInv
<1>7. \A v \in Thread : start2[v] >= start[v] /\ (v # t => start2[v] = start[v])
  BY <1>2 DEF HistoryType
<1>8. start2[t] = c2 /\ \A v \in Thread : start[v] < c2 /\ ws < c2
  BY <1>2 DEF HistoryType
<1>9. LastWalk(start2, ws, sw, fw)'
  <2>1. Cardinality(Cached' \ fw) < MaxEntries
    <3>1. Cardinality(Cached' \ fw) <= Cardinality(Cached \ fw)
          /\ Cardinality(Cached' \ fw) \in Nat /\ Cardinality(Cached \ fw) \in Nat
      BY <1>6, KeysCounted
    <3> QED
      BY <1>1, <3>1, CacheAssumption DEF History, LastWalk
  <2>2. \A v \in sw : Walking(v)' => start2[v] > ws
    <3>1. \A v \in sw : v # t /\ Walking(v)' => Walking(v)
      BY <1>2, <1>4 DEF Walking, InCall, HistoryType
    <3> QED
      BY <1>1, <1>2, <1>7, <1>8, <3>1 DEF History, LastWalk, HistoryType
  <2> HIDE DEF start2
  <2> QED
    BY <1>1, <1>5, <2>1, <2>2 DEF History, LastWalk
<1>10. ASSUME NEW u \in Thread, Walking(u)', start2[u] > ws
       PROVE  WalkOf(u, start2, stored2, fresh2)'
  <2>1. CASE u = t
    <3>1. stored2[t] = {} /\ fresh2[t] = {}
      BY <1>2 DEF HistoryType
    <3>2. Behind(t)' = {}
      <4>1. \A k \in Cached' : ~(ShardOf[k] < 1)
        BY <1>6, CacheAssumption DEF Pos
      <4> QED
        BY <1>4, <4>1 DEF Behind
    <3>3. Cardinality(fresh2[t]) = 0 /\ Cardinality(stored2[t]) = 0
          /\ Cardinality(Behind(t)' \ fresh2[t]) = 0
      BY <3>1, <3>2, FS_EmptySet
    <3> HIDE DEF stored2, fresh2, start2
    <3> QED
      BY <1>4, <2>1, <3>1, <3>3 DEF WalkOf
  <2>2. CASE u # t
    <3>1. /\ thread'[u] = thread[u] /\ Walking(u) /\ start2[u] = start[u]
          /\ stored2[u] = stored[u] /\ fresh2[u] = fresh[u]
      BY <1>2, <1>4, <1>10, <2>2 DEF Walking, InCall, HistoryType
    <3>2. WalkOf(u, start, stored, fresh)
      BY <1>1, <1>10, <3>1 DEF History
    <3>3. Behind(u)' \subseteq Behind(u) /\ Behind(u) \in SUBSET Key
      BY <1>6, <3>1 DEF Behind
    <3>4. Cardinality(Behind(u)' \ fresh[u]) <= thread'[u].n
      <4>1. /\ Cardinality(Behind(u)' \ fresh[u]) <= Cardinality(Behind(u) \ fresh[u])
            /\ Cardinality(Behind(u)' \ fresh[u]) \in Nat
            /\ Cardinality(Behind(u) \ fresh[u]) \in Nat
        BY <3>3, KeysCounted
      <4>2. thread[u].n \in Nat
        BY <3>1, InsertLocals DEF Walking, InCall, Inserting, InsertPc, InsertCall, IInv
      <4> QED
        BY <3>1, <3>2, <4>1, <4>2 DEF WalkOf
    <3>5. \A v \in stored[u] : Walking(v)' => start2[v] > start2[u]
      <4>1. stored[u] \in SUBSET Thread
        BY <1>2 DEF HistoryType
      <4>2. \A v \in Thread : v # t /\ Walking(v)' => Walking(v)
        BY <1>4 DEF Walking, InCall
      <4> HIDE DEF start2
      <4> QED
        BY <1>7, <1>8, <3>1, <3>2, <4>1, <4>2 DEF WalkOf
    <3> HIDE DEF start2, stored2, fresh2
    <3> QED
      BY <1>5, <3>1, <3>2, <3>4, <3>5 DEF WalkOf
  <2> QED
    BY <2>1, <2>2
<1>11. HistoryType(c2, start2, stored2, fresh2, ws, sw, fw)'
  BY <1>3 DEF HistoryType
<1>12. History(c2, start2, stored2, fresh2, ws, sw, fw)'
  <2> HIDE DEF c2, start2, stored2, fresh2
  <2> QED
    BY <1>9, <1>10, <1>11 DEF History
<1> QED
  BY <1>12 DEF Explained

\* What a walk has behind it, once the shard it is at has been counted.
LEMMA CountedKeys ==
  ASSUME IInv, NEW t \in Thread, Inserting(t), NEW F,
         Cardinality(Behind(t) \ F) <= thread[t].n
  PROVE  /\ Counted(t) \in Nat
         /\ Cardinality((Behind(t) \cup InShard(thread[t].pos)) \ F) <= Counted(t)
<1> DEFINE B == Behind(t) \ F
           S == InShard(thread[t].pos)
<1>1. B \in SUBSET Key /\ S \in SUBSET Key /\ S \ F \in SUBSET S /\ B \cap (S \ F) = {}
  <2>1. Behind(t) \subseteq Cached /\ S \subseteq Cached /\ Cached \subseteq Key
    BY MapType DEF IInv, Behind, InShard
  <2>2. thread[t].pos \in Int /\ \A k \in Cached : ShardOf[k] \in Int
    BY <2>1, InsertLocals, CacheAssumption DEF InsertCall, Pos, IInv
  <2>3. \A k \in Behind(t) : k \notin S
    BY <2>2 DEF Behind, InShard
  <2> QED
    BY <2>1, <2>3
<1> HIDE DEF B, S
<1>2. /\ IsFiniteSet(B) /\ IsFiniteSet(S \ F)
      /\ Cardinality(B) \in Nat /\ Cardinality(S) \in Nat /\ Cardinality(S \ F) \in Nat
      /\ Cardinality(S \ F) <= Cardinality(S)
  BY <1>1, KeysCounted
<1>3. Cardinality(B \cup (S \ F)) = Cardinality(B) + Cardinality(S \ F)
  BY <1>1, <1>2, DisjointUnion
<1>4. (Behind(t) \cup S) \ F = B \cup (S \ F)
  BY DEF B
<1>5. thread[t].n \in Nat
  BY InsertLocals DEF InsertCall, IInv
<1> QED
  BY <1>2, <1>3, <1>4, <1>5 DEF Counted, B, S

\* A walk goes on to the next shard.
LEMMA WalkGoesOn ==
  ASSUME IInv, Explained, NEW t \in Thread, Walking(t), CountShard(t), entries' = entries
  PROVE  Explained'
<1>1. PICK c, start, stored, fresh, ws, sw, fw : History(c, start, stored, fresh, ws, sw, fw)
  BY DEF Explained
<1>2. HistoryType(c, start, stored, fresh, ws, sw, fw)
  BY <1>1 DEF History
<1>3. Inserting(t) /\ thread[t] \in InsertCall
  BY InsertLocals DEF Walking, InCall, Inserting, InsertPc, IInv
<1>4. /\ \A v \in Thread \ {t} : thread'[v] = thread[v]
      /\ thread'[t].pc = thread[t].pc
      /\ thread'[t].pos = thread[t].pos + 1 /\ thread'[t].n = Counted(t)
  <2>1. thread'[t] = [thread[t] EXCEPT !.pos = @ + 1,
                                       !.n = @ + Cardinality(InShard(thread[t].pos))]
        /\ \A v \in Thread \ {t} : thread'[v] = thread[v]
    BY DEF CountShard, Goto, IInv, TypeOK
  <2> QED
    BY <1>3, <2>1 DEF InsertCall, Counted
<1>5. Committed' = Committed /\ Cached' = Cached /\ \A v \in Thread : Walking(v)' <=> Walking(v)
  BY <1>4 DEF Committed, InCall, Walking, Cached
<1>6. LastWalk(start, ws, sw, fw)'
  BY <1>1, <1>2, <1>5 DEF History, HistoryType, LastWalk
<1>7. ASSUME NEW u \in Thread, Walking(u)', start[u] > ws
      PROVE  WalkOf(u, start, stored, fresh)'
  <2>1. WalkOf(u, start, stored, fresh) /\ stored[u] \in SUBSET Thread
    BY <1>1, <1>2, <1>5, <1>7 DEF History, HistoryType
  <2>2. Cardinality(Behind(u)' \ fresh[u]) <= thread'[u].n
    <3>1. CASE u # t
      BY <1>4, <1>5, <2>1, <3>1 DEF WalkOf, Behind
    <3>2. CASE u = t
      <4>1. Behind(t)' = Behind(t) \cup InShard(thread[t].pos)
        <5>1. thread[t].pos \in Int /\ \A k \in Cached : ShardOf[k] \in Int
          BY <1>3, MapType, CacheAssumption DEF InsertCall, Pos, IInv
        <5> QED
          BY <1>4, <1>5, <5>1 DEF Behind, InShard
      <4> QED
        BY <1>3, <1>4, <2>1, <3>2, <4>1, CountedKeys DEF WalkOf
    <3> QED
      BY <3>1, <3>2
  <2> QED
    BY <1>5, <2>1, <2>2 DEF WalkOf
<1>8. HistoryType(c, start, stored, fresh, ws, sw, fw)'
  BY <1>2 DEF HistoryType
<1> QED
  BY <1>6, <1>7, <1>8 DEF History, Explained

\* A walk has counted fewer than MaxEntries: its task is let through.  If it
\* began later than the last such walk it takes that one's place.
LEMMA LetThrough ==
  ASSUME IInv, Explained, NEW t \in Thread, Walking(t), AtLastShard(t),
         Counted(t) < MaxEntries, Goto(t, At(t, "store")), entries' = entries
  PROVE  Explained'
<1>1. PICK c, start, stored, fresh, ws, sw, fw : History(c, start, stored, fresh, ws, sw, fw)
  BY DEF Explained
<1>2. HistoryType(c, start, stored, fresh, ws, sw, fw)
  BY <1>1 DEF History
<1>3. Inserting(t) /\ thread[t] \in InsertCall /\ At(t, "store").pc = "store"
  BY InsertLocals, AtType DEF Walking, InCall, Inserting, InsertPc, IInv
<1>4. \A v \in Thread : thread'[v] = IF v = t THEN At(t, "store") ELSE thread[v]
  BY DEF Goto, IInv, TypeOK
<1>5. /\ Committed' = Committed \cup {t} /\ Cached' = Cached
      /\ \A v \in Thread : Walking(v)' => v # t /\ Walking(v) /\ thread'[v] = thread[v]
  BY <1>3, <1>4 DEF Committed, InCall, Walking, Cached
<1>6. \A u \in Thread : u # t => Behind(u)' = Behind(u)
  BY <1>4, <1>5 DEF Behind
\* A walk that began later than that of t has not seen t store.
<1>7. ASSUME NEW u \in Thread, Walking(u)', start[u] > ws, start[u] >= start[t]
      PROVE  WalkOf(u, start, stored, fresh)'
  <2>1. u # t /\ WalkOf(u, start, stored, fresh) /\ stored[u] \in SUBSET Thread
    BY <1>1, <1>2, <1>5, <1>7 DEF History, HistoryType
  <2>2. t \notin stored[u]
    <3>1. start[u] \in Int /\ start[t] \in Int
      BY <1>2 DEF HistoryType
    <3> QED
      BY <1>7, <2>1, <3>1 DEF WalkOf
  <2>3. Behind(u)' = Behind(u) /\ thread'[u] = thread[u]
    BY <1>5, <1>6, <1>7, <2>1
  <2>4. stored[u] \cap Committed' = {}
    BY <1>5, <2>1, <2>2 DEF WalkOf
  <2>5. \A v \in stored[u] : Walking(v)' => start[v] > start[u]
    BY <1>5, <2>1 DEF WalkOf
  <2> QED
    BY <2>1, <2>3, <2>4, <2>5 DEF WalkOf
<1>8. CASE start[t] > ws
  <2>1. WalkOf(t, start, stored, fresh) /\ stored[t] \in SUBSET Thread
    BY <1>1, <1>2, <1>8 DEF History, HistoryType
  <2>2. Cardinality(Cached \ fresh[t]) < MaxEntries
    <3>1. Cached = Behind(t) \cup InShard(thread[t].pos)
      <4>1. \A k \in Cached : ShardOf[k] \in Pos
        BY MapType, CacheAssumption DEF IInv
      <4> QED
        BY <4>1, CacheAssumption DEF Behind, InShard, AtLastShard, Pos
    <3>2. Counted(t) \in Nat /\ Cardinality(Cached \ fresh[t]) <= Counted(t)
      BY <1>3, <2>1, <3>1, CountedKeys DEF WalkOf
    <3>3. Cardinality(Cached \ fresh[t]) \in Nat
      BY MapType, KeysCounted DEF IInv
    <3> QED
      BY <3>2, <3>3, CacheAssumption
  <2>3. LastWalk(start, start[t], stored[t], fresh[t])'
    BY <1>5, <2>1, <2>2 DEF WalkOf, LastWalk
  <2>4. \A u \in Thread : Walking(u)' /\ start[u] > start[t] => WalkOf(u, start, stored, fresh)'
    <3>1. \A u \in Thread : start[u] \in Int /\ start[t] \in Int /\ ws \in Int
      BY <1>2 DEF HistoryType
    <3> QED
      BY <1>7, <1>8, <3>1
  <2>5. HistoryType(c, start, stored, fresh, start[t], stored[t], fresh[t])'
    BY <1>2 DEF HistoryType
  <2>6. History(c, start, stored, fresh, start[t], stored[t], fresh[t])'
    BY <2>3, <2>4, <2>5 DEF History
  <2> QED
    BY <2>6 DEF Explained
<1>9. CASE ~(start[t] > ws)
  <2>1. t \notin sw
    BY <1>1, <1>9 DEF History, LastWalk
  <2>2. LastWalk(start, ws, sw, fw)'
    BY <1>1, <1>2, <1>5, <2>1 DEF History, HistoryType, LastWalk
  <2>3. \A u \in Thread : Walking(u)' /\ start[u] > ws => WalkOf(u, start, stored, fresh)'
    <3>1. \A u \in Thread : start[u] \in Int /\ start[t] \in Int /\ ws \in Int
      BY <1>2 DEF HistoryType
    <3> QED
      BY <1>7, <1>9, <3>1
  <2>4. HistoryType(c, start, stored, fresh, ws, sw, fw)'
    BY <1>2 DEF HistoryType
  <2>5. History(c, start, stored, fresh, ws, sw, fw)'
    BY <2>2, <2>3, <2>4 DEF History
  <2> QED
    BY <2>5 DEF Explained
<1> QED
  BY <1>8, <1>9

\* A set of keys and one of tasks grow by one each, the tasks by a new one.
LEMMA BothGrow ==
  ASSUME NEW F \in SUBSET Key, NEW S \in SUBSET Thread, NEW k \in Key,
         NEW t \in Thread \ S, Cardinality(F) <= Cardinality(S)
  PROVE  Cardinality(F \cup {k}) <= Cardinality(S \cup {t})
<1>1. /\ IsFiniteSet(F) /\ IsFiniteSet(S)
      /\ Cardinality(F) \in Nat /\ Cardinality(S) \in Nat
  BY KeysCounted, ThreadsCounted
<1>2. Cardinality(S \cup {t}) = Cardinality(S) + 1
  BY <1>1, FS_AddElement
<1>3. Cardinality(F \cup {k}) = Cardinality(F) \/ Cardinality(F \cup {k}) = Cardinality(F) + 1
  BY <1>1, FS_AddElement
<1> QED
  BY <1>1, <1>2, <1>3

\* A task stores: for every walk it is one more task, with at most one more key.
LEMMA StoreExplained ==
  ASSUME IInv, Explained, NEW t \in Thread, Store(t)
  PROVE  Explained'
<1>0. PICK k : k = thread[t].key
  OBVIOUS
<1>1. PICK c, start, stored, fresh, ws, sw, fw : History(c, start, stored, fresh, ws, sw, fw)
  BY DEF Explained
<1> DEFINE stored2 == [u \in Thread |-> stored[u] \cup {t}]
           fresh2  == [u \in Thread |-> fresh[u] \cup {k}]
           sw2     == sw \cup {t}
           fw2     == fw \cup {k}
<1>2. HistoryType(c, start, stored, fresh, ws, sw, fw)
  BY <1>1 DEF History
<1>3. k \in Key /\ t \in Committed
  BY <1>0, InsertLocals DEF Store, InCall, Inserting, InsertPc, InsertCall, Committed, IInv
<1>4. \A v \in Thread : thread'[v] = IF v = t THEN Idle ELSE thread[v]
  BY DEF Store, Goto, IInv, TypeOK
<1>5. /\ Committed' = Committed \ {t} /\ Cached' = Cached \cup {k}
      /\ \A v \in Thread : Walking(v)' => v # t /\ Walking(v) /\ thread'[v] = thread[v]
  BY <1>0, <1>4 DEF Committed, InCall, Walking, Cached, Idle, Store, With
<1>6. HistoryType(c, start, stored2, fresh2, ws, sw2, fw2)'
  <2>1. stored2 \in [Thread -> SUBSET Thread] /\ fresh2 \in [Thread -> SUBSET Key]
    BY <1>2, <1>3 DEF HistoryType
  <2>2. sw2 \in SUBSET Thread /\ fw2 \in SUBSET Key
    BY <1>2, <1>3 DEF HistoryType
  <2> HIDE DEF stored2, fresh2, sw2, fw2
  <2> QED
    BY <1>2, <2>1, <2>2 DEF HistoryType
<1>7. LastWalk(start, ws, sw2, fw2)'
  <2>1. /\ sw \cap Committed = {} /\ Cardinality(fw) <= Cardinality(sw)
        /\ Cardinality(Cached \ fw) < MaxEntries
        /\ \A v \in sw : Walking(v) => start[v] > ws
    BY <1>1 DEF History, LastWalk
  <2>2. sw \in SUBSET Thread /\ fw \in SUBSET Key /\ t \in Thread \ sw
    BY <1>2, <1>3, <2>1 DEF HistoryType
  <2>3. Cardinality(fw2) <= Cardinality(sw2)
    BY <1>3, <2>1, <2>2, BothGrow
  <2>4. Cardinality(Cached' \ fw2) < MaxEntries
    <3>1. Cached' \ fw2 \in SUBSET (Cached \ fw) /\ Cached \ fw \in SUBSET Key
      BY <1>5, MapType DEF IInv
    <3>2. /\ Cardinality(Cached' \ fw2) <= Cardinality(Cached \ fw)
          /\ Cardinality(Cached' \ fw2) \in Nat /\ Cardinality(Cached \ fw) \in Nat
      BY <3>1, KeysCounted
    <3> HIDE DEF fw2
    <3> QED
      BY <2>1, <3>2, CacheAssumption
  <2>5. \A v \in sw2 : Walking(v)' => start[v] > ws
    BY <1>5, <2>1, <2>2
  <2>6. sw2 \cap Committed' = {}
    BY <1>5, <2>1
  <2> HIDE DEF sw2, fw2
  <2> QED
    BY <2>3, <2>4, <2>5, <2>6 DEF LastWalk
<1>8. ASSUME NEW u \in Thread, Walking(u)', start[u] > ws
      PROVE  WalkOf(u, start, stored2, fresh2)'
  <2>1. /\ u # t /\ thread'[u] = thread[u] /\ WalkOf(u, start, stored, fresh) /\ Walking(u)
        /\ stored[u] \in SUBSET Thread /\ fresh[u] \in SUBSET Key
        /\ stored2[u] = stored[u] \cup {t} /\ fresh2[u] = fresh[u] \cup {k}
    BY <1>1, <1>2, <1>5, <1>8 DEF History, HistoryType
  <2>2. t \notin stored[u]
    BY <1>3, <2>1 DEF WalkOf
  <2>3. Cardinality(fresh2[u]) <= Cardinality(stored2[u])
    BY <1>3, <2>1, <2>2, BothGrow DEF WalkOf
  <2>4. Cardinality(Behind(u)' \ fresh2[u]) <= thread'[u].n
    <3>1. /\ Behind(u)' \ fresh2[u] \in SUBSET (Behind(u) \ fresh[u])
          /\ Behind(u) \ fresh[u] \in SUBSET Key
      BY <1>5, <2>1, MapType DEF Behind, IInv
    <3>2. /\ Cardinality(Behind(u)' \ fresh2[u]) <= Cardinality(Behind(u) \ fresh[u])
          /\ Cardinality(Behind(u)' \ fresh2[u]) \in Nat
          /\ Cardinality(Behind(u) \ fresh[u]) \in Nat
      BY <3>1, KeysCounted
    <3>3. thread[u].n \in Nat
      BY <2>1, InsertLocals DEF Walking, InCall, Inserting, InsertPc, InsertCall, IInv
    <3> HIDE DEF fresh2
    <3> QED
      BY <2>1, <3>2, <3>3 DEF WalkOf
  <2> HIDE DEF stored2, fresh2
  <2> QED
    BY <1>5, <2>1, <2>3, <2>4 DEF WalkOf
<1>9. History(c, start, stored2, fresh2, ws, sw2, fw2)'
  <2> HIDE DEF stored2, fresh2, sw2, fw2
  <2> QED
    BY <1>6, <1>7, <1>8 DEF History
<1> QED
  BY <1>9 DEF Explained

\* A step that removes keys at most, after which its task is not walking.
LEMMA TaskQuiet ==
  ASSUME IInv, Explained, IInv', NEW t \in Thread, NEW call, Goto(t, call),
         call.pc \notin {"evict", "store"}, Cached' \subseteq Cached
  PROVE  Explained'
<1>1. \A v \in Thread : thread'[v] = IF v = t THEN call ELSE thread[v]
  BY DEF Goto, IInv, TypeOK
<1>2. Committed' \subseteq Committed
        /\ \A v \in Thread : Walking(v)' => Walking(v) /\ thread'[v] = thread[v]
  BY <1>1 DEF Committed, InCall, Walking
<1> QED
  BY <1>2, QuietExplained

\* Removing keys leaves no new ones.
LEMMA OnlyRemoves ==
  ASSUME (entries' = entries) \/ (\E K : entries' = Without(K))
  PROVE  Cached' \subseteq Cached
  BY DEF Cached, Without

\* The steps of an insert, the store excepted.
LEMMA InsertExplained ==
  ASSUME IInv, Explained, IInv', NEW t \in Thread,
         \/ CheckCapacity(t) \/ PurgeStep(t) \/ TestFull(t)
         \/ EvictSample(t) \/ EvictRemove(t)
  PROVE  Explained'
<1>1. Inserting(t) /\ thread[t] \in InsertCall
  BY InsertLocals
     DEF CheckCapacity, PurgeStep, TestFull, EvictSample, EvictRemove, InCall, Inserting,
         InsertPc, IInv
<1>2. Cached' \subseteq Cached
  BY OnlyRemoves DEF CheckCapacity, PurgeStep, PurgeShard, TestFull, EvictSample, EvictRemove
<1>3. \A pc \in InsertPc : At(t, pc).pc = pc /\ At(t, pc) \in InsertCall
  BY <1>1, AtType DEF IInv
<1>4. CASE Goto(t, At(t, "evict"))
  BY <1>1, <1>2, <1>4, WalkBegins
<1>5. CASE CheckCapacity(t)
  <2>1. CASE CountShard(t)
    <3>1. [thread[t] EXCEPT !.pos = @ + 1,
                            !.n = @ + Cardinality(InShard(thread[t].pos))].pc = "check"
      BY <1>1, <1>5 DEF CheckCapacity, InCall, InsertCall
    <3> QED
      BY <1>2, <2>1, <3>1, TaskQuiet DEF CountShard
  <2>2. CASE Goto(t, At(t, "purge"))
    BY <1>2, <1>3, <2>2, TaskQuiet DEF InsertPc
  <2> QED
    BY <1>4, <1>5, <2>1, <2>2 DEF CheckCapacity
<1>6. CASE PurgeStep(t)
  <2>1. [thread[t] EXCEPT !.pos = @ + 1].pc = "purge"
    BY <1>1, <1>6 DEF PurgeStep, InCall, InsertCall
  <2> QED
    BY <1>2, <1>4, <1>6, <2>1, TaskQuiet DEF PurgeStep
<1>7. CASE TestFull(t)
  <2>1. Walking(t) /\ entries' = entries
    BY <1>7 DEF TestFull, Walking
  <2>2. CASE Goto(t, At(t, "sample"))
    BY <1>2, <1>3, <2>2, TaskQuiet DEF InsertPc
  <2> QED
    BY <1>7, <2>1, <2>2, WalkGoesOn, LetThrough DEF TestFull
<1>8. CASE EvictSample(t)
  <2>1. \A size, best : [thread[t] EXCEPT !.pos = @ + 1, !.n = @ + size, !.best = best].pc = "sample"
    BY <1>1, <1>8 DEF EvictSample, InCall, InsertCall
  <2>2. \A best : [At(t, "remove") EXCEPT !.best = best].pc = "remove"
    BY <1>3 DEF InsertPc, InsertCall
  <2>3. \/ Goto(t, At(t, "evict"))
        \/ \E call : Goto(t, call) /\ call.pc \in {"sample", "remove"}
    BY <1>8, <2>1, <2>2 DEF EvictSample
  <2> QED
    BY <1>2, <1>4, <2>3, TaskQuiet
<1>9. CASE EvictRemove(t)
  BY <1>4, <1>9 DEF EvictRemove
<1> QED
  BY <1>5, <1>6, <1>7, <1>8, <1>9

\* Every step.
LEMMA StepExplained ==
  ASSUME IInv, Explained, [Next]_vars
  PROVE  Explained'
<1>1. IInv'
  BY StepIInv
<1>2. CASE SweepOrTick
  <2>1. thread' = thread /\ Cached' \subseteq Cached
    BY <1>2, OnlyRemoves
       DEF SweepOrTick, SweepTick, SweepStep, PurgeShard, StopSweeper, Tick, vars
  <2> QED
    BY <1>1, <2>1, QuietExplained DEF Committed, InCall, Walking
<1>3. ASSUME NEW t \in Thread, LookupOrRemoval(t) PROVE Explained'
  <2>1. PICK call \in Call : Goto(t, call) /\ call.pc \notin InsertPc
    BY <1>3, RemovalCall DEF IInv
  <2>2. Cached' \subseteq Cached
    BY <1>3, RemovalMap, OnlyRemoves
  <2> QED
    BY <1>1, <2>1, <2>2, TaskQuiet DEF InsertPc
<1>4. ASSUME NEW t \in Thread, NEW k \in Key, NEW ttl \in Ttl, BeginInsert(t, k, ttl)
      PROVE  Explained'
  <2>1. Cached' \subseteq Cached
    BY <1>4, OnlyRemoves DEF BeginInsert
  <2> QED
    BY <1>1, <1>4, <2>1, TaskQuiet DEF BeginInsert
<1>5. ASSUME NEW t \in Thread, InsertStep(t) PROVE Explained'
  BY <1>1, <1>5, InsertExplained, StoreExplained DEF InsertStep
<1> QED
  BY <1>2, <1>3, <1>4, <1>5, StepKinds

\* At the start an empty map and no walk need no history.
LEMMA InitExplained ==
  ASSUME Init, MaxEntries > 0
  PROVE  Explained
<1> DEFINE start  == [t \in Thread |-> 0]
           nobody == [t \in Thread |-> {}]
<1>1. HistoryType(0, start, nobody, nobody, 0, {}, {})
  BY DEF HistoryType
<1>2. Cached = {} /\ \A t \in Thread : ~Walking(t)
  BY DEF Init, Cached, Walking, InCall, Idle
<1>3. LastWalk(start, 0, {}, {})
  BY <1>2, FS_EmptySet DEF LastWalk
<1>4. History(0, start, nobody, nobody, 0, {}, {})
  <2> HIDE DEF start, nobody
  <2> QED
    BY <1>1, <1>2, <1>3 DEF History
<1> QED
  BY <1>4 DEF Explained

\* However many inserts run at once, and although none of them sees the size of
\* the map at one moment, the cache never holds more than MaxEntries - 1 entries
\* and one for each task.
THEOREM Overshoot == Spec => []OvershootBounded
<1> DEFINE Inv == IInv /\ (MaxEntries > 0 => Explained)
<1>1. Init => Inv
  BY InitIInv, InitExplained
<1>2. Inv /\ [Next]_vars => Inv'
  BY StepIInv, StepExplained
<1>3. Inv => OvershootBounded
  BY ExplainedBound DEF OvershootBounded
<1> HIDE DEF Inv
<1> QED
  BY <1>1, <1>2, <1>3, PTL DEF Spec
=============================================================================
