------------------------------ MODULE DnsCache ------------------------------
(***************************************************************************)
(* The response cache (nimbus-core/src/dns/cache.rs), used by any number   *)
(* of query tasks at once, and the task that sweeps it (dns/mod.rs).       *)
(*                                                                         *)
(* The map is a DashMap: shards, each behind a lock of its own.  What is   *)
(* done to one key is one step.  What concerns the whole map -- len, iter, *)
(* retain, clear -- walks the shards in order and takes one lock at a time,*)
(* so that other tasks act between two shards.  An insert is a sequence of *)
(* such walks: look at the size, perhaps purge, look at the size again,    *)
(* evict, store.                                                           *)
(*                                                                         *)
(* Left out: the payload, and the hit and miss counters, which nothing in  *)
(* the cache reads.  A lookup that hits or finds nothing changes no state. *)
(***************************************************************************)
EXTENDS Integers, FiniteSets

CONSTANTS
  Key,              \* CacheKeys: pairs of a domain and the fields beside it
  Thread,           \* tasks that use the cache
  Shards,           \* number of shards of the map
  ShardOf,          \* the shard of each key
  MaxEntries,       \* dns.cache_size
  SampleSize,       \* candidates evict_one looks at
  Ttl,              \* TTLs of the responses inserted
  MaxTime           \* bound of the clock

Pos == 1..Shards

ASSUME CacheAssumption ==
  /\ IsFiniteSet(Key) /\ IsFiniteSet(Thread)
  /\ Shards \in Nat \ {0} /\ ShardOf \in [Key -> Pos]
  /\ MaxEntries \in Nat /\ SampleSize \in Nat \ {0}
  /\ Ttl \subseteq Nat /\ MaxTime \in Nat

Entry     == [at : 0..MaxTime, ttl : Ttl]
Candidate == [key : Key, at : 0..MaxTime]

VARIABLES
  entries,  \* the map: key -> the time it was cached at and its TTL
  now,      \* the monotonic clock
  thread,   \* the call each task is in, with its local variables
  sweeper   \* the sweep task

vars == <<entries, now, thread, sweeper>>

Idle == [pc |-> "idle"]
InsertPc == {"check", "purge", "evict", "sample", "remove", "store"}

\* insert and the functions it calls.  pos is the shard a walk is at, n what it
\* has counted, best what evict_one has chosen.
InsertCall ==
  [pc : InsertPc, key : Key, entry : Entry, pos : Pos, n : Nat, best : SUBSET Candidate]

Call ==
  {Idle} \cup InsertCall
         \cup [pc : {"expire"}, key : Key]
         \cup [pc : {"find"}, domain : {k[1] : k \in Key}, pos : Pos, todo : SUBSET Key]
         \cup [pc : {"removing"}, todo : SUBSET Key]
         \cup [pc : {"clear"}, pos : Pos]

TypeOK ==
  /\ entries \in UNION {[S -> Entry] : S \in SUBSET Key}
  /\ \A k \in DOMAIN entries : entries[k].at <= now
  /\ now \in 0..MaxTime
  /\ thread \in [Thread -> Call]
  /\ sweeper \in [pc : {"waiting", "stopped"}] \cup [pc : {"sweeping"}, pos : Pos]

Init ==
  /\ entries = [k \in {} |-> 0]
  /\ now = 0
  /\ thread = [t \in Thread |-> Idle]
  /\ sweeper = [pc |-> "waiting"]

-----------------------------------------------------------------------------
(* The map.                                                                *)

Cached == DOMAIN entries
Len    == Cardinality(Cached)

InShard(i) == {k \in Cached : ShardOf[k] = i}

\* is_expired: strictly older than its TTL.
Expired(k) == now - entries[k].at > entries[k].ttl

Without(K) == [k \in Cached \ K |-> entries[k]]

With(key, entry) == [k \in Cached \cup {key} |-> IF k = key THEN entry ELSE entries[k]]

Min2(a, b) == IF a < b THEN a ELSE b

\* One shard of retain: its expired entries go.
PurgeShard(i) == entries' = Without({k \in InShard(i) : Expired(k)})

InCall(t, pc) == thread[t].pc = pc

Goto(t, call) == thread' = [thread EXCEPT ![t] = call]

-----------------------------------------------------------------------------
(* get.                                                                    *)

\* The entry has expired: its guard is dropped before it is removed.
GetExpired(t, k) ==
  /\ InCall(t, "idle") /\ k \in Cached /\ Expired(k)
  /\ Goto(t, [pc |-> "expire", key |-> k])
  /\ UNCHANGED <<entries, now, sweeper>>

\* Whatever has that key by now is removed.
RemoveExpired(t) ==
  /\ InCall(t, "expire")
  /\ entries' = Without({thread[t].key})
  /\ Goto(t, Idle)
  /\ UNCHANGED <<now, sweeper>>

-----------------------------------------------------------------------------
(* insert.                                                                 *)

BeginInsert_StampedAhead(t, k, ttl) ==
  /\ InCall(t, "idle")
  /\ entries' = Without({k})
  /\ Goto(t, [pc |-> "check", key |-> k, entry |-> [at |-> now + 1, ttl |-> ttl],
              pos |-> 1, n |-> 0, best |-> {}])
  /\ UNCHANGED <<now, sweeper>>

\* A response is stamped and the entry it replaces removed.
BeginInsert(t, k, ttl) ==
  /\ InCall(t, "idle")
  /\ entries' = Without({k})
  /\ Goto(t, [pc |-> "check", key |-> k, entry |-> [at |-> now, ttl |-> ttl],
              pos |-> 1, n |-> 0, best |-> {}])
  /\ UNCHANGED <<now, sweeper>>

\* The insert goes on at pc, with a new walk.
At(t, pc) == [thread[t] EXCEPT !.pc = pc, !.pos = 1, !.n = 0, !.best = {}]

\* len() goes on to the next shard.
CountShard(t) ==
  /\ thread[t].pos < Shards
  /\ Goto(t, [thread[t] EXCEPT !.pos = @ + 1, !.n = @ + Cardinality(InShard(thread[t].pos))])

\* len() has come to the last shard: what it returns.
Counted(t) == thread[t].n + Cardinality(InShard(thread[t].pos))

AtLastShard(t) == thread[t].pos = Shards

\* At capacity the expired entries are purged first.
CheckCapacity(t) ==
  /\ InCall(t, "check")
  /\ \/ CountShard(t)
     \/ AtLastShard(t) /\ Counted(t) >= MaxEntries /\ Goto(t, At(t, "purge"))
     \/ AtLastShard(t) /\ Counted(t) < MaxEntries /\ Goto(t, At(t, "evict"))
  /\ UNCHANGED <<entries, now, sweeper>>

PurgeStep(t) ==
  /\ InCall(t, "purge")
  /\ PurgeShard(thread[t].pos)
  /\ Goto(t, IF AtLastShard(t) THEN At(t, "evict") ELSE [thread[t] EXCEPT !.pos = @ + 1])
  /\ UNCHANGED <<now, sweeper>>

TestFull_OffByOne(t) ==
  /\ InCall(t, "evict")
  /\ \/ CountShard(t)
     \/ AtLastShard(t) /\ Counted(t) > MaxEntries /\ Goto(t, At(t, "sample"))
     \/ AtLastShard(t) /\ Counted(t) <= MaxEntries /\ Goto(t, At(t, "store"))
  /\ UNCHANGED <<entries, now, sweeper>>

\* The loop's test: evict as long as there is no room.
TestFull(t) ==
  /\ InCall(t, "evict")
  /\ \/ CountShard(t)
     \/ AtLastShard(t) /\ Counted(t) >= MaxEntries /\ Goto(t, At(t, "sample"))
     \/ AtLastShard(t) /\ Counted(t) < MaxEntries /\ Goto(t, At(t, "store"))
  /\ UNCHANGED <<entries, now, sweeper>>

\* The oldest of the entries K of a shard, unless one as old was found before.
Older(K, best) ==
  {{[key |-> k, at |-> entries[k].at]} :
     k \in {k \in K : /\ \A j \in K : entries[k].at <= entries[j].at
                     /\ \A b \in best : entries[k].at < b.at}}

Best(K, best) == IF Older(K, best) = {} THEN {best} ELSE Older(K, best)

EvictSample_ExpiredOnly(t) ==
  /\ InCall(t, "sample")
  /\ LET K == {k \in Cached : Expired(k)} IN
       IF K = {} THEN Goto(t, At(t, "evict"))
       ELSE \E best \in Older(K, {}) : Goto(t, [At(t, "remove") EXCEPT !.best = best])
  /\ UNCHANGED <<entries, now, sweeper>>

\* evict_one takes the first few entries the iterator yields -- within a shard
\* in no particular order -- and the oldest of them is to go.  It may find none.
EvictSample(t) ==
  /\ InCall(t, "sample")
  /\ LET call == thread[t]
         here == InShard(call.pos)
         size == Min2(SampleSize - call.n, Cardinality(here))
     IN  \E K \in SUBSET here : \E best \in Best(K, call.best) :
           /\ Cardinality(K) = size
           /\ Goto(t, IF call.n + size < SampleSize /\ ~AtLastShard(t)
                      THEN [call EXCEPT !.pos = @ + 1, !.n = @ + size, !.best = best]
                      ELSE IF best = {} THEN At(t, "evict")
                      ELSE [At(t, "remove") EXCEPT !.best = best])
  /\ UNCHANGED <<entries, now, sweeper>>

\* The victim may have been removed, or replaced, since it was sampled.
EvictRemove(t) ==
  /\ InCall(t, "remove")
  /\ entries' = Without({b.key : b \in thread[t].best})
  /\ Goto(t, At(t, "evict"))
  /\ UNCHANGED <<now, sweeper>>

Store(t) ==
  /\ InCall(t, "store")
  /\ entries' = With(thread[t].key, thread[t].entry)
  /\ Goto(t, Idle)
  /\ UNCHANGED <<now, sweeper>>

-----------------------------------------------------------------------------
(* remove_domain, clear, and the sweep.                                    *)

BeginRemoveDomain(t, d) ==
  /\ InCall(t, "idle")
  /\ Goto(t, [pc |-> "find", domain |-> d, pos |-> 1, todo |-> {}])
  /\ UNCHANGED <<entries, now, sweeper>>

\* The keys of the domain are collected ...
FindDomainStep(t) ==
  /\ InCall(t, "find")
  /\ LET call == thread[t]
         todo == call.todo \cup {k \in InShard(call.pos) : k[1] = call.domain}
     IN  Goto(t, IF ~AtLastShard(t) THEN [call EXCEPT !.pos = @ + 1, !.todo = todo]
                 ELSE IF todo = {} THEN Idle
                 ELSE [pc |-> "removing", todo |-> todo])
  /\ UNCHANGED <<entries, now, sweeper>>

\* ... then removed one by one.
RemoveDomainStep(t) ==
  /\ InCall(t, "removing")
  /\ \E k \in thread[t].todo :
       /\ entries' = Without({k})
       /\ Goto(t, IF thread[t].todo = {k} THEN Idle
                  ELSE [pc |-> "removing", todo |-> thread[t].todo \ {k}])
  /\ UNCHANGED <<now, sweeper>>

BeginClear(t) ==
  /\ InCall(t, "idle")
  /\ Goto(t, [pc |-> "clear", pos |-> 1])
  /\ UNCHANGED <<entries, now, sweeper>>

ClearStep(t) ==
  /\ InCall(t, "clear")
  /\ entries' = Without(InShard(thread[t].pos))
  /\ Goto(t, IF AtLastShard(t) THEN Idle ELSE [thread[t] EXCEPT !.pos = @ + 1])
  /\ UNCHANGED <<now, sweeper>>

\* The interval of the sweep task fires.
SweepTick ==
  /\ sweeper.pc = "waiting"
  /\ sweeper' = [pc |-> "sweeping", pos |-> 1]
  /\ UNCHANGED <<entries, now, thread>>

SweepStep_SkipsLast ==
  /\ sweeper.pc = "sweeping"
  /\ PurgeShard(sweeper.pos)
  /\ sweeper' = IF sweeper.pos >= Shards - 1 THEN [pc |-> "waiting"]
                ELSE [sweeper EXCEPT !.pos = @ + 1]
  /\ UNCHANGED <<now, thread>>

SweepStep ==
  /\ sweeper.pc = "sweeping"
  /\ PurgeShard(sweeper.pos)
  /\ sweeper' = IF sweeper.pos = Shards THEN [pc |-> "waiting"]
                ELSE [sweeper EXCEPT !.pos = @ + 1]
  /\ UNCHANGED <<now, thread>>

StopSweeper ==
  /\ sweeper.pc = "waiting"
  /\ sweeper' = [pc |-> "stopped"]
  /\ UNCHANGED <<entries, now, thread>>

Tick ==
  /\ now < MaxTime
  /\ now' = now + 1
  /\ UNCHANGED <<entries, thread, sweeper>>

-----------------------------------------------------------------------------
InsertStep(t) ==
  \/ CheckCapacity(t)
  \/ PurgeStep(t)
  \/ TestFull(t)
  \/ EvictSample(t)
  \/ EvictRemove(t)
  \/ Store(t)

CallStep(t) ==
  \/ InsertStep(t)
  \/ RemoveExpired(t)
  \/ FindDomainStep(t)
  \/ RemoveDomainStep(t)
  \/ ClearStep(t)

Next ==
  \/ \E t \in Thread :
       \/ \E k \in Key : GetExpired(t, k) \/ \E ttl \in Ttl : BeginInsert(t, k, ttl)
       \/ \E d \in {k[1] : k \in Key} : BeginRemoveDomain(t, d)
       \/ BeginClear(t)
       \/ CallStep(t)
  \/ SweepTick
  \/ SweepStep
  \/ StopSweeper
  \/ Tick

Spec == Init /\ [][Next]_vars

\* A call that has begun runs on, the interval fires, and time passes.
Fairness ==
  /\ \A t \in Thread : WF_vars(CallStep(t))
  /\ WF_vars(SweepTick) /\ WF_vars(SweepStep) /\ WF_vars(Tick)

FairSpec == Spec /\ Fairness

-----------------------------------------------------------------------------
(* Properties.                                                             *)

Inserting(t) == thread[t].pc \in InsertPc
Committed == {t \in Thread : InCall(t, "store")}   \* past the test, not stored yet

\* The test for room and the store are separate steps, and len() may miss what
\* is stored behind it, so concurrent inserts can overshoot the configured size.
\* But only by the tasks that insert, however long they go on: there are never
\* more than MaxEntries - 1 entries plus one per task.
OvershootBounded ==
  MaxEntries > 0 => Len + Cardinality(Committed) < MaxEntries + Cardinality(Thread)

\* Inserts make progress: forever again no insert is under way or one stores
\* its entry.  One insert may be overtaken by others; all together may not
\* spin in the eviction loop.
InsertProgress ==
  \/ []<>(\A t \in Thread : ~Inserting(t))
  \/ []<><<\E t \in Thread : Store(t)>>_vars

\* Expired entries do not sit in the cache: the sweep drops each, or a lookup
\* or an insert has, unless the server is shutting down.
ExpiredReclaimed ==
  \A k \in Key :
    (k \in Cached /\ Expired(k)) ~>
      (sweeper.pc = "stopped" \/ k \notin Cached \/ ~Expired(k))
=============================================================================
