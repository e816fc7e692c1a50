------------------------------ MODULE QueryLog ------------------------------
(***************************************************************************)
(* What a query leaves behind: its count in the rate limiter, its row in   *)
(* the query log, its share of the statistics.  The row goes from the      *)
(* router through a bounded channel to the writer task, which collects     *)
(* batches and has them written by threads of the blocking pool, several   *)
(* at once (nimbus-core/src/database/writer.rs).  Meanwhile logging is     *)
(* switched off and on, old rows are deleted, and the process is shut      *)
(* down, killed and started again.                                         *)
(***************************************************************************)
EXTENDS Integers, Sequences, FiniteSets

CONSTANTS
  MaxQuery,       \* bound: queries that reach the router
  MaxClient,      \* bound: clients they come from
  Status, Kind, MaxQps, CleanupAfter, Slots, Interval,
  ChannelBound,   \* CHANNEL_BOUND
  BatchSize,      \* BATCH_SIZE
  Retention,      \* dns.query_retention
  MaxLag,         \* bound: ticks between a query's reading of the clock and its lock
  MaxTime,        \* bound: the clock
  MaxPurges       \* bound: purges waiting at one time

ASSUME LogAssumption ==
  /\ {MaxQuery, MaxClient} \subseteq Nat /\ MaxLag \in Nat
  /\ ChannelBound \in Nat \ {0} /\ BatchSize \in Nat \ {0} /\ Retention \in Nat
  /\ {MaxTime, MaxPurges} \subseteq Nat /\ MaxTime >= Interval   \* where the clock starts
  \* RateLimiter and OverTime
  /\ MaxQps \in Nat \ {0} /\ CleanupAfter \in Nat
  /\ Slots \in Nat \ {0} /\ Interval \in Nat \ {0}
  /\ Kind \subseteq Status /\ "total" \notin Status

\* Numbered as they come.
Query  == 1..MaxQuery
Client == 1..MaxClient

VARIABLES
  now,       \* clock
  process,   \* "up", or "stopping" once SIGTERM was seen
  queryLog,  \* dns.query_log of the live configuration
  task,      \* per query: route, as far as it concerns this module
  writer,    \* the writer task: "running" or "stopped"
  channel,   \* queued entries
  batch,     \* the writer's batch
  flights,   \* batches handed to the blocking pool
  table,     \* the queries table: number of rows per entry
  purges,    \* purges spawned by update_config and not yet run
  window, lastCleanup, counters, ring, histories

Limiter == INSTANCE RateLimiter
Stats   == INSTANCE OverTime

limiterVars == <<window, lastCleanup>>
statsVars   == <<counters, ring, histories>>
writerVars  == <<writer, channel, batch, flights>>
configVars  == <<queryLog, purges>>
vars == <<now, process, configVars, task, writerVars, table, limiterVars, statsVars>>

Idle == [pc |-> "idle"]

\* A query of an earlier process is past.  snapshot: route's reading of
\* dns.query_log.  opened: start of the window the query was let through in
\* (or was the first refused in), 0 if neither.
\* stamp: the entry's timestamp, 0 before there is one.  counted: when the
\* statistics of this process counted it, 0 if they have not.
Tasks ==
  {Idle} \cup [pc : {"past"}, stamp : 0..MaxTime] \cup
  [pc : {"answering", "refused", "done"},
   client : Client, snapshot : BOOLEAN, opened : 0..MaxTime,
   status : Status \cup {"refused"}, stamp : 0..MaxTime, counted : 0..MaxTime]

Live(q)  == task[q].pc \in {"answering", "refused", "done"}
Stamp(q) == IF task[q] = Idle THEN 0 ELSE task[q].stamp

Elements(s) == {s[i] : i \in DOMAIN s}

TypeOK ==
  /\ now \in 0..MaxTime
  /\ process \in {"up", "stopping"}
  /\ queryLog \in BOOLEAN
  /\ task \in [Query -> Tasks]
  /\ writer \in {"running", "stopped"}
  /\ channel \in Seq(Query) /\ Len(channel) <= ChannelBound
  /\ batch \in Seq(Query) /\ Len(batch) < BatchSize
  /\ flights \subseteq (SUBSET Query) \ {{}}
  /\ table \in [Query -> Nat]
  /\ purges \in 0..MaxPurges
  /\ Limiter!TypeOK /\ Stats!TypeOK

\* The first slot has the timestamp 0, which stands for an unused one.
FirstTime == Interval

Init ==
  /\ now = FirstTime
  /\ process = "up"
  /\ queryLog = TRUE
  /\ task = [q \in Query |-> Idle]
  /\ table = [q \in Query |-> 0]
  /\ purges = 0
  /\ writer = "running" /\ channel = <<>> /\ batch = <<>> /\ flights = {}
  /\ window = Limiter!NoWindows /\ lastCleanup = now
  /\ counters = Stats!Zero /\ ring = Stats!Empty /\ histories = Stats!NoHistories

-----------------------------------------------------------------------------
(* A query in the router.                                                  *)

\* route reads the configuration, and the limiter the clock, at most MaxLag
\* ticks before it has the lock of the client's entry.  Of the refused
\* queries of a window only the first is logged.
Route(q, c) ==
  /\ task[q] = Idle /\ \A p \in 1..(q - 1) : task[p] # Idle
  /\ c <= 1 + Cardinality({p \in Query : Live(p)})
  /\ \E read \in (now - MaxLag)..now :
       LET decision == Limiter!Decision(window'[c]) IN
       /\ read > 0 /\ Limiter!Check(c, read)
       /\ task' = [task EXCEPT ![q] =
            [pc |-> CASE decision = "allowed" -> "answering"
                      [] decision = "limitedFirst" -> "refused"
                      [] OTHER -> "done",
             client |-> c, snapshot |-> queryLog /\ decision # "limited",
             opened |-> IF decision = "limited" THEN 0 ELSE window'[c].start,
             status |-> "refused", stamp |-> 0, counted |-> 0]]
  /\ UNCHANGED <<now, process, configVars, writerVars, table, statsVars>>

\* DbWriter::store: a full channel, or one whose receiver is gone, drops the
\* entry, which is only worth a warning.
Enqueued(q) ==
  IF writer = "running" /\ Len(channel) < ChannelBound THEN Append(channel, q) ELSE channel

\* log_query, with the outcome: blocked, answered from the cache or by an
\* upstream, failed, or refused.  The entry is queued if the query began with
\* logging on.
LogQuery(q) ==
  /\ task[q].pc \in {"answering", "refused"}
  /\ \E s \in IF task[q].pc = "refused" THEN {"refused"} ELSE Status :
       /\ task' = [task EXCEPT ![q].pc = "done", ![q].snapshot = FALSE,
                               ![q].status = s, ![q].stamp = now, ![q].counted = now]
       /\ Stats!RecordQuery(task[q].client, now, s)
  /\ channel' = IF task[q].snapshot THEN Enqueued(q) ELSE channel
  /\ UNCHANGED <<now, process, configVars, writer, batch, flights, table, limiterVars>>

-----------------------------------------------------------------------------
(* The writer task and the threads that write.                             *)

\* A full batch goes to the blocking pool.
Receive(q) ==
  /\ writer = "running"
  /\ channel # <<>> /\ Head(channel) = q
  /\ channel' = Tail(channel)
  /\ LET b == Append(batch, q) IN
       IF Len(b) >= BatchSize
         THEN batch' = <<>> /\ flights' = flights \cup {Elements(b)}
         ELSE batch' = b /\ UNCHANGED flights
  /\ UNCHANGED <<now, process, configVars, task, writer, table, limiterVars, statsVars>>

FlushTimer_KeepsBatch ==
  /\ writer = "running" /\ batch # <<>>
  /\ flights' = flights \cup {Elements(batch)}
  /\ UNCHANGED <<now, process, configVars, task, writer, channel, batch, table, limiterVars, statsVars>>

FlushTimer_NotWhileQueued ==
  /\ writer = "running" /\ batch # <<>> /\ channel # <<>>
  /\ flights' = flights \cup {Elements(batch)} /\ batch' = <<>>
  /\ UNCHANGED <<now, process, configVars, task, writer, channel, table, limiterVars, statsVars>>

FlushTimer ==
  /\ writer = "running" /\ batch # <<>>
  /\ flights' = flights \cup {Elements(batch)} /\ batch' = <<>>
  /\ UNCHANGED <<now, process, configVars, task, writer, channel, table, limiterVars, statsVars>>

\* store_query_batch: one transaction, which fails as a whole.
WithRows(S) == [q \in Query |-> IF q \in S THEN table[q] + 1 ELSE table[q]]

Written(S) == table' = WithRows(S) \/ UNCHANGED table

FlushEnds(f) ==
  /\ f \in flights
  /\ flights' = flights \ {f}
  /\ Written(f)
  /\ UNCHANGED <<now, process, configVars, task, writer, channel, batch, limiterVars, statsVars>>

\* flush_batch_sync on shutdown.  What is left in the channel is lost.
StopWriter ==
  /\ process = "stopping" /\ writer = "running"
  /\ writer' = "stopped" /\ batch' = <<>> /\ channel' = <<>>
  /\ IF batch = <<>> THEN UNCHANGED table ELSE Written(Elements(batch))
  /\ UNCHANGED <<now, process, configVars, task, flights, limiterVars, statsVars>>

-----------------------------------------------------------------------------
(* Switching the log, and deleting from it.                                *)

\* update_config: switching off spawns a purge, also when it was off.
SetQueryLog(v) ==
  /\ process = "up" /\ (v \/ purges < MaxPurges)
  /\ queryLog' = v
  /\ purges' = IF v THEN purges ELSE purges + 1
  /\ UNCHANGED <<now, process, task, writerVars, table, limiterVars, statsVars>>

\* delete_old_queries, or its failure.
DeletedBefore(cutoff) ==
  [q \in Query |-> IF Stamp(q) < cutoff THEN 0 ELSE table[q]]

RunPurge ==
  /\ purges > 0
  /\ purges' = purges - 1
  /\ table' = DeletedBefore(now) \/ UNCHANGED table
  /\ UNCHANGED <<now, process, queryLog, task, writerVars, limiterVars, statsVars>>

\* The hourly task: retention, only while logging is on, then the histories.
HourlyCleanup ==
  /\ process = "up"
  /\ \/ queryLog /\ Retention > 0 /\ table' = DeletedBefore(now - Retention)
     \/ UNCHANGED table
  /\ Stats!CleanupStaleClients(now)
  /\ UNCHANGED <<now, process, configVars, task, writerVars, limiterVars>>

-----------------------------------------------------------------------------
(* The process.                                                            *)

\* SIGTERM, SIGINT or SIGQUIT.
Shutdown ==
  /\ process = "up" /\ process' = "stopping"
  /\ UNCHANGED <<now, configVars, task, writerVars, table, limiterVars, statsVars>>

\* main returns, with the writer stopped or not, and the runtime is dropped;
\* or the process is killed.  Only the table and the configuration file are
\* left to the next process, which is started right away.
ProcessEnds ==
  /\ process' = "up"
  /\ channel' = <<>> /\ batch' = <<>> /\ flights' = {} /\ writer' = "running"
  /\ purges' = 0
  /\ task' = [q \in Query |-> IF task[q] = Idle THEN Idle
                               ELSE [pc |-> "past", stamp |-> Stamp(q)]]
  /\ window' = Limiter!NoWindows /\ lastCleanup' = now
  /\ counters' = Stats!Zero /\ ring' = Stats!Empty /\ histories' = Stats!NoHistories
  /\ UNCHANGED <<now, queryLog, table>>

Tick ==
  /\ now < MaxTime /\ now' = now + 1
  /\ UNCHANGED <<process, configVars, task, writerVars, table, limiterVars, statsVars>>

QueryStep(q) ==
  \/ \E c \in Client : Route(q, c)
  \/ LogQuery(q)
  \/ Receive(q)

Next ==
  \/ \E q \in Query : QueryStep(q)
  \/ FlushTimer
  \/ \E f \in flights : FlushEnds(f)
  \/ StopWriter
  \/ \E v \in BOOLEAN : SetQueryLog(v)
  \/ RunPurge \/ HourlyCleanup
  \/ Shutdown \/ ProcessEnds \/ Tick

\* The writer's loop and the blocking pool run.
Fairness ==
  /\ \A q \in Query : WF_vars(Receive(q))
  /\ WF_vars(FlushTimer)
  /\ WF_vars(\E f \in flights : FlushEnds(f))

Spec == Init /\ [][Next]_vars /\ Fairness

-----------------------------------------------------------------------------
(* Properties.                                                             *)

Queued   == Elements(channel) \cup Elements(batch) \cup UNION flights

\* What has become of the entry of q, in the terms of WriteOnceLog.
Entry(q) ==
  CASE Stamp(q) = 0 -> "new"
    [] table[q] > 1 -> "twice"
    [] table[q] = 1 -> "written"
    [] q \in Queued -> "accepted"
    [] OTHER -> "gone"

Log == INSTANCE WriteOnceLog WITH entry <- [q \in Query |-> Entry(q)],
                                  stamp <- [q \in Query |-> Stamp(q)]

\* Refinement.  Channel, batches, threads that write side by side, failed
\* transactions, shutdown and crashes never write an entry twice, or one that
\* was given up or purged before, and no entry is deleted before an older one
\* (writer.rs:61-135, queries.rs:86-139).
ImplementsLog == Log!Spec

\* The log catches up, again and again: a batch below BATCH_SIZE is flushed
\* by the timer, flushes end, and whatever ends the writer or the process ends
\* what was queued (writer.rs:61-100).  Queries are finitely many here; in the
\* program this is for times when none come.
LogCatchesUp == []<>(Queued = {})

\* However fast a client floods the server, and in whatever order its
\* queries get to the limiter's lock, at most MaxQps + 1 of those it sends
\* in one window are logged (router.rs:99-108: only the first refused one).
FloodShed ==
  \A c \in Client, s \in 1..MaxTime :
    Cardinality({q \in Query : Live(q) /\ task[q].client = c /\ task[q].opened = s})
      <= MaxQps + 1

\* Queries of clients C that this process counted under k in the slot at s.
CountedIn(C, s, k) ==
  Cardinality({q \in Query :
    /\ Live(q) /\ task[q].client \in C /\ task[q].counted > 0
    /\ Stats!SlotTimestamp(task[q].counted) = s
    /\ k \in {"total", task[q].status}})

\* The histories say of every slot begun in the last day how many queries it
\* had, in all and for each client, whatever rounds of the ring and clean-ups of
\* clients there were, and report nothing of an earlier round as newer
\* (over_time/mod.rs:106-201).
Exact(slots, C) ==
  LET recent == Stats!Recent(slots, now) IN
  \A s \in {t \in (now - Stats!Day + 1)..now : t >= FirstTime /\ Stats!SlotTimestamp(t) = t} :
    LET reported == Stats!Reported(recent, s) IN
    \A k \in Stats!Counter : reported[k] = CountedIn(C, s, k)

HistoryExact ==
  /\ Exact(ring, Client)
  /\ \A c \in Client : Exact(histories[c].slots, {c})
=============================================================================
