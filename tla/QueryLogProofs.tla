--------------------------- MODULE QueryLogProofs ---------------------------
(***************************************************************************)
(* Proofs about QueryLog, for any numbers of queries and clients, any      *)
(* bounds of the channel and the batch, any slots, and any clock.          *)
(***************************************************************************)
EXTENDS QueryLog, FiniteSetTheorems, WellFoundedInduction, TLAPS

-----------------------------------------------------------------------------
(* The inductive invariants.                                               *)

Distinct(s) == \A i, j \in DOMAIN s : s[i] = s[j] => i = j

\* A queued entry is in one place only, and neither written nor without a
\* timestamp.
OnePlace ==
  /\ Distinct(channel) /\ Distinct(batch)
  /\ Elements(channel) \cap Elements(batch) = {}
  /\ \A f \in flights : f \cap (Elements(channel) \cup Elements(batch)) = {}
  /\ \A f, g \in flights : f = g \/ f \cap g = {}
  /\ \A q \in Queued : Stamp(q) > 0 /\ table[q] = 0

\* The clock has started, and so have the windows.
Past == now > 0 /\ \A c \in Client : window[c].start <= now

\* Rows come from entries, and a query has a timestamp only once it is logged.
RowsStamped ==
  /\ \A q \in Query : table[q] <= 1 /\ (Stamp(q) = 0 => table[q] = 0)
  /\ \A q \in Query : task[q].pc \in {"answering", "refused"} =>
                        task[q].stamp = 0 /\ task[q].counted = 0

Opened(c, s) == {q \in Query : Live(q) /\ task[q].client = c /\ task[q].opened = s}

\* The window a query was let through in is the client's window still, or is
\* over so long that nobody has an earlier reading of the clock.
WindowsOver(c) ==
  \A q \in Query : Live(q) /\ task[q].client = c /\ task[q].opened > 0 =>
    /\ task[q].opened <= now
    /\ \/ window[c].count > 0 /\ task[q].opened = window[c].start
       \/ /\ task[q].opened + Limiter!StaleAfter <= now
          /\ window[c].count > 0 => task[q].opened < window[c].start

\* The queries let through in a window are counted in it.
WindowCounts(c) ==
  window[c].count > 0 =>
    /\ window[c].start > 0
    /\ Cardinality(Opened(c, window[c].start)) <= window[c].count

FloodInv == FloodShed /\ \A c \in Client : WindowsOver(c) /\ WindowCounts(c)

\* What a ring says of the clients C is true of its slots ...
Truthful(slots, C) ==
  \A i \in 0..(Slots - 1) : slots[i].timestamp > 0 =>
    LET s == slots[i].timestamp IN
    /\ s <= now /\ Stats!SlotIndex(s) = i /\ Stats!SlotTimestamp(s) = s
    /\ \A k \in Stats!Counter : slots[i].n[k] = CountedIn(C, s, k)

\* ... and no query is missing, unless it is a day old or its slot was taken
\* over.
Complete(slots, C) ==
  \A q \in Query : Live(q) /\ task[q].client \in C /\ task[q].counted > 0 =>
    /\ task[q].counted <= now
    /\ \/ task[q].counted <= now - Stats!Day
       \/ slots[Stats!SlotIndex(task[q].counted)].timestamp >= Stats!SlotTimestamp(task[q].counted)

LastSeen(c) ==
  \A q \in Query : Live(q) /\ task[q].client = c /\ task[q].counted > 0 =>
    task[q].counted <= now - Stats!Day \/ task[q].counted <= histories[c].lastActive

HistoryInv ==
  /\ Truthful(ring, Client) /\ Complete(ring, Client)
  /\ \A c \in Client : /\ Truthful(histories[c].slots, {c}) /\ Complete(histories[c].slots, {c})
                       /\ LastSeen(c)

-----------------------------------------------------------------------------
(* Type correctness.                                                       *)

\* Times are times of the clock.
LEMMA Times ==
  ASSUME TypeOK
  PROVE  now \in Nat /\ now <= MaxTime /\ MaxTime \in Nat /\ MaxLag \in Nat
BY LogAssumption DEF TypeOK

LEMMA LimiterTypes ==
  ASSUME TypeOK, NEW c \in Client, NEW read \in Nat, Limiter!Check(c, read)
  PROVE  Limiter!TypeOK' /\ window'[c].count > 0
<1> USE DEF Limiter!TypeOK, Limiter!Counts
<1>1. window \in [Client -> [count : 0..(MaxQps + 2), start : Nat]] /\ lastCleanup \in Nat
  BY DEF TypeOK
<1>2. \A x \in Client : Limiter!Kept(x, read) \in [count : 0..(MaxQps + 2), start : Nat]
  BY <1>1, LogAssumption DEF Limiter!Kept, Limiter!Absent
<1>3. ASSUME NEW old \in [count : 0..(MaxQps + 2), start : Nat]
      PROVE  /\ Limiter!Counted(old, read) \in [count : 0..(MaxQps + 2), start : Nat]
             /\ Limiter!Counted(old, read).count > 0
  BY LogAssumption DEF Limiter!Counted
<1>4. window' \in [Client -> [count : 0..(MaxQps + 2), start : Nat]]
  BY <1>2, <1>3 DEF Limiter!Check
<1>5. window'[c].count > 0
  BY <1>2, <1>3 DEF Limiter!Check
<1> QED  BY <1>1, <1>4, <1>5 DEF Limiter!Check

Ring == [0..(Slots - 1) -> [timestamp : Nat, n : [Stats!Counter -> Nat]]]

LEMMA StatsType ==
  Stats!TypeOK <=> /\ counters \in [Stats!Counter -> Nat] /\ ring \in Ring
                   /\ histories \in [Client -> [lastActive : Nat, slots : Ring]]
BY DEF Stats!TypeOK, Ring

LEMMA EmptyTypes == Stats!Empty \in Ring /\ Stats!NoHistory \in [lastActive : Nat, slots : Ring]
                    /\ Stats!Zero \in [Stats!Counter -> Nat]
BY DEF Stats!Empty, Stats!NoHistory, Stats!Blank, Stats!Zero, Ring

LEMMA PlusTypes ==
  ASSUME NEW n \in [Stats!Counter -> Nat], NEW status
  PROVE  Stats!Plus(n, status) \in [Stats!Counter -> Nat]
BY DEF Stats!Plus

\* Division by the length of a slot.
LEMMA SlotParts ==
  ASSUME NEW t \in Nat
  PROVE  /\ t \div Interval \in Nat /\ Stats!SlotTimestamp(t) \in Nat
         /\ Stats!SlotTimestamp(t) <= t /\ t < Stats!SlotTimestamp(t) + Interval
         /\ Stats!SlotIndex(t) \in 0..(Slots - 1)
<1> DEFINE d == t \div Interval
           m == Interval
<1>1. m \in Nat \ {0} /\ Slots \in Nat \ {0}
  BY LogAssumption
<1>2. d \in Int /\ t = m * d + (t % m) /\ t % m \in 0..(m - 1)
  BY <1>1
<1>3. d >= 0
  BY <1>1
<1>4. d \in Nat /\ d % Slots \in 0..(Slots - 1)
  BY <1>1, <1>2, <1>3
<1> HIDE DEF m, d
<1>5. d * m \in Nat /\ d * m = m * d
  BY <1>1, <1>4
<1>6. d * m <= t /\ t < d * m + m
  BY <1>1, <1>2, <1>5
<1> QED  BY <1>4, <1>5, <1>6 DEF Stats!SlotTimestamp, Stats!SlotIndex, d, m

LEMMA BumpTypes ==
  ASSUME NEW slots \in Ring, NEW t \in Nat, NEW status
  PROVE  Stats!Bump(slots, t, status) \in Ring
<1> DEFINE i == Stats!SlotIndex(t)
           old == slots[i]
           n == Stats!Plus(IF old.timestamp = Stats!SlotTimestamp(t) THEN old.n ELSE Stats!Zero, status)
<1>1. i \in 0..(Slots - 1) /\ Stats!SlotTimestamp(t) \in Nat
  BY SlotParts
<1>2. n \in [Stats!Counter -> Nat]
  BY <1>1, PlusTypes, EmptyTypes DEF Ring
<1> HIDE DEF n
<1>3. [timestamp |-> Stats!SlotTimestamp(t), n |-> n] \in [timestamp : Nat, n : [Stats!Counter -> Nat]]
  BY <1>1, <1>2
<1>4. Stats!Bump(slots, t, status) = [slots EXCEPT ![i] = [timestamp |-> Stats!SlotTimestamp(t), n |-> n]]
  BY DEF Stats!Bump, n
<1> QED  BY <1>1, <1>3, <1>4 DEF Ring

LEMMA RecordTypes ==
  ASSUME Stats!TypeOK, NEW c \in Client, NEW t \in Nat, NEW s, Stats!RecordQuery(c, t, s)
  PROVE  Stats!TypeOK'
<1> DEFINE b == Stats!Bump(histories[c].slots, t, s)
<1>1. counters' \in [Stats!Counter -> Nat]
  BY PlusTypes, StatsType DEF Stats!RecordQuery
<1>2. ring' \in Ring
  BY BumpTypes, StatsType DEF Stats!RecordQuery
<1>3. histories \in [Client -> [lastActive : Nat, slots : Ring]]
  BY StatsType
<1>4. b \in Ring
  BY <1>3, BumpTypes
<1>5. histories' = [histories EXCEPT ![c] = [lastActive |-> t, slots |-> b]]
  BY DEF Stats!RecordQuery
<1> HIDE DEF b
<1>6. histories' \in [Client -> [lastActive : Nat, slots : Ring]]
  BY <1>3, <1>4, <1>5
<1> QED  BY <1>1, <1>2, <1>6 DEF Stats!TypeOK, Ring

LiveTask == [pc : {"answering", "refused", "done"},
             client : Client, snapshot : BOOLEAN, opened : 0..MaxTime,
             status : Status \cup {"refused"}, stamp : 0..MaxTime, counted : 0..MaxTime]

LEMMA LiveTasks ==
  ASSUME TypeOK, NEW q \in Query
  PROVE  /\ Live(q) => task[q] \in LiveTask
         /\ task[q] # Idle /\ ~Live(q) => task[q] \in [pc : {"past"}, stamp : 0..MaxTime]
         /\ task[q] = Idle => ~Live(q)
<1>1. task[q] \in Tasks
  BY DEF TypeOK
<1>2. CASE task[q] = Idle
  BY <1>2 DEF Idle, Live
<1>3. CASE task[q] \in [pc : {"past"}, stamp : 0..MaxTime]
  BY <1>3 DEF Idle, Live
<1>4. CASE task[q] \in LiveTask
  BY <1>4 DEF Idle, Live, LiveTask
<1> QED  BY <1>1, <1>2, <1>3, <1>4 DEF Tasks, LiveTask

LEMMA StampType ==
  ASSUME TypeOK, NEW q \in Query
  PROVE  Stamp(q) \in 0..MaxTime /\ (Live(q) => Stamp(q) = task[q].stamp)
BY LiveTasks, LogAssumption DEF Stamp, LiveTask

LEMMA WindowsType ==
  TypeOK => window \in [Client -> [count : 0..(MaxQps + 2), start : Nat]]
BY DEF TypeOK, Limiter!TypeOK, Limiter!Counts

\* No window is opened in the future.
LEMMA CheckStarts ==
  ASSUME TypeOK, Past, NEW c \in Client, NEW read \in Nat, read <= now, Limiter!Check(c, read)
  PROVE  \A x \in Client : window'[x].start <= now
<1>1. window \in [Client -> [count : 0..(MaxQps + 2), start : Nat]] /\ now \in Nat
  BY WindowsType, Times
<1>2. \A x \in Client : Limiter!Kept(x, read).start <= now
  BY <1>1 DEF Limiter!Kept, Limiter!Absent, Past
<1>3. \A x \in Client : window'[x].start \in {Limiter!Kept(x, read).start, read}
  <2>1. \A x \in Client :
          Limiter!Kept(x, read) \in [count : 0..(MaxQps + 2), start : Nat]
    BY <1>1, LogAssumption DEF Limiter!Kept, Limiter!Absent
  <2>2. ASSUME NEW old \in [count : 0..(MaxQps + 2), start : Nat]
        PROVE  Limiter!Counted(old, read).start \in {old.start, read}
    BY DEF Limiter!Counted
  <2> QED  BY <2>1, <2>2 DEF Limiter!Check
<1> QED  BY <1>2, <1>3

\* The record Route gives to a query.
LEMMA RouteGives ==
  ASSUME TypeOK, Past, NEW q \in Query, NEW c \in Client, Route(q, c)
  PROVE  \E read \in Nat :
           /\ read > 0 /\ now - MaxLag <= read /\ read <= now /\ Limiter!Check(c, read)
           /\ task[q] = Idle /\ task'[q] \in LiveTask /\ task' \in [Query -> Tasks]
           /\ \A p \in Query : p # q => task'[p] = task[p]
           /\ task'[q].client = c /\ task'[q].stamp = 0 /\ task'[q].counted = 0
           /\ task'[q].opened = IF window'[c].count <= MaxQps + 1 THEN window'[c].start ELSE 0
           /\ Limiter!TypeOK' /\ window'[c].count > 0
<1> DEFINE decision == Limiter!Decision(window'[c])
           opened == IF decision = "limited" THEN 0 ELSE window'[c].start
           pc == CASE decision = "allowed" -> "answering"
                   [] decision = "limitedFirst" -> "refused"
                   [] OTHER -> "done"
           record == [pc |-> pc, client |-> c, snapshot |-> queryLog /\ decision # "limited",
                      opened |-> opened, status |-> "refused", stamp |-> 0, counted |-> 0]
<1>1. PICK read \in (now - MaxLag)..now :
        read > 0 /\ Limiter!Check(c, read) /\ task' = [task EXCEPT ![q] = record]
  BY DEF Route
<1>2. /\ read \in Nat /\ now - MaxLag <= read /\ read <= now
      /\ now \in Nat /\ now <= MaxTime /\ MaxTime \in Nat
  BY <1>1, Times
<1>3. Limiter!TypeOK' /\ window'[c].count > 0
  BY <1>1, <1>2, LimiterTypes
<1>4. window'[c].count \in Nat /\ window'[c].start \in Nat
  BY <1>3 DEF Limiter!TypeOK, Limiter!Counts
<1>5. opened = IF window'[c].count <= MaxQps + 1 THEN window'[c].start ELSE 0
  BY <1>4, LogAssumption DEF Limiter!Decision
<1>6. opened \in 0..MaxTime
  BY <1>1, <1>2, <1>4, CheckStarts
<1>7. pc \in {"answering", "refused", "done"}
  OBVIOUS
<1>8. (queryLog /\ decision # "limited") \in BOOLEAN
  BY DEF TypeOK
<1> HIDE DEF pc, opened, decision
<1>9. record \in LiveTask
  BY <1>2, <1>6, <1>7, <1>8 DEF LiveTask
<1>10. record \in Tasks
  BY <1>9 DEF LiveTask, Tasks
<1>11. task[q] = Idle
  BY DEF Route
<1>12. task'[q] = record /\ task' \in [Query -> Tasks] /\ \A p \in Query : p # q => task'[p] = task[p]
  BY <1>1, <1>10 DEF TypeOK
<1> QED  BY <1>1, <1>2, <1>3, <1>5, <1>9, <1>11, <1>12

WithOutcome(r, s, t) ==
  [r EXCEPT !.pc = "done", !.snapshot = FALSE, !.status = s, !.stamp = t, !.counted = t]

LEMMA Logged ==
  ASSUME NEW r \in LiveTask, NEW s \in Status \cup {"refused"}, NEW t \in 0..MaxTime
  PROVE  LET record == WithOutcome(r, s, t) IN
         /\ record \in LiveTask /\ record.stamp = t /\ record.counted = t /\ record.status = s
         /\ record.client = r.client /\ record.opened = r.opened
<1> DEFINE r1 == [r EXCEPT !.pc = "done", !.snapshot = FALSE]
           r2 == [r1 EXCEPT !.status = s, !.stamp = t]
           r3 == [r2 EXCEPT !.counted = t]
<1>1. r1 \in LiveTask /\ r1.client = r.client /\ r1.opened = r.opened
  BY DEF LiveTask
<1>2. r3 = WithOutcome(r, s, t)
  BY DEF LiveTask, WithOutcome
<1> HIDE DEF r1
<1>3. r2 \in LiveTask /\ r2.client = r1.client /\ r2.opened = r1.opened /\ r2.status = s /\ r2.stamp = t
  BY <1>1 DEF LiveTask
<1> HIDE DEF r2
<1>4. r3 \in LiveTask /\ r3.client = r2.client /\ r3.opened = r2.opened /\ r3.status = r2.status
      /\ r3.stamp = r2.stamp /\ r3.counted = t
  BY <1>3 DEF LiveTask
<1> QED  BY <1>1, <1>2, <1>3, <1>4

\* The record LogQuery gives to a query.
LEMMA LogGives ==
  ASSUME TypeOK, NEW q \in Query, LogQuery(q)
  PROVE  \E s \in Status \cup {"refused"} :
           /\ task[q] \in LiveTask /\ task[q].pc \in {"answering", "refused"}
           /\ task'[q] \in LiveTask /\ task' \in [Query -> Tasks]
           /\ task'[q].stamp = now /\ task'[q].counted = now /\ task'[q].status = s
           /\ task'[q].client = task[q].client /\ task'[q].opened = task[q].opened
           /\ \A p \in Query : p # q => task'[p] = task[p]
           /\ Stats!RecordQuery(task[q].client, now, s)
<1>1. task[q].pc \in {"answering", "refused"}
  BY DEF LogQuery
<1>2. task[q] \in LiveTask
  BY <1>1, LiveTasks DEF Live
<1>3. PICK s \in Status \cup {"refused"} :
        /\ task' = [task EXCEPT ![q].pc = "done", ![q].snapshot = FALSE,
                                ![q].status = s, ![q].stamp = now, ![q].counted = now]
        /\ Stats!RecordQuery(task[q].client, now, s)
  BY DEF LogQuery
<1> DEFINE record == WithOutcome(task[q], s, now)
<1>4. record \in LiveTask /\ record.stamp = now /\ record.counted = now /\ record.status = s
      /\ record.client = task[q].client /\ record.opened = task[q].opened
  <2>1. now \in 0..MaxTime
    BY DEF TypeOK
  <2> QED  BY <1>2, <2>1, Logged
<1>5. task' = [task EXCEPT ![q] = record]
  BY <1>3 DEF TypeOK, WithOutcome
<1> HIDE DEF record
<1>6. task'[q] = record /\ task' \in [Query -> Tasks] /\ \A p \in Query : p # q => task'[p] = task[p]
  <2>1. record \in Tasks
    BY <1>4 DEF Tasks, LiveTask
  <2> QED  BY <1>5, <2>1 DEF TypeOK
<1>7. /\ task'[q] \in LiveTask
      /\ task'[q].stamp = now /\ task'[q].counted = now /\ task'[q].status = s
      /\ task'[q].client = task[q].client /\ task'[q].opened = task[q].opened
  BY <1>4, <1>6
<1>8. Stats!RecordQuery(task[q].client, now, s)
  BY <1>3
<1> HIDE DEF LiveTask
<1> WITNESS s \in Status \cup {"refused"}
<1> QED  BY <1>1, <1>2, <1>6, <1>7, <1>8

\* A batch that goes to the blocking pool.
LEMMA FlightsType ==
  ASSUME TypeOK, NEW s \in Seq(Query), s # <<>>
  PROVE  (flights \cup {Elements(s)}) \subseteq (SUBSET Query) \ {{}}
<1>1. Elements(s) \subseteq Query
  BY DEF Elements
<1>2. s[1] \in Elements(s)
  BY DEF Elements
<1>3. Elements(s) # {}
  BY <1>2
<1> QED  BY <1>1, <1>3 DEF TypeOK

LEMMA EmptyBatch ==
  /\ <<>> \in Seq(Query) /\ Len(<<>>) < BatchSize /\ Len(<<>>) <= ChannelBound
  /\ Elements(<<>>) = {}
BY LogAssumption DEF Elements

LEMMA BatchGrows ==
  ASSUME TypeOK, NEW q \in Query
  PROVE  LET b == Append(batch, q) IN
         b \in Seq(Query) /\ b # <<>> /\ Len(b) = Len(batch) + 1 /\ Len(b) \in Nat
BY DEF TypeOK

LEMMA ChannelTypes ==
  ASSUME TypeOK, NEW q \in Query
  PROVE  Enqueued(q) \in Seq(Query) /\ Len(Enqueued(q)) <= ChannelBound
BY LogAssumption DEF TypeOK, Enqueued

LEMMA TypeStep ==
  ASSUME TypeOK, Past, [Next]_vars
  PROVE  TypeOK'
<1> USE DEF TypeOK, configVars, writerVars, limiterVars, statsVars
<1>1. ASSUME UNCHANGED limiterVars PROVE Limiter!TypeOK'
  BY <1>1 DEF Limiter!TypeOK
<1>2. ASSUME UNCHANGED statsVars PROVE Stats!TypeOK'
  BY <1>2 DEF Stats!TypeOK
<1>3. ASSUME NEW q \in Query, NEW c \in Client, Route(q, c)
      PROVE  TypeOK'
  <2>1. task' \in [Query -> Tasks] /\ Limiter!TypeOK'
    BY <1>3, RouteGives
  <2> QED  BY <1>2, <1>3, <2>1 DEF Route
<1>4. ASSUME NEW q \in Query, LogQuery(q)
      PROVE  TypeOK'
  <2>1. PICK s \in Status \cup {"refused"} :
          /\ task[q] \in LiveTask /\ task' \in [Query -> Tasks]
          /\ Stats!RecordQuery(task[q].client, now, s)
    BY <1>4, LogGives
  <2>2. Stats!TypeOK'
    BY <2>1, RecordTypes, Times DEF LiveTask
  <2>3. channel' \in Seq(Query) /\ Len(channel') <= ChannelBound
    BY <1>4, ChannelTypes DEF LogQuery
  <2> QED  BY <1>1, <1>4, <2>1, <2>2, <2>3 DEF LogQuery
<1>5. ASSUME NEW q \in Query, Receive(q)
      PROVE  TypeOK'
  <2> DEFINE b == Append(batch, q)
  <2>1. b \in Seq(Query) /\ b # <<>> /\ Len(b) = Len(batch) + 1 /\ Len(b) \in Nat
    BY BatchGrows
  <2> HIDE DEF b
  <2>2. channel' \in Seq(Query) /\ Len(channel') <= ChannelBound
    BY <1>5, LogAssumption DEF Receive
  <2>3. /\ batch' \in Seq(Query) /\ Len(batch') < BatchSize
        /\ flights' \subseteq (SUBSET Query) \ {{}}
    <3>1. CASE Len(b) >= BatchSize
      <4>1. batch' = <<>> /\ flights' = flights \cup {Elements(b)}
        BY <1>5, <3>1 DEF Receive, b
      <4> QED  BY <2>1, <4>1, FlightsType, EmptyBatch
    <3>2. CASE ~(Len(b) >= BatchSize)
      <4>1. batch' = b /\ UNCHANGED flights
        BY <1>5, <3>2 DEF Receive, b
      <4> QED  BY <2>1, <3>2, <4>1, LogAssumption
    <3> QED  BY <3>1, <3>2
  <2> QED  BY <1>1, <1>2, <1>5, <2>2, <2>3 DEF Receive
<1>6. CASE FlushTimer
  <2>1. flights' \subseteq (SUBSET Query) \ {{}}
    BY <1>6, FlightsType DEF FlushTimer
  <2>2. batch' \in Seq(Query) /\ Len(batch') < BatchSize
    BY <1>6, EmptyBatch DEF FlushTimer
  <2>3. UNCHANGED <<now, process, configVars, task, writer, channel, table, limiterVars, statsVars>>
    BY <1>6 DEF FlushTimer
  <2> QED  BY <1>1, <1>2, <2>1, <2>2, <2>3
<1>7. \A S : WithRows(S) \in [Query -> Nat]
  BY DEF WithRows
<1>8. CASE \E f \in flights : FlushEnds(f)
  BY <1>1, <1>2, <1>7, <1>8 DEF FlushEnds, Written
<1>9. CASE StopWriter
  <2>1. table' \in [Query -> Nat]
    BY <1>7, <1>9 DEF StopWriter, Written
  <2>2. UNCHANGED <<now, process, configVars, task, flights, limiterVars, statsVars>>
        /\ writer' = "stopped" /\ batch' = <<>> /\ channel' = <<>>
    BY <1>9 DEF StopWriter
  <2> QED  BY <1>1, <1>2, <2>1, <2>2, EmptyBatch
<1>10. CASE \E v \in BOOLEAN : SetQueryLog(v)
  BY <1>1, <1>2, <1>10, LogAssumption DEF SetQueryLog
<1>11. \A t : DeletedBefore(t) \in [Query -> Nat]
  BY DEF DeletedBefore
<1>12. CASE RunPurge
  BY <1>1, <1>2, <1>11, <1>12, LogAssumption DEF RunPurge
<1>13. CASE HourlyCleanup
  <2>1. Stats!TypeOK'
    BY <1>13, EmptyTypes, StatsType DEF HourlyCleanup, Stats!CleanupStaleClients, Stats!TypeOK, Ring
  <2> QED  BY <1>1, <1>11, <1>13, <2>1 DEF HourlyCleanup
<1>14. CASE Shutdown
  BY <1>1, <1>2, <1>14 DEF Shutdown
<1>15. CASE ProcessEnds
  <2>1. task' \in [Query -> Tasks]
    <3>1. \A q \in Query : Stamp(q) \in 0..MaxTime
      BY StampType
    <3> QED  BY <1>15, <3>1 DEF ProcessEnds, Tasks
  <2>2. Limiter!TypeOK'
    BY <1>15, Times, LogAssumption DEF ProcessEnds, Limiter!TypeOK, Limiter!NoWindows, Limiter!Absent,
                                       Limiter!Counts
  <2>3. Stats!TypeOK'
    BY <1>15, EmptyTypes DEF ProcessEnds, Stats!TypeOK, Stats!NoHistories, Ring
  <2> QED  BY <1>15, <2>1, <2>2, <2>3, LogAssumption DEF ProcessEnds
<1>16. CASE Tick
  BY <1>1, <1>2, <1>16, LogAssumption DEF Tick
<1>17. CASE UNCHANGED vars
  BY <1>1, <1>2, <1>17 DEF vars
<1> QED  BY <1>3, <1>4, <1>5, <1>6, <1>8, <1>9, <1>10, <1>12, <1>13, <1>14, <1>15, <1>16, <1>17
         DEF Next, QueryStep

-----------------------------------------------------------------------------
(* Entries on their way.                                                   *)

LEMMA PastStep ==
  ASSUME TypeOK, Past, [Next]_vars
  PROVE  Past'
<1> USE DEF configVars, writerVars, limiterVars, statsVars
<1>1. now \in Nat /\ window \in [Client -> [count : 0..(MaxQps + 2), start : Nat]]
  BY Times, WindowsType
<1>2. ASSUME UNCHANGED limiterVars, now' \in {now, now + 1} PROVE Past'
  BY <1>1, <1>2 DEF Past
<1>3. ASSUME NEW q \in Query, NEW c \in Client, Route(q, c)
      PROVE  Past'
  <2>1. PICK read \in Nat : read <= now /\ Limiter!Check(c, read)
    BY <1>3, RouteGives
  <2> QED  BY <1>3, <2>1, CheckStarts DEF Past, Route
<1>4. CASE ProcessEnds
  BY <1>1, <1>4 DEF ProcessEnds, Past, Limiter!NoWindows, Limiter!Absent
<1>5. CASE Tick
  BY <1>2, <1>5 DEF Tick
<1>6. ASSUME NEW q \in Query, LogQuery(q) \/ Receive(q)
      PROVE  Past'
  BY <1>2, <1>6 DEF LogQuery, Receive
<1>7. CASE \E f \in flights : FlushEnds(f)
  BY <1>2, <1>7 DEF FlushEnds
<1>8. CASE \E v \in BOOLEAN : SetQueryLog(v)
  BY <1>2, <1>8 DEF SetQueryLog
<1>9. CASE FlushTimer \/ StopWriter \/ RunPurge \/ HourlyCleanup \/ Shutdown \/ UNCHANGED vars
  BY <1>2, <1>9 DEF FlushTimer, StopWriter, RunPurge, HourlyCleanup, Shutdown, vars
<1> QED  BY <1>3, <1>4, <1>5, <1>6, <1>7, <1>8, <1>9 DEF Next, QueryStep

LEMMA AppendElements ==
  ASSUME NEW s \in Seq(Query), NEW q \in Query
  PROVE  /\ Elements(Append(s, q)) = Elements(s) \cup {q}
         /\ Distinct(s) /\ q \notin Elements(s) => Distinct(Append(s, q))
<1> DEFINE t == Append(s, q)
<1>1. /\ DOMAIN t = DOMAIN s \cup {Len(s) + 1} /\ t[Len(s) + 1] = q
      /\ Len(s) + 1 \notin DOMAIN s /\ \A i \in DOMAIN s : t[i] = s[i]
  OBVIOUS
<1> HIDE DEF t
<1>2. Elements(t) = Elements(s) \cup {q}
  BY <1>1 DEF Elements
<1>3. ASSUME Distinct(s), q \notin Elements(s)
      PROVE  Distinct(t)
  <2>1. \A i \in DOMAIN s : s[i] # q
    BY <1>3 DEF Elements
  <2> QED  BY <1>1, <1>3, <2>1 DEF Distinct
<1> QED  BY <1>2, <1>3 DEF t

LEMMA TailElements ==
  ASSUME NEW s \in Seq(Query), s # <<>>
  PROVE  /\ Elements(s) = {Head(s)} \cup Elements(Tail(s))
         /\ Distinct(s) => Distinct(Tail(s)) /\ Head(s) \notin Elements(Tail(s))
<1> DEFINE t == Tail(s)
<1>1. /\ \A i \in DOMAIN t : i + 1 \in DOMAIN s /\ i \in Nat /\ t[i] = s[i + 1] /\ i + 1 # 1
      /\ 1 \in DOMAIN s /\ Head(s) = s[1]
      /\ \A i \in DOMAIN s : i = 1 \/ (i - 1 \in DOMAIN t /\ t[i - 1] = s[i])
  OBVIOUS
<1> HIDE DEF t
<1>2. \A x \in Elements(s) : x = Head(s) \/ x \in Elements(t)
  <2>1. ASSUME NEW i \in DOMAIN s
        PROVE  s[i] = Head(s) \/ s[i] \in Elements(t)
    <3>1. CASE i = 1
      BY <1>1, <3>1
    <3>2. CASE i # 1
      <4>1. i - 1 \in DOMAIN t /\ t[i - 1] = s[i]
        BY <1>1, <3>2
      <4>2. t[i - 1] \in Elements(t)
        BY <4>1 DEF Elements
      <4> QED  BY <4>1, <4>2
    <3> QED  BY <3>1, <3>2
  <2> QED  BY <2>1 DEF Elements
<1>3. Elements(t) \subseteq Elements(s) /\ Head(s) \in Elements(s)
  BY <1>1 DEF Elements
<1>4. Distinct(s) => Distinct(t) /\ Head(s) \notin Elements(t)
  BY <1>1 DEF Distinct, Elements
<1> QED  BY <1>2, <1>3, <1>4 DEF t

StampsSame == \A q \in Query : Stamp(q)' = Stamp(q)

\* Some of the queued entries get a row, and leave the queue.
Settled(W) ==
  /\ W \subseteq Queued /\ Queued' \subseteq Queued \ W
  /\ table' = WithRows(W)
  /\ StampsSame

\* Rows older than some time go.
Purged == (\E t \in Int : table' = DeletedBefore(t)) /\ UNCHANGED <<channel, batch, flights>> /\ StampsSame

LEMMA NoRows ==
  ASSUME TypeOK, UNCHANGED table
  PROVE  table' = WithRows({})
BY DEF TypeOK, WithRows

LEMMA StampsStay ==
  ASSUME TypeOK
  PROVE  /\ UNCHANGED task => StampsSame
         /\ \A q \in Query, c \in Client : Past /\ Route(q, c) => StampsSame
         /\ ProcessEnds => StampsSame
<1>1. UNCHANGED task => StampsSame
  BY DEF StampsSame, Stamp
<1>2. ASSUME NEW q \in Query, NEW c \in Client, Past, Route(q, c)
      PROVE  StampsSame
  <2>1. /\ task[q] = Idle /\ task'[q] \in LiveTask /\ task'[q].stamp = 0
        /\ \A p \in Query : p # q => task'[p] = task[p]
    BY <1>2, RouteGives
  <2>2. Stamp(q) = 0 /\ Stamp(q)' = 0
    BY <2>1 DEF Stamp
  <2> QED  BY <2>1, <2>2 DEF StampsSame, Stamp
<1>3. ASSUME ProcessEnds
      PROVE  StampsSame
  <2>1. \A q \in Query : task'[q] = IF task[q] = Idle THEN Idle ELSE [pc |-> "past", stamp |-> Stamp(q)]
    BY <1>3 DEF ProcessEnds
  <2>2. ASSUME NEW q \in Query
        PROVE  Stamp(q)' = Stamp(q)
    <3>1. CASE task[q] = Idle
      BY <2>1, <3>1 DEF Stamp
    <3>2. CASE task[q] # Idle
      <4>1. task'[q] = [pc |-> "past", stamp |-> Stamp(q)]
        BY <2>1, <3>2
      <4>2. task'[q] # Idle /\ task'[q].stamp = Stamp(q)
        BY <4>1 DEF Idle
      <4> QED  BY <4>2 DEF Stamp
    <3> QED  BY <3>1, <3>2
  <2> QED  BY <2>2 DEF StampsSame
<1> QED  BY <1>1, <1>2, <1>3

\* Every step either logs a query, or settles some entries, or deletes rows.
LEMMA Moves ==
  ASSUME TypeOK, Past, OnePlace, [Next]_vars
  PROVE  \/ \E q \in Query : LogQuery(q)
         \/ \E W : Settled(W)
         \/ Purged
<1> USE DEF configVars, writerVars
<1>1. UNCHANGED <<channel, batch, flights>> => Queued' = Queued
  BY DEF Queued
<1>2. ASSUME UNCHANGED table, Queued' \subseteq Queued, StampsSame
      PROVE  Settled({})
  BY <1>2, NoRows DEF Settled
<1>3. ASSUME NEW q \in Query, NEW c \in Client, Route(q, c)
      PROVE  Settled({})
  BY <1>1, <1>2, <1>3, StampsStay DEF Route
<1>4. ASSUME NEW q \in Query, Receive(q)
      PROVE  Settled({})
  <2> DEFINE b == Append(batch, q)
  <2>1. channel \in Seq(Query) /\ channel # <<>> /\ q = Head(channel) /\ channel' = Tail(channel)
        /\ batch \in Seq(Query)
    BY <1>4 DEF Receive, TypeOK
  <2>2. Elements(channel) = {q} \cup Elements(channel') /\ Elements(b) = Elements(batch) \cup {q}
    BY <2>1, TailElements, AppendElements
  <2>3. \/ batch' = b /\ flights' = flights
        \/ batch' = <<>> /\ flights' = flights \cup {Elements(b)}
    BY <1>4 DEF Receive
  <2> HIDE DEF b
  <2>4. Queued' = Queued
    BY <2>2, <2>3, EmptyBatch DEF Queued
  <2> QED  BY <1>2, <1>4, <2>4, StampsStay DEF Receive
<1>5. CASE FlushTimer
  <2>1. Queued' = Queued
    BY <1>5, EmptyBatch DEF FlushTimer, Queued
  <2> QED  BY <1>2, <1>5, <2>1, StampsStay DEF FlushTimer
<1>6. ASSUME NEW f \in flights, FlushEnds(f)
      PROVE  \E W : Settled(W)
  <2>1. f \subseteq Queued /\ Queued' \subseteq Queued \ f
    BY <1>6 DEF FlushEnds, Queued, OnePlace
  <2>2. StampsSame
    BY <1>6, StampsStay DEF FlushEnds
  <2>3. CASE table' = WithRows(f)
    BY <2>1, <2>2, <2>3 DEF Settled
  <2>4. CASE UNCHANGED table
    BY <1>2, <2>1, <2>2, <2>4
  <2> QED  BY <1>6, <2>3, <2>4 DEF FlushEnds, Written
<1>7. CASE StopWriter
  <2>1. Elements(batch) \subseteq Queued /\ Queued' \subseteq Queued \ Elements(batch)
    BY <1>7, EmptyBatch DEF StopWriter, Queued, OnePlace
  <2>2. StampsSame
    BY <1>7, StampsStay DEF StopWriter
  <2>3. CASE table' = WithRows(Elements(batch))
    BY <2>1, <2>2, <2>3 DEF Settled
  <2>4. CASE UNCHANGED table
    BY <1>2, <2>1, <2>2, <2>4
  <2> QED  BY <1>7, <2>3, <2>4 DEF StopWriter, Written
<1>8. ASSUME NEW v \in BOOLEAN, SetQueryLog(v)
      PROVE  Settled({})
  BY <1>1, <1>2, <1>8, StampsStay DEF SetQueryLog
<1>9. CASE RunPurge \/ HourlyCleanup
  <2>1. StampsSame /\ UNCHANGED <<channel, batch, flights>>
    BY <1>9, StampsStay DEF RunPurge, HourlyCleanup
  <2>2. CASE UNCHANGED table
    BY <1>1, <1>2, <2>1, <2>2
  <2>3. CASE ~UNCHANGED table
    <3>1. table' = DeletedBefore(now) \/ table' = DeletedBefore(now - Retention)
      BY <1>9, <2>3 DEF RunPurge, HourlyCleanup
    <3>2. now \in Int /\ now - Retention \in Int
      BY Times, LogAssumption
    <3> QED  BY <2>1, <3>1, <3>2 DEF Purged
  <2> QED  BY <2>2, <2>3
<1>10. CASE Shutdown \/ Tick \/ UNCHANGED vars
  BY <1>1, <1>2, <1>10, StampsStay DEF Shutdown, Tick, vars
<1>11. CASE ProcessEnds
  <2>1. Queued' = {}
    BY <1>11, EmptyBatch DEF ProcessEnds, Queued
  <2> QED  BY <1>2, <1>11, <2>1, StampsStay DEF ProcessEnds
<1> QED  BY <1>3, <1>4, <1>5, <1>6, <1>7, <1>8, <1>9, <1>10, <1>11 DEF Next, QueryStep

\* What LogQuery does to the queue.
LEMMA LogQueues ==
  ASSUME TypeOK, Past, OnePlace, RowsStamped, NEW q \in Query, LogQuery(q)
  PROVE  /\ Stamp(q) = 0 /\ Stamp(q)' = now /\ now > 0
         /\ \A p \in Query : p # q => Stamp(p)' = Stamp(p)
         /\ q \notin Queued /\ table[q] = 0 /\ UNCHANGED <<table, batch, flights>>
         /\ channel' = channel \/ channel' = Append(channel, q)
         /\ Queued \subseteq Queued' /\ Queued' \subseteq Queued \cup {q}
<1>1. /\ task[q] \in LiveTask /\ task[q].pc \in {"answering", "refused"} /\ task'[q] \in LiveTask
      /\ task'[q].stamp = now /\ \A p \in Query : p # q => task'[p] = task[p]
  BY LogGives
<1>2. task[q] # Idle /\ task'[q] # Idle
  BY <1>1 DEF LiveTask, Idle
<1>3. Stamp(q) = 0 /\ Stamp(q)' = now
  BY <1>1, <1>2 DEF Stamp, RowsStamped
<1>4. \A p \in Query : p # q => Stamp(p)' = Stamp(p)
  BY <1>1 DEF Stamp
<1>5. q \notin Queued /\ table[q] = 0
  BY <1>3 DEF OnePlace, RowsStamped
<1>6. UNCHANGED <<table, batch, flights>> /\ (channel' = channel \/ channel' = Append(channel, q))
  BY DEF LogQuery, Enqueued
<1>7. Queued \subseteq Queued' /\ Queued' \subseteq Queued \cup {q}
  <2>1. channel \in Seq(Query)
    BY DEF TypeOK
  <2>2. Elements(channel') = Elements(channel) \/ Elements(channel') = Elements(channel) \cup {q}
    BY <1>6, <2>1, AppendElements
  <2> QED  BY <1>6, <2>2 DEF Queued
<1> QED  BY <1>3, <1>4, <1>5, <1>6, <1>7 DEF Past

LEMMA RowsStep ==
  ASSUME TypeOK, TypeOK', Past, OnePlace, RowsStamped, [Next]_vars
  PROVE  \A q \in Query : table'[q] <= 1 /\ (Stamp(q)' = 0 => table'[q] = 0)
<1>1. ASSUME NEW q \in Query, LogQuery(q)
      PROVE  \A p \in Query : table'[p] <= 1 /\ (Stamp(p)' = 0 => table'[p] = 0)
  BY <1>1, LogQueues DEF RowsStamped
<1>2. ASSUME NEW W, Settled(W)
      PROVE  \A p \in Query : table'[p] <= 1 /\ (Stamp(p)' = 0 => table'[p] = 0)
  BY <1>2 DEF Settled, WithRows, RowsStamped, OnePlace, StampsSame
<1>3. ASSUME Purged
      PROVE  \A p \in Query : table'[p] <= 1 /\ (Stamp(p)' = 0 => table'[p] = 0)
  BY <1>3 DEF Purged, DeletedBefore, RowsStamped, StampsSame
<1> QED  BY <1>1, <1>2, <1>3, Moves

LEMMA RowsStampedStep ==
  ASSUME TypeOK, TypeOK', Past, OnePlace, RowsStamped, [Next]_vars
  PROVE  RowsStamped'
<1> USE DEF configVars, writerVars
<1> DEFINE Unlogged(t) == t.pc \in {"answering", "refused"} => t.stamp = 0 /\ t.counted = 0
<1>1. \A q \in Query : Unlogged(task[q])
  BY DEF RowsStamped
<1>2. ASSUME NEW q \in Query, NEW c \in Client, Route(q, c), NEW p \in Query
      PROVE  Unlogged(task'[p])
  BY <1>1, <1>2, RouteGives
<1>3. ASSUME NEW q \in Query, LogQuery(q), NEW p \in Query
      PROVE  Unlogged(task'[p])
  <2>1. task'[q].pc = "done"
    BY <1>3 DEF LogQuery, TypeOK
  <2>2. p # q => task'[p] = task[p]
    BY <1>3, LogGives
  <2> QED  BY <1>1, <2>1, <2>2
<1>4. ASSUME UNCHANGED task, NEW p \in Query
      PROVE  Unlogged(task'[p])
  BY <1>1, <1>4
<1>5. ASSUME ProcessEnds, NEW p \in Query
      PROVE  Unlogged(task'[p])
  <2>1. task'[p].pc \in {"idle", "past"}
    BY <1>5 DEF ProcessEnds, Idle
  <2> QED  BY <2>1
<1>6. UNCHANGED task \/ ProcessEnds \/ (\E q \in Query : LogQuery(q))
        \/ (\E q \in Query, c \in Client : Route(q, c))
  BY DEF Next, QueryStep, Receive, FlushTimer, FlushEnds, StopWriter, SetQueryLog, RunPurge,
         HourlyCleanup, Shutdown, Tick, vars
<1> HIDE DEF Unlogged
<1>7. \A p \in Query : Unlogged(task'[p])
  BY <1>2, <1>3, <1>4, <1>5, <1>6
<1> QED  BY <1>7, RowsStep DEF RowsStamped, Unlogged

\* Where the entries are after a step.
LEMMA PlacesStep ==
  ASSUME TypeOK, Past, OnePlace, RowsStamped, [Next]_vars
  PROVE  /\ Distinct(channel)' /\ Distinct(batch)'
         /\ Elements(channel') \cap Elements(batch') = {}
         /\ \A f \in flights' : f \cap (Elements(channel') \cup Elements(batch')) = {}
         /\ \A f, g \in flights' : f = g \/ f \cap g = {}
<1> USE DEF OnePlace, configVars, writerVars
<1> DEFINE Goal == /\ Distinct(channel)' /\ Distinct(batch)'
                   /\ Elements(channel') \cap Elements(batch') = {}
                   /\ \A f \in flights' : f \cap (Elements(channel') \cup Elements(batch')) = {}
                   /\ \A f, g \in flights' : f = g \/ f \cap g = {}
<1>1. channel \in Seq(Query) /\ batch \in Seq(Query) /\ Distinct(<<>>)
  BY DEF TypeOK, Distinct
<1>2. CASE UNCHANGED <<channel, batch, flights>>
  BY <1>2 DEF Distinct
<1>3. ASSUME NEW q \in Query, LogQuery(q)
      PROVE  Goal
  <2>1. q \notin Queued /\ UNCHANGED <<batch, flights>>
        /\ (channel' = channel \/ channel' = Append(channel, q))
    BY <1>3, LogQueues
  <2>2. CASE channel' = channel
    BY <2>1, <2>2 DEF Distinct
  <2>3. CASE channel' = Append(channel, q)
    <3>1. Elements(channel') = Elements(channel) \cup {q} /\ Distinct(channel')
      BY <1>1, <2>1, <2>3, AppendElements DEF Queued
    <3> QED  BY <2>1, <3>1 DEF Queued, Distinct
  <2> QED  BY <2>1, <2>2, <2>3
<1>4. ASSUME NEW q \in Query, Receive(q)
      PROVE  Goal
  <2> DEFINE b == Append(batch, q)
  <2>1. channel # <<>> /\ q = Head(channel) /\ channel' = Tail(channel)
    BY <1>4 DEF Receive
  <2>2. /\ Elements(channel) = {q} \cup Elements(channel')
        /\ Distinct(channel') /\ q \notin Elements(channel')
    BY <1>1, <2>1, TailElements
  <2>3. Elements(b) = Elements(batch) \cup {q} /\ Distinct(b)
    BY <1>1, <2>2, AppendElements
  <2>4. \/ batch' = b /\ flights' = flights
        \/ batch' = <<>> /\ flights' = flights \cup {Elements(b)}
    BY <1>4 DEF Receive
  <2> HIDE DEF b
  <2>5. CASE batch' = b /\ flights' = flights
    BY <2>2, <2>3, <2>5 DEF Distinct
  <2>6. CASE batch' = <<>> /\ flights' = flights \cup {Elements(b)}
    <3>1. \A f \in flights : f \cap Elements(b) = {}
      BY <2>2, <2>3
    <3>2. Elements(channel') \cap Elements(b) = {}
      BY <2>2, <2>3
    <3>3. Distinct(batch)' /\ Elements(batch') = {}
      BY <1>1, <2>6, EmptyBatch DEF Distinct
    <3>4. \A f \in flights' : f \cap (Elements(channel') \cup Elements(batch')) = {}
      BY <2>2, <2>6, <3>2, <3>3
    <3>5. \A f, g \in flights' : f = g \/ f \cap g = {}
      BY <2>6, <3>1
    <3> QED  BY <2>2, <3>3, <3>4, <3>5
  <2> QED  BY <2>4, <2>5, <2>6
<1>5. CASE FlushTimer
  <2>1. batch' = <<>> /\ flights' = flights \cup {Elements(batch)} /\ UNCHANGED channel
    BY <1>5 DEF FlushTimer
  <2> QED  BY <1>1, <2>1, EmptyBatch DEF Distinct
<1>6. ASSUME NEW f \in flights, FlushEnds(f)
      PROVE  Goal
  <2>1. flights' = flights \ {f} /\ UNCHANGED <<channel, batch>>
    BY <1>6 DEF FlushEnds
  <2> QED  BY <2>1 DEF Distinct
<1>7. CASE StopWriter
  <2>1. batch' = <<>> /\ channel' = <<>> /\ UNCHANGED flights
    BY <1>7 DEF StopWriter
  <2> QED  BY <1>1, <2>1, EmptyBatch DEF Distinct
<1>8. CASE ProcessEnds
  <2>1. batch' = <<>> /\ channel' = <<>> /\ flights' = {}
    BY <1>8 DEF ProcessEnds
  <2> QED  BY <1>1, <2>1, EmptyBatch DEF Distinct
<1>9. CASE ~UNCHANGED <<channel, batch, flights>>
  <2>1. \/ \E q \in Query : LogQuery(q) \/ Receive(q)
        \/ \E f \in flights : FlushEnds(f)
        \/ FlushTimer \/ StopWriter \/ ProcessEnds
    BY <1>9 DEF Next, QueryStep, Route, SetQueryLog, RunPurge, HourlyCleanup, Shutdown, Tick, vars
  <2> QED  BY <1>3, <1>4, <1>5, <1>6, <1>7, <1>8, <2>1
<1> QED  BY <1>2, <1>9

LEMMA OnePlaceStep ==
  ASSUME TypeOK, TypeOK', Past, OnePlace, RowsStamped, [Next]_vars
  PROVE  OnePlace'
<1>1. \A q \in Queued : q \in Query
  BY DEF Queued, Elements, TypeOK
<1>2. \A q \in Queued' : Stamp(q)' > 0 /\ table'[q] = 0
  <2>1. ASSUME NEW q \in Query, LogQuery(q)
        PROVE  \A p \in Queued' : Stamp(p)' > 0 /\ table'[p] = 0
    BY <1>1, <2>1, LogQueues DEF OnePlace
  <2>2. ASSUME NEW W, Settled(W)
        PROVE  \A p \in Queued' : Stamp(p)' > 0 /\ table'[p] = 0
    BY <1>1, <2>2 DEF Settled, WithRows, OnePlace, StampsSame
  <2>3. ASSUME Purged
        PROVE  \A p \in Queued' : Stamp(p)' > 0 /\ table'[p] = 0
    <3>1. Queued' = Queued
      BY <2>3 DEF Purged, Queued
    <3> QED  BY <1>1, <2>3, <3>1 DEF Purged, DeletedBefore, OnePlace, StampsSame
  <2> QED  BY <2>1, <2>2, <2>3, Moves
<1> QED  BY <1>2, PlacesStep DEF OnePlace
LogInv == TypeOK /\ Past /\ OnePlace /\ RowsStamped

LEMMA InitLog == Init => LogInv
<1> SUFFICES ASSUME Init PROVE LogInv
  OBVIOUS
<1>1. now \in Nat /\ now > 0 /\ now <= MaxTime /\ MaxTime \in Nat
  BY LogAssumption DEF Init, FirstTime
<1>2. Limiter!TypeOK /\ \A c \in Client : window[c].start = 0
  BY <1>1, LogAssumption DEF Init, Limiter!TypeOK, Limiter!NoWindows, Limiter!Absent, Limiter!Counts
<1>3. Stats!TypeOK
  BY EmptyTypes DEF Init, Stats!TypeOK, Stats!NoHistories, Ring
<1>4. \A q \in Query : task[q] = Idle /\ Stamp(q) = 0 /\ table[q] = 0
  BY DEF Init, Stamp
<1>5. Queued = {}
  BY EmptyBatch DEF Init, Queued
<1>6. TypeOK
  BY <1>1, <1>2, <1>3, EmptyBatch, LogAssumption DEF Init, TypeOK, Tasks
<1>7. OnePlace
  BY <1>5, EmptyBatch DEF OnePlace, Init, Distinct
<1>8. RowsStamped
  BY <1>4 DEF RowsStamped, Idle
<1>9. Past
  BY <1>1, <1>2 DEF Past
<1> QED  BY <1>6, <1>7, <1>8, <1>9 DEF LogInv

LEMMA NextLog == LogInv /\ [Next]_vars => LogInv'
BY TypeStep, PastStep, OnePlaceStep, RowsStampedStep DEF LogInv

LEMMA LogInvariant == Spec => []LogInv
BY InitLog, NextLog, PTL DEF Spec

\* Type correctness, with any number of queries, batches and restarts.
THEOREM TypeCorrect == Spec => []TypeOK
<1>1. LogInv => TypeOK
  BY DEF LogInv
<1> QED  BY <1>1, LogInvariant, PTL

-----------------------------------------------------------------------------
(* The refinement of WriteOnceLog.                                         *)

LEMMA LeastNumber ==
  ASSUME NEW S \in SUBSET Nat, S # {}
  PROVE  \E x \in S : \A y \in S : x <= y
<1> DEFINE R == OpToRel(<, Nat)
<1>1. IsWellFoundedOn(R, Nat)
  BY NatLessThanWellFounded
<1>2. PICK x \in S : \A y \in S : <<y, x>> \notin R
  BY <1>1, WFMin
<1>3. \A y \in S : ~(y < x)
  BY <1>2 DEF OpToRel
<1> HIDE DEF R
<1> QED  BY <1>2, <1>3

\* Of some queries, one with the latest timestamp.
LEMMA Latest ==
  ASSUME TypeOK, NEW S \in SUBSET Query, S # {}
  PROVE  \E p \in S : \A q \in S : Stamp(q) <= Stamp(p)
<1> DEFINE A == {MaxTime - Stamp(q) : q \in S}
<1>1. MaxTime \in Nat /\ \A q \in S : Stamp(q) \in 0..MaxTime
  BY StampType, LogAssumption
<1>2. A \in SUBSET Nat /\ A # {}
  BY <1>1
<1> HIDE DEF A
<1>3. PICK x \in A : \A y \in A : x <= y
  BY <1>2, LeastNumber
<1>4. PICK p \in S : x = MaxTime - Stamp(p)
  BY DEF A
<1>5. \A q \in S : MaxTime - Stamp(q) \in A
  BY DEF A
<1>6. ASSUME NEW q \in S
      PROVE  Stamp(q) <= Stamp(p)
  BY <1>1, <1>3, <1>4, <1>5
<1> QED  BY <1>6

\* What Entry says, case by case.
EntryRead ==
  \A q \in Query :
    /\ Entry(q) \in {"new", "accepted", "written", "gone"}
    /\ Entry(q) = "new" <=> Stamp(q) = 0
    /\ Entry(q) = "written" <=> table[q] = 1
    /\ Entry(q) = "accepted" <=> q \in Queued

LEMMA EntryIs == LogInv => EntryRead
<1> SUFFICES ASSUME LogInv, NEW q \in Query
             PROVE  /\ Entry(q) \in {"new", "accepted", "written", "gone"}
                    /\ Entry(q) = "new" <=> Stamp(q) = 0
                    /\ Entry(q) = "written" <=> table[q] = 1
                    /\ Entry(q) = "accepted" <=> q \in Queued
  BY DEF EntryRead
<1>1. table[q] \in Nat /\ table[q] <= 1 /\ (Stamp(q) = 0 => table[q] = 0)
      /\ (q \in Queued => Stamp(q) > 0 /\ table[q] = 0)
  BY DEF LogInv, TypeOK, RowsStamped, OnePlace
<1>2. Stamp(q) \in Nat
  BY StampType DEF LogInv
<1>3. CASE Stamp(q) = 0
  BY <1>1, <1>2, <1>3 DEF Entry
<1>4. CASE table[q] = 1
  BY <1>1, <1>2, <1>4 DEF Entry
<1>5. CASE q \in Queued
  BY <1>1, <1>2, <1>5 DEF Entry
<1>6. CASE Stamp(q) # 0 /\ table[q] # 1 /\ q \notin Queued
  BY <1>1, <1>2, <1>6 DEF Entry
<1> QED  BY <1>3, <1>4, <1>5, <1>6

LEMMA EntryIsNext == LogInv' => EntryRead'
BY EntryIs, PTL

LEMMA InitImplements == Init => Log!Init
<1> SUFFICES ASSUME Init PROVE Log!Init
  OBVIOUS
<1>1. \A q \in Query : Stamp(q) = 0
  BY DEF Init, Stamp
<1>2. \A q \in Query : Entry(q) = "new"
  BY <1>1, InitLog, EntryIs DEF EntryRead
<1> QED  BY <1>1, <1>2 DEF Log!Init

LEMMA LogSubmits ==
  ASSUME LogInv, LogInv', NEW q \in Query, LogQuery(q)
  PROVE  Log!Submit(q)
<1>1. /\ Stamp(q) = 0 /\ Stamp(q)' > 0 /\ \A p \in Query : p # q => Stamp(p)' = Stamp(p)
      /\ table[q] = 0 /\ UNCHANGED table
      /\ Queued \subseteq Queued' /\ Queued' \subseteq Queued \cup {q}
  BY LogQueues DEF LogInv
<1>2. EntryRead /\ EntryRead'
  BY EntryIs, EntryIsNext
<1>3. \A p \in Query : p # q => Entry(p)' = Entry(p)
  BY <1>1, <1>2 DEF EntryRead
<1>4. Entry(q) = "new" /\ Entry(q)' \in {"accepted", "gone"}
  BY <1>1, <1>2 DEF EntryRead
<1> HIDE DEF LogInv
<1> QED  BY <1>1, <1>3, <1>4 DEF Log!Submit

LEMMA SettledSettles ==
  ASSUME LogInv, LogInv', NEW W, Settled(W)
  PROVE  Log!Settle
<1>1. EntryRead /\ EntryRead'
  BY EntryIs, EntryIsNext
<1>2. \A q \in Query : Stamp(q)' = Stamp(q)
  BY DEF Settled, StampsSame
<1>3. ASSUME NEW q \in Query
      PROVE  Entry(q)' = Entry(q) \/ (Entry(q) = "accepted" /\ Entry(q)' \in {"written", "gone"})
  <2>1. CASE q \in W
    <3>1. q \in Queued /\ table'[q] = 1
      BY <2>1 DEF Settled, WithRows, LogInv, OnePlace
    <3> QED  BY <1>1, <3>1 DEF EntryRead
  <2>2. CASE q \notin W
    <3>1. table'[q] = table[q] /\ (q \in Queued' => q \in Queued)
      BY <2>2 DEF Settled, WithRows
    <3> QED  BY <1>1, <1>2, <3>1 DEF EntryRead
  <2> QED  BY <2>1, <2>2
<1>4. \A q \in Query : Entry(q)' \in Log!State
  BY <1>1 DEF EntryRead, Log!State
<1> HIDE DEF Settled, LogInv
<1> QED  BY <1>2, <1>3, <1>4 DEF Log!Settle

\* A deletion deletes what is older than its youngest victim, and that victim.
LEMMA PurgedPurges ==
  ASSUME LogInv, LogInv', Purged
  PROVE  \/ Log!Purge
         \/ \A q \in Query : Entry(q)' = Entry(q) /\ Stamp(q)' = Stamp(q)
<1>1. EntryRead /\ EntryRead'
  BY EntryIs, EntryIsNext
<1>2. PICK t \in Int : table' = DeletedBefore(t)
  BY DEF Purged
<1>3. /\ \A q \in Query : Stamp(q)' = Stamp(q) /\ Stamp(q) \in Nat
      /\ Queued' = Queued
  BY StampType DEF Purged, StampsSame, Queued, LogInv
<1>4. ASSUME NEW q \in Query
      PROVE  Entry(q)' = IF Entry(q) = "written" /\ Stamp(q) < t THEN "gone" ELSE Entry(q)
  <2>1. table'[q] = IF Stamp(q) < t THEN 0 ELSE table[q]
    BY <1>2 DEF DeletedBefore
  <2> QED  BY <1>1, <1>3, <2>1 DEF EntryRead
<1> DEFINE Victims == {q \in Query : Entry(q) = "written" /\ Stamp(q) < t}
<1>5. CASE Victims = {}
  BY <1>3, <1>4, <1>5
<1>6. CASE Victims # {}
  <2>1. PICK p \in Victims : \A q \in Victims : Stamp(q) <= Stamp(p)
    BY <1>6, Latest DEF LogInv
  <2> DEFINE cutoff == Stamp(p) + 1
  <2>2. \A q \in Query : Entry(q) = "written" => (Stamp(q) < t <=> Stamp(q) < cutoff)
    BY <1>3, <2>1
  <2>3. \A q \in Query :
          Entry(q)' = IF Entry(q) = "written" /\ Stamp(q) < cutoff THEN "gone" ELSE Entry(q)
    BY <1>4, <2>2
  <2>4. p \in Query /\ cutoff \in {Stamp(q) + 1 : q \in Query}
    BY <2>1
  <2> HIDE DEF Victims, cutoff
  <2>5. Log!Purge
    <3> DEFINE age == [q \in Query |-> Stamp(q)]
    <3>1. cutoff \in {age[q] + 1 : q \in Query}
      BY <2>4 DEF cutoff
    <3> QED  BY <1>3, <2>3, <3>1 DEF Log!Purge
  <2> QED  BY <2>5
<1> QED  BY <1>5, <1>6

LEMMA NextImplements ==
  LogInv /\ LogInv' /\ [Next]_vars =>
    [Log!Next]_<<[q \in Query |-> Entry(q)], [q \in Query |-> Stamp(q)]>>
<1> SUFFICES ASSUME LogInv, LogInv', [Next]_vars
             PROVE  [Log!Next]_<<[q \in Query |-> Entry(q)], [q \in Query |-> Stamp(q)]>>
  OBVIOUS
<1>1. \/ \E q \in Query : LogQuery(q)
      \/ \E W : Settled(W)
      \/ Purged
  BY Moves DEF LogInv
<1>2. CASE \E q \in Query : LogQuery(q)
  BY <1>2, LogSubmits DEF Log!Next
<1>3. CASE \E W : Settled(W)
  BY <1>3, SettledSettles DEF Log!Next
<1>4. CASE Purged
  <2>1. CASE Log!Purge
    BY <2>1 DEF Log!Next
  <2>2. CASE \A q \in Query : Entry(q)' = Entry(q) /\ Stamp(q)' = Stamp(q)
    BY <2>2
  <2> QED  BY <1>4, <2>1, <2>2, PurgedPurges
<1> QED  BY <1>1, <1>2, <1>3, <1>4

\* Channel, batches, threads, failed transactions, shutdown, crashes and
\* deletions do to an entry only what WriteOnceLog allows: no row is written
\* twice, or comes back (writer.rs, queries.rs).
THEOREM WritesOnce == Spec => ImplementsLog
<1>1. LogInv /\ [Next]_vars =>
        [Log!Next]_<<[q \in Query |-> Entry(q)], [q \in Query |-> Stamp(q)]>>
  BY NextLog, NextImplements
<1> QED  BY <1>1, InitImplements, LogInvariant, PTL DEF Spec, ImplementsLog, Log!Spec

-----------------------------------------------------------------------------
(* The rate limiter.                                                       *)

\* The queries a step leaves alone, as far as the limiter counts them.
SameOpened(q) ==
  /\ Live(q)' <=> Live(q)
  /\ Live(q) => task'[q].client = task[q].client /\ task'[q].opened = task[q].opened

LEMMA OpenedFinite ==
  ASSUME NEW c, NEW s
  PROVE  /\ IsFiniteSet(Opened(c, s)) /\ Cardinality(Opened(c, s)) \in Nat
         /\ \A q : /\ IsFiniteSet(Opened(c, s) \cup {q})
                   /\ Cardinality(Opened(c, s) \cup {q}) <= Cardinality(Opened(c, s)) + 1
<1>1. IsFiniteSet(Query)
  BY LogAssumption, FS_Interval DEF Query
<1>2. Opened(c, s) \subseteq Query
  BY DEF Opened
<1>3. IsFiniteSet(Opened(c, s)) /\ Cardinality(Opened(c, s)) \in Nat
  BY <1>1, <1>2, FS_Subset, FS_CardinalityType
<1> QED  BY <1>3, FS_AddElement

LEMMA FloodQuiet ==
  ASSUME TypeOK, FloodInv, UNCHANGED window, now' \in {now, now + 1},
         \A q \in Query : SameOpened(q)
  PROVE  FloodInv'
<1>1. \A c, s : Opened(c, s)' = Opened(c, s)
  BY DEF Opened, SameOpened
<1>2. FloodShed'
  BY <1>1 DEF FloodInv, FloodShed, Opened
<1>3. now \in Nat /\ \A q \in Query : Live(q) => task[q].opened \in Nat
  BY Times, LiveTasks, LogAssumption DEF LiveTask
<1>4. ASSUME NEW c \in Client
      PROVE  WindowsOver(c)' /\ WindowCounts(c)'
  <2>1. WindowCounts(c)'
    BY <1>1, <1>4 DEF FloodInv, WindowCounts
  <2>2. ASSUME NEW q \in Query, Live(q)', task'[q].client = c, task'[q].opened > 0
        PROVE  /\ task'[q].opened <= now'
               /\ \/ window'[c].count > 0 /\ task'[q].opened = window'[c].start
                  \/ /\ task'[q].opened + Limiter!StaleAfter <= now'
                     /\ window'[c].count > 0 => task'[q].opened < window'[c].start
    BY <1>3, <2>2 DEF FloodInv, WindowsOver, SameOpened, Limiter!StaleAfter
  <2> QED  BY <2>1, <2>2 DEF WindowsOver
<1> QED  BY <1>2, <1>4 DEF FloodInv

\* What a check by a client does to the windows: it counts the query in the
\* window there is, or opens a new one when that is over.
LEMMA CheckWindows ==
  ASSUME TypeOK, Past, MaxLag < Limiter!StaleAfter,
         NEW c \in Client, NEW read \in Nat, now - MaxLag <= read, read <= now, Limiter!Check(c, read)
  PROVE  /\ \/ /\ window[c].count > 0
               /\ window'[c].start = window[c].start
               /\ window'[c].count > window[c].count \/ window'[c].count > MaxQps + 1
            \/ /\ window'[c].count = 1 /\ window'[c].start = read
               /\ window[c].count = 0 \/ window[c].start + Limiter!StaleAfter <= read
         /\ \A x \in Client : x # c =>
              \/ window'[x] = window[x]
              \/ window'[x].count = 0 /\ window[x].start + Limiter!StaleAfter <= now
<1>1. window \in [Client -> [count : 0..(MaxQps + 2), start : Nat]] /\ now \in Nat /\ MaxQps \in Nat
  BY WindowsType, Times, LogAssumption
<1> USE DEF Limiter!StaleAfter
<1>2. ASSUME NEW x \in Client
      PROVE  \/ Limiter!Kept(x, read) = window[x]
             \/ /\ Limiter!Kept(x, read).count = 0
                /\ window[x].start + 2 <= read
  BY <1>1 DEF Limiter!Kept, Limiter!Since, Limiter!Absent
<1>3. \A x \in Client : x # c => window'[x] = Limiter!Kept(x, read)
  BY DEF Limiter!Check
<1>4. window'[c] = Limiter!Counted(Limiter!Kept(c, read), read)
  BY DEF Limiter!Check
<1>5. CASE Limiter!Kept(c, read).count = 0
  <2>1. window'[c].count = 1 /\ window'[c].start = read
    BY <1>4, <1>5 DEF Limiter!Counted
  <2> QED  BY <1>1, <1>2, <1>3, <1>5, <2>1
<1>6. CASE Limiter!Kept(c, read).count # 0
  <2>1. Limiter!Kept(c, read) = window[c] /\ window[c].count > 0
    BY <1>1, <1>2, <1>6
  <2>2. CASE Limiter!Since(read, window[c].start) > Limiter!WindowLength
    <3>1. window'[c].count = 1 /\ window'[c].start = read
      BY <1>4, <2>1, <2>2, <1>6 DEF Limiter!Counted
    <3>2. window[c].start + 2 <= read
      BY <1>1, <2>2 DEF Limiter!Since, Limiter!WindowLength
    <3> QED  BY <1>1, <1>2, <1>3, <3>1, <3>2
  <2>3. CASE ~(Limiter!Since(read, window[c].start) > Limiter!WindowLength)
    <3>1. window'[c] = [window[c] EXCEPT !.count = IF @ = MaxQps + 2 THEN @ ELSE @ + 1]
      BY <1>4, <2>1, <2>3, <1>6 DEF Limiter!Counted
    <3>2. /\ window'[c].start = window[c].start
          /\ window'[c].count > window[c].count \/ window'[c].count > MaxQps + 1
      BY <1>1, <3>1
    <3> QED  BY <1>1, <1>2, <1>3, <2>1, <3>2
  <2> QED  BY <2>2, <2>3
<1> QED  BY <1>5, <1>6
LEMMA FloodRoute ==
  ASSUME TypeOK, Past, FloodInv, MaxLag < Limiter!StaleAfter,
         NEW q \in Query, NEW c \in Client, Route(q, c)
  PROVE  FloodInv'
<1> USE DEF Limiter!StaleAfter
<1>1. PICK read \in Nat :
        /\ read > 0 /\ now - MaxLag <= read /\ read <= now /\ Limiter!Check(c, read)
        /\ task[q] = Idle /\ task'[q] \in LiveTask
        /\ \A p \in Query : p # q => task'[p] = task[p]
        /\ task'[q].client = c
        /\ task'[q].opened = IF window'[c].count <= MaxQps + 1 THEN window'[c].start ELSE 0
        /\ Limiter!TypeOK'
  BY RouteGives
<1>2. /\ window \in [Client -> [count : 0..(MaxQps + 2), start : Nat]]
      /\ window' \in [Client -> [count : 0..(MaxQps + 2), start : Nat]]
      /\ now \in Nat /\ MaxLag \in Nat /\ MaxQps \in Nat /\ UNCHANGED now
      /\ \A p \in Query : Live(p) => task[p].opened \in Nat
  BY <1>1, WindowsType, Times, LiveTasks, LogAssumption DEF LiveTask, Limiter!TypeOK, Limiter!Counts, Route
<1>3. PICK start \in Nat, count \in Nat, opened \in Nat :
        /\ start = window'[c].start /\ count = window'[c].count /\ opened = task'[q].opened
        /\ opened = IF count <= MaxQps + 1 THEN start ELSE 0
  BY <1>1, <1>2
<1>4. /\ \/ /\ window[c].count > 0
            /\ start = window[c].start
            /\ count > window[c].count \/ count > MaxQps + 1
         \/ /\ count = 1 /\ start = read
            /\ window[c].count = 0 \/ window[c].start + 2 <= read
      /\ \A x \in Client : x # c =>
           \/ window'[x] = window[x]
           \/ window'[x].count = 0 /\ window[x].start + 2 <= now
  BY <1>1, <1>3, CheckWindows
<1>5. ~Live(q) /\ Live(q)' /\ \A p \in Query : p # q => SameOpened(p)
  BY <1>1, LiveTasks DEF LiveTask, Live, SameOpened
<1>6. \A x, s : ~(x = c /\ s = opened) => Opened(x, s)' = Opened(x, s)
  BY <1>1, <1>3, <1>5 DEF Opened, SameOpened
<1>7. Opened(c, opened)' = Opened(c, opened) \cup {q}
  BY <1>1, <1>3, <1>5 DEF Opened, SameOpened
<1>8. \A x \in Client, s \in 1..MaxTime : Cardinality(Opened(x, s)) <= MaxQps + 1
  BY DEF FloodInv, FloodShed, Opened
<1>9. ASSUME 0 < start, start <= now, 0 < count, Cardinality(Opened(c, start)') <= count,
             opened > 0 => Cardinality(Opened(c, opened)') <= MaxQps + 1,
             \A p \in Query : Live(p) /\ task[p].client = c /\ task[p].opened > 0 =>
               \/ task[p].opened = start
               \/ task[p].opened + 2 <= now /\ task[p].opened < start
      PROVE  FloodInv'
  <2>1. \A x \in Client, s \in 1..MaxTime : Cardinality(Opened(x, s)') <= MaxQps + 1
    <3>1. ASSUME NEW x \in Client, NEW s \in 1..MaxTime
          PROVE  Cardinality(Opened(x, s)') <= MaxQps + 1
      <4>1. CASE x = c /\ s = opened
        BY <1>9, <4>1
      <4>2. CASE ~(x = c /\ s = opened)
        BY <1>6, <1>8, <4>2
      <4> QED  BY <4>1, <4>2
    <3> QED  BY <3>1
  <2>2. FloodShed'
    BY <2>1 DEF FloodShed, Opened
  <2>3. WindowCounts(c)'
    <3>1. Opened(c, window[c].start)' = Opened(c, start)'
      BY <1>3 DEF Opened
    <3> QED  BY <1>3, <1>9, <3>1 DEF WindowCounts
  <2>4. WindowsOver(c)'
    <3>1. ASSUME NEW p \in Query, Live(p)', task'[p].client = c, task'[p].opened > 0
          PROVE  /\ task'[p].opened <= now
                 /\ \/ count > 0 /\ task'[p].opened = start
                    \/ /\ task'[p].opened + 2 <= now
                       /\ count > 0 => task'[p].opened < start
      <4>1. CASE p = q
        <5>1. task'[p].opened = opened
          BY <1>3, <4>1
        <5>2. opened = start
          BY <1>3, <3>1, <5>1
        <5> QED  BY <1>9, <5>1, <5>2
      <4>2. CASE p # q
        <5>1. Live(p) /\ task[p].client = c /\ task'[p].opened = task[p].opened
          BY <1>5, <3>1, <4>2 DEF SameOpened
        <5>2. task[p].opened \in Nat /\ task[p].opened > 0
          BY <1>2, <3>1, <5>1
        <5>3. task[p].opened = start \/ (task[p].opened + 2 <= now /\ task[p].opened < start)
          BY <1>9, <5>1, <5>2
        <5> QED  BY <1>2, <1>9, <5>1, <5>2, <5>3
      <4> QED  BY <4>1, <4>2
    <3> QED  BY <1>2, <1>3, <3>1 DEF WindowsOver
  <2>5. ASSUME NEW x \in Client, x # c
        PROVE  WindowsOver(x)' /\ WindowCounts(x)'
    <3>1. WindowsOver(x) /\ WindowCounts(x)
      BY DEF FloodInv
    <3>2. Opened(x, window[x].start)' = Opened(x, window'[x].start)
      BY <1>1, <1>5, <2>5 DEF Opened, SameOpened
    <3>3. \A p \in Query : Live(p)' /\ task'[p].client = x =>
            Live(p) /\ task[p].client = x /\ task'[p].opened = task[p].opened
      BY <1>1, <1>5, <2>5 DEF SameOpened
    <3>4. CASE window'[x] = window[x]
      BY <1>2, <3>1, <3>2, <3>3, <3>4 DEF WindowsOver, WindowCounts
    <3>5. CASE window'[x].count = 0 /\ window[x].start + 2 <= now
      <4>1. WindowCounts(x)'
        BY <3>5 DEF WindowCounts
      <4>2. WindowsOver(x)'
        BY <1>2, <3>1, <3>3, <3>5 DEF WindowsOver
      <4> QED  BY <4>1, <4>2
    <3> QED  BY <1>4, <2>5, <3>4, <3>5
  <2> QED  BY <2>2, <2>3, <2>4, <2>5 DEF FloodInv
\* The window of c is a new one, which nobody was let through in before.
<1>10. CASE count = 1 /\ start = read /\ (window[c].count = 0 \/ window[c].start + 2 <= read)
  <2>1. \A p \in Query : Live(p) /\ task[p].client = c /\ task[p].opened > 0 =>
          task[p].opened + 2 <= now /\ task[p].opened < read
    BY <1>1, <1>2, <1>10 DEF FloodInv, WindowsOver
  <2>2. opened = read
    BY <1>1, <1>2, <1>3, <1>10, LogAssumption
  <2>3. Opened(c, read) = {}
    BY <1>1, <1>2, <2>1 DEF Opened
  <2>4. Opened(c, opened)' = {q}
    BY <1>7, <2>2, <2>3
  <2>5. Cardinality(Opened(c, opened)') = 1
    BY <2>4, FS_Singleton
  <2> QED  BY <1>1, <1>2, <1>9, <1>10, <2>1, <2>2, <2>5
<1>11. CASE window[c].count > 0 /\ start = window[c].start /\ (count > window[c].count \/ count > MaxQps + 1)
  <2>1. 0 < start /\ start <= now /\ 0 < count
    BY <1>2, <1>11 DEF FloodInv, WindowCounts, Past
  <2>2. Cardinality(Opened(c, start)) <= window[c].count /\ Cardinality(Opened(c, start)) <= MaxQps + 1
    BY <1>2, <1>8, <1>11, <2>1, Times DEF FloodInv, WindowCounts
  <2>3. /\ Cardinality(Opened(c, start)) \in Nat
        /\ Cardinality(Opened(c, start) \cup {q}) <= Cardinality(Opened(c, start)) + 1
        /\ Cardinality(Opened(c, start) \cup {q}) \in Nat
    BY OpenedFinite, FS_CardinalityType
  <2>4. \A p \in Query : Live(p) /\ task[p].client = c /\ task[p].opened > 0 =>
          \/ task[p].opened = start
          \/ task[p].opened + 2 <= now /\ task[p].opened < start
    BY <1>11 DEF FloodInv, WindowsOver
  <2>5. CASE count <= MaxQps + 1
    <3>1. opened = start /\ Opened(c, start)' = Opened(c, start) \cup {q}
      BY <1>3, <1>7, <2>5
    <3>2. Cardinality(Opened(c, start)') <= count
      BY <1>2, <1>11, <2>2, <2>3, <2>5, <3>1
    <3>3. Cardinality(Opened(c, opened)') <= MaxQps + 1
      BY <1>2, <2>3, <2>5, <3>1, <3>2
    <3> QED  BY <1>9, <2>1, <2>4, <3>2, <3>3
  <2>6. CASE count > MaxQps + 1
    <3>1. opened = 0 /\ Opened(c, start)' = Opened(c, start)
      BY <1>2, <1>3, <1>6, <2>1, <2>6
    <3>2. Cardinality(Opened(c, start)') <= count
      BY <1>2, <2>2, <2>3, <2>6, <3>1
    <3> QED  BY <1>9, <2>1, <2>4, <3>1, <3>2
  <2> QED  BY <1>2, <2>5, <2>6
<1> QED  BY <1>4, <1>10, <1>11

LEMMA FloodStep ==
  ASSUME MaxLag < Limiter!StaleAfter
  PROVE  LogInv /\ FloodInv /\ [Next]_vars => FloodInv'
<1> USE DEF configVars, writerVars, limiterVars
<1> SUFFICES ASSUME TypeOK, Past, FloodInv, [Next]_vars PROVE FloodInv'
  BY DEF LogInv
<1>1. ASSUME NEW q \in Query, NEW c \in Client, Route(q, c)
      PROVE  FloodInv'
  BY <1>1, FloodRoute
<1>2. ASSUME NEW q \in Query, LogQuery(q)
      PROVE  FloodInv'
  <2>1. \A p \in Query : SameOpened(p)
    <3>1. task'[q] \in LiveTask /\ task[q] \in LiveTask
          /\ task'[q].client = task[q].client /\ task'[q].opened = task[q].opened
          /\ \A p \in Query : p # q => task'[p] = task[p]
      BY <1>2, LogGives
    <3> QED  BY <3>1 DEF SameOpened, Live, LiveTask
  <2>2. UNCHANGED <<window, now>>
    BY <1>2 DEF LogQuery
  <2> QED  BY <2>1, <2>2, FloodQuiet
<1>3. ASSUME UNCHANGED <<window, task>>, now' \in {now, now + 1}
      PROVE  FloodInv'
  <2>1. \A p \in Query : SameOpened(p)
    BY <1>3 DEF SameOpened, Live
  <2> QED  BY <1>3, <2>1, FloodQuiet
<1>4. CASE ProcessEnds
  <2>1. \A q \in Query : ~Live(q)'
    BY <1>4 DEF ProcessEnds, Live, Idle
  <2>2. \A c, s : Opened(c, s)' = {}
    BY <2>1 DEF Opened
  <2>3. FloodShed'
    <3>1. \A c, s : Cardinality(Opened(c, s)') <= MaxQps + 1
      BY <2>2, FS_EmptySet, LogAssumption
    <3> QED  BY <3>1 DEF FloodShed, Opened
  <2>4. \A c \in Client : WindowsOver(c)' /\ WindowCounts(c)'
    BY <1>4, <2>1 DEF WindowsOver, WindowCounts, ProcessEnds, Limiter!NoWindows, Limiter!Absent
  <2> QED  BY <2>3, <2>4 DEF FloodInv
<1>5. CASE Tick
  BY <1>3, <1>5 DEF Tick
<1>6. ASSUME NEW q \in Query, Receive(q)
      PROVE  FloodInv'
  BY <1>3, <1>6 DEF Receive
<1>7. CASE \E f \in flights : FlushEnds(f)
  BY <1>3, <1>7 DEF FlushEnds
<1>8. CASE \E v \in BOOLEAN : SetQueryLog(v)
  BY <1>3, <1>8 DEF SetQueryLog
<1>9. CASE FlushTimer \/ StopWriter \/ RunPurge \/ HourlyCleanup \/ Shutdown \/ UNCHANGED vars
  BY <1>3, <1>9 DEF FlushTimer, StopWriter, RunPurge, HourlyCleanup, Shutdown, vars
<1> QED  BY <1>1, <1>2, <1>4, <1>5, <1>6, <1>7, <1>8, <1>9 DEF Next, QueryStep

LEMMA InitFlood == Init => FloodInv
<1> SUFFICES ASSUME Init PROVE FloodInv
  OBVIOUS
<1>1. \A q \in Query : ~Live(q)
  BY DEF Init, Live, Idle
<1>2. \A c, s : Opened(c, s) = {}
  BY <1>1 DEF Opened
<1>3. FloodShed
  BY <1>2, FS_EmptySet, LogAssumption DEF FloodShed, Opened
<1>4. \A c \in Client : WindowsOver(c) /\ WindowCounts(c)
  BY <1>1 DEF WindowsOver, WindowCounts, Init, Limiter!NoWindows, Limiter!Absent
<1> QED  BY <1>3, <1>4 DEF FloodInv

\* A client that floods the server has MaxQps + 1 queries of a window logged
\* and no more, however many there are, provided a query never waits for the
\* lock so long that the window could be over when it gets it (router.rs).
THEOREM FloodsAreShed ==
  ASSUME MaxLag < Limiter!StaleAfter
  PROVE  Spec => []FloodShed
<1>1. LogInv /\ FloodInv /\ [Next]_vars => FloodInv'
  BY FloodStep
<1>2. FloodInv => FloodShed
  BY DEF FloodInv
<1> QED  BY <1>1, <1>2, InitFlood, LogInvariant, PTL DEF Spec

-----------------------------------------------------------------------------
(* The slots of a day.                                                     *)

LEMMA Products ==
  ASSUME NEW m \in Nat, NEW a \in Nat, NEW b \in Nat, a <= b
  PROVE  a * m <= b * m
<1>1. PICK d \in Nat : b = a + d
  <2>1. b - a \in Nat /\ b = a + (b - a)
    OBVIOUS
  <2> QED  BY <2>1
<1>2. b * m = a * m + d * m /\ d * m >= 0 /\ a * m \in Nat /\ d * m \in Nat
  BY <1>1
<1> QED  BY <1>2

\* Quotients by m are in the order of the numbers, and multiples are exact.
LEMMA Quotients ==
  ASSUME NEW m \in Nat \ {0}
  PROVE  /\ \A t, u \in Nat : t <= u => t \div m <= u \div m
         /\ \A a \in Nat : (a * m) \div m = a
<1>1. \A t \in Nat : /\ t \div m \in Nat /\ t % m \in 0..(m - 1)
                     /\ t = m * (t \div m) + (t % m)
  OBVIOUS
<1>2. ASSUME NEW a \in Nat, NEW b \in Nat, NEW r \in 0..(m - 1), NEW x \in 0..(m - 1),
             a * m + r <= b * m + x
      PROVE  a <= b
  <2>1. SUFFICES ASSUME b + 1 <= a PROVE FALSE
    OBVIOUS
  <2>2. (b + 1) * m <= a * m
    BY <2>1, Products
  <2>3. (b + 1) * m = b * m + m /\ a * m \in Nat /\ b * m \in Nat
    OBVIOUS
  <2> QED  BY <1>2, <2>2, <2>3
<1>3. ASSUME NEW t \in Nat, NEW u \in Nat, t <= u
      PROVE  t \div m <= u \div m
  <2> DEFINE a == t \div m
             b == u \div m
  <2>1. a \in Nat /\ b \in Nat /\ t % m \in 0..(m - 1) /\ u % m \in 0..(m - 1)
    BY <1>1
  <2>2. t = a * m + (t % m) /\ u = b * m + (u % m)
    BY <1>1, <2>1
  <2>3. a * m + (t % m) <= b * m + (u % m)
    BY <1>3, <2>2
  <2> HIDE DEF a, b
  <2>4. a <= b
    BY <1>2, <2>1, <2>3
  <2> QED  BY <2>4 DEF a, b
<1>4. ASSUME NEW a \in Nat
      PROVE  (a * m) \div m = a
  <2> DEFINE t == a * m
             b == t \div m
  <2>1. t \in Nat
    OBVIOUS
  <2>2. b \in Nat /\ t % m \in 0..(m - 1) /\ t = m * b + (t % m)
    BY <1>1, <2>1
  <2>3. 0 \in 0..(m - 1) /\ a * m + 0 = b * m + (t % m)
    BY <2>2
  <2> HIDE DEF b
  <2>4. a <= b /\ b <= a
    BY <1>2, <2>2, <2>3
  <2> QED  BY <2>2, <2>4 DEF b
<1> QED  BY <1>3, <1>4

\* Of two numbers with the same remainder, the larger one is larger by m.
LEMMA SameRemainder ==
  ASSUME NEW m \in Nat \ {0}, NEW a \in Nat, NEW b \in Nat, a < b, a % m = b % m
  PROVE  a + m <= b
<1> DEFINE x == a \div m
           y == b \div m
<1>1. x \in Nat /\ y \in Nat /\ a = m * x + (a % m) /\ b = m * y + (b % m) /\ a % m \in Nat
  OBVIOUS
<1> HIDE DEF x, y
<1>2. x * m < y * m
  BY <1>1
<1>3. x < y
  BY <1>1, <1>2, Products
<1>4. (x + 1) * m <= y * m /\ (x + 1) * m = x * m + m
  BY <1>1, <1>3, Products
<1> QED  BY <1>1, <1>4

\* The slots: in the order of the times, each with its own timestamp, and those
\* that share a place in the ring a day apart.
LEMMA SlotTimes ==
  ASSUME NEW t \in Nat, NEW u \in Nat
  PROVE  /\ t <= u => Stats!SlotTimestamp(t) <= Stats!SlotTimestamp(u)
         /\ Stats!SlotTimestamp(Stats!SlotTimestamp(t)) = Stats!SlotTimestamp(t)
         /\ Stats!SlotIndex(Stats!SlotTimestamp(t)) = Stats!SlotIndex(t)
         /\ Stats!SlotTimestamp(t) < Stats!SlotTimestamp(u) /\ Stats!SlotIndex(t) = Stats!SlotIndex(u) =>
              Stats!SlotTimestamp(t) + Stats!Day <= Stats!SlotTimestamp(u)
         /\ Stats!Day \in Nat /\ Interval <= Stats!Day
<1> DEFINE a == t \div Interval
           b == u \div Interval
<1>1. Interval \in Nat \ {0} /\ Slots \in Nat \ {0} /\ a \in Nat /\ b \in Nat
  BY LogAssumption, SlotParts
<1>2. t <= u => a <= b
  BY <1>1, Quotients
<1>3. (a * Interval) \div Interval = a
  BY <1>1, Quotients
<1>4. a < b /\ a % Slots = b % Slots => a + Slots <= b
  BY <1>1, SameRemainder
<1>5. Stats!SlotTimestamp(t) = a * Interval /\ Stats!SlotTimestamp(u) = b * Interval
      /\ Stats!SlotIndex(t) = a % Slots /\ Stats!SlotIndex(u) = b % Slots
  BY DEF Stats!SlotTimestamp, Stats!SlotIndex
<1>6. Stats!SlotTimestamp(a * Interval) = a * Interval /\ Stats!SlotIndex(a * Interval) = a % Slots
  BY <1>3 DEF Stats!SlotTimestamp, Stats!SlotIndex
<1> HIDE DEF a, b
<1>7. a <= b => a * Interval <= b * Interval
  BY <1>1, Products
<1>8. a * Interval < b * Interval => a < b
  <2>1. b <= a => b * Interval <= a * Interval
    BY <1>1, Products
  <2>2. a * Interval \in Nat /\ b * Interval \in Nat
    BY <1>1
  <2> QED  BY <1>1, <2>1, <2>2
<1>9. a + Slots <= b => a * Interval + Slots * Interval <= b * Interval
  <2>1. a + Slots <= b => (a + Slots) * Interval <= b * Interval
    BY <1>1, Products
  <2>2. (a + Slots) * Interval = a * Interval + Slots * Interval
    BY <1>1
  <2> QED  BY <2>1, <2>2
<1>10. Slots * Interval \in Nat /\ Interval <= Slots * Interval
  <2>1. 1 * Interval <= Slots * Interval
    BY <1>1, Products
  <2> QED  BY <1>1, <2>1
<1> QED  BY <1>2, <1>4, <1>5, <1>6, <1>7, <1>8, <1>9, <1>10 DEF Stats!Day

-----------------------------------------------------------------------------
(* The histories.                                                          *)

\* The queries of C counted under k in the slot at s.
Counted(C, s, k) ==
  {q \in Query :
    /\ Live(q) /\ task[q].client \in C /\ task[q].counted > 0
    /\ Stats!SlotTimestamp(task[q].counted) = s
    /\ k \in {"total", task[q].status}}

LEMMA CountedFinite ==
  ASSUME NEW C, NEW s, NEW k
  PROVE  /\ CountedIn(C, s, k) = Cardinality(Counted(C, s, k))
         /\ IsFiniteSet(Counted(C, s, k)) /\ CountedIn(C, s, k) \in Nat
         /\ CountedIn(C, s, k) = 0 <=> Counted(C, s, k) = {}
<1>1. IsFiniteSet(Query)
  BY LogAssumption, FS_Interval DEF Query
<1>2. Counted(C, s, k) \subseteq Query
  BY DEF Counted
<1>3. IsFiniteSet(Counted(C, s, k))
  BY <1>1, <1>2, FS_Subset
<1>4. CountedIn(C, s, k) = Cardinality(Counted(C, s, k))
  BY DEF CountedIn, Counted
<1> QED  BY <1>3, <1>4, FS_CardinalityType, FS_EmptySet

\* What a slot may say: it has the place of its timestamp, and the counts of
\* the queries of C.
SlotTrue(slot, i, C) ==
  slot.timestamp > 0 =>
    /\ slot.timestamp <= now
    /\ Stats!SlotIndex(slot.timestamp) = i /\ Stats!SlotTimestamp(slot.timestamp) = slot.timestamp
    /\ \A k \in Stats!Counter : slot.n[k] = CountedIn(C, slot.timestamp, k)

LEMMA TruthfulIs ==
  ASSUME NEW slots, NEW C
  PROVE  Truthful(slots, C) <=> \A i \in 0..(Slots - 1) : SlotTrue(slots[i], i, C)
BY DEF Truthful, SlotTrue

\* A history that is true and complete says exactly what was counted.
LEMMA ExactFrom ==
  ASSUME TypeOK, NEW slots \in Ring, NEW C, Truthful(slots, C), Complete(slots, C)
  PROVE  Exact(slots, C)
<1> SUFFICES ASSUME NEW s \in (now - Stats!Day + 1)..now, s >= FirstTime, Stats!SlotTimestamp(s) = s,
                    NEW k \in Stats!Counter
             PROVE  Stats!Reported(Stats!Recent(slots, now), s)[k] = CountedIn(C, s, k)
  BY DEF Exact
<1> DEFINE recent == Stats!Recent(slots, now)
           i == Stats!SlotIndex(s)
<1>1. now \in Nat /\ s \in Nat /\ s > 0 /\ Stats!Day \in Nat /\ s <= now /\ now < s + Stats!Day
  <2>1. now \in Nat /\ Interval \in Nat \ {0}
    BY Times, LogAssumption
  <2>2. Stats!Day \in Nat
    BY <2>1, SlotTimes
  <2> QED  BY <2>1, <2>2 DEF FirstTime
<1>2. i \in 0..(Slots - 1)
  BY <1>1, SlotParts
<1>3. \A j \in 0..(Slots - 1) : slots[j] \in [timestamp : Nat, n : [Stats!Counter -> Nat]]
  BY DEF Ring
<1>4. \A x \in recent : x.timestamp = s => x = slots[i]
  <2>1. ASSUME NEW j \in 0..(Slots - 1), slots[j].timestamp = s
        PROVE  j = i
    BY <1>1, <2>1 DEF Truthful
  <2> QED  BY <2>1 DEF Stats!Recent
<1>5. slots[i].timestamp = s => slots[i] \in recent
  <2>1. Stats!SlotTimestamp(now) \in Nat /\ Stats!SlotTimestamp(now) <= now
    BY <1>1, SlotParts
  <2> QED  BY <1>1, <1>2, <2>1 DEF Stats!Recent
<1> HIDE DEF recent
<1>6. CASE slots[i].timestamp = s
  <2>1. Stats!Reported(recent, s) = slots[i].n
    BY <1>4, <1>5, <1>6 DEF Stats!Reported
  <2>2. slots[i].n[k] = CountedIn(C, s, k)
    BY <1>1, <1>2, <1>6 DEF Truthful
  <2> QED  BY <2>1, <2>2 DEF recent
<1>7. CASE slots[i].timestamp # s
  <2>1. Stats!Reported(recent, s) = Stats!Zero
    BY <1>4, <1>7 DEF Stats!Reported
  <2>2. ASSUME NEW q \in Counted(C, s, k)
        PROVE  FALSE
    <3> DEFINE t == task[q].counted
               x == slots[i].timestamp
    <3>1. q \in Query /\ Live(q) /\ task[q].client \in C /\ t > 0 /\ Stats!SlotTimestamp(t) = s
      BY DEF Counted
    <3>2. t \in Nat
      BY <3>1, LiveTasks, LogAssumption DEF LiveTask
    <3>3. s <= t /\ Stats!SlotIndex(t) = i
      BY <3>1, <3>2, SlotParts, SlotTimes
    <3>4. x >= s
      BY <1>1, <3>1, <3>2, <3>3 DEF Complete
    <3>5. x \in Nat /\ x > s
      BY <1>1, <1>2, <1>3, <1>7, <3>4
    <3>6. x <= now /\ Stats!SlotIndex(x) = i /\ Stats!SlotTimestamp(x) = x
      BY <1>1, <1>2, <3>5 DEF Truthful
    <3> HIDE DEF x, i
    <3>7. s + Stats!Day <= x
      <4>1. Stats!SlotIndex(s) = Stats!SlotIndex(x) /\ Stats!SlotTimestamp(s) < Stats!SlotTimestamp(x)
        BY <3>5, <3>6 DEF i
      <4> QED  BY <1>1, <3>5, <3>6, <4>1, SlotTimes
    <3> QED  BY <1>1, <3>5, <3>6, <3>7
  <2>3. CountedIn(C, s, k) = 0
    BY <2>2, CountedFinite
  <2> QED  BY <2>1, <2>3 DEF Stats!Zero, recent
<1> QED  BY <1>6, <1>7

\* A query of C that was counted, and one that a step leaves so.
CountedFor(q, C) == Live(q) /\ task[q].client \in C /\ task[q].counted > 0

SameCounted(q, C) ==
  /\ CountedFor(q, C)' <=> CountedFor(q, C)
  /\ CountedFor(q, C) => task'[q].counted = task[q].counted /\ task'[q].status = task[q].status

LEMMA CountsStay ==
  ASSUME NEW C, \A q \in Query : SameCounted(q, C)
  PROVE  \A s, k : CountedIn(C, s, k)' = CountedIn(C, s, k)
<1>1. ASSUME NEW s, NEW k
      PROVE  Counted(C, s, k)' = Counted(C, s, k)
  BY DEF Counted, SameCounted, CountedFor
<1>2. \A s, k : /\ CountedIn(C, s, k) = Cardinality(Counted(C, s, k))
                /\ CountedIn(C, s, k)' = Cardinality(Counted(C, s, k)')
  BY DEF CountedIn, Counted
<1> QED  BY <1>1, <1>2

LEMMA HistoryStays ==
  ASSUME TypeOK, NEW r \in Ring, NEW C, Truthful(r, C), Complete(r, C),
         now' \in {now, now + 1}, \A q \in Query : SameCounted(q, C)
  PROVE  Truthful(r, C)' /\ Complete(r, C)'
<1>1. now \in Nat /\ now' \in Nat /\ now <= now'
  BY Times
<1>2. Truthful(r, C)'
  <2>1. ASSUME NEW i \in 0..(Slots - 1), r[i].timestamp > 0
        PROVE  LET s == r[i].timestamp IN
               /\ s <= now' /\ Stats!SlotIndex(s) = i /\ Stats!SlotTimestamp(s) = s
               /\ \A k \in Stats!Counter : r[i].n[k] = CountedIn(C, s, k)'
    <3>1. r[i].timestamp \in Nat
      BY DEF Ring
    <3> QED  BY <1>1, <2>1, <3>1, CountsStay DEF Truthful
  <2> QED  BY <2>1 DEF Truthful
<1>3. Complete(r, C)'
  <2>1. ASSUME NEW q \in Query, CountedFor(q, C)'
        PROVE  /\ task'[q].counted <= now'
               /\ \/ task'[q].counted <= now' - Stats!Day
                  \/ r[Stats!SlotIndex(task'[q].counted)].timestamp
                       >= Stats!SlotTimestamp(task'[q].counted)
    <3>1. CountedFor(q, C) /\ task'[q].counted = task[q].counted
      BY <2>1 DEF SameCounted
    <3>2. task[q].counted \in Nat
      BY <3>1, LiveTasks, LogAssumption DEF LiveTask, CountedFor
    <3>3. Stats!Day \in Nat
      BY <1>1, SlotTimes
    <3>4. task[q].counted <= now /\
          (\/ task[q].counted <= now - Stats!Day
           \/ r[Stats!SlotIndex(task[q].counted)].timestamp >= Stats!SlotTimestamp(task[q].counted))
      BY <3>1 DEF Complete, CountedFor
    <3> QED  BY <1>1, <3>1, <3>2, <3>3, <3>4
  <2> QED  BY <2>1 DEF Complete, CountedFor
<1> QED  BY <1>2, <1>3

LEMMA LastSeenStays ==
  ASSUME TypeOK, NEW c \in Client, LastSeen(c), now' \in {now, now + 1},
         histories'[c].lastActive = histories[c].lastActive,
         \A q \in Query : SameCounted(q, {c})
  PROVE  LastSeen(c)'
<1>1. now \in Nat /\ Stats!Day \in Nat
  BY Times, SlotTimes
<1> SUFFICES ASSUME NEW q \in Query, CountedFor(q, {c})'
             PROVE  task'[q].counted <= now' - Stats!Day \/ task'[q].counted <= histories'[c].lastActive
  BY DEF LastSeen, CountedFor
<1>2. CountedFor(q, {c}) /\ task'[q].counted = task[q].counted
  BY DEF SameCounted
<1>3. task[q].counted \in Nat
  BY <1>2, LiveTasks, LogAssumption DEF LiveTask, CountedFor
<1>4. task[q].counted <= now - Stats!Day \/ task[q].counted <= histories[c].lastActive
  BY <1>2 DEF LastSeen, CountedFor
<1> QED  BY <1>1, <1>2, <1>3, <1>4

LEMMA EmptySlots == \A i \in 0..(Slots - 1) : Stats!Empty[i].timestamp = 0
BY DEF Stats!Empty, Stats!Blank

LEMMA EmptyIsTrue ==
  ASSUME NEW C
  PROVE  Truthful(Stats!Empty, C) /\ Truthful(Stats!Empty, C)'
BY EmptySlots DEF Truthful

\* A query of C is counted: the slot of this time has one more, and is taken
\* over first if it is of an earlier round.
LEMMA HistoryGrows ==
  ASSUME TypeOK, NEW r \in Ring, NEW C, Truthful(r, C), Complete(r, C),
         NEW q \in Query, NEW status, NEW b, b = Stats!Bump(r, now, status),
         ~CountedFor(q, C), CountedFor(q, C)', task'[q].counted = now, task'[q].status = status,
         \A p \in Query : p # q => task'[p] = task[p],
         UNCHANGED now
  PROVE  Truthful(b, C)' /\ Complete(b, C)'
<1>1. now \in Nat /\ now > 0 /\ Interval \in Nat \ {0}
  BY Times, LogAssumption DEF CountedFor
<1>2. PICK T \in Nat, here \in 0..(Slots - 1) :
        /\ T = Stats!SlotTimestamp(now) /\ here = Stats!SlotIndex(now)
        /\ T <= now /\ now < T + Interval
        /\ Stats!SlotIndex(T) = here /\ Stats!SlotTimestamp(T) = T
        /\ Stats!Day \in Nat /\ Interval <= Stats!Day
  BY <1>1, SlotParts, SlotTimes
<1>3. \A i \in 0..(Slots - 1) : r[i] \in [timestamp : Nat, n : [Stats!Counter -> Nat]]
  BY DEF Ring
<1>4. PICK n \in [Stats!Counter -> Nat] :
        /\ n = Stats!Plus(IF r[here].timestamp = T THEN r[here].n ELSE Stats!Zero, status)
        /\ b = [r EXCEPT ![here] = [timestamp |-> T, n |-> n]]
  <2> DEFINE m == IF r[here].timestamp = T THEN r[here].n ELSE Stats!Zero
  <2>1. m \in [Stats!Counter -> Nat]
    BY <1>3, EmptyTypes
  <2>2. Stats!Plus(m, status) \in [Stats!Counter -> Nat]
    BY <2>1, PlusTypes
  <2>3. b = [r EXCEPT ![here] = [timestamp |-> T, n |-> Stats!Plus(m, status)]]
    BY <1>2 DEF Stats!Bump
  <2> QED  BY <2>2, <2>3
<1>5. b[here] = [timestamp |-> T, n |-> n]
      /\ \A i \in 0..(Slots - 1) : i # here => b[i] = r[i]
  BY <1>4 DEF Ring
<1>6. \A p \in Query : CountedFor(p, C) => task[p].counted \in Nat
  BY LiveTasks, LogAssumption DEF LiveTask, CountedFor
<1>7. \A p \in Query : p # q => (CountedFor(p, C)' <=> CountedFor(p, C))
  BY DEF CountedFor, Live
\* The counts.
<1>8. \A s, k : s # T => CountedIn(C, s, k)' = CountedIn(C, s, k)
  <2>1. \A s, k : s # T => Counted(C, s, k)' = Counted(C, s, k)
    BY <1>2, <1>7 DEF Counted, CountedFor
  <2> QED  BY <2>1 DEF CountedIn, Counted
<1>9. ASSUME NEW k \in Stats!Counter
      PROVE  CountedIn(C, T, k)' =
               IF k \in {"total", status} THEN CountedIn(C, T, k) + 1 ELSE CountedIn(C, T, k)
  <2>1. Counted(C, T, k)' = IF k \in {"total", status} THEN Counted(C, T, k) \cup {q}
                             ELSE Counted(C, T, k)
    BY <1>2, <1>7 DEF Counted, CountedFor
  <2>2. q \notin Counted(C, T, k)
    BY DEF Counted, CountedFor
  <2>3. IsFiniteSet(Counted(C, T, k)) /\ CountedIn(C, T, k) = Cardinality(Counted(C, T, k))
    BY CountedFinite
  <2>4. CountedIn(C, T, k)' = Cardinality(Counted(C, T, k)')
    BY DEF CountedIn, Counted
  <2> QED  BY <2>1, <2>2, <2>3, <2>4, FS_AddElement
\* If the slot is of an earlier round, nothing was counted in this one.
<1>10. ASSUME T > 0, r[here].timestamp # T, NEW k \in Stats!Counter
       PROVE  CountedIn(C, T, k) = 0
  <2>1. ASSUME NEW p \in Counted(C, T, k)
        PROVE  FALSE
    <3>1. p \in Query /\ CountedFor(p, C) /\ Stats!SlotTimestamp(task[p].counted) = T
      BY DEF Counted, CountedFor
    <3>2. PICK t \in Nat : t = task[p].counted
      BY <1>6, <3>1
    <3>3. T <= t /\ Stats!SlotIndex(t) = here
      BY <1>2, <3>1, <3>2, SlotParts, SlotTimes
    <3>4. r[here].timestamp >= T
      BY <1>1, <1>2, <3>1, <3>2, <3>3 DEF Complete, CountedFor
    <3>5. PICK x \in Nat : x = r[here].timestamp /\ x > T
      BY <1>2, <1>3, <1>10, <3>4
    <3>6. x <= now /\ Stats!SlotTimestamp(x) = x
      BY <1>2, <3>5 DEF Truthful
    <3> QED  BY <1>1, <1>2, <3>5, <3>6, SlotTimes
  <2> QED  BY <2>1, CountedFinite
<1>11. ASSUME T > 0, NEW k \in Stats!Counter
       PROVE  n[k] = CountedIn(C, T, k)'
  <2>1. CASE r[here].timestamp = T
    <3>1. r[here].n[k] = CountedIn(C, T, k)
      BY <1>2, <1>11, <2>1 DEF Truthful
    <3> QED  BY <1>4, <1>9, <2>1, <3>1 DEF Stats!Plus
  <2>2. CASE r[here].timestamp # T
    <3>1. CountedIn(C, T, k) = 0 /\ Stats!Zero[k] = 0
      BY <1>10, <1>11, <2>2 DEF Stats!Zero
    <3> QED  BY <1>4, <1>9, <2>2, <3>1 DEF Stats!Plus
  <2> QED  BY <2>1, <2>2
<1>12. Truthful(b, C)'
  <2>1. ASSUME NEW i \in 0..(Slots - 1), b[i].timestamp > 0
        PROVE  LET s == b[i].timestamp IN
               /\ s <= now /\ Stats!SlotIndex(s) = i /\ Stats!SlotTimestamp(s) = s
               /\ \A k \in Stats!Counter : b[i].n[k] = CountedIn(C, s, k)'
    <3>1. CASE i = here
      BY <1>2, <1>5, <1>11, <2>1, <3>1
    <3>2. CASE i # here
      <4>1. b[i] = r[i]
        BY <1>5, <3>2
      <4>2. PICK s \in Nat : s = r[i].timestamp /\ s > 0
        BY <1>3, <2>1, <4>1
      <4>3. /\ s <= now /\ Stats!SlotIndex(s) = i /\ Stats!SlotTimestamp(s) = s
            /\ \A k \in Stats!Counter : r[i].n[k] = CountedIn(C, s, k)
        BY <4>2 DEF Truthful
      <4>4. s # T
        BY <1>2, <3>2, <4>3
      <4> QED  BY <1>8, <4>1, <4>2, <4>3, <4>4
    <3> QED  BY <3>1, <3>2
  <2> QED  BY <2>1 DEF Truthful
<1>13. Complete(b, C)'
  <2>1. ASSUME NEW p \in Query, CountedFor(p, C)'
        PROVE  /\ task'[p].counted <= now
               /\ \/ task'[p].counted <= now - Stats!Day
                  \/ b[Stats!SlotIndex(task'[p].counted)].timestamp
                       >= Stats!SlotTimestamp(task'[p].counted)
    <3>1. CASE p = q
      BY <1>1, <1>2, <1>5, <3>1
    <3>2. CASE p # q
      <4>1. CountedFor(p, C) /\ task'[p] = task[p]
        BY <1>7, <2>1, <3>2
      <4>2. PICK t \in Nat : t = task[p].counted
        BY <1>6, <4>1
      <4>3. /\ t <= now
            /\ t <= now - Stats!Day \/ r[Stats!SlotIndex(t)].timestamp >= Stats!SlotTimestamp(t)
        BY <4>1, <4>2 DEF Complete, CountedFor
      <4>4. Stats!SlotTimestamp(t) <= T /\ Stats!SlotIndex(t) \in 0..(Slots - 1)
        BY <1>1, <1>2, <4>3, SlotTimes, SlotParts
      <4>5. CASE Stats!SlotIndex(t) = here
        BY <1>5, <4>1, <4>2, <4>3, <4>4, <4>5
      <4>6. CASE Stats!SlotIndex(t) # here
        BY <1>5, <4>1, <4>2, <4>3, <4>4, <4>6
      <4> QED  BY <4>5, <4>6
    <3> QED  BY <3>1, <3>2
  <2> QED  BY <2>1 DEF Complete, CountedFor
<1> QED  BY <1>12, <1>13

\* A query that a step does not count.
NotCounted(q) == task'[q] = task[q] \/ (~CountedFor(q, Client) /\ ~CountedFor(q, Client)')

LEMMA HistoryQuiet ==
  ASSUME TypeOK, HistoryInv, now' \in {now, now + 1}, UNCHANGED <<ring, histories>>,
         \A q \in Query : NotCounted(q)
  PROVE  HistoryInv'
<1>1. ring \in Ring /\ \A c \in Client : histories[c].slots \in Ring
  BY StatsType DEF TypeOK
<1>2. \A C \in SUBSET Client, q \in Query : SameCounted(q, C)
  BY DEF NotCounted, SameCounted, CountedFor, Live
<1>3. Truthful(ring, Client)' /\ Complete(ring, Client)'
  <2>1. PICK r \in Ring : r = ring
    BY <1>1
  <2>2. Truthful(r, Client)' /\ Complete(r, Client)'
    BY <1>2, <2>1, HistoryStays DEF HistoryInv
  <2>3. ring' = r
    BY <2>1
  <2> QED  BY <2>2, <2>3 DEF Truthful, Complete
<1>4. ASSUME NEW c \in Client
      PROVE  /\ Truthful(histories[c].slots, {c})' /\ Complete(histories[c].slots, {c})'
             /\ LastSeen(c)'
  <2>1. PICK r \in Ring : r = histories[c].slots
    BY <1>1
  <2>2. Truthful(r, {c})' /\ Complete(r, {c})'
    BY <1>2, <2>1, HistoryStays DEF HistoryInv
  <2>3. histories'[c].slots = r
    BY <2>1
  <2>4. LastSeen(c)'
    BY <1>2, LastSeenStays DEF HistoryInv
  <2> QED  BY <2>2, <2>3, <2>4 DEF Truthful, Complete
<1> QED  BY <1>3, <1>4 DEF HistoryInv

\* The clean-up drops a history only when all it counted is a day old.
LEMMA HistoryCleaned ==
  ASSUME TypeOK, HistoryInv, UNCHANGED <<now, task>>, Stats!CleanupStaleClients(now)
  PROVE  HistoryInv'
<1>1. ring \in Ring /\ \A c \in Client : histories[c] \in [lastActive : Nat, slots : Ring]
  BY StatsType DEF TypeOK
<1>2. now \in Nat /\ Stats!Day \in Nat
  BY Times, SlotTimes
<1>3. \A C, q : SameCounted(q, C)
  BY DEF SameCounted, CountedFor, Live
<1>4. Truthful(ring, Client)' /\ Complete(ring, Client)'
  <2>1. PICK r \in Ring : r = ring
    BY <1>1
  <2>2. Truthful(r, Client)' /\ Complete(r, Client)'
    BY <1>3, <2>1, HistoryStays DEF HistoryInv
  <2>3. ring' = r
    BY <2>1 DEF Stats!CleanupStaleClients
  <2> QED  BY <2>2, <2>3 DEF Truthful, Complete
<1>5. ASSUME NEW c \in Client
      PROVE  /\ Truthful(histories[c].slots, {c})' /\ Complete(histories[c].slots, {c})'
             /\ LastSeen(c)'
  <2>1. CASE histories[c].lastActive > now - Stats!Day
    <3>1. histories'[c] = histories[c]
      BY <2>1 DEF Stats!CleanupStaleClients
    <3>2. PICK r \in Ring : r = histories[c].slots
      BY <1>1
    <3>3. Truthful(r, {c})' /\ Complete(r, {c})'
      BY <1>3, <3>2, HistoryStays DEF HistoryInv
    <3>4. histories'[c].slots = r
      BY <3>1, <3>2
    <3>5. LastSeen(c)'
      BY <1>3, <3>1, LastSeenStays DEF HistoryInv
    <3> QED  BY <3>3, <3>4, <3>5 DEF Truthful, Complete
  <2>2. CASE ~(histories[c].lastActive > now - Stats!Day)
    <3>1. histories'[c] = Stats!NoHistory
      BY <2>2 DEF Stats!CleanupStaleClients
    <3>2. histories'[c].slots = Stats!Empty
      BY <3>1 DEF Stats!NoHistory
    <3>3. ASSUME NEW q \in Query, CountedFor(q, {c})
          PROVE  task[q].counted <= now /\ task[q].counted <= now - Stats!Day
      <4>1. task[q].counted \in Nat
        BY <3>3, LiveTasks, LogAssumption DEF LiveTask, CountedFor
      <4>2. histories[c].lastActive \in Nat
        BY <1>1
      <4>3. task[q].counted <= now
        BY <3>3 DEF HistoryInv, Complete, CountedFor
      <4>4. task[q].counted <= now - Stats!Day \/ task[q].counted <= histories[c].lastActive
        BY <3>3 DEF HistoryInv, LastSeen, CountedFor
      <4> QED  BY <1>2, <2>2, <4>1, <4>2, <4>3, <4>4
    <3>4. Truthful(histories[c].slots, {c})'
      BY <3>2, EmptyIsTrue DEF Truthful
    <3>5. Complete(histories[c].slots, {c})' /\ LastSeen(c)'
      BY <3>3 DEF Complete, LastSeen, CountedFor, Live
    <3> QED  BY <3>4, <3>5
  <2> QED  BY <2>1, <2>2
<1> QED  BY <1>4, <1>5 DEF HistoryInv

LEMMA HistoryLogged ==
  ASSUME TypeOK, Past, RowsStamped, HistoryInv, NEW q \in Query, LogQuery(q)
  PROVE  HistoryInv'
<1>1. PICK s \in Status \cup {"refused"} :
        /\ task[q] \in LiveTask /\ task[q].pc \in {"answering", "refused"}
        /\ task'[q] \in LiveTask
        /\ task'[q].counted = now /\ task'[q].status = s
        /\ task'[q].client = task[q].client
        /\ \A p \in Query : p # q => task'[p] = task[p]
        /\ Stats!RecordQuery(task[q].client, now, s)
  BY LogGives
<1>2. PICK c \in Client : c = task[q].client
  BY <1>1 DEF LiveTask
<1>3. now \in Nat /\ now > 0 /\ UNCHANGED now /\ Stats!Day \in Nat
  BY Times, SlotTimes DEF Past, LogQuery
<1>4. ring \in Ring /\ histories \in [Client -> [lastActive : Nat, slots : Ring]]
  BY StatsType DEF TypeOK
<1>5. Live(q) /\ Live(q)' /\ task[q].counted = 0
  BY <1>1 DEF Live, LiveTask, RowsStamped
<1>6. \A C : ~CountedFor(q, C)
  BY <1>5 DEF CountedFor
<1>7. CountedFor(q, Client)' /\ CountedFor(q, {c})'
  BY <1>1, <1>2, <1>3, <1>5 DEF CountedFor
<1>8. Truthful(ring, Client)' /\ Complete(ring, Client)'
  <2>1. PICK r \in Ring : r = ring
    BY <1>4
  <2>2. PICK b : b = Stats!Bump(r, now, s)
    OBVIOUS
  <2>3. ring' = b
    BY <1>1, <2>1, <2>2 DEF Stats!RecordQuery
  <2>4. Truthful(r, Client) /\ Complete(r, Client)
    BY <2>1 DEF HistoryInv
  <2>5. Truthful(b, Client)' /\ Complete(b, Client)'
    BY <1>1, <1>3, <1>6, <1>7, <2>2, <2>4, HistoryGrows
  <2> QED  BY <2>3, <2>5 DEF Truthful, Complete
<1>9. /\ histories'[c].lastActive = now
      /\ histories'[c].slots = Stats!Bump(histories[c].slots, now, s)
      /\ \A x \in Client : x # c => histories'[x] = histories[x]
  BY <1>1, <1>2, <1>4 DEF Stats!RecordQuery
<1>10. Truthful(histories[c].slots, {c})' /\ Complete(histories[c].slots, {c})'
  <2>1. PICK r \in Ring : r = histories[c].slots
    BY <1>4
  <2>2. PICK b : b = Stats!Bump(r, now, s)
    OBVIOUS
  <2>3. histories'[c].slots = b
    BY <1>9, <2>1, <2>2
  <2>4. Truthful(r, {c}) /\ Complete(r, {c})
    BY <2>1 DEF HistoryInv
  <2>5. Truthful(b, {c})' /\ Complete(b, {c})'
    BY <1>1, <1>3, <1>6, <1>7, <2>2, <2>4, HistoryGrows
  <2> QED  BY <2>3, <2>5 DEF Truthful, Complete
<1>11. LastSeen(c)'
  <2>1. ASSUME NEW p \in Query, CountedFor(p, {c})'
        PROVE  task'[p].counted <= now
    <3>1. CASE p = q
      BY <1>1, <1>3, <3>1
    <3>2. CASE p # q
      <4>1. CountedFor(p, {c}) /\ task'[p] = task[p]
        BY <1>1, <2>1, <3>2 DEF CountedFor, Live
      <4> QED  BY <4>1 DEF HistoryInv, Complete, CountedFor
    <3> QED  BY <3>1, <3>2
  <2> QED  BY <1>3, <1>9, <2>1 DEF LastSeen, CountedFor
<1>12. ASSUME NEW x \in Client, x # c
       PROVE  /\ Truthful(histories[x].slots, {x})' /\ Complete(histories[x].slots, {x})'
              /\ LastSeen(x)'
  <2>1. \A p \in Query : SameCounted(p, {x})
    BY <1>1, <1>2, <1>12 DEF SameCounted, CountedFor, Live
  <2>2. PICK r \in Ring : r = histories[x].slots
    BY <1>4
  <2>3. Truthful(r, {x})' /\ Complete(r, {x})'
    BY <1>3, <2>1, <2>2, HistoryStays DEF HistoryInv
  <2>4. histories'[x].slots = r
    BY <1>9, <1>12, <2>2
  <2>5. LastSeen(x)'
    BY <1>3, <1>9, <1>12, <2>1, LastSeenStays DEF HistoryInv
  <2> QED  BY <2>3, <2>4, <2>5 DEF Truthful, Complete
<1> QED  BY <1>8, <1>10, <1>11, <1>12 DEF HistoryInv

LEMMA HistoryStep == LogInv /\ HistoryInv /\ [Next]_vars => HistoryInv'
<1> USE DEF configVars, writerVars, limiterVars, statsVars
<1> SUFFICES ASSUME TypeOK, Past, RowsStamped, HistoryInv, [Next]_vars PROVE HistoryInv'
  BY DEF LogInv
<1>1. ASSUME UNCHANGED <<task, ring, histories>>, now' \in {now, now + 1}
      PROVE  HistoryInv'
  <2>1. \A q \in Query : NotCounted(q)
    BY <1>1 DEF NotCounted
  <2> QED  BY <1>1, <2>1, HistoryQuiet
<1>2. ASSUME NEW q \in Query, NEW c \in Client, Route(q, c)
      PROVE  HistoryInv'
  <2>1. /\ task[q] = Idle /\ task'[q].counted = 0
        /\ \A p \in Query : p # q => task'[p] = task[p]
    BY <1>2, RouteGives
  <2>2. ~CountedFor(q, Client) /\ ~CountedFor(q, Client)'
    BY <2>1, LiveTasks DEF CountedFor
  <2>4. \A p \in Query : NotCounted(p)
    BY <2>1, <2>2 DEF NotCounted
  <2>3. UNCHANGED <<now, ring, histories>>
    BY <1>2 DEF Route
  <2> QED  BY <2>3, <2>4, HistoryQuiet
<1>3. ASSUME NEW q \in Query, LogQuery(q)
      PROVE  HistoryInv'
  BY <1>3, HistoryLogged
<1>4. CASE HourlyCleanup
  BY <1>4, HistoryCleaned DEF HourlyCleanup
<1>5. CASE ProcessEnds
  <2>1. \A q \in Query : ~Live(q)'
    BY <1>5 DEF ProcessEnds, Live, Idle
  <2>2. ring' = Stats!Empty /\ \A c \in Client : histories'[c].slots = Stats!Empty
    BY <1>5 DEF ProcessEnds, Stats!NoHistories, Stats!NoHistory
  <2>3. Truthful(ring, Client)' /\ \A c \in Client : Truthful(histories[c].slots, {c})'
    <3>1. \A i \in 0..(Slots - 1) :
            ring'[i].timestamp = 0 /\ \A c \in Client : histories'[c].slots[i].timestamp = 0
      BY <2>2, EmptySlots
    <3> QED  BY <3>1 DEF Truthful
  <2>4. Complete(ring, Client)'
        /\ \A c \in Client : Complete(histories[c].slots, {c})' /\ LastSeen(c)'
    BY <2>1 DEF Complete, LastSeen
  <2> QED  BY <2>3, <2>4 DEF HistoryInv
<1>6. CASE Tick
  BY <1>1, <1>6 DEF Tick
<1>7. ASSUME NEW q \in Query, Receive(q)
      PROVE  HistoryInv'
  BY <1>1, <1>7 DEF Receive
<1>8. CASE \E f \in flights : FlushEnds(f)
  BY <1>1, <1>8 DEF FlushEnds
<1>9. CASE \E v \in BOOLEAN : SetQueryLog(v)
  BY <1>1, <1>9 DEF SetQueryLog
<1>10. CASE FlushTimer \/ StopWriter \/ RunPurge \/ Shutdown \/ UNCHANGED vars
  BY <1>1, <1>10 DEF FlushTimer, StopWriter, RunPurge, Shutdown, vars
<1> QED  BY <1>2, <1>3, <1>4, <1>5, <1>6, <1>7, <1>8, <1>9, <1>10 DEF Next, QueryStep

LEMMA InitHistory == Init => HistoryInv
<1> SUFFICES ASSUME Init PROVE HistoryInv
  OBVIOUS
<1>1. \A q \in Query : ~Live(q)
  BY DEF Init, Live, Idle
<1>2. ring = Stats!Empty /\ \A c \in Client : histories[c].slots = Stats!Empty
  BY DEF Init, Stats!NoHistories, Stats!NoHistory
<1>3. Truthful(ring, Client) /\ \A c \in Client : Truthful(histories[c].slots, {c})
  BY <1>2, EmptyIsTrue
<1>4. Complete(ring, Client)
      /\ \A c \in Client : Complete(histories[c].slots, {c}) /\ LastSeen(c)
  BY <1>1 DEF Complete, LastSeen
<1> QED  BY <1>3, <1>4 DEF HistoryInv

\* For any number and length of slots, whatever rounds of the ring, clean-ups
\* and restarts there were, the histories report of the last day exactly what
\* was counted (over_time/mod.rs).
THEOREM HistoriesAreExact == Spec => []HistoryExact
<1>1. LogInv /\ HistoryInv => HistoryExact
  <2> SUFFICES ASSUME TypeOK, HistoryInv PROVE HistoryExact
    BY DEF LogInv
  <2>1. ring \in Ring /\ \A c \in Client : histories[c].slots \in Ring
    BY StatsType DEF TypeOK
  <2>2. Exact(ring, Client)
    BY <2>1, ExactFrom DEF HistoryInv
  <2>3. \A c \in Client : Exact(histories[c].slots, {c})
    BY <2>1, ExactFrom DEF HistoryInv
  <2> QED  BY <2>2, <2>3 DEF HistoryExact
<1> QED  BY <1>1, InitHistory, HistoryStep, LogInvariant, PTL DEF Spec
=============================================================================
