---------------------------- MODULE StartupProofs ----------------------------
(***************************************************************************)
(* Theorems about Startup, for any number of instances, process ids and    *)
(* rows.                                                                   *)
(***************************************************************************)
EXTENDS Startup, TLAPS

\* As long as no two instances overlapped, one at most is past the check ...
OneInside ==
  Overlapped \/ \A p, q \in Proc : pc[p] \in Entered /\ pc[q] \in Entered => p = q

\* ... and so it alone works on the database.  What a statement finds:
Finds(p) ==
  /\ pc[p] \in Statement => migration[p] = version + 1
  /\ pc[p] = "schema" => migration[p] # 4
  /\ pc[p] \in {"create", "copy", "drop", "rename"} => migration[p] = 4
  /\ pc[p] \in {"copy", "drop"} => tables = Table
  /\ pc[p] = "drop" => rows["queries"] \subseteq rows["queries_v4"]
  /\ pc[p] = "rename" => tables = {"queries_v4"}
  /\ pc[p] = "version" => tables # {}
  /\ pc[p] = "version" /\ migration[p] = 4 => tables = {"queries"}

Prepared ==
  Overlapped \/ /\ \A t \in Table : t \notin tables => rows[t] = {}
                /\ version > 0 => tables # {}
                /\ \A p \in Proc : Finds(p)

-----------------------------------------------------------------------------
LEMMA TypeInit == Init => TypeOK
<1> SUFFICES ASSUME Init PROVE TypeOK
  OBVIOUS
<1> USE StartupAssumption DEF Init
<1>1. version \in 0..Last /\ stored \subseteq Row /\ pid \in [Proc -> Pid]
  OBVIOUS
<1>2. migration \in [Proc -> 1..(Last + 1)]
  BY DEF Last
<1>3. rows \in [Table -> SUBSET Row]
  BY <1>1
<1>4. tables \subseteq Table
  BY DEF Table
<1> QED
  BY <1>1, <1>2, <1>3, <1>4 DEF TypeOK, Statement

LEMMA TypeNext == TypeOK /\ [Next]_vars => TypeOK'
<1> SUFFICES ASSUME TypeOK, [Next]_vars PROVE TypeOK'
  OBVIOUS
<1> USE StartupAssumption DEF TypeOK, Goes, Entered, Statement, Table, Row, Last, processVars, dbVars
<1>1. CASE UNCHANGED vars
  BY <1>1 DEF vars
<1>2. ASSUME NEW p \in Proc, Start(p) PROVE TypeOK'
  BY <1>2 DEF Start
<1>3. ASSUME NEW p \in Proc, CheckOtherInstance(p) PROVE TypeOK'
  BY <1>3 DEF CheckOtherInstance
<1>4. ASSUME NEW p \in Proc, SavePid(p) PROVE TypeOK'
  BY <1>4 DEF SavePid
<1>5. ASSUME NEW p \in Proc, RemovePid(p) \/ OpenGravity(p) \/ Terminate(p) \/ StatementFails(p)
      PROVE TypeOK'
  BY <1>5 DEF RemovePid, OpenGravity, Terminate, StatementFails
<1>6. ASSUME NEW p \in Proc, ReadVersion(p) \/ RecordVersion(p) PROVE TypeOK'
  <2>1. PICK m \in 1..5 : Begins(p, m)
    BY <1>6 DEF ReadVersion, RecordVersion
  <2>2. version' \in 0..4
    BY <1>6 DEF ReadVersion, RecordVersion
  <2>3. pc' = [pc EXCEPT ![p] = pc'[p]]
        /\ pc'[p] = IF m > 4 THEN "opened" ELSE IF m = 4 THEN "create" ELSE "schema"
    BY <2>1 DEF Begins
  <2>4. migration' = [migration EXCEPT ![p] = m] /\ m \in 1..5
    BY <2>1 DEF Begins
  <2>5. pc'[p] \in {"opened", "create", "schema"} /\ (pc'[p] # "opened" => m <= 4)
    BY <2>3
  <2>6. \A q \in Proc : pc'[q] \in Statement => migration'[q] <= Last
    BY <2>3, <2>4, <2>5
  <2>7. UNCHANGED <<pid, pidFile, tables, rows, stored, port, past>>
    BY <1>6 DEF ReadVersion, RecordVersion
  <2> QED
    BY <2>2, <2>3, <2>4, <2>5, <2>6, <2>7
<1>7. ASSUME NEW p \in Proc, Schema(p) \/ Create(p) \/ Copy(p) \/ Drop(p) PROVE TypeOK'
  <2>1. tables' \subseteq Table
    BY <1>7 DEF Schema, Create, Copy, Drop
  <2>2. rows' \in [Table -> SUBSET Row]
    <3>1. rows["queries"] \subseteq Row /\ rows["queries_v4"] \subseteq Row
      OBVIOUS
    <3> QED
      BY <1>7, <3>1 DEF Schema, Create, Copy, Drop
  <2> QED
    BY <1>7, <2>1, <2>2 DEF Schema, Create, Copy, Drop
<1>8. ASSUME NEW p \in Proc, Rename(p) PROVE TypeOK'
  <2>1. rows' \in [Table -> SUBSET Row]
    <3>1. rows["queries_v4"] \in SUBSET Row /\ {} \in SUBSET Row
      OBVIOUS
    <3>2. [queries |-> rows["queries_v4"], queries_v4 |-> {}] \in [{"queries", "queries_v4"} -> SUBSET Row]
      BY <3>1
    <3> QED
      BY <1>8, <3>2 DEF Rename
  <2> QED
    BY <1>8, <2>1 DEF Rename
<1>9. ASSUME NEW p \in Proc, BindPort(p) \/ ListenerEnds(p) PROVE TypeOK'
  BY <1>9 DEF BindPort, ListenerEnds
<1>10. ASSUME NEW p \in Proc, NEW r \in Row, StoreRow(p, r) PROVE TypeOK'
  BY <1>10 DEF StoreRow
<1>11. ASSUME NEW p \in Proc, Exit(p) \/ Crash(p) PROVE TypeOK'
  BY <1>11 DEF Exit, Crash, Ends
<1> QED
  BY <1>1, <1>2, <1>3, <1>4, <1>5, <1>6, <1>7, <1>8, <1>9, <1>10, <1>11 DEF Next, Step

\* Processes, process ids, the database and the files have the states listed,
\* for any number of instances that start, stop and crash (main.rs:29-223).
THEOREM TypeCorrect == Spec => []TypeOK
  BY TypeInit, TypeNext, PTL DEF Spec
-----------------------------------------------------------------------------
(* Who is inside.                                                          *)

\* A step is one instance's, and only the check lets it in.
LEMMA StepFrame ==
  ASSUME TypeOK, NEW p \in Proc, Step(p)
  PROVE  /\ \A q \in Others(p) : pc'[q] = pc[q] /\ pid'[q] = pid[q] /\ migration'[q] = migration[q]
         /\ past \subseteq past'
         /\ pc'[p] \in Entered => pc[p] \in Entered \/ CheckOtherInstance(p)
<1> USE DEF TypeOK, Goes, Others, processVars, dbVars
<1>1. CASE Start(p) \/ CheckOtherInstance(p)
  BY <1>1 DEF Start, CheckOtherInstance, Entered, Statement
<1>2. CASE SavePid(p) \/ RemovePid(p) \/ OpenGravity(p) \/ Terminate(p) \/ ListenerEnds(p)
           \/ BindPort(p) \/ StatementFails(p)
  BY <1>2 DEF SavePid, RemovePid, OpenGravity, Terminate, ListenerEnds, BindPort, StatementFails, Entered
<1>3. CASE ReadVersion(p) \/ RecordVersion(p)
  BY <1>3 DEF ReadVersion, RecordVersion, Begins, Entered, Statement
<1>4. CASE Schema(p) \/ Create(p) \/ Copy(p) \/ Drop(p) \/ Rename(p)
  BY <1>4 DEF Schema, Create, Copy, Drop, Rename, Entered, Statement
<1>5. CASE \E r \in Row : StoreRow(p, r)
  BY <1>5 DEF StoreRow
<1>6. CASE Exit(p) \/ Crash(p)
  BY <1>6 DEF Exit, Crash, Ends, Entered, Statement
<1> QED
  BY <1>1, <1>2, <1>3, <1>4, <1>5, <1>6 DEF Step

LEMMA OneInsideNext == TypeOK /\ OneInside /\ [Next]_vars => OneInside'
<1> SUFFICES ASSUME TypeOK, OneInside, [Next]_vars, ~Overlapped' PROVE OneInside'
  BY DEF OneInside
<1>1. CASE UNCHANGED vars
  BY <1>1 DEF vars, processVars, OneInside, Overlapped
<1>2. ASSUME NEW p \in Proc, Step(p) PROVE OneInside'
  <2>1. ~Overlapped
    BY <1>2, StepFrame DEF Overlapped
  <2>2. CASE pc[p] \in Entered
    BY <2>1, <2>2, <1>2, StepFrame DEF OneInside, Others
  <2>3. CASE pc'[p] \notin Entered
    BY <2>1, <2>3, <1>2, StepFrame DEF OneInside, Others
  <2>4. CASE CheckOtherInstance(p) /\ pc'[p] \in Entered
    <3>1. pc'[p] # "refused"
      BY <2>4 DEF Entered, Statement
    <3>2. \A q \in Others(p) : pc[q] \notin Entered
      BY <2>4, <3>1 DEF CheckOtherInstance, Overlapped, TypeOK, Goes
    <3> QED
      BY <2>1, <3>2, <1>2, StepFrame DEF OneInside, Others
  <2> QED
    BY <2>2, <2>3, <2>4, <1>2, StepFrame
<1> QED
  BY <1>1, <1>2 DEF Next

-----------------------------------------------------------------------------
(* The database.                                                           *)

Sound == RowsKept /\ Prepared

Kept == /\ stored = rows["queries"] \cup rows["queries_v4"]
        /\ version = Last => tables = {"queries"}
        /\ \A t \in Table : t \notin tables => rows[t] = {}
        /\ version > 0 => tables # {}

LEMMA SoundMeans == Sound <=> (Overlapped \/ (Kept /\ \A p \in Proc : Finds(p)))
  BY DEF Sound, RowsKept, Prepared, Kept

\* It is enough to look at the database and at the instance that acts.
LEMMA SoundLocal ==
  ASSUME TypeOK, OneInside, Sound, NEW p \in Proc, Step(p), ~Overlapped',
         ~Overlapped => Kept' /\ Finds(p)',
         pc[p] \in Entered \/ UNCHANGED dbVars
  PROVE  Sound'
<1>1. ~Overlapped
  BY StepFrame DEF Overlapped
<1>2. ASSUME NEW q \in Others(p) PROVE Finds(q)'
  <2>1. pc'[q] = pc[q] /\ migration'[q] = migration[q] /\ q \in Proc
    BY StepFrame DEF Others
  <2>2. CASE UNCHANGED dbVars
    BY <1>1, <2>1, <2>2, SoundMeans DEF Finds, dbVars
  <2>3. CASE pc[p] \in Entered
    <3>1. pc[q] \notin Entered
      BY <1>1, <2>3 DEF OneInside, Others
    <3> QED
      BY <2>1, <3>1 DEF Finds, Entered, Statement
  <2> QED
    BY <2>2, <2>3
<1>3. \A q \in Proc : Finds(q)'
  BY <1>1, <1>2 DEF Others
<1> QED
  BY <1>1, <1>3 DEF Sound, RowsKept, Prepared, Kept

LEMMA SoundInit == Init => Sound
<1> SUFFICES ASSUME Init PROVE Sound
  OBVIOUS
<1>1. /\ stored = rows["queries"] \cup rows["queries_v4"] /\ rows["queries_v4"] = {}
      /\ "queries" \notin tables => rows["queries"] = {}
  BY DEF Init, Table
<1>2. Kept
  BY <1>1 DEF Init, Kept, Table, Last
<1>3. ASSUME NEW p \in Proc PROVE Finds(p)
  <2>1. pc[p] = "off"
    BY DEF Init
  <2> QED
    BY <2>1 DEF Finds, Statement
<1> QED
  BY <1>2, <1>3, SoundMeans

LEMMA SoundNext == TypeOK /\ OneInside /\ Sound /\ [Next]_vars => Sound'
<1> SUFFICES ASSUME TypeOK, OneInside, Sound, [Next]_vars, ~Overlapped' PROVE Sound'
  BY DEF Sound, RowsKept, Prepared
<1>1. CASE UNCHANGED vars
  <2>1. ~Overlapped
    BY <1>1 DEF vars, Overlapped
  <2>2. Kept /\ \A p \in Proc : Finds(p)
    BY <2>1, SoundMeans
  <2>3. Kept' /\ \A p \in Proc : Finds(p)'
    <3>1. UNCHANGED <<pc, migration, version, tables, rows, stored>>
      BY <1>1 DEF vars, processVars, dbVars
    <3> QED
      BY <2>2, <3>1 DEF Kept, Finds
  <2> QED
    BY <2>3 DEF Sound, RowsKept, Prepared, Kept
<1>2. ASSUME NEW p \in Proc, Step(p) PROVE Sound'
  <2>1. ~Overlapped
    BY <1>2, StepFrame DEF Overlapped
  <2>2. Kept /\ Finds(p)
    BY <2>1, SoundMeans
  <2> USE DEF TypeOK, Goes
  <2>3. CASE UNCHANGED dbVars /\ (pc'[p] \in Statement => pc'[p] = pc[p] /\ migration'[p] = migration[p])
    <3>1. Kept' /\ Finds(p)'
      BY <2>2, <2>3 DEF dbVars, Kept, Finds, Statement
    <3> QED
      BY <1>2, <2>3, <3>1, SoundLocal
  <2>4. CASE Start(p) \/ CheckOtherInstance(p) \/ SavePid(p) \/ RemovePid(p)
    BY <2>4, <2>3 DEF Start, CheckOtherInstance, SavePid, RemovePid, Statement
  <2>5. CASE OpenGravity(p) \/ StatementFails(p) \/ BindPort(p) \/ Terminate(p)
    BY <2>5, <2>3 DEF OpenGravity, StatementFails, BindPort, Terminate, Statement
  <2>6. CASE ListenerEnds(p) \/ Exit(p) \/ Crash(p)
    BY <2>6, <2>3 DEF ListenerEnds, Exit, Crash, Ends, Statement, processVars
  <2>7. CASE ReadVersion(p)
    <3>1. UNCHANGED dbVars /\ migration'[p] = version + 1 /\ version \in 0..Last
          /\ pc'[p] = IF version + 1 > Last THEN "opened" ELSE IF version + 1 = 4 THEN "create" ELSE "schema"
      BY <2>7 DEF ReadVersion, Begins
    <3>2. Kept' /\ Finds(p)'
      BY <2>2, <3>1 DEF dbVars, Kept, Finds, Statement, Last
    <3> QED
      BY <1>2, <3>1, <3>2, SoundLocal
  <2>8. CASE Schema(p)
    <3>1. pc[p] \in Entered /\ pc[p] \in Statement /\ pc'[p] = "version"
      BY <2>8 DEF Schema, Entered, Statement
    <3>2. UNCHANGED <<migration, version, rows, stored>>
          /\ tables' = IF migration[p] = 1 THEN tables \cup {"queries"} ELSE tables
      BY <2>8 DEF Schema
    <3>3. migration[p] = version + 1 /\ migration[p] # 4
      BY <2>2, <2>8, <3>1 DEF Schema, Finds
    <3>4. Kept' /\ Finds(p)'
      BY <2>2, <3>1, <3>2, <3>3 DEF Kept, Finds, Statement, Last, Table, TypeOK
    <3> QED
      BY <1>2, <3>1, <3>4, SoundLocal
  <2>9. CASE Create(p)
    <3>1. pc[p] \in Entered /\ pc[p] \in Statement /\ pc[p] = "create" /\ pc'[p] = "copy"
      BY <2>9 DEF Create, Entered, Statement
    <3>2. UNCHANGED <<migration, version, rows, stored>> /\ tables' = tables \cup {"queries_v4"}
          /\ "queries_v4" \notin tables
      BY <2>9 DEF Create, Applies
    <3>3. migration[p] = version + 1 /\ migration[p] = 4 /\ version # Last
      BY <2>2, <3>1 DEF Finds, Last
    <3>4. tables' = Table
      <4>1. tables \subseteq Table /\ tables # {}
        BY <2>2, <3>3 DEF Kept
      <4>2. "queries" \in tables
        BY <3>2, <4>1 DEF Table
      <4> QED
        BY <3>2, <4>1, <4>2 DEF Table
    <3>5. Kept' /\ Finds(p)'
      BY <2>2, <3>1, <3>2, <3>3, <3>4 DEF Kept, Finds, Statement, Last, Table
    <3> QED
      BY <1>2, <3>1, <3>5, SoundLocal
  <2>10. CASE Copy(p)
    <3>1. pc[p] \in Entered /\ pc[p] \in Statement /\ pc[p] = "copy" /\ pc'[p] = "drop"
      BY <2>10 DEF Copy, Entered, Statement
    <3>2. UNCHANGED <<migration, version, tables, stored>>
          /\ rows' = [rows EXCEPT !["queries_v4"] = @ \cup rows["queries"]]
      BY <2>10 DEF Copy
    <3>3. rows'["queries"] = rows["queries"] /\ rows'["queries_v4"] = rows["queries_v4"] \cup rows["queries"]
      BY <3>2 DEF Table
    <3>4. migration[p] = version + 1 /\ migration[p] = 4 /\ version # Last /\ tables = Table
      BY <2>2, <3>1 DEF Finds, Last
    <3>5. Kept' /\ Finds(p)'
      BY <2>2, <3>1, <3>2, <3>3, <3>4 DEF Kept, Finds, Statement, Last, Table, TypeOK
    <3> QED
      BY <1>2, <3>1, <3>5, SoundLocal
  <2>11. CASE Drop(p)
    <3>1. pc[p] \in Entered /\ pc[p] \in Statement /\ pc[p] = "drop" /\ pc'[p] = "rename"
      BY <2>11 DEF Drop, Entered, Statement
    <3>2. UNCHANGED <<migration, version, stored>> /\ tables' = tables \ {"queries"}
          /\ rows' = [rows EXCEPT !["queries"] = {}]
      BY <2>11 DEF Drop
    <3>3. rows'["queries"] = {} /\ rows'["queries_v4"] = rows["queries_v4"]
      BY <3>2 DEF Table
    <3>4. migration[p] = version + 1 /\ migration[p] = 4 /\ version # Last /\ tables = Table
          /\ rows["queries"] \subseteq rows["queries_v4"]
      BY <2>2, <3>1 DEF Finds, Last
    <3>5. Kept' /\ Finds(p)'
      BY <2>2, <3>1, <3>2, <3>3, <3>4 DEF Kept, Finds, Statement, Last, Table, TypeOK
    <3> QED
      BY <1>2, <3>1, <3>5, SoundLocal
  <2>12. CASE Rename(p)
    <3>1. pc[p] \in Entered /\ pc[p] \in Statement /\ pc[p] = "rename" /\ pc'[p] = "version"
      BY <2>12 DEF Rename, Entered, Statement
    <3>2. UNCHANGED <<migration, version, stored>> /\ tables' = {"queries"}
          /\ rows'["queries"] = rows["queries_v4"] /\ rows'["queries_v4"] = {}
      BY <2>12 DEF Rename
    <3>3. migration[p] = version + 1 /\ migration[p] = 4 /\ tables = {"queries_v4"}
      BY <2>2, <3>1 DEF Finds
    <3>4. Kept' /\ Finds(p)'
      BY <2>2, <3>1, <3>2, <3>3 DEF Kept, Finds, Statement, Table
    <3> QED
      BY <1>2, <3>1, <3>4, SoundLocal
  <2>13. CASE RecordVersion(p)
    <3>1. pc[p] \in Entered /\ pc[p] \in Statement /\ pc[p] = "version" /\ UNCHANGED <<tables, rows, stored>>
      BY <2>13 DEF RecordVersion, Entered, Statement
    <3>2. migration[p] \in 1..4 /\ version' = migration[p] /\ migration'[p] = migration[p] + 1
          /\ pc'[p] = IF migration[p] + 1 > Last THEN "opened" ELSE IF migration[p] + 1 = 4 THEN "create" ELSE "schema"
      BY <2>13, <3>1 DEF RecordVersion, Begins, Last
    <3>3. Kept' /\ Finds(p)'
      BY <2>2, <3>1, <3>2 DEF Kept, Finds, Statement, Last
    <3> QED
      BY <1>2, <3>1, <3>3, SoundLocal
  <2>14. CASE \E r \in Row : StoreRow(p, r)
    <3>1. PICK r \in Row : StoreRow(p, r)
      BY <2>14
    <3>2. pc[p] \in Entered /\ pc[p] \notin Statement /\ pc'[p] = pc[p]
      BY <3>1 DEF StoreRow, processVars, Entered, Statement
    <3>3. UNCHANGED <<version, tables>> /\ "queries" \in tables /\ stored' = stored \cup {r}
          /\ rows' = [rows EXCEPT !["queries"] = @ \cup {r}]
      BY <3>1 DEF StoreRow
    <3>4. rows'["queries"] = rows["queries"] \cup {r} /\ rows'["queries_v4"] = rows["queries_v4"]
      BY <3>3 DEF Table
    <3>5. Kept' /\ Finds(p)'
      BY <2>2, <3>2, <3>3, <3>4 DEF Kept, Finds, Statement, Table
    <3> QED
      BY <1>2, <3>2, <3>5, SoundLocal
  <2> QED
    BY <1>2, <2>4, <2>5, <2>6, <2>7, <2>8, <2>9, <2>10, <2>11, <2>12, <2>13, <2>14 DEF Step
<1> QED
  BY <1>1, <1>2 DEF Next

-----------------------------------------------------------------------------
(* The PID file and the port.                                              *)

\* An instance that has saved its process id finds it in the file.
FileOwned ==
  Overlapped \/ \A p \in Proc : pc[p] \in {"saved", "serving", "stopping"} => pidFile = pid[p]

\* If all instances were stopped by a signal, the file is that of a live one.
FileLive ==
  "abrupt" \in past \/ pidFile = "none" \/
    \E p \in Proc : pc[p] \in {"saving", "saved", "serving", "stopping", "failed"}

PortHeld == port # "free" => pc[port] \in {"serving", "stopping", "leaving"}

Guarded == FileOwned /\ FileLive /\ PortHeld

LEMMA GuardedInit == Init => Guarded
  BY DEF Init, Guarded, FileOwned, FileLive, PortHeld

LEMMA FileOwnedStep ==
  ASSUME TypeOK, OneInside, FileOwned, NEW p \in Proc, Step(p), ~Overlapped'
  PROVE  FileOwned'
<1> DEFINE Saved(q) == pc[q] \in {"saved", "serving", "stopping"}
<1>1. /\ ~Overlapped
      /\ \A q \in Others(p) : pc'[q] = pc[q] /\ pid'[q] = pid[q]
  BY StepFrame DEF Overlapped
<1> USE DEF TypeOK, Goes, processVars
<1>2. CASE SavePid(p) \/ RemovePid(p)
  <2>1. pc[p] \in Entered /\ pid' = pid
    BY <1>2 DEF SavePid, RemovePid, Entered
  <2>2. \A q \in Others(p) : ~Saved(q)'
    BY <1>1, <2>1 DEF OneInside, Others, Entered
  <2>3. Saved(p)' => pidFile' = pid'[p]
    BY <1>2 DEF SavePid, RemovePid
  <2> QED
    BY <2>2, <2>3 DEF FileOwned, Others
<1>3. CASE pidFile' = pidFile /\ (Saved(p)' => Saved(p) /\ pid'[p] = pid[p])
  BY <1>1, <1>3 DEF FileOwned, Others
<1>4. CASE Start(p) \/ CheckOtherInstance(p) \/ OpenGravity(p) \/ StatementFails(p)
  BY <1>3, <1>4 DEF Start, CheckOtherInstance, OpenGravity, StatementFails
<1>5. CASE ReadVersion(p) \/ RecordVersion(p)
  BY <1>3, <1>5 DEF ReadVersion, RecordVersion, Begins
<1>6. CASE Schema(p) \/ Create(p) \/ Copy(p) \/ Drop(p) \/ Rename(p)
  BY <1>3, <1>6 DEF Schema, Create, Copy, Drop, Rename
<1>7. CASE BindPort(p) \/ Terminate(p) \/ ListenerEnds(p) \/ \E r \in Row : StoreRow(p, r)
  BY <1>3, <1>7 DEF BindPort, Terminate, ListenerEnds, StoreRow
<1>8. CASE Exit(p) \/ Crash(p)
  BY <1>3, <1>8 DEF Exit, Crash, Ends
<1> QED
  BY <1>2, <1>4, <1>5, <1>6, <1>7, <1>8 DEF Step

LEMMA FileLiveStep ==
  ASSUME TypeOK, FileLive, NEW p \in Proc, Step(p)
  PROVE  FileLive'
<1> DEFINE Holds(q) == pc[q] \in {"saving", "saved", "serving", "stopping", "failed"}
<1>1. past \subseteq past' /\ \A q \in Others(p) : pc'[q] = pc[q]
  BY StepFrame
<1> USE DEF TypeOK, Goes, processVars
<1>2. CASE Holds(p)' \/ pidFile' = "none" \/ "abrupt" \in past'
  BY <1>2 DEF FileLive
<1>3. CASE pidFile' = pidFile /\ ~Holds(p)
  BY <1>1, <1>3 DEF FileLive, Others
<1>4. CASE SavePid(p) \/ RemovePid(p) \/ StatementFails(p) \/ BindPort(p) \/ Terminate(p)
  BY <1>2, <1>4 DEF SavePid, RemovePid, StatementFails, BindPort, Terminate
<1>5. CASE Start(p) \/ CheckOtherInstance(p) \/ OpenGravity(p)
  BY <1>3, <1>5 DEF Start, CheckOtherInstance, OpenGravity
<1>6. CASE ReadVersion(p) \/ RecordVersion(p)
  BY <1>3, <1>6 DEF ReadVersion, RecordVersion, Begins
<1>7. CASE Schema(p) \/ Create(p) \/ Copy(p) \/ Drop(p) \/ Rename(p)
  BY <1>3, <1>7 DEF Schema, Create, Copy, Drop, Rename
<1>8. CASE ListenerEnds(p) \/ \E r \in Row : StoreRow(p, r)
  BY <1>2, <1>3, <1>8 DEF ListenerEnds, StoreRow
<1>9. CASE Exit(p) \/ Crash(p)
  BY <1>2, <1>3, <1>9 DEF Exit, Crash, Ends
<1> QED
  BY <1>4, <1>5, <1>6, <1>7, <1>8, <1>9 DEF Step

LEMMA PortHeldStep ==
  ASSUME TypeOK, PortHeld, NEW p \in Proc, Step(p)
  PROVE  PortHeld'
<1>1. \A q \in Others(p) : pc'[q] = pc[q]
  BY StepFrame
<1> USE StartupAssumption DEF TypeOK, Goes, processVars
<1>2. CASE port' = "free"
  BY <1>2 DEF PortHeld
<1>3. CASE port' = port /\ (port = p => pc'[p] \in {"serving", "stopping", "leaving"})
  BY <1>1, <1>3 DEF PortHeld, Others
<1>4. CASE SavePid(p) \/ RemovePid(p) \/ StatementFails(p) \/ Terminate(p)
  BY <1>3, <1>4 DEF SavePid, RemovePid, StatementFails, Terminate, PortHeld, Statement
<1>5. CASE BindPort(p)
  BY <1>3, <1>5 DEF BindPort, PortHeld
<1>6. CASE Start(p) \/ CheckOtherInstance(p) \/ OpenGravity(p)
  BY <1>3, <1>6 DEF Start, CheckOtherInstance, OpenGravity, PortHeld
<1>7. CASE ReadVersion(p) \/ RecordVersion(p)
  BY <1>3, <1>7 DEF ReadVersion, RecordVersion, Begins, PortHeld
<1>8. CASE Schema(p) \/ Create(p) \/ Copy(p) \/ Drop(p) \/ Rename(p)
  BY <1>3, <1>8 DEF Schema, Create, Copy, Drop, Rename, PortHeld
<1>9. CASE ListenerEnds(p) \/ \E r \in Row : StoreRow(p, r)
  BY <1>2, <1>3, <1>9 DEF ListenerEnds, StoreRow, PortHeld
<1>10. CASE Exit(p) \/ Crash(p)
  BY <1>2, <1>3, <1>10 DEF Exit, Crash, Ends
<1> QED
  BY <1>4, <1>5, <1>6, <1>7, <1>8, <1>9, <1>10 DEF Step

LEMMA GuardedNext == TypeOK /\ OneInside /\ Guarded /\ [Next]_vars => Guarded'
<1> SUFFICES ASSUME TypeOK, OneInside, Guarded, [Next]_vars PROVE Guarded'
  OBVIOUS
<1>1. CASE UNCHANGED vars
  BY <1>1 DEF vars, processVars, Guarded, FileOwned, FileLive, PortHeld, Overlapped
<1>2. ASSUME NEW p \in Proc, Step(p) PROVE Guarded'
  <2>1. Overlapped' => FileOwned'
    BY DEF FileOwned
  <2> QED
    BY <1>2, <2>1, FileOwnedStep, FileLiveStep, PortHeldStep DEF Guarded
<1> QED
  BY <1>1, <1>2 DEF Next

-----------------------------------------------------------------------------
(* What a step may not do.                                                 *)

\* The steps of Turns are those of the check alone.
LEMMA OnlyTheCheck ==
  ASSUME TypeOK, NEW p \in Proc, [Next]_vars, pc[p] = "check", pc'[p] \in {"gravity", "refused"}
  PROVE  CheckOtherInstance(p)
<1>1. ~UNCHANGED vars
  BY DEF vars, processVars
<1>2. PICK q \in Proc : Step(q)
  BY <1>1 DEF Next
<1>3. q = p
  BY <1>2, StepFrame DEF Others
<1> QED
  BY <1>2, <1>3 DEF Step, TypeOK, Goes, processVars, SavePid, RemovePid, OpenGravity, ReadVersion, Schema,
     StatementFails, Statement, Create, Copy, Drop, Rename, RecordVersion, BindPort, StoreRow,
     Terminate, ListenerEnds, Exit, Crash, Start, Entered

LEMMA CheckDecidesStep ==
  TypeOK /\ FileOwned /\ FileLive /\ [Next]_vars =>
    \A p \in Proc :
      /\ Turns(p, "check", "gravity") /\ ~Overlapped
           => \A q \in Others(p) : pc[q] \notin {"saved", "serving", "stopping"}
      /\ Turns(p, "check", "refused") /\ "abrupt" \notin past
           => \E q \in Others(p) : pc[q] # "off"
<1> SUFFICES ASSUME TypeOK, FileOwned, FileLive, [Next]_vars, NEW p \in Proc
             PROVE  /\ Turns(p, "check", "gravity") /\ ~Overlapped
                         => \A q \in Others(p) : pc[q] \notin {"saved", "serving", "stopping"}
                    /\ Turns(p, "check", "refused") /\ "abrupt" \notin past
                         => \E q \in Others(p) : pc[q] # "off"
  OBVIOUS
<1>1. ASSUME Turns(p, "check", "gravity"), ~Overlapped, NEW q \in Others(p),
             pc[q] \in {"saved", "serving", "stopping"}
      PROVE  FALSE
  <2>1. pidFile = pid[q] /\ pidFile \in Pid
    BY <1>1 DEF FileOwned, Others, TypeOK
  <2>2. Alive(pidFile)
    BY <1>1, <2>1 DEF Alive, Others
  <2> QED
    BY <1>1, <2>1, <2>2, OnlyTheCheck DEF Turns, CheckOtherInstance, TypeOK, Goes
<1>2. ASSUME Turns(p, "check", "refused"), "abrupt" \notin past
      PROVE  \E q \in Others(p) : pc[q] # "off"
  <2>1. pidFile # "none"
    BY <1>2, OnlyTheCheck DEF Turns, CheckOtherInstance, TypeOK, Goes
  <2> QED
    BY <1>2, <2>1 DEF FileLive, Others, Turns
<1> QED
  BY <1>1, <1>2

LEMMA FailsForCauseStep ==
  TypeOK /\ OneInside /\ Sound /\ PortHeld /\ [Next]_vars =>
    \A p \in Proc : (pc[p] # "failed" /\ pc'[p] = "failed")
                     => Overlapped \/ "queries_v4" \in tables
<1> SUFFICES ASSUME TypeOK, OneInside, Sound, PortHeld, [Next]_vars, NEW p \in Proc,
                    pc[p] # "failed", pc'[p] = "failed", ~Overlapped
             PROVE  "queries_v4" \in tables
  OBVIOUS
<1>1. PICK q \in Proc : Step(q)
  BY DEF vars, processVars, Next
<1>2. q = p
  BY <1>1, StepFrame DEF Others
<1>3. StatementFails(p) \/ BindPort(p)
  BY <1>1, <1>2 DEF Step, TypeOK, Goes, processVars, SavePid, RemovePid, OpenGravity, ReadVersion, Begins, Schema,
     Create, Copy, Drop, Rename, RecordVersion, StoreRow, CheckOtherInstance,
     Terminate, ListenerEnds, Exit, Crash, Ends, Start
<1>4. CASE StatementFails(p)
  <2>1. Finds(p) /\ Kept /\ pc[p] \in Statement /\ ~Applies(p)
    BY <1>4, SoundMeans DEF StatementFails
  <2>2. version \in 0..4 /\ migration[p] \in 1..5
    BY DEF TypeOK, Last
  <2> QED
    BY <2>1, <2>2 DEF Finds, Statement, Applies, Table
<1>5. CASE BindPort(p)
  <2>1. pc[p] = "saved" /\ port # "free"
    BY <1>5 DEF BindPort, TypeOK, Goes
  <2>2. port \in Proc /\ pc[port] \in {"serving", "stopping", "leaving"}
    BY <2>1 DEF PortHeld, TypeOK
  <2> QED
    BY <2>1, <2>2 DEF OneInside, Entered
<1> QED
  BY <1>3, <1>4, <1>5

IInv == TypeOK /\ OneInside /\ Sound /\ Guarded

LEMMA Inductive == Spec => []IInv
<1>1. Init => IInv
  BY TypeInit, SoundInit, GuardedInit DEF Init, OneInside, Entered, Statement, IInv
<1>2. IInv /\ [Next]_vars => IInv'
  BY TypeNext, OneInsideNext, SoundNext, GuardedNext DEF IInv
<1> QED
  BY <1>1, <1>2, PTL DEF Spec

\* However often instances crash between two statements of a migration, no row
\* of the query log is lost, and once migration 4 is recorded the log is where
\* the program looks for it, unless two instances overlapped
\* (database/mod.rs:207-241).
THEOREM RowsAreKept == Spec => []RowsKept
<1>1. IInv => RowsKept
  BY DEF IInv, Sound
<1> QED
  BY <1>1, Inductive, PTL

\* A start fails only after an overlap, or over the table an interrupted
\* migration 4 left behind (database/mod.rs:209), however many instances there
\* are and whenever they crash.
THEOREM FailuresHaveCause == Spec => FailsForCause
<1>1. IInv /\ [Next]_vars =>
        \A p \in Proc : (pc[p] # "failed" /\ pc'[p] = "failed")
                         => Overlapped \/ "queries_v4" \in tables
  BY FailsForCauseStep DEF IInv, Guarded
<1> QED
  BY <1>1, Inductive, PTL DEF Spec, FailsForCause

\* The check keeps a second instance out while one serves, and after orderly
\* stops lets one in that is alone (main.rs:79-91, 216-218,
\* daemon/mod.rs:106-148).
THEOREM CheckIsRight == Spec => CheckDecides
<1>1. IInv /\ [Next]_vars =>
        \A p \in Proc :
          /\ Turns(p, "check", "gravity") /\ ~Overlapped
               => \A q \in Others(p) : pc[q] \notin {"saved", "serving", "stopping"}
          /\ Turns(p, "check", "refused") /\ "abrupt" \notin past
               => \E q \in Others(p) : pc[q] # "off"
  BY CheckDecidesStep DEF IInv, Guarded
<1> QED
  BY <1>1, Inductive, PTL DEF Spec, CheckDecides
=============================================================================
