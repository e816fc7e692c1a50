------------------------------- MODULE Startup -------------------------------
(***************************************************************************)
(* Instances of the program that are started, stopped and killed: the PID  *)
(* file that is to keep a second instance out (daemon/mod.rs), the         *)
(* migrations of the query database, statement by statement                *)
(* (database/mod.rs), and the order of main.rs around them.  Any error     *)
(* that ends a start without a cause in this model (a full disk, another   *)
(* program on port 53, a busy database) is a Crash: main returns by `?',   *)
(* and nothing is cleaned up.                                              *)
(***************************************************************************)
EXTENDS Integers

CONSTANTS
  Proc,     \* bound: processes of the program at one time
  Pid,      \* process ids; a new process gets any that is not in use
  MaxRow    \* bound: rows stored in the query log

ASSUME StartupAssumption ==
  MaxRow \in Nat /\ "free" \notin Proc /\ "none" \notin Pid /\ "empty" \notin Pid

VARIABLES
  pc,         \* where each process is, "off" if there is none
  pid,        \* its process id
  migration,  \* the migration it is at
  pidFile,    \* "none", "empty", or a process id
  version,    \* MAX(version) of schema_version
  tables,     \* which of the two tables of queries exist
  rows,       \* what is in them
  port,       \* who listens on port 53
  stored,     \* history: rows whose INSERT succeeded
  past        \* history: "overlap", two instances passed the check together;
              \* "abrupt", one ended without remove_pid

processVars == <<pc, pid, migration>>
dbVars == <<version, tables, rows, stored>>
vars == <<processVars, pidFile, dbVars, port, past>>

Row   == 1..MaxRow
Table == {"queries", "queries_v4"}
Last  == 4

\* The statements of a migration.
Statement == {"schema", "create", "copy", "drop", "rename", "version"}

\* From here on the instance uses the files of the program.
Entered == {"gravity", "database"} \cup Statement \cup
           {"opened", "saving", "saved", "serving", "stopping", "leaving"}

TypeOK ==
  /\ pc \in [Proc -> {"off", "check", "refused", "failed"} \cup Entered]
  /\ pid \in [Proc -> Pid] /\ migration \in [Proc -> 1..(Last + 1)]
  /\ \A p \in Proc : pc[p] \in Statement => migration[p] <= Last
  /\ pidFile \in {"none", "empty"} \cup Pid
  /\ version \in 0..Last
  /\ tables \subseteq Table /\ rows \in [Table -> SUBSET Row] /\ stored \subseteq Row
  /\ port \in {"free"} \cup Proc
  /\ past \subseteq {"overlap", "abrupt"}

\* A database of any earlier version of the program, or none.
Init ==
  /\ pc = [p \in Proc |-> "off"] /\ pid \in [Proc -> Pid] /\ migration = [p \in Proc |-> 1]
  /\ pidFile = "none" /\ port = "free" /\ past = {}
  /\ version \in 0..Last /\ stored \in SUBSET Row
  /\ rows = [t \in Table |-> IF t = "queries" THEN stored ELSE {}]
  /\ IF version = 0 THEN tables = {} /\ stored = {} ELSE tables = {"queries"}

Goes(p, to) == pc' = [pc EXCEPT ![p] = to]

Others(p) == Proc \ {p}
Alive(k)  == \E p \in Proc : pc[p] # "off" /\ pid[p] = k

-----------------------------------------------------------------------------
(* The check and the PID file.                                             *)

\* main up to the check: configuration, logging, fork.
Start(p) ==
  /\ pc[p] = "off" /\ Goes(p, "check")
  /\ \E k \in Pid : ~Alive(k) /\ pid' = [pid EXCEPT ![p] = k]
  /\ migration' = [migration EXCEPT ![p] = 1]
  /\ UNCHANGED <<pidFile, dbVars, port, past>>

\* check_other_instance: kill(pid, 0) finds an instance, the caller itself,
\* or an unrelated program that got the process id.
CheckOtherInstance(p) ==
  /\ pc[p] = "check"
  /\ \/ /\ pidFile \notin {"none", "empty"}
        /\ Goes(p, "refused") /\ UNCHANGED past
     \/ /\ pidFile \in Pid => ~Alive(pidFile)
        /\ Goes(p, "gravity")
        /\ past' = IF \E q \in Others(p) : pc[q] \in Entered THEN past \cup {"overlap"} ELSE past
  /\ UNCHANGED <<pid, migration, pidFile, dbVars, port>>

\* fs::write of the process id: the file is emptied first.
SavePid(p) ==
  /\ \/ pc[p] = "opened" /\ Goes(p, "saving") /\ pidFile' = "empty"
     \/ pc[p] = "saving" /\ Goes(p, "saved") /\ pidFile' = pid[p]
  /\ UNCHANGED <<pid, migration, dbVars, port, past>>

\* remove_pid, whoever's file it is by now.
RemovePid(p) ==
  /\ pc[p] = "stopping" /\ Goes(p, "leaving")
  /\ pidFile' = "none"
  /\ UNCHANGED <<pid, migration, dbVars, port, past>>

-----------------------------------------------------------------------------
(* The databases.                                                          *)

\* GravityDb::open: its schema can be applied again and again.
OpenGravity(p) ==
  /\ pc[p] = "gravity" /\ Goes(p, "database")
  /\ UNCHANGED <<pid, migration, pidFile, dbVars, port, past>>

\* Migration m begins, or all are done.
Begins(p, m) ==
  /\ migration' = [migration EXCEPT ![p] = m]
  /\ Goes(p, IF m > Last THEN "opened" ELSE IF m = 4 THEN "create" ELSE "schema")

\* run_migrations reads the version once.
ReadVersion(p) ==
  /\ pc[p] = "database" /\ Begins(p, version + 1)
  /\ UNCHANGED <<pid, pidFile, dbVars, port, past>>

\* What a statement needs.  The batches of migrations 1 to 3 say
\* IF NOT EXISTS; that of migration 4 does not; schema_version has a primary key.
Applies_Strict(p) ==
  /\ pc[p] = "schema" /\ migration[p] = 1 => "queries" \notin tables
  /\ pc[p] = "create" => "queries_v4" \notin tables
  /\ pc[p] = "copy" => tables = Table
  /\ pc[p] = "drop" => "queries" \in tables
  /\ pc[p] = "rename" => tables = {"queries_v4"}
  /\ pc[p] = "version" => version < migration[p]

Applies(p) ==
  /\ pc[p] = "create" => "queries_v4" \notin tables
  /\ pc[p] = "copy" => tables = Table
  /\ pc[p] = "drop" => "queries" \in tables
  /\ pc[p] = "rename" => tables = {"queries_v4"}
  /\ pc[p] = "version" => version < migration[p]

\* Only the batch of migration 1 touches the table of queries.
Schema(p) ==
  /\ pc[p] = "schema" /\ Applies(p) /\ Goes(p, "version")
  /\ tables' = IF migration[p] = 1 THEN tables \cup {"queries"} ELSE tables
  /\ UNCHANGED <<pid, migration, pidFile, version, rows, stored, port, past>>

Create_DropsLeftover(p) ==
  /\ pc[p] = "create" /\ Goes(p, "copy")
  /\ tables' = tables \cup {"queries", "queries_v4"}
  /\ rows' = [rows EXCEPT !["queries_v4"] = {}]
  /\ UNCHANGED <<pid, migration, pidFile, version, stored, port, past>>

\* Migration 4 rebuilds the table, each statement a transaction of its own.
Create(p) ==
  /\ pc[p] = "create" /\ Applies(p) /\ Goes(p, "copy")
  /\ tables' = tables \cup {"queries_v4"}
  /\ UNCHANGED <<pid, migration, pidFile, version, rows, stored, port, past>>

Copy(p) ==
  /\ pc[p] = "copy" /\ Applies(p) /\ Goes(p, "drop")
  /\ rows' = [rows EXCEPT !["queries_v4"] = @ \cup rows["queries"]]
  /\ UNCHANGED <<pid, migration, pidFile, version, tables, stored, port, past>>

Drop(p) ==
  /\ pc[p] = "drop" /\ Applies(p) /\ Goes(p, "rename")
  /\ tables' = tables \ {"queries"} /\ rows' = [rows EXCEPT !["queries"] = {}]
  /\ UNCHANGED <<pid, migration, pidFile, version, stored, port, past>>

Rename(p) ==
  /\ pc[p] = "rename" /\ Applies(p) /\ Goes(p, "version")
  /\ tables' = {"queries"}
  /\ rows' = [queries |-> rows["queries_v4"], queries_v4 |-> {}]
  /\ UNCHANGED <<pid, migration, pidFile, version, stored, port, past>>

RecordVersion(p) ==
  /\ pc[p] = "version" /\ Applies(p)
  /\ version' = migration[p] /\ Begins(p, migration[p] + 1)
  /\ UNCHANGED <<pid, pidFile, tables, rows, stored, port, past>>

StatementFails(p) ==
  /\ pc[p] \in Statement /\ ~Applies(p) /\ Goes(p, "failed")
  /\ UNCHANGED <<pid, migration, pidFile, dbVars, port, past>>

-----------------------------------------------------------------------------
(* The instance at work.                                                   *)

\* dns::start, after the writer, DHCP and the signal handlers: the TCP
\* listener of a second instance cannot be bound.
BindPort(p) ==
  /\ pc[p] = "saved"
  /\ IF port = "free" THEN Goes(p, "serving") /\ port' = p
                      ELSE Goes(p, "failed") /\ UNCHANGED port
  /\ UNCHANGED <<pid, migration, pidFile, dbVars, past>>

\* A row of the query log, written in the background.
StoreRow(p, r) ==
  /\ pc[p] \in {"serving", "stopping", "leaving"}
  /\ "queries" \in tables /\ r \notin stored /\ 1..(r - 1) \subseteq stored
  /\ rows' = [rows EXCEPT !["queries"] = @ \cup {r}] /\ stored' = stored \cup {r}
  /\ UNCHANGED <<processVars, pidFile, version, tables, port, past>>

\* SIGTERM, SIGINT, SIGQUIT.
Terminate(p) ==
  /\ pc[p] = "serving" /\ Goes(p, "stopping")
  /\ UNCHANGED <<pid, migration, pidFile, dbVars, port, past>>

\* The listener's task sees the shutdown.
ListenerEnds(p) ==
  /\ pc[p] \in {"stopping", "leaving"} /\ port = p
  /\ port' = "free"
  /\ UNCHANGED <<processVars, pidFile, dbVars, past>>

Ends(p) ==
  /\ Goes(p, "off") /\ port' = IF port = p THEN "free" ELSE port
  /\ UNCHANGED <<pid, migration, dbVars>>

\* An instance that was refused exits without touching the PID file.
Exit_RemovesPid(p) ==
  /\ pc[p] \in {"refused", "leaving"} /\ Ends(p)
  /\ pidFile' = "none" /\ UNCHANGED past

Exit(p) ==
  /\ pc[p] \in {"refused", "leaving"} /\ Ends(p)
  /\ UNCHANGED <<pidFile, past>>

\* Killed, or ended by an error.
Crash(p) ==
  /\ pc[p] \in {"failed"} \cup Entered /\ Ends(p)
  /\ past' = past \cup {"abrupt"}
  /\ UNCHANGED pidFile

Step(p) ==
  \/ Start(p) \/ CheckOtherInstance(p) \/ SavePid(p) \/ RemovePid(p)
  \/ OpenGravity(p) \/ ReadVersion(p) \/ Schema(p) \/ StatementFails(p)
  \/ Create(p) \/ Copy(p) \/ Drop(p) \/ Rename(p) \/ RecordVersion(p)
  \/ BindPort(p) \/ (\E r \in Row : StoreRow(p, r))
  \/ Terminate(p) \/ ListenerEnds(p) \/ Exit(p) \/ Crash(p)

Next == \E p \in Proc : Step(p)

Spec == Init /\ [][Next]_vars

-----------------------------------------------------------------------------
(* Properties.                                                             *)

Overlapped == "overlap" \in past

\* Whatever crashes there are between two statements, no row of the query
\* log is lost, and once the version is recorded all rows are where the
\* program looks for them; unless two instances overlapped
\* (database/mod.rs:207-241).
RowsKept ==
  Overlapped \/ /\ stored = rows["queries"] \cup rows["queries_v4"]
                /\ version = Last => tables = {"queries"}

Turns(p, from, to) == pc[p] = from /\ pc'[p] = to

\* After any number of crashes, a start fails only because instances
\* overlapped, or because migration 4 was interrupted: its leftover table
\* makes every later start fail (database/mod.rs:209).
FailsForCause ==
  [][\A p \in Proc : (pc[p] # "failed" /\ pc'[p] = "failed")
       => Overlapped \/ "queries_v4" \in tables]_vars

\* The check decides rightly.  Nobody gets past it from the moment another
\* instance has saved its process id until that begins to stop, unless the two
\* had got past it before either had saved; and as long as every instance is
\* stopped by a signal, none is refused when it is the only one
\* (main.rs:79-91, 216-218, daemon/mod.rs:106-148).
CheckDecides ==
  [][\A p \in Proc :
       /\ Turns(p, "check", "gravity") /\ ~Overlapped
            => \A q \in Others(p) : pc[q] \notin {"saved", "serving", "stopping"}
       /\ Turns(p, "check", "refused") /\ "abrupt" \notin past
            => \E q \in Others(p) : pc[q] # "off"]_vars

\* "Another instance is running - exit cleanly" (main.rs:80), and a PID that
\* is no instance's is "not running" (daemon/mod.rs:186): an instance is
\* refused only when there is another one.
RefusedForOther ==
  [][\A p \in Proc : Turns(p, "check", "refused")
       => \E q \in Others(p) : pc[q] # "off"]_vars
=============================================================================
