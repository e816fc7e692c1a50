----------------------------- MODULE Management -----------------------------
(***************************************************************************)
(* Requests to the API, from the session check to the last write: logging  *)
(* in and out, setting the password, patching the configuration and        *)
(* switching blocking (nimbus-api/src/lib.rs), with the reload on SIGHUP   *)
(* and the restart of nimbus-bin/src/main.rs, and the hourly removal of    *)
(* sessions.  Every await is a step: between two steps of a handler the    *)
(* others act, and its client may disconnect.                              *)
(***************************************************************************)
EXTENDS ConfigStore, Sessions, FiniteSets

CONSTANTS
  Request,      \* slots for requests under way at one time
  Patches,      \* bodies of PATCH /api/config
  Edited,       \* what the administrator may write into the file by hand
  MaxRequests,  \* bound: requests
  MaxEvents     \* bound: signals, edits, failed writes and crashes together

Thread == Request \cup {"sighup", "hourly"}

\* A body that does not give a configuration is refused like an invalid one.
ASSUME ManagementAssumption ==
  /\ {"sighup", "hourly"} \cap Request = {}
  /\ \A p \in Patches : /\ p \in [set : {p.set}, nulled : {p.nulled}]
                        /\ \A c \in Config : Merge(c, p) \in Config
  /\ Edited \subseteq Config
  /\ MaxRequests \in Nat /\ MaxEvents \in Nat

VARIABLES
  task,       \* per thread: where its handler is
  requests, events,   \* so far
  issued,     \* sessions created
  known,      \* sessions whose client has been told
  expected,   \* the configuration asked for (history)
  settled,    \* the last change ran alone, to its end, and succeeded (history)
  ended,      \* sessions that must be gone (history)
  lifetime,   \* when a session expires (history)
  guesses     \* attempts let through since the last success (history)

history == <<expected, settled, ended, lifetime, guesses>>
counts  == <<requests, events, issued, known>>
vars == <<configVars, now, sessionVars, task, counts, history>>

\* sid is 0 if the request has none; at is when validate read the clock, found
\* the row it read, client the key of the login limiter; change is what is
\* asked for, and content the configuration on its way to the file.
NoChange == [set |-> <<>>, nulled |-> {}]
Free == [pc |-> "free", kind |-> "none", sid |-> 0, at |-> 0, found |-> 0,
         client |-> CHOOSE c \in Client : TRUE, change |-> NoChange, content |-> Default, alone |-> FALSE]

Passwords == {[set |-> [password |-> p], nulled |-> {}] : p \in Password \ {0}}
Switches  == {[set |-> [mode |-> m], nulled |-> {}] : m \in Mode \cup {"toggle"}}

Validating == {"lookup", "evict", "fetch", "expire", "uncache", "insert"}
Programs == [login    |-> {"verify", "create", "read", "cache"},
             logout   |-> Validating \cup {"delete", "forget"},
             setup    |-> {"session", "hash", "truncate", "write"},
             patch    |-> Validating \cup {"handle", "truncate", "write", "apply"},
             blocking |-> Validating \cup {"handle", "truncate", "write"},
             none     |-> {"swap", "sweep"}]

Changes(kind) == CASE kind = "setup"    -> Passwords
                   [] kind = "patch"    -> Patches
                   [] kind = "blocking" -> Switches
                   [] OTHER             -> {NoChange}

Handler(kind) ==
  [pc : Programs[kind], kind : {kind}, sid : 0..MaxSid, at : 0..MaxTime,
   found : 0..(MaxTime + Timeout), client : Client, change : Changes(kind),
   content : Config, alone : BOOLEAN]

TypeOK ==
  /\ ConfigTypeOK /\ SessionTypeOK
  /\ requests \in 0..MaxRequests /\ events \in 0..MaxEvents
  /\ issued \in 1..MaxSid /\ known \subseteq 1..issued
  /\ expected \in Config /\ settled \in BOOLEAN
  /\ ended \subseteq known /\ lifetime \in [Sid -> 0..(MaxTime + Timeout)]
  /\ guesses \in [Client -> Seq(Time)]
  /\ task \in [Thread -> {Free} \cup UNION {Handler(kind) : kind \in DOMAIN Programs}]

Init ==
  /\ \E p \in Password : file = Whole([Default EXCEPT !.password = p])
  /\ config \in Load(file) /\ dhcpConfig = config.dhcp
  /\ now = 1
  \* One session has outlived the process before.
  /\ rows = [s \in Sid |-> IF s = 1 THEN now + Timeout ELSE 0] /\ lifetime = rows
  /\ cached = [s \in Sid |-> 0] /\ attempts = [c \in Client |-> <<>>]
  /\ issued = 1 /\ known = {1}
  /\ task = [t \in Thread |-> Free] /\ requests = 0 /\ events = 0
  /\ expected = config /\ settled = TRUE /\ ended = {} /\ guesses = attempts

-----------------------------------------------------------------------------
Goto(t, pc) == task' = [task EXCEPT ![t].pc = pc]
Reply(t)    == task' = [task EXCEPT ![t] = Free]

\* From the moment a change reads what it will write to its last write.
Changing(t) == task[t].pc \in {"truncate", "write", "apply", "swap"}

\* A change that begins or ends while another is under way is not alone, nor is
\* the other.
BeginChange(t, pc, content) ==
  LET others == {o \in Thread \ {t} : Changing(o)} IN
  task' = [o \in Thread |->
    IF o = t THEN [task[t] EXCEPT !.pc = pc, !.content = content, !.alone = others = {}]
    ELSE IF o \in others THEN [task[o] EXCEPT !.alone = FALSE] ELSE task[o]]

\* json_merge would not touch the password, were the section not null.
Kept(t) == "webserver" \notin task[t].change.nulled

Resolve(c, change) ==
  IF change \in Switches /\ change.set.mode = "toggle"
  THEN [change EXCEPT !.set.mode = IF c.mode = "disabled" THEN "null" ELSE "disabled"]
  ELSE change

Asked(c, change) == Merge(c, Resolve(c, change))

EndChange(t) ==
  /\ Reply(t)
  /\ settled' = (task[t].alone /\ Kept(t))
  /\ expected' = IF settled' /\ settled
                 THEN Asked(expected, IF task[t].kind = "patch"
                                      THEN [task[t].change EXCEPT !.set = Restrict(@, DOMAIN @ \ {"password"})]
                                      ELSE task[t].change)
                 ELSE config'
  /\ UNCHANGED <<ended, lifetime, guesses>>

-----------------------------------------------------------------------------
(* The session check.                                                      *)

\* AuthService::call holds the configuration's read lock while it validates.
HoldsRead(t) == task[t].kind \in {"patch", "blocking"} /\ task[t].pc \in Validating
ConfigFree == \A t \in Thread : ~HoldsRead(t)

Begin(r, kind, pc, sid, change) ==
  /\ task[r] = Free /\ requests < MaxRequests
  /\ requests' = requests + 1
  /\ task' = [task EXCEPT ![r] = [Free EXCEPT !.kind = kind, !.pc = pc, !.sid = sid, !.change = change]]
  /\ UNCHANGED <<configVars, now, sessionVars, events, issued, known, history>>

\* With a password a request needs a session.
BeginGuarded(r, kind, sid, change) ==
  Begin(r, kind, IF config.password = 0 THEN "handle" ELSE "lookup", sid, change)

BeginLogout(r, sid) == Begin(r, "logout", "lookup", sid, NoChange)

Accepted(t) == IF task[t].kind = "logout" THEN "delete" ELSE "handle"

\* SessionCache::validate: a hit needs no database.
Lookup(t) ==
  LET expires == cached[task[t].sid] IN
  /\ task[t].pc = "lookup"
  /\ task' = [task EXCEPT ![t].at = now,
                          ![t].pc = CASE expires = 0 -> "fetch"
                                      [] expires >= now -> Accepted(t)
                                      [] OTHER -> "evict"]
  /\ UNCHANGED <<configVars, now, sessionVars, counts, history>>

\* The guard of the entry is dropped before the key is removed.
Evict(t) ==
  /\ task[t].pc = "evict"
  /\ SetCached(task[t].sid, 0)
  /\ Goto(t, "fetch")
  /\ UNCHANGED <<configVars, now, rows, attempts, counts, history>>

Fetch(t) ==
  LET expires == rows[task[t].sid] IN
  /\ task[t].pc = "fetch"
  /\ IF expires = 0 THEN Reply(t)
     ELSE IF expires < task[t].at THEN Goto(t, "expire")
     ELSE task' = [task EXCEPT ![t].found = expires, ![t].pc = "insert"]
  /\ UNCHANGED <<configVars, now, sessionVars, counts, history>>

Expire(t) ==
  /\ task[t].pc = "expire"
  /\ SetRow(task[t].sid, 0)
  /\ Goto(t, "uncache")
  /\ UNCHANGED <<configVars, now, cached, attempts, counts, history>>

Uncache(t) ==
  /\ task[t].pc = "uncache"
  /\ SetCached(task[t].sid, 0)
  /\ Reply(t)
  /\ UNCHANGED <<configVars, now, rows, attempts, counts, history>>

Insert(t) ==
  /\ task[t].pc = "insert"
  /\ SetCached(task[t].sid, task[t].found)
  /\ Goto(t, Accepted(t))
  /\ UNCHANGED <<configVars, now, rows, attempts, counts, history>>

\* delete_session (DELETE /api/auth/session)
DeleteRow(t) ==
  /\ task[t].pc = "delete"
  /\ SetRow(task[t].sid, 0)
  /\ Goto(t, "forget")
  /\ UNCHANGED <<configVars, now, cached, attempts, counts, history>>

\* The session must be gone now, unless somebody has read its row and not yet
\* cached it.
LoggedOut(t) ==
  ended' = ended \cup
    (IF \E o \in Thread : task[o].pc = "insert" /\ task[o].sid = task[t].sid THEN {} ELSE {task[t].sid})

Forget_KeepsCached(t) ==
  /\ task[t].pc = "forget"
  /\ LoggedOut(t)
  /\ Reply(t)
  /\ UNCHANGED <<configVars, now, sessionVars, counts, expected, settled, lifetime, guesses>>

Forget(t) ==
  /\ task[t].pc = "forget"
  /\ SetCached(task[t].sid, 0)
  /\ LoggedOut(t)
  /\ Reply(t)
  /\ UNCHANGED <<configVars, now, rows, attempts, counts, expected, settled, lifetime, guesses>>

-----------------------------------------------------------------------------
(* Logging in (authenticate).                                              *)

\* Without a password there is nothing to verify.
BeginLogin(r, c) ==
  /\ task[r] = Free /\ requests < MaxRequests
  /\ requests' = requests + 1
  /\ CheckAttempt(c)
  /\ IF Allowed(c)
     THEN /\ task' = [task EXCEPT ![r] = [Free EXCEPT !.kind = "login", !.client = c,
                        !.pc = IF config.password = 0 THEN "create" ELSE "verify"]]
          /\ guesses' = [guesses EXCEPT ![c] = Append(@, now)]
     ELSE UNCHANGED <<task, guesses>>
  /\ UNCHANGED <<configVars, now, rows, cached, events, issued, known, expected, settled, ended, lifetime>>

Verify(t, right) ==
  /\ task[t].pc = "verify"
  /\ IF right THEN Goto(t, "create") ELSE Reply(t)
  /\ UNCHANGED <<configVars, now, sessionVars, counts, history>>

CreateRow(t) ==
  /\ task[t].pc = "create" /\ issued < MaxSid
  /\ issued' = issued + 1
  /\ SetRow(issued', now + Timeout)
  /\ lifetime' = [lifetime EXCEPT ![issued'] = now + Timeout]
  /\ task' = [task EXCEPT ![t].sid = issued', ![t].pc = "read"]
  /\ UNCHANGED <<configVars, now, cached, attempts, requests, events, known,
                 expected, settled, ended, guesses>>

\* The new row is read back, and may be gone already.
ReadRow(t) ==
  LET expires == rows[task[t].sid] IN
  /\ task[t].pc = "read"
  /\ IF expires = 0 THEN Reply(t) ELSE task' = [task EXCEPT ![t].found = expires, ![t].pc = "cache"]
  /\ UNCHANGED <<configVars, now, sessionVars, counts, history>>

CacheSession(t) ==
  /\ task[t].pc = "cache"
  /\ SetCached(task[t].sid, task[t].found)
  /\ RecordSuccess(task[t].client)
  /\ known' = known \cup {task[t].sid}
  /\ guesses' = [guesses EXCEPT ![task[t].client] = <<>>]
  /\ Reply(t)
  /\ UNCHANGED <<configVars, now, rows, requests, events, issued, expected, settled, ended, lifetime>>

-----------------------------------------------------------------------------
(* Changing the configuration.                                             *)

\* setup_password: once there is a password, its own check of the session, in
\* the database; then the hash, which takes its time.
BeginSetup(r, sid, change) ==
  Begin(r, "setup", IF config.password = 0 THEN "hash" ELSE "session", sid, change)

CheckSession(t) ==
  LET expires == rows[task[t].sid] IN
  /\ task[t].pc = "session"
  /\ IF expires >= now THEN Goto(t, "hash") /\ UNCHANGED rows
     ELSE Reply(t) /\ SetRow(task[t].sid, 0)
  /\ UNCHANGED <<configVars, now, cached, attempts, counts, history>>

\* setup_password and set_blocking_status change the live copy, and write what
\* they have made of it afterwards.
ChangeLive(t) ==
  /\ \/ task[t].pc = "hash"
     \/ task[t].kind = "blocking" /\ task[t].pc = "handle"
  /\ ConfigFree
  /\ config' = Asked(config, task[t].change)
  /\ BeginChange(t, "truncate", config')
  /\ UNCHANGED <<file, dhcpConfig, now, sessionVars, counts, history>>

\* update_config merges into a copy of the live configuration, and writes it
\* before it makes it the live one.
MergePatch(t) ==
  LET merged == Merge(config, Strip(task[t].change)) IN
  /\ task[t].kind = "patch" /\ task[t].pc = "handle"
  /\ IF Valid(merged) THEN BeginChange(t, "truncate", merged) ELSE Reply(t)
  /\ UNCHANGED <<configVars, now, sessionVars, counts, history>>

OpenFile(t) ==
  /\ task[t].pc = "truncate"
  /\ Truncate
  /\ Goto(t, "write")
  /\ UNCHANGED <<config, dhcpConfig, now, sessionVars, counts, history>>

WriteFile(t) ==
  /\ task[t].pc = "write"
  /\ WriteOut(task[t].content)
  /\ UNCHANGED <<config, dhcpConfig, now, sessionVars, counts>>
  /\ IF task[t].kind = "patch" THEN Goto(t, "apply") /\ UNCHANGED history ELSE EndChange(t)

\* The file cannot be opened, or the disk is full: the handler gives up.
WriteFails(t) ==
  /\ task[t].pc \in {"truncate", "write"} /\ events < MaxEvents
  /\ events' = events + 1
  /\ Reply(t) /\ settled' = FALSE
  /\ UNCHANGED <<configVars, now, sessionVars, requests, issued, known, expected, ended, lifetime, guesses>>

\* The purge of the query log when logging is switched off is in QueryLog.
ApplyPatch(t) ==
  /\ task[t].pc = "apply"
  /\ ConfigFree
  /\ config' = task[t].content
  /\ dhcpConfig' = IF Mentions(task[t].change, "dhcp") THEN config'.dhcp ELSE dhcpConfig
  /\ EndChange(t)
  /\ UNCHANGED <<file, now, sessionVars, counts>>

\* The client disconnects, and the handler is dropped at its await.  What it has
\* given to spawn_blocking runs to its end: a patch is in the file, and nobody is
\* left to make it the live configuration.
Awaiting == {"delete", "forget", "verify", "read", "cache", "hash", "handle", "apply"}

ClientGone(t) ==
  /\ task[t].pc \in Awaiting
  /\ Reply(t)
  /\ settled' = (settled /\ task[t].pc # "apply")
  /\ UNCHANGED <<configVars, now, sessionVars, counts, expected, ended, lifetime, guesses>>

Event == events < MaxEvents /\ events' = events + 1

\* The administrator edits the file, and sends SIGHUP.
Edit(c) ==
  /\ Event /\ \A t \in Thread : ~Changing(t)
  /\ file' = Whole(c)
  /\ settled' = FALSE
  /\ UNCHANGED <<config, dhcpConfig, now, sessionVars, task, requests, issued, known,
                 expected, ended, lifetime, guesses>>

\* A file that cannot be loaded leaves the live copy as it is.  The lists are
\* reloaded next, in BlockingLists.
Sighup ==
  /\ Event /\ task["sighup"] = Free
  /\ IF Load(file) = {} THEN UNCHANGED task
     ELSE \E c \in Load(file) : BeginChange("sighup", "swap", c)
  /\ UNCHANGED <<configVars, now, sessionVars, requests, issued, known, history>>

SwapConfig ==
  /\ task["sighup"].pc = "swap"
  /\ ConfigFree
  /\ config' = task["sighup"].content
  /\ Reply("sighup")
  /\ settled' = (task["sighup"].alone /\ file.state = "whole")
  /\ expected' = config'
  /\ UNCHANGED <<file, dhcpConfig, now, sessionVars, counts, ended, lifetime, guesses>>

-----------------------------------------------------------------------------
\* The hourly task: first the table, then the cache.
CleanRows ==
  /\ task["hourly"] = Free /\ \E s \in Sid : 0 < rows[s] /\ rows[s] < now
  /\ RemoveExpiredRows
  /\ Goto("hourly", "sweep")
  /\ UNCHANGED <<configVars, now, cached, attempts, counts, history>>

CleanCache ==
  /\ task["hourly"].pc = "sweep"
  /\ RemoveExpiredCached
  /\ Reply("hourly")
  /\ UNCHANGED <<configVars, now, rows, attempts, counts, history>>

\* The process dies and is started again.  With a file that cannot be loaded it
\* does not come up.
Restart ==
  /\ Event
  /\ \E c \in Load(file) : config' = c /\ dhcpConfig' = c.dhcp /\ expected' = c
  /\ cached' = [s \in Sid |-> 0]
  /\ attempts' = [c \in Client |-> <<>>] /\ guesses' = attempts'
  /\ task' = [t \in Thread |-> Free]
  /\ settled' = (file.state = "whole")
  /\ UNCHANGED <<file, now, rows, requests, issued, known, ended, lifetime>>

Tick ==
  /\ now < MaxTime
  /\ now' = now + 1
  /\ UNCHANGED <<configVars, sessionVars, task, counts, history>>

RequestStep(r) ==
  \/ \E c \in Client : BeginLogin(r, c)
  \/ \E s \in known :
       \/ BeginLogout(r, s)
       \/ \E p \in Patches : BeginGuarded(r, "patch", s, p)
       \/ \E m \in Switches : BeginGuarded(r, "blocking", s, m)
       \/ \E p \in Passwords : BeginSetup(r, s, p)
  \/ Lookup(r) \/ Evict(r) \/ Fetch(r) \/ Expire(r) \/ Uncache(r) \/ Insert(r)
  \/ DeleteRow(r) \/ Forget(r)
  \/ \E right \in BOOLEAN : Verify(r, right)
  \/ CreateRow(r) \/ ReadRow(r) \/ CacheSession(r)
  \/ CheckSession(r) \/ ChangeLive(r) \/ MergePatch(r)
  \/ OpenFile(r) \/ WriteFile(r) \/ WriteFails(r) \/ ApplyPatch(r)
  \/ ClientGone(r)

Next ==
  \/ \E r \in Request : RequestStep(r)
  \/ \E c \in Edited : Edit(c)
  \/ Sighup \/ SwapConfig \/ CleanRows \/ CleanCache \/ Restart \/ Tick

Spec == Init /\ [][Next]_vars

-----------------------------------------------------------------------------
(* When no change of the configuration is under way and the last one ran     *)
(* alone, was written and was not dropped with its handler, the file holds   *)
(* the live configuration, up to the environment's overrides, so that it     *)
(* survives a restart; the configuration is valid, and is what the changes   *)
(* since the last load asked for in their order: no change is lost or        *)
(* undone, and only setup changes the password (lib.rs:889-936, 1083-1143,   *)
(* 1180-1211, config/mod.rs:649-802, main.rs:156-196).                       *)
ConfigSettles ==
  settled /\ (\A t \in Thread : ~Changing(t)) =>
    /\ file.state = "whole" /\ config \in {file.config, WithEnv(file.config)}
    /\ Valid(config) /\ config = expected

(* A session that was logged out, by a handler that came to its end and      *)
(* while no validation was about to cache it, is in neither the table nor    *)
(* the cache again; and no request is let in with a session that had expired *)
(* when its validation began                                                 *)
(* (auth.rs:153-214, lib.rs:999-1026).                                       *)
LogoutHolds ==
  /\ \A s \in ended : /\ rows[s] = 0 /\ cached[s] = 0
                      /\ \A t \in Thread : ~(task[t].pc = "insert" /\ task[t].sid = s)
  /\ \A t \in Thread :
       task[t].pc \in {"handle", "delete"} /\ task[t].at > 0 => task[t].at <= lifetime[task[t].sid]

(* Between two successful logins a client has at most MaxAttempts passwords  *)
(* verified in any window, even if the verifications are slow and overlap    *)
(* (auth.rs:293-313, lib.rs:938-994).                                        *)
GuessesBounded ==
  \A c \in Client : \A i \in 1..(Len(guesses[c]) - MaxAttempts) :
    guesses[c][i + MaxAttempts] - guesses[c][i] >= Window
=============================================================================
