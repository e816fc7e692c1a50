-------------------------- MODULE ManagementProofs --------------------------
(***************************************************************************)
(* Proofs about Management, for any sessions, clients, passwords, requests *)
(* and bodies of them.                                                     *)
(***************************************************************************)
EXTENDS Management, FiniteSetTheorems, SequenceTheorems, WellFoundedInduction, TLAPS

-----------------------------------------------------------------------------
(* The inductive invariants.                                               *)

\* Requests that are not logins have a session somebody was told of; what a
\* login has created nobody was told of.
Ids(t) ==
  /\ task[t].kind \in {"logout", "setup", "patch", "blocking"} => task[t].sid \in known
  /\ task[t].pc \in {"read", "cache"} => task[t].sid \in (1..issued) \ known

\* What a thread has read of its session is not beyond the session's lifetime,
\* and a session about to be cached was not logged out.
ThreadFits(t) ==
  /\ Ids(t)
  /\ task[t].pc \in {"insert", "cache"} => task[t].found <= lifetime[task[t].sid]
  /\ task[t].pc = "insert" => task[t].at <= task[t].found /\ task[t].sid \notin ended
  /\ task[t].pc = "forget" => rows[task[t].sid] = 0
  /\ task[t].pc \in {"handle", "delete"} /\ task[t].at > 0 => task[t].at <= lifetime[task[t].sid]

Unshared ==
  \A t, u \in Thread :
    t # u /\ task[t].pc \in {"read", "cache"} /\ task[u].pc \in {"read", "cache"} =>
      task[t].sid # task[u].sid

RowsFit ==
  /\ \A s \in Sid : /\ rows[s] <= lifetime[s] /\ cached[s] <= lifetime[s]
                    /\ s > issued => lifetime[s] = 0
  /\ \A s \in ended : rows[s] = 0 /\ cached[s] = 0

SessionInv == (\A t \in Thread : ThreadFits(t)) /\ Unshared /\ RowsFit

\* The limiter remembers the latest of the guesses, and all of the window.
Remembered(c) ==
  LET forgotten == Len(guesses[c]) - Len(attempts[c]) IN
  /\ forgotten >= 0
  /\ \A i \in 1..Len(attempts[c]) : attempts[c][i] = guesses[c][forgotten + i]
  /\ \A i \in 1..forgotten : guesses[c][i] <= now - Window

Chronological(c) ==
  /\ \A i, j \in 1..Len(guesses[c]) : i <= j => guesses[c][i] <= guesses[c][j]
  /\ \A i \in 1..Len(guesses[c]) : guesses[c][i] <= now

GuessInv == GuessesBounded /\ \A c \in Client : Remembered(c) /\ Chronological(c)

\* A change that is still alone finds the file as it has left it, and ends with
\* what was asked for.
AloneSound(t) ==
  Changing(t) /\ task[t].alone =>
    /\ \A o \in Thread : Changing(o) => o = t
    /\ task[t].pc = "write" => file = Empty
    /\ task[t].pc = "apply" => file = Whole(task[t].content)
    /\ task[t].pc = "swap" => task[t].content \in Load(file)
    /\ task[t].kind \in {"setup", "blocking"} =>
         config = task[t].content /\ (settled => config = Asked(expected, task[t].change))
    /\ task[t].kind = "patch" =>
         (settled => task[t].content = Merge(expected, Strip(task[t].change)))

ConfigInv ==
  /\ ConfigSettles /\ Valid(config)
  /\ \A t \in Thread : AloneSound(t) /\ (Changing(t) => Valid(task[t].content))

-----------------------------------------------------------------------------
(* Handlers.                                                               *)

Kinds == {"login", "logout", "setup", "patch", "blocking", "none"}

LEMMA ProgramsAre ==
  /\ DOMAIN Programs = Kinds
  /\ Programs["login"] = {"verify", "create", "read", "cache"}
  /\ Programs["logout"] = {"lookup", "evict", "fetch", "expire", "uncache", "insert", "delete", "forget"}
  /\ Programs["setup"] = {"session", "hash", "truncate", "write"}
  /\ Programs["patch"] = {"lookup", "evict", "fetch", "expire", "uncache", "insert",
                          "handle", "truncate", "write", "apply"}
  /\ Programs["blocking"] = {"lookup", "evict", "fetch", "expire", "uncache", "insert",
                             "handle", "truncate", "write"}
  /\ Programs["none"] = {"swap", "sweep"}
BY DEF Programs, Kinds, Validating

TaskType == {Free} \cup UNION {Handler(kind) : kind \in DOMAIN Programs}

LEMMA HandlerOf ==
  ASSUME TypeOK, NEW t \in Thread
  PROVE  \/ task[t] = Free
         \/ task[t].kind \in Kinds /\ task[t] \in Handler(task[t].kind)
<1>1. task[t] \in TaskType
  BY DEF TypeOK, TaskType
<1>2. ASSUME NEW kind \in Kinds, task[t] \in Handler(kind)
      PROVE  task[t].kind = kind
  BY <1>2 DEF Handler
<1> QED  BY <1>1, <1>2, ProgramsAre DEF TaskType

LEMMA FreeRecord ==
  \E c \in Client :
    Free = [pc |-> "free", kind |-> "none", sid |-> 0, at |-> 0, found |-> 0, client |-> c,
            change |-> NoChange, content |-> Default, alone |-> FALSE]
<1> DEFINE c == CHOOSE x \in Client : TRUE
<1>1. c \in Client
  BY SessionsAssumption
<1>2. Free = [pc |-> "free", kind |-> "none", sid |-> 0, at |-> 0, found |-> 0, client |-> c,
              change |-> NoChange, content |-> Default, alone |-> FALSE]
  BY DEF Free
<1> HIDE DEF c
<1> QED  BY <1>1, <1>2

LEMMA FreeIs ==
  /\ Free.pc = "free" /\ Free.kind = "none" /\ Free.sid = 0 /\ Free.at = 0 /\ Free.found = 0
  /\ Free.change = NoChange /\ Free.content = Default /\ Free.alone = FALSE
BY DEF Free

\* Which handlers have a step of that name.
LEMMA Running ==
  ASSUME TypeOK, NEW t \in Thread
  PROVE  LET k == task[t].kind
             pc == task[t].pc
         IN
         /\ pc # "free" => k \in Kinds /\ task[t] \in Handler(k)
         /\ pc \in Validating => k \in {"logout", "patch", "blocking"}
         /\ pc \in {"delete", "forget"} => k = "logout"
         /\ pc \in {"verify", "create", "read", "cache"} => k = "login"
         /\ pc \in {"session", "hash"} => k = "setup"
         /\ pc \in {"truncate", "write"} => k \in {"setup", "patch", "blocking"}
         /\ pc = "handle" => k \in {"patch", "blocking"}
         /\ pc = "apply" => k = "patch"
         /\ pc \in {"swap", "sweep"} => k = "none"
<1>1. CASE task[t] = Free
  BY <1>1, FreeIs DEF Validating
<1>2. CASE task[t].kind \in Kinds /\ task[t] \in Handler(task[t].kind)
  <2>1. task[t].pc \in Programs[task[t].kind]
    BY <1>2 DEF Handler
  <2> QED  BY <1>2, <2>1, ProgramsAre DEF Kinds, Validating
<1> QED  BY <1>1, <1>2, HandlerOf

-----------------------------------------------------------------------------
(* Configurations.                                                         *)

Fields == {"password", "mode", "upstreams", "dhcp"}

FieldType == [password |-> Password, mode |-> Mode, upstreams |-> BOOLEAN, dhcp |-> BOOLEAN]

\* A configuration, field by field.
LEMMA ConfigIs ==
  /\ DOMAIN SectionOf = Fields
  /\ \A c \in Config : \A f \in Fields : c[f] \in FieldType[f]
  /\ \A g \in [Fields -> Password \cup Mode \cup BOOLEAN] :
       (\A f \in Fields : g[f] \in FieldType[f]) => g \in Config
<1>1. DOMAIN SectionOf = Fields
  BY DEF SectionOf, Fields
<1>2. \A c \in Config : \A f \in Fields : c[f] \in FieldType[f]
  BY DEF Config, FieldType, Fields
<1>3. ASSUME NEW g \in [Fields -> Password \cup Mode \cup BOOLEAN], \A f \in Fields : g[f] \in FieldType[f]
      PROVE  g \in Config
  <2>1. g["password"] \in Password /\ g["mode"] \in Mode /\ g["upstreams"] \in BOOLEAN /\ g["dhcp"] \in BOOLEAN
    BY <1>3 DEF FieldType, Fields
  <2>2. g = [password |-> g["password"], mode |-> g["mode"], upstreams |-> g["upstreams"], dhcp |-> g["dhcp"]]
    BY DEF Fields
  <2> QED  BY <2>1, <2>2 DEF Config
<1> QED  BY <1>1, <1>2, <1>3

LEMMA DefaultTypes == Default \in Config /\ \A f \in Fields : Default[f] \in FieldType[f]
<1>1. Default \in Config
  BY ConfigAssumption DEF Default, Config, Mode
<1> QED  BY <1>1, ConfigIs

\* A merge gives a configuration if what the patch sets has the right types.
LEMMA MergeTypes ==
  ASSUME NEW c \in Config, NEW patch, \A f \in Fields \cap DOMAIN patch.set : patch.set[f] \in FieldType[f]
  PROVE  /\ Merge(c, patch) \in Config
         /\ \A f \in Fields : Merge(c, patch)[f] = IF f \in DOMAIN patch.set THEN patch.set[f]
                                ELSE IF SectionOf[f] \in patch.nulled THEN Default[f] ELSE c[f]
<1> DEFINE m == Merge(c, patch)
<1>1. m = [f \in Fields |-> IF f \in DOMAIN patch.set THEN patch.set[f]
                             ELSE IF SectionOf[f] \in patch.nulled THEN Default[f] ELSE c[f]]
  BY ConfigIs DEF Merge
<1> HIDE DEF m
<1>2. \A f \in Fields : m[f] \in FieldType[f]
  BY <1>1, ConfigIs, DefaultTypes
<1>3. \A f \in Fields : FieldType[f] \subseteq Password \cup Mode \cup BOOLEAN
  BY DEF FieldType, Fields
<1>4. m \in [Fields -> Password \cup Mode \cup BOOLEAN]
  BY <1>1, <1>2, <1>3
<1> QED  BY <1>1, <1>2, <1>4, ConfigIs DEF m

\* Only what a patch sets of the password is stripped.
LEMMA StripIs ==
  ASSUME NEW patch \in Patches
  PROVE  /\ DOMAIN Strip(patch).set = DOMAIN patch.set \ {"password"}
         /\ \A f \in DOMAIN patch.set \ {"password"} : Strip(patch).set[f] = patch.set[f]
         /\ Strip(patch).nulled = patch.nulled
         /\ \A f \in Fields \cap DOMAIN patch.set : patch.set[f] \in FieldType[f]
<1>1. patch \in [set : {patch.set}, nulled : {patch.nulled}]
      /\ \A c \in Config : Merge(c, patch) \in Config
  BY ManagementAssumption
<1>2. Strip(patch).set = Restrict(patch.set, DOMAIN patch.set \ {"password"})
      /\ Strip(patch).nulled = patch.nulled
  BY <1>1 DEF Strip
<1>3. ASSUME NEW f \in Fields \cap DOMAIN patch.set
      PROVE  patch.set[f] \in FieldType[f]
  <2>1. Merge(Default, patch) \in Config
    BY <1>1, DefaultTypes
  <2>2. Merge(Default, patch)[f] = patch.set[f]
    BY ConfigIs DEF Merge
  <2> QED  BY <2>1, <2>2, ConfigIs
<1> QED  BY <1>2, <1>3 DEF Restrict

LEMMA StripTypes ==
  ASSUME NEW c \in Config, NEW patch \in Patches
  PROVE  Merge(c, Strip(patch)) \in Config
BY StripIs, MergeTypes

\* set_blocking_status and setup_password: any configuration stays one, and a
\* valid one stays valid.
LEMMA AskedTypes ==
  ASSUME NEW c \in Config, NEW change \in Passwords \cup Switches
  PROVE  Asked(c, change) \in Config /\ (Valid(c) => Valid(Asked(c, change)))
<1>1. PICK patch : /\ Asked(c, change) = Merge(c, patch) /\ patch.nulled = {}
                   /\ "upstreams" \notin DOMAIN patch.set
                   /\ \A f \in Fields \cap DOMAIN patch.set : patch.set[f] \in FieldType[f]
  <2>1. CASE change \in Switches /\ change.set.mode = "toggle"
    <3> DEFINE patch == [change EXCEPT !.set.mode = IF c.mode = "disabled" THEN "null" ELSE "disabled"]
    <3>1. PICK m : change = [set |-> [mode |-> m], nulled |-> {}]
      BY <2>1 DEF Switches
    <3>2. patch = [set |-> [mode |-> IF c.mode = "disabled" THEN "null" ELSE "disabled"], nulled |-> {}]
      BY <3>1
    <3>3. Asked(c, change) = Merge(c, patch)
      BY <2>1 DEF Asked, Resolve
    <3> HIDE DEF patch
    <3> QED  BY <3>2, <3>3 DEF FieldType, Mode
  <2>2. CASE ~(change \in Switches /\ change.set.mode = "toggle")
    <3>1. Asked(c, change) = Merge(c, change)
      BY <2>2 DEF Asked, Resolve
    <3>2. CASE change \in Passwords
      BY <3>1, <3>2 DEF Passwords, FieldType
    <3>3. CASE change \in Switches
      BY <2>2, <3>1, <3>3 DEF Switches, FieldType, Mode
    <3> QED  BY <3>2, <3>3
  <2> QED  BY <2>1, <2>2
<1>2. Merge(c, patch) \in Config /\ Merge(c, patch)["upstreams"] = c["upstreams"]
  BY <1>1, MergeTypes DEF Fields
<1> QED  BY <1>1, <1>2 DEF Valid

LEMMA AskedPatch ==
  ASSUME NEW c \in Config, NEW patch \in Patches
  PROVE  Asked(c, Strip(patch)) = Merge(c, Strip(patch))
<1>1. SUFFICES ASSUME Strip(patch) \in Switches, Strip(patch).set.mode = "toggle" PROVE FALSE
  BY DEF Asked, Resolve
<1>2. "mode" \in DOMAIN Strip(patch).set
  BY <1>1 DEF Switches
<1>3. Strip(patch).set["mode"] \in FieldType["mode"]
  BY <1>2, StripIs DEF Fields
<1> QED  BY <1>1, <1>3 DEF FieldType, Mode

LEMMA LoadTypes ==
  ASSUME NEW f \in File, NEW c \in Load(f)
  PROVE  c \in Config /\ Valid(c) /\ c = WithEnv(f.config) /\ f.config \in Config
<1>1. f.config \in Config
  BY DefaultTypes DEF File, Whole, Empty, Garbled
<1>2. WithEnv(f.config) \in Config
  BY <1>1, ConfigAssumption DEF WithEnv, Config
<1> QED  BY <1>1, <1>2 DEF Load

-----------------------------------------------------------------------------
(* What a step makes of a handler.                                         *)

LEMMA WithPc ==
  ASSUME NEW k \in Kinds, NEW r \in Handler(k), NEW pc \in Programs[k]
  PROVE  LET x == [r EXCEPT !.pc = pc] IN
         /\ x \in Handler(k) /\ x.pc = pc /\ x.kind = k /\ x.sid = r.sid /\ x.at = r.at /\ x.found = r.found
         /\ x.client = r.client /\ x.change = r.change /\ x.content = r.content /\ x.alone = r.alone
BY DEF Handler

\* Only the program counter and some of the numbers change.
Advances(t, pc) ==
  /\ task' \in [Thread -> TaskType]
  /\ \A o \in Thread : o # t => task'[o] = task[o]
  /\ task'[t].pc = pc /\ task'[t].kind = task[t].kind
  /\ task'[t].client = task[t].client /\ task'[t].change = task[t].change
  /\ task'[t].content = task[t].content /\ task'[t].alone = task[t].alone

LEMMA Becomes ==
  ASSUME TypeOK, NEW t \in Thread, NEW r \in TaskType, task' = [task EXCEPT ![t] = r]
  PROVE  /\ task' \in [Thread -> TaskType] /\ task'[t] = r
         /\ \A o \in Thread : o # t => task'[o] = task[o]
BY DEF TypeOK, TaskType

LEMMA HandlerTypes ==
  ASSUME NEW k \in Kinds, NEW r \in Handler(k)
  PROVE  r \in TaskType
BY ProgramsAre DEF TaskType

LEMMA Goes ==
  ASSUME TypeOK, NEW t \in Thread, task[t].pc # "free",
         NEW pc \in Programs[task[t].kind], Goto(t, pc)
  PROVE  Advances(t, pc) /\ task'[t].sid = task[t].sid /\ task'[t].at = task[t].at /\ task'[t].found = task[t].found
<1> DEFINE k == task[t].kind
           r == [task[t] EXCEPT !.pc = pc]
<1>1. k \in Kinds /\ task[t] \in Handler(k)
  BY Running
<1>2. task' = [task EXCEPT ![t] = r]
  BY DEF Goto, TypeOK
<1>3. /\ r \in Handler(k) /\ r.pc = pc /\ r.kind = k /\ r.sid = task[t].sid /\ r.at = task[t].at
      /\ r.found = task[t].found /\ r.client = task[t].client /\ r.change = task[t].change
      /\ r.content = task[t].content /\ r.alone = task[t].alone
  BY <1>1, WithPc
<1> HIDE DEF r
<1>4. r \in TaskType
  BY <1>1, <1>3, HandlerTypes
<1> QED  BY <1>2, <1>3, <1>4, Becomes DEF Advances

\* The thread is free again.
Frees(t) ==
  /\ task' \in [Thread -> TaskType] /\ task'[t] = Free
  /\ \A o \in Thread : o # t => task'[o] = task[o]

LEMMA Replies ==
  ASSUME TypeOK, NEW t \in Thread, Reply(t)
  PROVE  Frees(t)
BY Becomes DEF Reply, TaskType, Frees

\* at, found or sid is set on the way.
LEMMA WithAt ==
  ASSUME TypeOK, NEW t \in Thread, task[t].pc # "free", NEW pc \in Programs[task[t].kind],
         NEW at \in 0..MaxTime, task' = [task EXCEPT ![t].at = at, ![t].pc = pc]
  PROVE  Advances(t, pc) /\ task'[t].sid = task[t].sid /\ task'[t].at = at /\ task'[t].found = task[t].found
<1> DEFINE k == task[t].kind
           r == [task[t] EXCEPT !.at = at, !.pc = pc]
<1>1. k \in Kinds /\ task[t] \in Handler(k)
  BY Running
<1>2. task' = [task EXCEPT ![t] = r]
  BY DEF TypeOK
<1>3. /\ r \in Handler(k) /\ r.pc = pc /\ r.kind = k /\ r.sid = task[t].sid /\ r.at = at
      /\ r.found = task[t].found /\ r.client = task[t].client /\ r.change = task[t].change
      /\ r.content = task[t].content /\ r.alone = task[t].alone
  BY <1>1 DEF Handler
<1> HIDE DEF r
<1>4. r \in TaskType
  BY <1>1, <1>3, HandlerTypes
<1> QED  BY <1>2, <1>3, <1>4, Becomes DEF Advances

LEMMA WithFound ==
  ASSUME TypeOK, NEW t \in Thread, task[t].pc # "free", NEW pc \in Programs[task[t].kind],
         NEW found \in 0..(MaxTime + Timeout), task' = [task EXCEPT ![t].found = found, ![t].pc = pc]
  PROVE  Advances(t, pc) /\ task'[t].sid = task[t].sid /\ task'[t].at = task[t].at /\ task'[t].found = found
<1> DEFINE k == task[t].kind
           r == [task[t] EXCEPT !.found = found, !.pc = pc]
<1>1. k \in Kinds /\ task[t] \in Handler(k)
  BY Running
<1>2. task' = [task EXCEPT ![t] = r]
  BY DEF TypeOK
<1>3. /\ r \in Handler(k) /\ r.pc = pc /\ r.kind = k /\ r.sid = task[t].sid /\ r.at = task[t].at
      /\ r.found = found /\ r.client = task[t].client /\ r.change = task[t].change
      /\ r.content = task[t].content /\ r.alone = task[t].alone
  BY <1>1 DEF Handler
<1> HIDE DEF r
<1>4. r \in TaskType
  BY <1>1, <1>3, HandlerTypes
<1> QED  BY <1>2, <1>3, <1>4, Becomes DEF Advances

LEMMA WithSid ==
  ASSUME TypeOK, NEW t \in Thread, task[t].pc # "free", NEW pc \in Programs[task[t].kind],
         NEW sid \in 0..MaxSid, task' = [task EXCEPT ![t].sid = sid, ![t].pc = pc]
  PROVE  Advances(t, pc) /\ task'[t].sid = sid /\ task'[t].at = task[t].at /\ task'[t].found = task[t].found
<1> DEFINE k == task[t].kind
           r == [task[t] EXCEPT !.sid = sid, !.pc = pc]
<1>1. k \in Kinds /\ task[t] \in Handler(k)
  BY Running
<1>2. task' = [task EXCEPT ![t] = r]
  BY DEF TypeOK
<1>3. /\ r \in Handler(k) /\ r.pc = pc /\ r.kind = k /\ r.sid = sid /\ r.at = task[t].at
      /\ r.found = task[t].found /\ r.client = task[t].client /\ r.change = task[t].change
      /\ r.content = task[t].content /\ r.alone = task[t].alone
  BY <1>1 DEF Handler
<1> HIDE DEF r
<1>4. r \in TaskType
  BY <1>1, <1>3, HandlerTypes
<1> QED  BY <1>2, <1>3, <1>4, Becomes DEF Advances

\* A request comes in.
Started(t, kind, pc, sid, change) ==
  /\ task' \in [Thread -> TaskType]
  /\ \A o \in Thread : o # t => task'[o] = task[o]
  /\ task'[t].pc = pc /\ task'[t].kind = kind /\ task'[t].sid = sid /\ task'[t].at = 0
  /\ task'[t].change = change

StartOf(kind, pc, sid, change) ==
  [Free EXCEPT !.kind = kind, !.pc = pc, !.sid = sid, !.change = change]

LEMMA StartRecord ==
  ASSUME NEW kind \in Kinds, NEW pc \in Programs[kind], NEW sid \in 0..MaxSid,
         NEW change \in Changes(kind)
  PROVE  LET x == StartOf(kind, pc, sid, change) IN
         /\ x \in Handler(kind) /\ x.pc = pc /\ x.kind = kind /\ x.sid = sid /\ x.at = 0
         /\ x.change = change
<1> DEFINE Loose == [pc : Programs[kind] \cup {"free"}, kind : {kind, "none"}, sid : 0..MaxSid,
                     at : 0..MaxTime, found : 0..(MaxTime + Timeout), client : Client,
                     change : Changes(kind) \cup {NoChange}, content : Config, alone : BOOLEAN]
           x == StartOf(kind, pc, sid, change)
           y == [Free EXCEPT !.kind = kind, !.pc = pc]
<1>1. 0 \in 0..MaxTime /\ 0 \in 0..(MaxTime + Timeout) /\ 0 \in 0..MaxSid
  BY SessionsAssumption
<1>2. Free \in Loose
  BY <1>1, FreeRecord, DefaultTypes
<1>3. y \in Loose /\ y.kind = kind /\ y.pc = pc /\ y.at = Free.at
  BY <1>2
<1>4. x = [y EXCEPT !.sid = sid, !.change = change]
  BY DEF StartOf
<1> HIDE DEF x, y
<1>5. /\ x \in Loose /\ x.kind = kind /\ x.pc = pc /\ x.sid = sid /\ x.change = change
      /\ x.at = y.at
  BY <1>3, <1>4
<1>6. x \in Handler(kind)
  BY <1>5 DEF Handler
<1> QED  BY <1>3, <1>5, <1>6, FreeIs DEF x

LEMMA BeginStarts ==
  ASSUME TypeOK, NEW r \in Request, NEW kind \in Kinds, NEW pc \in Programs[kind],
         NEW sid \in 0..MaxSid, NEW change \in Changes(kind), Begin(r, kind, pc, sid, change)
  PROVE  Started(r, kind, pc, sid, change) /\ task[r] = Free
<1> DEFINE x == StartOf(kind, pc, sid, change)
<1>1. x \in Handler(kind) /\ x.pc = pc /\ x.kind = kind /\ x.sid = sid /\ x.at = 0 /\ x.change = change
  BY StartRecord
<1>2. task' = [task EXCEPT ![r] = x] /\ task[r] = Free
  BY DEF Begin, StartOf
<1> HIDE DEF x
<1>3. x \in TaskType /\ r \in Thread
  BY <1>1, HandlerTypes DEF Thread
<1> QED  BY <1>1, <1>2, <1>3, Becomes DEF Started

\* The handler does one step: it goes on at pc, with the numbers it is left with.
Walks(t, pc, sid, at, found) ==
  Advances(t, pc) /\ task'[t].sid = sid /\ task'[t].at = at /\ task'[t].found = found

Reads(t) == cached[task[t].sid]
RowOf(t) == rows[task[t].sid]

\* The session of a request that has one is a session.
LEMMA SessionIs ==
  ASSUME TypeOK, NEW t \in Thread, Ids(t), task[t].kind \in {"logout", "setup", "patch", "blocking"}
  PROVE  task[t].sid \in known /\ task[t].sid \in Sid /\ task[t].sid \in 1..issued
<1>1. task[t].sid \in known
  BY DEF Ids
<1>2. known \subseteq 1..issued /\ issued \in 1..MaxSid /\ MaxSid \in Nat
  BY SessionsAssumption DEF TypeOK
<1>3. \A s \in 1..issued : s \in 1..MaxSid
  BY <1>2
<1> QED  BY <1>1, <1>2, <1>3 DEF Sid

LEMMA LookupDoes ==
  ASSUME TypeOK, NEW t \in Thread, Ids(t), Lookup(t)
  PROVE  \/ Walks(t, "fetch", task[t].sid, now, task[t].found)
         \/ Walks(t, "evict", task[t].sid, now, task[t].found)
         \/ Reads(t) >= now /\ Walks(t, Accepted(t), task[t].sid, now, task[t].found)
<1>1. task[t].kind \in {"logout", "patch", "blocking"} /\ task[t].pc # "free"
  BY Running DEF Lookup, Validating
<1>2. {"fetch", "evict", Accepted(t)} \subseteq Programs[task[t].kind]
  BY <1>1, ProgramsAre DEF Accepted
<1>3. now \in 0..MaxTime
  BY SessionsAssumption DEF TypeOK, SessionTypeOK
<1>4. ASSUME NEW pc \in {"fetch", "evict", Accepted(t)}, task' = [task EXCEPT ![t].at = now, ![t].pc = pc]
      PROVE  Walks(t, pc, task[t].sid, now, task[t].found)
  BY <1>1, <1>2, <1>3, <1>4, WithAt DEF Walks
<1>5. PICK pc \in {"fetch", "evict", Accepted(t)} :
        /\ task' = [task EXCEPT ![t].at = now, ![t].pc = pc]
        /\ pc = Accepted(t) => Reads(t) >= now
  <2>0. now \in Nat /\ now >= 1
    BY SessionsAssumption DEF TypeOK, SessionTypeOK
  <2>1. Accepted(t) \in {"delete", "handle"}
    BY DEF Accepted
  <2>2. CASE Reads(t) = 0
    <3> DEFINE to == CASE Reads(t) = 0 -> "fetch" [] Reads(t) >= now -> Accepted(t) [] OTHER -> "evict"
    <3>0. ~(Reads(t) >= now)
      BY <2>0, <2>2
    <3>2. to = "fetch"
      BY <2>2, <3>0
    <3>3. task' = [task EXCEPT ![t].at = now, ![t].pc = to]
      BY DEF Lookup, Reads
    <3> HIDE DEF to
    <3>1. task' = [task EXCEPT ![t].at = now, ![t].pc = "fetch"]
      BY <3>2, <3>3
    <3> QED  BY <2>1, <3>1
  <2>3. CASE Reads(t) # 0 /\ Reads(t) >= now
    <3>1. task' = [task EXCEPT ![t].at = now, ![t].pc = Accepted(t)]
      BY <2>3 DEF Lookup, Reads
    <3> QED  BY <2>3, <3>1
  <2>4. CASE Reads(t) # 0 /\ ~(Reads(t) >= now)
    <3>1. task' = [task EXCEPT ![t].at = now, ![t].pc = "evict"]
      BY <2>4 DEF Lookup, Reads
    <3> QED  BY <2>1, <3>1
  <2> QED  BY <2>2, <2>3, <2>4
<1> QED  BY <1>4, <1>5

LEMMA EvictDoes ==
  ASSUME TypeOK, NEW t \in Thread, Evict(t)
  PROVE  Walks(t, "fetch", task[t].sid, task[t].at, task[t].found)
<1>1. task[t].kind \in {"logout", "patch", "blocking"} /\ task[t].pc # "free"
  BY Running DEF Evict, Validating
<1> QED  BY <1>1, ProgramsAre, Goes DEF Evict, Walks

LEMMA FetchDoes ==
  ASSUME TypeOK, NEW t \in Thread, Ids(t), Fetch(t)
  PROVE  \/ Frees(t)
         \/ Walks(t, "expire", task[t].sid, task[t].at, task[t].found)
         \/ RowOf(t) >= task[t].at /\ Walks(t, "insert", task[t].sid, task[t].at, RowOf(t))
<1>1. task[t].kind \in {"logout", "patch", "blocking"} /\ task[t].pc # "free"
  BY Running DEF Fetch, Validating
<1>2. {"expire", "insert"} \subseteq Programs[task[t].kind]
  BY <1>1, ProgramsAre
<1>3. RowOf(t) \in 0..(MaxTime + Timeout)
  BY <1>1, SessionIs DEF TypeOK, SessionTypeOK, RowOf
<1>4. task[t].at \in 0..MaxTime
  BY <1>1, Running DEF Handler
<1>5. CASE RowOf(t) = 0
  BY <1>5, Replies DEF Fetch, RowOf
<1>6. CASE RowOf(t) # 0 /\ RowOf(t) < task[t].at
  BY <1>1, <1>2, <1>6, Goes DEF Fetch, RowOf, Walks
<1>7. CASE RowOf(t) # 0 /\ ~(RowOf(t) < task[t].at)
  <2>1. task' = [task EXCEPT ![t].found = RowOf(t), ![t].pc = "insert"]
    BY <1>7 DEF Fetch, RowOf
  <2>2. Walks(t, "insert", task[t].sid, task[t].at, RowOf(t))
    BY <1>1, <1>2, <1>3, <2>1, WithFound DEF Walks
  <2> QED  BY <1>3, <1>4, <1>7, <2>2
<1> QED  BY <1>5, <1>6, <1>7

LEMMA ExpireDoes ==
  ASSUME TypeOK, NEW t \in Thread, Expire(t)
  PROVE  Walks(t, "uncache", task[t].sid, task[t].at, task[t].found)
<1>1. task[t].kind \in {"logout", "patch", "blocking"} /\ task[t].pc # "free"
  BY Running DEF Expire, Validating
<1> QED  BY <1>1, ProgramsAre, Goes DEF Expire, Walks

LEMMA InsertDoes ==
  ASSUME TypeOK, NEW t \in Thread, Insert(t)
  PROVE  Walks(t, Accepted(t), task[t].sid, task[t].at, task[t].found)
<1>1. task[t].kind \in {"logout", "patch", "blocking"} /\ task[t].pc # "free"
  BY Running DEF Insert, Validating
<1>2. Accepted(t) \in Programs[task[t].kind]
  BY <1>1, ProgramsAre DEF Accepted
<1> QED  BY <1>1, <1>2, Goes DEF Insert, Walks

LEMMA DeleteDoes ==
  ASSUME TypeOK, NEW t \in Thread, DeleteRow(t)
  PROVE  Walks(t, "forget", task[t].sid, task[t].at, task[t].found)
<1>1. task[t].kind = "logout" /\ task[t].pc # "free"
  BY Running DEF DeleteRow
<1> QED  BY <1>1, ProgramsAre, Goes DEF DeleteRow, Walks

LEMMA VerifyDoes ==
  ASSUME TypeOK, NEW t \in Thread, NEW right, Verify(t, right)
  PROVE  Frees(t) \/ Walks(t, "create", task[t].sid, task[t].at, task[t].found)
<1>1. task[t].kind = "login" /\ task[t].pc # "free"
  BY Running DEF Verify
<1> QED  BY <1>1, ProgramsAre, Goes, Replies DEF Verify, Walks

LEMMA CreateDoes ==
  ASSUME TypeOK, NEW t \in Thread, CreateRow(t)
  PROVE  /\ issued' = issued + 1 /\ issued' \in Sid
         /\ Walks(t, "read", issued', task[t].at, task[t].found)
<1>1. task[t].kind = "login" /\ task[t].pc # "free"
  BY Running DEF CreateRow
<1>2. "read" \in Programs[task[t].kind]
  BY <1>1, ProgramsAre
<1>3. issued' = issued + 1 /\ issued + 1 \in Sid /\ issued + 1 \in 0..MaxSid
  BY SessionsAssumption DEF CreateRow, TypeOK, Sid
<1>4. task' = [task EXCEPT ![t].sid = issued + 1, ![t].pc = "read"]
  BY DEF CreateRow
<1> QED  BY <1>1, <1>2, <1>3, <1>4, WithSid DEF Walks

LEMMA ReadDoes ==
  ASSUME TypeOK, NEW t \in Thread, Ids(t), ReadRow(t)
  PROVE  Frees(t) \/ Walks(t, "cache", task[t].sid, task[t].at, RowOf(t))
<1>1. task[t].kind = "login" /\ task[t].pc # "free"
  BY Running DEF ReadRow
<1>2. "cache" \in Programs[task[t].kind]
  BY <1>1, ProgramsAre
<1>3. RowOf(t) \in 0..(MaxTime + Timeout)
  BY SessionsAssumption DEF TypeOK, SessionTypeOK, RowOf, Ids, ReadRow, Sid
<1>4. CASE RowOf(t) = 0
  BY <1>4, Replies DEF ReadRow, RowOf
<1>5. CASE RowOf(t) # 0
  <2>1. task' = [task EXCEPT ![t].found = RowOf(t), ![t].pc = "cache"]
    BY <1>5 DEF ReadRow, RowOf
  <2> QED  BY <1>1, <1>2, <1>3, <2>1, WithFound DEF Walks
<1> QED  BY <1>4, <1>5

LEMMA CheckDoes ==
  ASSUME TypeOK, NEW t \in Thread, CheckSession(t)
  PROVE  Frees(t) \/ Walks(t, "hash", task[t].sid, task[t].at, task[t].found)
<1>1. task[t].kind = "setup" /\ task[t].pc # "free"
  BY Running DEF CheckSession
<1> QED  BY <1>1, ProgramsAre, Goes, Replies DEF CheckSession, Walks

LEMMA OpenDoes ==
  ASSUME TypeOK, NEW t \in Thread, OpenFile(t)
  PROVE  Walks(t, "write", task[t].sid, task[t].at, task[t].found)
<1>1. task[t].kind \in {"setup", "patch", "blocking"} /\ task[t].pc # "free"
  BY Running DEF OpenFile
<1> QED  BY <1>1, ProgramsAre, Goes DEF OpenFile, Walks

LEMMA WriteDoes ==
  ASSUME TypeOK, NEW t \in Thread, WriteFile(t)
  PROVE  IF task[t].kind = "patch" THEN Walks(t, "apply", task[t].sid, task[t].at, task[t].found)
         ELSE Frees(t)
<1>1. task[t].kind \in {"setup", "patch", "blocking"} /\ task[t].pc # "free"
  BY Running DEF WriteFile
<1> QED  BY <1>1, ProgramsAre, Goes, Replies DEF WriteFile, Walks, EndChange

\* A change starts: the others under way are not alone any more.
Turns(t, pc, content) ==
  /\ task' \in [Thread -> TaskType]
  /\ \A o \in Thread :
       /\ task'[o].kind = task[o].kind /\ task'[o].sid = task[o].sid /\ task'[o].at = task[o].at
       /\ task'[o].found = task[o].found /\ task'[o].change = task[o].change
       /\ o # t => task'[o].pc = task[o].pc /\ task'[o].content = task[o].content
       /\ o # t /\ Changing(o) => task'[o].alone = FALSE
       /\ o # t /\ ~Changing(o) => task'[o] = task[o]
  /\ task'[t].pc = pc /\ task'[t].content = content
  /\ task'[t].alone => \A o \in Thread : o # t => ~Changing(o)

\* What is about to become a handler.
Waiting(kind) ==
  [pc : Programs[kind] \cup {"free"}, kind : {kind}, sid : 0..MaxSid, at : 0..MaxTime,
   found : 0..(MaxTime + Timeout), client : Client, change : Changes(kind),
   content : Config, alone : BOOLEAN]

LEMMA FreeWaits == Free \in Waiting("none")
<1>1. 0 \in 0..MaxTime /\ 0 \in 0..(MaxTime + Timeout) /\ 0 \in 0..MaxSid
  BY SessionsAssumption
<1>2. Changes("none") = {NoChange}
  BY DEF Changes
<1> QED  BY <1>1, <1>2, FreeRecord, DefaultTypes DEF Waiting

LEMMA ChangeTurns ==
  ASSUME TypeOK, NEW t \in Thread, NEW k \in Kinds, task[t] \in Waiting(k), NEW pc \in Programs[k],
         NEW content \in Config, BeginChange(t, pc, content)
  PROVE  Turns(t, pc, content)
<1> DEFINE others == {o \in Thread \ {t} : Changing(o)}
<1>1. task' = [o \in Thread |->
        IF o = t THEN [task[t] EXCEPT !.pc = pc, !.content = content, !.alone = others = {}]
        ELSE IF o \in others THEN [task[o] EXCEPT !.alone = FALSE] ELSE task[o]]
  BY DEF BeginChange
<1>2. PICK b \in BOOLEAN : b = (others = {})
  OBVIOUS
<1>3. task'[t] = [task[t] EXCEPT !.pc = pc, !.content = content, !.alone = b]
  BY <1>1, <1>2
<1>4. /\ task'[t] \in Handler(k) /\ task'[t].kind = task[t].kind /\ task'[t].sid = task[t].sid
      /\ task'[t].at = task[t].at /\ task'[t].found = task[t].found /\ task'[t].change = task[t].change
      /\ task'[t].pc = pc /\ task'[t].content = content /\ task'[t].alone = b
  BY <1>3 DEF Waiting, Handler
<1>5. task'[t] \in TaskType
  BY <1>4, HandlerTypes
<1>6. ASSUME NEW o \in Thread, o # t, ~Changing(o)
      PROVE  task'[o] = task[o]
  BY <1>1, <1>6
<1>7. ASSUME NEW o \in Thread, o # t, Changing(o)
      PROVE  /\ task'[o] \in TaskType /\ task'[o].kind = task[o].kind /\ task'[o].sid = task[o].sid
             /\ task'[o].at = task[o].at /\ task'[o].found = task[o].found
             /\ task'[o].change = task[o].change /\ task'[o].pc = task[o].pc
             /\ task'[o].content = task[o].content /\ task'[o].alone = FALSE
  <2>1. task[o].kind \in Kinds /\ task[o] \in Handler(task[o].kind)
    BY <1>7, Running DEF Changing
  <2>2. task'[o] = [task[o] EXCEPT !.alone = FALSE]
    BY <1>1, <1>7
  <2>3. /\ task'[o] \in Handler(task[o].kind) /\ task'[o].kind = task[o].kind /\ task'[o].sid = task[o].sid
        /\ task'[o].at = task[o].at /\ task'[o].found = task[o].found
        /\ task'[o].change = task[o].change /\ task'[o].pc = task[o].pc
        /\ task'[o].content = task[o].content /\ task'[o].alone = FALSE
    BY <2>1, <2>2 DEF Handler
  <2> QED  BY <2>1, <2>3, HandlerTypes
<1>8. task' \in [Thread -> TaskType]
  <2>1. \A o \in Thread : task[o] \in TaskType
    BY DEF TypeOK, TaskType
  <2>2. \A o \in Thread : task'[o] \in TaskType
    BY <1>5, <1>6, <1>7, <2>1
  <2> QED  BY <1>1, <2>2
<1>9. task'[t].alone => \A o \in Thread : o # t => ~Changing(o)
  BY <1>2, <1>4
<1> QED  BY <1>4, <1>6, <1>7, <1>8, <1>9 DEF Turns

LEMMA HandlerWaits ==
  ASSUME TypeOK, NEW t \in Thread, task[t].pc # "free"
  PROVE  task[t].kind \in Kinds /\ task[t] \in Waiting(task[t].kind)
<1>1. task[t].kind \in Kinds /\ task[t] \in Handler(task[t].kind)
  BY Running
<1> QED  BY <1>1 DEF Waiting, Handler

\* Of a change to what is asked for, only a password or a mode is live at once.
LEMMA ChangeLiveDoes ==
  ASSUME TypeOK, NEW t \in Thread, ChangeLive(t)
  PROVE  /\ task[t].kind \in {"setup", "blocking"} /\ task[t].pc \in {"hash", "handle"}
         /\ task[t].change \in Passwords \cup Switches
         /\ config' = Asked(config, task[t].change) /\ config' \in Config
         /\ Valid(config) => Valid(config')
         /\ Turns(t, "truncate", config')
<1>1. /\ task[t].kind \in {"setup", "blocking"} /\ task[t].pc \in {"hash", "handle"}
      /\ task[t] \in Handler(task[t].kind) /\ task[t].kind \in Kinds
  BY Running DEF ChangeLive
<1>2. task[t].change \in Passwords \cup Switches
  BY <1>1 DEF Handler, Changes
<1>3. config' = Asked(config, task[t].change) /\ config \in Config
  BY DEF ChangeLive, TypeOK, ConfigTypeOK
<1>4. config' \in Config /\ (Valid(config) => Valid(config'))
  BY <1>2, <1>3, AskedTypes DEF Valid
<1>5. PICK c : c = config'
  OBVIOUS
<1>6. BeginChange(t, "truncate", c)
  BY <1>5 DEF ChangeLive, BeginChange
<1>7. "truncate" \in Programs[task[t].kind]
  BY <1>1, ProgramsAre
<1>8. Turns(t, "truncate", c)
  BY <1>1, <1>4, <1>5, <1>6, <1>7, ChangeTurns, HandlerWaits
<1> QED  BY <1>1, <1>2, <1>3, <1>4, <1>5, <1>8 DEF Turns

LEMMA MergeDoes ==
  ASSUME TypeOK, NEW t \in Thread, MergePatch(t)
  PROVE  LET merged == Merge(config, Strip(task[t].change)) IN
         /\ task[t].kind = "patch" /\ task[t].pc = "handle" /\ task[t].change \in Patches
         /\ merged \in Config
         /\ IF Valid(merged) THEN Turns(t, "truncate", merged) ELSE Frees(t)
<1> DEFINE merged == Merge(config, Strip(task[t].change))
<1>1. /\ task[t].kind = "patch" /\ task[t].pc = "handle" /\ "patch" \in Kinds
      /\ task[t] \in Handler("patch")
  BY Running DEF MergePatch
<1>2. task[t].change \in Patches
  BY <1>1 DEF Handler, Changes
<1>3. merged \in Config
  BY <1>2, StripTypes DEF TypeOK, ConfigTypeOK
<1>4. IF Valid(merged) THEN BeginChange(t, "truncate", merged) ELSE Reply(t)
  BY DEF MergePatch
<1>5. "truncate" \in Programs["patch"] /\ task[t] \in Waiting("patch")
  BY <1>1, ProgramsAre, HandlerWaits
<1> HIDE DEF merged
<1>6. ASSUME Valid(merged) PROVE Turns(t, "truncate", merged)
  BY <1>1, <1>3, <1>4, <1>5, <1>6, ChangeTurns
<1>7. ASSUME ~Valid(merged) PROVE Frees(t)
  BY <1>4, <1>7, Replies
<1> QED  BY <1>1, <1>2, <1>3, <1>6, <1>7 DEF merged

LEMMA SighupDoes ==
  ASSUME TypeOK, Sighup
  PROVE  \/ UNCHANGED task
         \/ task["sighup"] = Free /\ \E c \in Load(file) : c \in Config /\ Valid(c) /\ Turns("sighup", "swap", c)
<1>1. task["sighup"] \in Waiting("none") /\ "none" \in Kinds /\ "swap" \in Programs["none"] /\ "sighup" \in Thread
  BY FreeWaits, ProgramsAre DEF Sighup, Kinds, Thread
<1>2. CASE Load(file) = {}
  BY <1>2 DEF Sighup
<1>3. CASE Load(file) # {}
  <2>1. PICK c \in Load(file) : BeginChange("sighup", "swap", c)
    BY <1>3 DEF Sighup
  <2>2. c \in Config /\ Valid(c)
    BY LoadTypes DEF TypeOK, ConfigTypeOK
  <2> QED  BY <1>1, <2>1, <2>2, ChangeTurns DEF Sighup
<1> QED  BY <1>2, <1>3

LEMMA SweepDoes ==
  ASSUME TypeOK, CleanRows
  PROVE  /\ task' \in [Thread -> TaskType] /\ task'["hourly"].pc = "sweep" /\ task'["hourly"].kind = "none"
         /\ \A o \in Thread : o # "hourly" => task'[o] = task[o]
<1> DEFINE r == [Free EXCEPT !.pc = "sweep"]
<1>1. r \in Handler("none") /\ r.pc = "sweep" /\ r.kind = "none"
  BY FreeWaits, FreeIs, ProgramsAre DEF Waiting, Handler
<1>2. task' = [task EXCEPT !["hourly"] = r]
  BY DEF CleanRows, Goto, TypeOK
<1> HIDE DEF r
<1>3. r \in TaskType /\ "hourly" \in Thread
  BY <1>1, HandlerTypes DEF Kinds, Thread
<1> QED  BY <1>1, <1>2, <1>3, Becomes

\* A request other than a login comes in.
RequestBegins(r) ==
  \E s \in known :
    \/ BeginLogout(r, s)
    \/ \E p \in Patches : BeginGuarded(r, "patch", s, p)
    \/ \E m \in Switches : BeginGuarded(r, "blocking", s, m)
    \/ \E p \in Passwords : BeginSetup(r, s, p)

LEMMA RequestDoes ==
  ASSUME TypeOK, NEW r \in Request, RequestBegins(r)
  PROVE  /\ task[r] = Free /\ r \in Thread
         /\ UNCHANGED <<configVars, now, sessionVars, events, issued, known, history>>
         /\ requests' = requests + 1 /\ requests < MaxRequests
         /\ \E s \in known : \E kind \in {"logout", "setup", "patch", "blocking"} :
              \E pc \in {"lookup", "handle", "session", "hash"} : \E change \in Changes(kind) :
                Started(r, kind, pc, s, change)
<1>1. PICK s \in known : \/ BeginLogout(r, s)
                         \/ \E p \in Patches : BeginGuarded(r, "patch", s, p)
                         \/ \E m \in Switches : BeginGuarded(r, "blocking", s, m)
                         \/ \E p \in Passwords : BeginSetup(r, s, p)
  BY DEF RequestBegins
<1>2. Changes("logout") = {NoChange} /\ Changes("setup") = Passwords /\ Changes("patch") = Patches
      /\ Changes("blocking") = Switches
  BY DEF Changes
<1>3. \E kind \in {"logout", "setup", "patch", "blocking"} :
        \E pc \in {"lookup", "handle", "session", "hash"} : \E change \in Changes(kind) :
          pc \in Programs[kind] /\ Begin(r, kind, pc, s, change)
  <2>1. CASE BeginLogout(r, s)
    BY <2>1, <1>2, ProgramsAre DEF BeginLogout
  <2>2. ASSUME NEW p \in Patches, BeginGuarded(r, "patch", s, p)
        PROVE  \E pc \in {"lookup", "handle"} : Begin(r, "patch", pc, s, p)
    <3>1. CASE config.password = 0
      BY <2>2, <3>1 DEF BeginGuarded
    <3>2. CASE config.password # 0
      BY <2>2, <3>2 DEF BeginGuarded
    <3> QED  BY <3>1, <3>2
  <2>3. ASSUME NEW p \in Switches, BeginGuarded(r, "blocking", s, p)
        PROVE  \E pc \in {"lookup", "handle"} : Begin(r, "blocking", pc, s, p)
    <3>1. CASE config.password = 0
      BY <2>3, <3>1 DEF BeginGuarded
    <3>2. CASE config.password # 0
      BY <2>3, <3>2 DEF BeginGuarded
    <3> QED  BY <3>1, <3>2
  <2>4. ASSUME NEW p \in Passwords, BeginSetup(r, s, p)
        PROVE  \E pc \in {"session", "hash"} : Begin(r, "setup", pc, s, p)
    <3>1. CASE config.password = 0
      BY <2>4, <3>1 DEF BeginSetup
    <3>2. CASE config.password # 0
      BY <2>4, <3>2 DEF BeginSetup
    <3> QED  BY <3>1, <3>2
  <2>5. CASE \E p \in Patches : BeginGuarded(r, "patch", s, p)
    BY <1>2, <2>2, <2>5, ProgramsAre
  <2>6. CASE \E p \in Switches : BeginGuarded(r, "blocking", s, p)
    BY <1>2, <2>3, <2>6, ProgramsAre
  <2>7. CASE \E p \in Passwords : BeginSetup(r, s, p)
    BY <1>2, <2>4, <2>7, ProgramsAre
  <2> QED  BY <1>1, <2>1, <2>5, <2>6, <2>7
<1>a. PICK kind \in {"logout", "setup", "patch", "blocking"} :
        \E pc \in {"lookup", "handle", "session", "hash"} : \E change \in Changes(kind) :
          pc \in Programs[kind] /\ Begin(r, kind, pc, s, change)
  BY <1>3
<1>4. PICK pc \in {"lookup", "handle", "session", "hash"}, change \in Changes(kind) :
        pc \in Programs[kind] /\ Begin(r, kind, pc, s, change)
  BY <1>a
<1>5. s \in 0..MaxSid /\ kind \in Kinds
  <2>1. known \subseteq 1..issued /\ issued \in 1..MaxSid /\ MaxSid \in Nat
    BY SessionsAssumption DEF TypeOK
  <2> QED  BY <2>1 DEF Kinds
<1>6. Started(r, kind, pc, s, change) /\ task[r] = Free
  BY <1>4, <1>5, BeginStarts
<1>7. /\ UNCHANGED <<configVars, now, sessionVars, events, issued, known, history>>
      /\ requests' = requests + 1 /\ requests < MaxRequests
  BY <1>4 DEF Begin
<1> QED  BY <1>6, <1>7 DEF Thread

LEMMA LoginDoes ==
  ASSUME TypeOK, NEW r \in Request, NEW c \in Client, BeginLogin(r, c)
  PROVE  /\ r \in Thread
         /\ \/ ~Allowed(c) /\ UNCHANGED task
            \/ Allowed(c) /\ \E pc \in {"create", "verify"} : Started(r, "login", pc, 0, NoChange)
<1> DEFINE pc == IF config.password = 0 THEN "create" ELSE "verify"
           y == [Free EXCEPT !.kind = "login", !.client = c, !.pc = pc]
           Loose == [pc : Programs["login"] \cup {"free"}, kind : {"login", "none"}, sid : 0..MaxSid,
                     at : 0..MaxTime, found : 0..(MaxTime + Timeout), client : Client,
                     change : {NoChange}, content : Config, alone : BOOLEAN]
<1>0. pc \in {"create", "verify"} /\ pc \in Programs["login"] /\ "login" \in Kinds
  BY ProgramsAre DEF Kinds
<1>1. 0 \in 0..MaxTime /\ 0 \in 0..(MaxTime + Timeout) /\ 0 \in 0..MaxSid
  BY SessionsAssumption
<1>2. Free \in Loose
  BY <1>1, FreeRecord, DefaultTypes
<1> HIDE DEF pc
<1>3. /\ y \in Loose /\ y.kind = "login" /\ y.pc = pc /\ y.sid = Free.sid /\ y.at = Free.at
      /\ y.change = Free.change
  BY <1>0, <1>2
<1>4. Changes("login") = {NoChange}
  BY DEF Changes
<1>5. r \in Thread
  BY DEF Thread
<1>6. CASE ~Allowed(c)
  BY <1>5, <1>6 DEF BeginLogin
<1>7. CASE Allowed(c)
  <2>1. task' = [task EXCEPT ![r] = y]
    BY <1>7 DEF BeginLogin, pc
  <2> HIDE DEF y
  <2>2. y \in Handler("login")
    BY <1>0, <1>3, <1>4 DEF Handler
  <2>3. y \in TaskType
    BY <1>0, <2>2, HandlerTypes
  <2>4. Started(r, "login", pc, 0, NoChange)
    BY <1>3, <1>5, <2>1, <2>3, FreeIs, Becomes DEF Started
  <2> QED  BY <1>0, <1>5, <1>7, <2>4
<1> QED  BY <1>6, <1>7

-----------------------------------------------------------------------------
(* Type correctness.                                                       *)

Old(c) == {i \in DOMAIN attempts[c] : attempts[c][i] <= now - Window}

LEMMA OldCounts ==
  ASSUME TypeOK, NEW c \in Client
  PROVE  Cardinality(Old(c)) \in 0..Len(attempts[c]) /\ IsFiniteSet(Old(c))
<1>1. attempts[c] \in Seq(Time)
  BY DEF TypeOK, SessionTypeOK
<1>2. Len(attempts[c]) \in Nat /\ DOMAIN attempts[c] = 1..Len(attempts[c])
  BY <1>1
<1>3. Old(c) \subseteq 1..Len(attempts[c])
  BY <1>2 DEF Old
<1>4. IsFiniteSet(1..Len(attempts[c])) /\ Cardinality(1..Len(attempts[c])) = Len(attempts[c])
  BY <1>2, FS_Interval
<1>5. /\ Cardinality(Old(c)) <= Cardinality(1..Len(attempts[c])) /\ IsFiniteSet(Old(c))
      /\ Cardinality(Old(c)) \in Nat
  BY <1>3, <1>4, FS_Subset, FS_CardinalityType
<1> QED  BY <1>2, <1>4, <1>5

\* The attempts that are not old, by their places.
LEMMA RecentIs ==
  ASSUME TypeOK, NEW c \in Client
  PROVE  LET k == Cardinality(Old(c)) IN
         /\ Recent(c) \in Seq(Time) /\ Len(Recent(c)) = Len(attempts[c]) - k
         /\ \A i \in 1..(Len(attempts[c]) - k) : Recent(c)[i] = attempts[c][k + i]
<1> DEFINE k == Cardinality(Old(c))
           s == attempts[c]
<1>1. s \in Seq(Time) /\ k \in 0..Len(s) /\ Len(s) \in Nat
  BY OldCounts DEF TypeOK, SessionTypeOK
<1>2. Recent(c) = SubSeq(s, k + 1, Len(s))
  BY DEF Recent, Old
<1> HIDE DEF k, s
<1>3. \A i \in (k + 1)..Len(s) : s[i] \in Time
  BY <1>1
<1>4. /\ SubSeq(s, k + 1, Len(s)) \in Seq(Time)
      /\ Len(SubSeq(s, k + 1, Len(s))) = Len(s) - k
      /\ \A i \in 1..(Len(s) - k) : SubSeq(s, k + 1, Len(s))[i] = s[k + i]
  BY <1>1, <1>3
<1> QED  BY <1>2, <1>4 DEF k, s

\* Numbers and configurations that a step leaves alone keep their types.
Scalars ==
  /\ requests \in 0..MaxRequests /\ events \in 0..MaxEvents
  /\ expected \in Config /\ settled \in BOOLEAN
  /\ guesses \in [Client -> Seq(Time)]

LEMMA TypeFrame ==
  ASSUME TypeOK, task' \in [Thread -> TaskType], ConfigTypeOK', SessionTypeOK', Scalars',
         UNCHANGED <<issued, known, ended, lifetime>>
  PROVE  TypeOK'
BY DEF TypeOK, Scalars, TaskType

LEMMA TypeParts == TypeOK => ConfigTypeOK /\ SessionTypeOK /\ Scalars /\ task \in [Thread -> TaskType]
BY DEF TypeOK, Scalars, TaskType

LEMMA SessionTypeKept ==
  ASSUME TypeOK, UNCHANGED <<now, sessionVars>>
  PROVE  SessionTypeOK'
BY DEF TypeOK, SessionTypeOK, sessionVars

LEMMA ConfigTypeKept ==
  ASSUME TypeOK, UNCHANGED configVars
  PROVE  ConfigTypeOK'
BY DEF TypeOK, ConfigTypeOK, configVars

\* Most steps of a handler leave everything else alone.
LEMMA TaskStepTypes ==
  ASSUME TypeOK, task' \in [Thread -> TaskType],
         UNCHANGED <<configVars, now, sessionVars, counts, history>>
  PROVE  TypeOK'
BY TypeFrame, TypeParts, SessionTypeKept, ConfigTypeKept DEF Scalars, counts, history

\* So do those that set or clear entries of the table or of the cache.
LEMMA SessionStepTypes ==
  ASSUME TypeOK, task' \in [Thread -> TaskType],
         rows' \in [Sid -> 0..(MaxTime + Timeout)], cached' \in [Sid -> 0..(MaxTime + Timeout)],
         UNCHANGED <<configVars, now, attempts, counts, history>>
  PROVE  TypeOK'
<1>1. SessionTypeOK'
  BY DEF TypeOK, SessionTypeOK
<1> QED  BY <1>1, TypeFrame, TypeParts, ConfigTypeKept DEF Scalars, counts, history

LEMMA SettingTypes ==
  ASSUME TypeOK, NEW s, NEW expires \in 0..(MaxTime + Timeout)
  PROVE  /\ SetRow(s, expires) => rows' \in [Sid -> 0..(MaxTime + Timeout)]
         /\ SetCached(s, expires) => cached' \in [Sid -> 0..(MaxTime + Timeout)]
         /\ rows \in [Sid -> 0..(MaxTime + Timeout)] /\ cached \in [Sid -> 0..(MaxTime + Timeout)]
         /\ 0 \in 0..(MaxTime + Timeout)
<1> DEFINE Expiry == 0..(MaxTime + Timeout)
<1>1. 0 \in Expiry
  BY SessionsAssumption
<1>2. rows \in [Sid -> Expiry] /\ cached \in [Sid -> Expiry] /\ expires \in Expiry
  BY DEF TypeOK, SessionTypeOK
<1> HIDE DEF Expiry
<1>3. SetRow(s, expires) => rows' \in [Sid -> Expiry]
  BY <1>2 DEF SetRow
<1>4. SetCached(s, expires) => cached' \in [Sid -> Expiry]
  BY <1>2 DEF SetCached
<1> QED  BY <1>1, <1>2, <1>3, <1>4 DEF Expiry

LEMMA ClearingTypes ==
  ASSUME TypeOK, NEW s
  PROVE  /\ SetRow(s, 0) => rows' \in [Sid -> 0..(MaxTime + Timeout)]
         /\ SetCached(s, 0) => cached' \in [Sid -> 0..(MaxTime + Timeout)]
         /\ UNCHANGED rows => rows' \in [Sid -> 0..(MaxTime + Timeout)]
         /\ UNCHANGED cached => cached' \in [Sid -> 0..(MaxTime + Timeout)]
<1>1. 0 \in 0..(MaxTime + Timeout)
  BY SessionsAssumption
<1> QED  BY <1>1, SettingTypes

\* The end of a change.
LEMMA EndDoes ==
  ASSUME TypeOK, NEW t \in Thread, task[t].pc \in {"write", "apply"}, config' \in Config, EndChange(t)
  PROVE  /\ Frees(t) /\ UNCHANGED <<ended, lifetime, guesses>>
         /\ expected' \in Config /\ settled' \in BOOLEAN
         /\ settled' => task[t].alone /\ Kept(t)
         /\ task[t].kind \in {"setup", "blocking"} =>
              expected' = IF settled' /\ settled THEN Asked(expected, task[t].change) ELSE config'
         /\ task[t].kind = "patch" =>
              expected' = IF settled' /\ settled THEN Merge(expected, Strip(task[t].change)) ELSE config'
<1>1. /\ task[t].kind \in {"setup", "patch", "blocking"} /\ task[t].kind \in Kinds
      /\ task[t] \in Handler(task[t].kind)
  BY Running
<1>2. /\ task[t].kind = "patch" => task[t].change \in Patches
      /\ task[t].kind # "patch" => task[t].change \in Passwords \cup Switches
  BY <1>1 DEF Handler, Changes
<1>3. Frees(t) /\ UNCHANGED <<ended, lifetime, guesses>>
  BY Replies DEF EndChange
<1>4. settled' = (task[t].alone /\ Kept(t))
  BY DEF EndChange
<1>5. expected \in Config /\ settled \in BOOLEAN
  BY DEF TypeOK
<1>6. CASE task[t].kind = "patch"
  <2>1. expected' = IF settled' /\ settled THEN Asked(expected, Strip(task[t].change)) ELSE config'
    BY <1>6 DEF EndChange, Strip
  <2>2. Asked(expected, Strip(task[t].change)) = Merge(expected, Strip(task[t].change))
    BY <1>2, <1>5, <1>6, AskedPatch
  <2>3. Merge(expected, Strip(task[t].change)) \in Config
    BY <1>2, <1>5, <1>6, StripTypes
  <2> QED  BY <1>3, <1>4, <1>6, <2>1, <2>2, <2>3
<1>7. CASE task[t].kind # "patch"
  <2>1. expected' = IF settled' /\ settled THEN Asked(expected, task[t].change) ELSE config'
    BY <1>7 DEF EndChange
  <2>2. Asked(expected, task[t].change) \in Config
    BY <1>2, <1>5, <1>7, AskedTypes
  <2> QED  BY <1>1, <1>3, <1>4, <1>7, <2>1, <2>2
<1> QED  BY <1>6, <1>7

LEMMA TypeStepSession ==
  ASSUME TypeOK, SessionInv, NEW t \in Request,
         \/ Lookup(t) \/ Evict(t) \/ Fetch(t) \/ Expire(t) \/ Uncache(t) \/ Insert(t)
         \/ DeleteRow(t) \/ Forget(t)
         \/ \E right \in BOOLEAN : Verify(t, right)
         \/ ReadRow(t) \/ CheckSession(t)
  PROVE  TypeOK'
<1>0. t \in Thread /\ Ids(t)
  BY DEF Thread, SessionInv, ThreadFits
<1>1. CASE Lookup(t)
  <2>1. task' \in [Thread -> TaskType]
    BY <1>0, <1>1, LookupDoes DEF Walks, Advances
  <2> QED  BY <1>1, <2>1, TaskStepTypes DEF Lookup
<1>2. CASE Evict(t)
  <2>1. task' \in [Thread -> TaskType]
    BY <1>0, <1>2, EvictDoes DEF Walks, Advances
  <2>2. SetCached(task[t].sid, 0)
    BY <1>2 DEF Evict
  <2>3. rows' \in [Sid -> 0..(MaxTime + Timeout)] /\ cached' \in [Sid -> 0..(MaxTime + Timeout)]
    BY <1>2, <2>2, ClearingTypes DEF Evict
  <2> QED  BY <1>2, <2>1, <2>3, SessionStepTypes DEF Evict
<1>3. CASE Fetch(t)
  <2>1. task' \in [Thread -> TaskType]
    BY <1>0, <1>3, FetchDoes DEF Walks, Advances, Frees
  <2> QED  BY <1>3, <2>1, TaskStepTypes DEF Fetch
<1>4. CASE Expire(t)
  <2>1. task' \in [Thread -> TaskType]
    BY <1>0, <1>4, ExpireDoes DEF Walks, Advances
  <2>2. SetRow(task[t].sid, 0)
    BY <1>4 DEF Expire
  <2>3. rows' \in [Sid -> 0..(MaxTime + Timeout)] /\ cached' \in [Sid -> 0..(MaxTime + Timeout)]
    BY <1>4, <2>2, ClearingTypes DEF Expire
  <2> QED  BY <1>4, <2>1, <2>3, SessionStepTypes DEF Expire
<1>5. CASE Uncache(t)
  <2>1. Frees(t)
    BY <1>0, <1>5, Replies DEF Uncache
  <2>2. SetCached(task[t].sid, 0)
    BY <1>5 DEF Uncache
  <2>3. rows' \in [Sid -> 0..(MaxTime + Timeout)] /\ cached' \in [Sid -> 0..(MaxTime + Timeout)]
    BY <1>5, <2>2, ClearingTypes DEF Uncache
  <2> QED  BY <1>5, <2>1, <2>3, SessionStepTypes DEF Uncache, Frees
<1>6. CASE Insert(t)
  <2>1. task[t].found \in 0..(MaxTime + Timeout)
    BY <1>0, <1>6, Running DEF Insert, Handler
  <2>2. task' \in [Thread -> TaskType]
    BY <1>0, <1>6, InsertDoes DEF Walks, Advances
  <2>3. cached' \in [Sid -> 0..(MaxTime + Timeout)] /\ rows' \in [Sid -> 0..(MaxTime + Timeout)]
    BY <1>6, <2>1, SettingTypes DEF Insert
  <2> QED  BY <1>6, <2>2, <2>3, SessionStepTypes DEF Insert
<1>7. CASE DeleteRow(t)
  <2>1. task' \in [Thread -> TaskType]
    BY <1>0, <1>7, DeleteDoes DEF Walks, Advances
  <2>2. SetRow(task[t].sid, 0)
    BY <1>7 DEF DeleteRow
  <2>3. rows' \in [Sid -> 0..(MaxTime + Timeout)] /\ cached' \in [Sid -> 0..(MaxTime + Timeout)]
    BY <1>7, <2>2, ClearingTypes DEF DeleteRow
  <2> QED  BY <1>7, <2>1, <2>3, SessionStepTypes DEF DeleteRow
<1>8. CASE Forget(t)
  <2>1. Frees(t)
    BY <1>0, <1>8, Replies DEF Forget
  <2>2. task[t].sid \in known
    BY <1>0, <1>8, Running DEF Forget, Ids
  <2>3. ended' \subseteq known
    BY <1>8, <2>2 DEF Forget, LoggedOut, TypeOK
  <2>4. SessionTypeOK'
    BY <1>8, ClearingTypes DEF Forget, TypeOK, SessionTypeOK
  <2>5. ConfigTypeOK'
    BY <1>8, ConfigTypeKept DEF Forget
  <2> QED  BY <1>8, <2>1, <2>3, <2>4, <2>5 DEF Forget, TypeOK, Frees, TaskType, counts
<1>9. CASE \E right \in BOOLEAN : Verify(t, right)
  <2>1. PICK right \in BOOLEAN : Verify(t, right)
    BY <1>9
  <2>2. task' \in [Thread -> TaskType]
    BY <1>0, <2>1, VerifyDoes DEF Walks, Advances, Frees
  <2> QED  BY <2>1, <2>2, TaskStepTypes DEF Verify
<1>10. CASE ReadRow(t)
  <2>1. task' \in [Thread -> TaskType]
    BY <1>0, <1>10, ReadDoes DEF Walks, Advances, Frees
  <2> QED  BY <1>10, <2>1, TaskStepTypes DEF ReadRow
<1>11. CASE CheckSession(t)
  <2>1. task' \in [Thread -> TaskType]
    BY <1>0, <1>11, CheckDoes DEF Walks, Advances, Frees
  <2>2. rows' \in [Sid -> 0..(MaxTime + Timeout)] /\ cached' \in [Sid -> 0..(MaxTime + Timeout)]
    BY <1>11, ClearingTypes DEF CheckSession
  <2> QED  BY <1>11, <2>1, <2>2, SessionStepTypes DEF CheckSession
<1> QED  BY <1>1, <1>2, <1>3, <1>4, <1>5, <1>6, <1>7, <1>8, <1>9, <1>10, <1>11

LEMMA RequestCount ==
  ASSUME NEW n \in 0..MaxRequests, n < MaxRequests
  PROVE  n + 1 \in 0..MaxRequests
BY ManagementAssumption

LEMMA TypeStepLogin ==
  ASSUME TypeOK, SessionInv, NEW t \in Request,
         \/ \E c \in Client : BeginLogin(t, c)
         \/ RequestBegins(t) \/ CreateRow(t) \/ CacheSession(t)
  PROVE  TypeOK'
<1>0. t \in Thread /\ Ids(t)
  BY DEF Thread, SessionInv, ThreadFits
<1>a. now \in Time /\ now + Timeout \in 0..(MaxTime + Timeout)
  BY SessionsAssumption DEF TypeOK, SessionTypeOK, Time
<1>1. ASSUME NEW c \in Client, BeginLogin(t, c)
      PROVE  TypeOK'
  <2>1. task' \in [Thread -> TaskType]
    <3>1. CASE UNCHANGED task
      BY <3>1, TypeParts
    <3>2. CASE \E pc \in {"create", "verify"} : Started(t, "login", pc, 0, NoChange)
      BY <3>2 DEF Started
    <3> QED  BY <1>1, <3>1, <3>2, LoginDoes
  <2>2. Recent(c) \in Seq(Time) /\ Append(Recent(c), now) \in Seq(Time)
    BY <1>a, RecentIs
  <2>3. attempts' \in [Client -> Seq(Time)]
    BY <1>1, <2>2 DEF BeginLogin, CheckAttempt, TypeOK, SessionTypeOK
  <2>4. SessionTypeOK'
    BY <1>1, <2>3 DEF BeginLogin, TypeOK, SessionTypeOK
  <2>5. guesses' \in [Client -> Seq(Time)]
    <3>1. guesses[c] \in Seq(Time)
      BY DEF TypeOK
    <3>2. Append(guesses[c], now) \in Seq(Time)
      BY <1>a, <3>1
    <3>3. guesses' = guesses \/ guesses' = [guesses EXCEPT ![c] = Append(guesses[c], now)]
      BY <1>1 DEF BeginLogin
    <3> QED  BY <3>2, <3>3 DEF TypeOK
  <2>6. requests' \in 0..MaxRequests
    BY <1>1, RequestCount DEF BeginLogin, TypeOK
  <2>7. ConfigTypeOK'
    BY <1>1, ConfigTypeKept DEF BeginLogin
  <2> QED  BY <1>1, <2>1, <2>4, <2>5, <2>6, <2>7, TypeFrame, TypeParts DEF BeginLogin, Scalars
<1>2. CASE RequestBegins(t)
  <2>1. task' \in [Thread -> TaskType]
    BY <1>2, RequestDoes DEF Started
  <2>2. requests' \in 0..MaxRequests
    BY <1>2, RequestDoes, RequestCount DEF TypeOK
  <2>3. UNCHANGED <<configVars, now, sessionVars, events, issued, known, history>>
    BY <1>2, RequestDoes
  <2> QED  BY <2>1, <2>2, <2>3, TypeFrame, TypeParts, SessionTypeKept, ConfigTypeKept DEF Scalars, history
<1>3. CASE CreateRow(t)
  <2>1. task' \in [Thread -> TaskType] /\ issued' = issued + 1 /\ issued' \in Sid
    BY <1>0, <1>3, CreateDoes DEF Walks, Advances
  <2>2. rows' \in [Sid -> 0..(MaxTime + Timeout)]
    BY <1>3, <1>a DEF CreateRow, SetRow, TypeOK, SessionTypeOK
  <2>3. SessionTypeOK'
    BY <1>3, <2>2 DEF CreateRow, TypeOK, SessionTypeOK
  <2>4. lifetime' \in [Sid -> 0..(MaxTime + Timeout)]
    BY <1>3, <1>a DEF CreateRow, TypeOK
  <2>5. issued' \in 1..MaxSid /\ known' \subseteq 1..issued'
    BY <1>3, <2>1 DEF CreateRow, TypeOK, Sid
  <2>6. ConfigTypeOK'
    BY <1>3, ConfigTypeKept DEF CreateRow
  <2> QED  BY <1>3, <2>1, <2>3, <2>4, <2>5, <2>6 DEF CreateRow, TypeOK, TaskType
<1>4. CASE CacheSession(t)
  <2>1. Frees(t)
    BY <1>0, <1>4, Replies DEF CacheSession
  <2>2. task[t].found \in 0..(MaxTime + Timeout)
    BY <1>0, <1>4, Running DEF CacheSession, Handler
  <2>3. cached' \in [Sid -> 0..(MaxTime + Timeout)]
    BY <1>4, <2>2, SettingTypes DEF CacheSession
  <2>4. attempts' \in [Client -> Seq(Time)] /\ guesses' \in [Client -> Seq(Time)]
    <3>1. <<>> \in Seq(Time)
      OBVIOUS
    <3> QED  BY <1>4, <3>1 DEF CacheSession, RecordSuccess, TypeOK, SessionTypeOK
  <2>5. SessionTypeOK'
    BY <1>4, <2>3, <2>4 DEF CacheSession, TypeOK, SessionTypeOK
  <2>6. known' \subseteq 1..issued' /\ ended' \subseteq known'
    BY <1>0, <1>4 DEF CacheSession, Ids, TypeOK
  <2>7. ConfigTypeOK'
    BY <1>4, ConfigTypeKept DEF CacheSession
  <2> QED  BY <1>4, <2>1, <2>4, <2>5, <2>6, <2>7 DEF CacheSession, TypeOK, Frees, TaskType
<1> QED  BY <1>1, <1>2, <1>3, <1>4

LEMMA EventCount ==
  ASSUME TypeOK, events < MaxEvents, events' = events + 1
  PROVE  events' \in 0..MaxEvents
BY ManagementAssumption DEF TypeOK

LEMMA FileTypes == \A c \in Config : Whole(c) \in File /\ Empty \in File /\ Garbled \in File
BY DEF File

\* The content a handler carries is a configuration.
LEMMA ContentIs ==
  ASSUME TypeOK, NEW t \in Thread
  PROVE  task[t].content \in Config /\ task[t].alone \in BOOLEAN
<1>1. CASE task[t] = Free
  BY <1>1, FreeIs, DefaultTypes
<1>2. CASE task[t].kind \in Kinds /\ task[t] \in Handler(task[t].kind)
  BY <1>2 DEF Handler
<1> QED  BY <1>1, <1>2, HandlerOf

LEMMA TypeStepChange ==
  ASSUME TypeOK, NEW t \in Request,
         \/ ChangeLive(t) \/ MergePatch(t) \/ OpenFile(t) \/ WriteFile(t) \/ WriteFails(t) \/ ApplyPatch(t)
         \/ ClientGone(t)
  PROVE  TypeOK'
<1>0. t \in Thread
  BY DEF Thread
<1>1. CASE ChangeLive(t)
  <2>1. task' \in [Thread -> TaskType] /\ config' \in Config
    BY <1>0, <1>1, ChangeLiveDoes DEF Turns
  <2>2. ConfigTypeOK'
    BY <1>1, <2>1 DEF ChangeLive, TypeOK, ConfigTypeOK
  <2>3. SessionTypeOK'
    BY <1>1, SessionTypeKept DEF ChangeLive
  <2> QED  BY <1>1, <2>1, <2>2, <2>3, TypeFrame, TypeParts DEF ChangeLive, Scalars, counts, history
<1>2. CASE MergePatch(t)
  <2>1. task' \in [Thread -> TaskType]
    BY <1>0, <1>2, MergeDoes DEF Turns, Frees
  <2> QED  BY <1>2, <2>1, TaskStepTypes DEF MergePatch
<1>3. CASE OpenFile(t)
  <2>1. task' \in [Thread -> TaskType]
    BY <1>0, <1>3, OpenDoes DEF Walks, Advances
  <2>2. ConfigTypeOK'
    BY <1>3, FileTypes, DefaultTypes DEF OpenFile, Truncate, TypeOK, ConfigTypeOK
  <2>3. SessionTypeOK'
    BY <1>3, SessionTypeKept DEF OpenFile
  <2> QED  BY <1>3, <2>1, <2>2, <2>3, TypeFrame, TypeParts DEF OpenFile, Scalars, counts, history
<1>4. CASE WriteFile(t)
  <2>1. task' \in [Thread -> TaskType]
    BY <1>0, <1>4, WriteDoes DEF Walks, Advances, Frees
  <2>2. ConfigTypeOK'
    <3>1. file' \in {Whole(task[t].content), Garbled}
      BY <1>4 DEF WriteFile, WriteOut
    <3>2. file' \in File
      BY <1>0, <3>1, ContentIs, FileTypes
    <3> QED  BY <1>4, <3>2 DEF WriteFile, TypeOK, ConfigTypeOK
  <2>3. SessionTypeOK'
    BY <1>4, SessionTypeKept DEF WriteFile
  <2>4. CASE task[t].kind = "patch"
    BY <1>4, <2>1, <2>2, <2>3, <2>4, TypeFrame, TypeParts DEF WriteFile, Scalars, counts, history
  <2>5. CASE task[t].kind # "patch"
    <3>1. EndChange(t) /\ task[t].pc \in {"write", "apply"} /\ config' \in Config
      BY <1>4, <2>5 DEF WriteFile, TypeOK, ConfigTypeOK
    <3>2. expected' \in Config /\ settled' \in BOOLEAN /\ UNCHANGED <<ended, lifetime, guesses>>
      BY <1>0, <3>1, EndDoes
    <3> QED  BY <1>4, <2>1, <2>2, <2>3, <3>2, TypeFrame, TypeParts DEF WriteFile, Scalars, counts
  <2> QED  BY <2>4, <2>5
<1>5. CASE WriteFails(t)
  <2>1. task' \in [Thread -> TaskType]
    BY <1>0, <1>5, Replies DEF WriteFails, Frees
  <2>2. events' \in 0..MaxEvents
    BY <1>5, EventCount DEF WriteFails
  <2>3. SessionTypeOK' /\ ConfigTypeOK'
    BY <1>5, SessionTypeKept, ConfigTypeKept DEF WriteFails
  <2> QED  BY <1>5, <2>1, <2>2, <2>3, TypeFrame, TypeParts DEF WriteFails, Scalars
<1>6. CASE ApplyPatch(t)
  <2>1. config' = task[t].content /\ config' \in Config
    BY <1>0, <1>6, ContentIs DEF ApplyPatch
  <2>2. EndChange(t) /\ task[t].pc \in {"write", "apply"}
    BY <1>6 DEF ApplyPatch
  <2>3. /\ Frees(t) /\ expected' \in Config /\ settled' \in BOOLEAN
        /\ UNCHANGED <<ended, lifetime, guesses>>
    BY <1>0, <2>1, <2>2, EndDoes
  <2>4. dhcpConfig' \in BOOLEAN
    BY <1>6, <2>1 DEF ApplyPatch, TypeOK, ConfigTypeOK, Config
  <2>5. ConfigTypeOK'
    BY <1>6, <2>1, <2>4 DEF ApplyPatch, TypeOK, ConfigTypeOK
  <2>6. SessionTypeOK'
    BY <1>6, SessionTypeKept DEF ApplyPatch
  <2> QED  BY <1>6, <2>3, <2>5, <2>6, TypeFrame, TypeParts DEF ApplyPatch, Frees, Scalars, counts
<1>7. CASE ClientGone(t)
  <2>1. task' \in [Thread -> TaskType]
    BY <1>0, <1>7, Replies DEF ClientGone, Frees
  <2>2. SessionTypeOK' /\ ConfigTypeOK'
    BY <1>7, SessionTypeKept, ConfigTypeKept DEF ClientGone
  <2>3. settled' \in BOOLEAN
    BY <1>7 DEF ClientGone
  <2> QED  BY <1>7, <2>1, <2>2, <2>3, TypeFrame, TypeParts DEF ClientGone, Scalars, counts
<1> QED  BY <1>1, <1>2, <1>3, <1>4, <1>5, <1>6, <1>7

LEMMA RemovalTypes ==
  ASSUME TypeOK, NEW s \in Sid
  PROVE  /\ RemoveExpiredRows => rows' \in [Sid -> 0..(MaxTime + Timeout)] /\ rows'[s] \in {rows[s], 0}
         /\ RemoveExpiredCached => cached' \in [Sid -> 0..(MaxTime + Timeout)] /\ cached'[s] \in {cached[s], 0}
<1> DEFINE Expiry == 0..(MaxTime + Timeout)
<1>1. 0 \in Expiry
  BY SessionsAssumption
<1>2. rows \in [Sid -> Expiry] /\ cached \in [Sid -> Expiry]
  BY DEF TypeOK, SessionTypeOK
<1> HIDE DEF Expiry
<1>3. RemoveExpiredRows => rows' \in [Sid -> Expiry] /\ rows'[s] \in {rows[s], 0}
  BY <1>1, <1>2 DEF RemoveExpiredRows
<1>4. RemoveExpiredCached => cached' \in [Sid -> Expiry] /\ cached'[s] \in {cached[s], 0}
  BY <1>1, <1>2 DEF RemoveExpiredCached
<1> QED  BY <1>3, <1>4 DEF Expiry

LEMMA TypeStepEvents ==
  ASSUME TypeOK,
         \/ \E c \in Edited : Edit(c)
         \/ Sighup \/ SwapConfig \/ CleanRows \/ CleanCache \/ Restart \/ Tick
  PROVE  TypeOK'
<1>0. "sighup" \in Thread /\ "hourly" \in Thread
  BY DEF Thread
<1>1. ASSUME NEW c \in Edited, Edit(c)
      PROVE  TypeOK'
  <2>1. file' \in File
    BY <1>1, ManagementAssumption, FileTypes DEF Edit
  <2>2. events' \in 0..MaxEvents
    BY <1>1, EventCount DEF Edit, Event
  <2>3. SessionTypeOK'
    BY <1>1, SessionTypeKept DEF Edit
  <2>4. ConfigTypeOK'
    BY <1>1, <2>1 DEF Edit, TypeOK, ConfigTypeOK
  <2> QED  BY <1>1, <2>2, <2>3, <2>4, TypeFrame, TypeParts DEF Edit, Scalars
<1>2. CASE Sighup
  <2>1. task' \in [Thread -> TaskType]
    BY <1>2, SighupDoes, TypeParts DEF Turns
  <2>2. events' \in 0..MaxEvents
    BY <1>2, EventCount DEF Sighup, Event
  <2>3. SessionTypeOK' /\ ConfigTypeOK'
    BY <1>2, SessionTypeKept, ConfigTypeKept DEF Sighup
  <2> QED  BY <1>2, <2>1, <2>2, <2>3, TypeFrame, TypeParts DEF Sighup, Scalars, history
<1>3. CASE SwapConfig
  <2>1. task' \in [Thread -> TaskType]
    BY <1>0, <1>3, Replies DEF SwapConfig, Frees
  <2>2. config' \in Config /\ task["sighup"].alone \in BOOLEAN
    BY <1>0, <1>3, ContentIs DEF SwapConfig
  <2>3. ConfigTypeOK'
    BY <1>3, <2>2 DEF SwapConfig, TypeOK, ConfigTypeOK
  <2>4. SessionTypeOK'
    BY <1>3, SessionTypeKept DEF SwapConfig
  <2> QED  BY <1>3, <2>1, <2>2, <2>3, <2>4, TypeFrame, TypeParts DEF SwapConfig, Scalars, counts
<1>4. CASE CleanRows
  <2>1. task' \in [Thread -> TaskType]
    BY <1>4, SweepDoes
  <2>2. rows' \in [Sid -> 0..(MaxTime + Timeout)] /\ cached' \in [Sid -> 0..(MaxTime + Timeout)]
    <3>1. 1 \in Sid
      BY SessionsAssumption DEF Sid
    <3> QED  BY <1>4, <3>1, RemovalTypes, ClearingTypes DEF CleanRows
  <2> QED  BY <1>4, <2>1, <2>2, SessionStepTypes DEF CleanRows
<1>5. CASE CleanCache
  <2>1. task' \in [Thread -> TaskType]
    BY <1>0, <1>5, Replies DEF CleanCache, Frees
  <2>2. rows' \in [Sid -> 0..(MaxTime + Timeout)] /\ cached' \in [Sid -> 0..(MaxTime + Timeout)]
    <3>1. 1 \in Sid
      BY SessionsAssumption DEF Sid
    <3> QED  BY <1>5, <3>1, RemovalTypes, ClearingTypes DEF CleanCache
  <2> QED  BY <1>5, <2>1, <2>2, SessionStepTypes DEF CleanCache
<1>6. CASE Restart
  <2>1. PICK c \in Load(file) : config' = c /\ dhcpConfig' = c.dhcp /\ expected' = c
    BY <1>6 DEF Restart
  <2>2. c \in Config
    BY LoadTypes DEF TypeOK, ConfigTypeOK
  <2>3. ConfigTypeOK' /\ expected' \in Config
    BY <1>6, <2>1, <2>2 DEF Restart, TypeOK, ConfigTypeOK, Config
  <2>4. 0 \in 0..(MaxTime + Timeout) /\ <<>> \in Seq(Time)
    BY SessionsAssumption
  <2>5. SessionTypeOK' /\ guesses' \in [Client -> Seq(Time)]
    BY <1>6, <2>4 DEF Restart, TypeOK, SessionTypeOK
  <2>6. task' \in [Thread -> TaskType]
    BY <1>6 DEF Restart, TaskType
  <2>7. events' \in 0..MaxEvents /\ settled' \in BOOLEAN
    BY <1>6, EventCount DEF Restart, Event
  <2> QED  BY <1>6, <2>3, <2>5, <2>6, <2>7, TypeFrame, TypeParts DEF Restart, Scalars
<1>7. CASE Tick
  <2>1. SessionTypeOK'
    <3>1. now' \in 1..MaxTime
      BY <1>7, SessionsAssumption DEF Tick, TypeOK, SessionTypeOK
    <3> QED  BY <1>7, <3>1 DEF Tick, TypeOK, SessionTypeOK, sessionVars
  <2>2. ConfigTypeOK'
    BY <1>7, ConfigTypeKept DEF Tick
  <2> QED  BY <1>7, <2>1, <2>2, TypeFrame, TypeParts DEF Tick, Scalars, counts, history
<1> QED  BY <1>1, <1>2, <1>3, <1>4, <1>5, <1>6, <1>7

\* The steps of a request in four groups.
LEMMA RequestSteps ==
  ASSUME NEW r, RequestStep(r)
  PROVE  \/ (\E c \in Client : BeginLogin(r, c)) \/ RequestBegins(r) \/ CreateRow(r) \/ CacheSession(r)
         \/ Lookup(r) \/ Evict(r) \/ Fetch(r) \/ Expire(r) \/ Uncache(r) \/ Insert(r)
         \/ DeleteRow(r) \/ Forget(r) \/ (\E right \in BOOLEAN : Verify(r, right))
         \/ ReadRow(r) \/ CheckSession(r)
         \/ ChangeLive(r) \/ MergePatch(r) \/ OpenFile(r) \/ WriteFile(r) \/ WriteFails(r) \/ ApplyPatch(r)
         \/ ClientGone(r)
BY DEF RequestStep, RequestBegins

LEMMA TypeStep ==
  ASSUME TypeOK, SessionInv, [Next]_vars
  PROVE  TypeOK'
<1>1. ASSUME NEW r \in Request, RequestStep(r)
      PROVE  TypeOK'
  BY <1>1, RequestSteps, TypeStepSession, TypeStepLogin, TypeStepChange
<1>2. CASE UNCHANGED vars
  BY <1>2, TypeFrame, TypeParts, SessionTypeKept, ConfigTypeKept DEF vars, Scalars, counts, history
<1> QED  BY <1>1, <1>2, TypeStepEvents DEF Next

LEMMA TypeInit == Init => TypeOK
<1> SUFFICES ASSUME Init PROVE TypeOK
  OBVIOUS
<1>1. PICK p \in Password : file = Whole([Default EXCEPT !.password = p])
  BY DEF Init
<1>2. [Default EXCEPT !.password = p] \in Config
  BY DefaultTypes DEF Config
<1>3. file \in File
  BY <1>1, <1>2, FileTypes
<1>4. config \in Config
  BY <1>3, LoadTypes DEF Init
<1>5. ConfigTypeOK
  BY <1>3, <1>4 DEF Init, ConfigTypeOK, Config
<1>6. 0 \in 0..(MaxTime + Timeout) /\ now + Timeout \in 0..(MaxTime + Timeout) /\ <<>> \in Seq(Time)
  BY SessionsAssumption DEF Init
<1>7. rows \in [Sid -> 0..(MaxTime + Timeout)] /\ cached \in [Sid -> 0..(MaxTime + Timeout)]
  BY <1>6 DEF Init
<1>8. attempts \in [Client -> Seq(Time)] /\ now \in 1..MaxTime
  BY <1>6, SessionsAssumption DEF Init
<1>9. requests \in 0..MaxRequests /\ events \in 0..MaxEvents /\ issued \in 1..MaxSid /\ known \subseteq 1..issued
  BY SessionsAssumption, ManagementAssumption DEF Init
<1> QED  BY <1>4, <1>5, <1>7, <1>8, <1>9 DEF Init, TypeOK, SessionTypeOK

-----------------------------------------------------------------------------
(* Sessions.                                                               *)

Same(o) ==
  /\ task'[o].pc = task[o].pc /\ task'[o].kind = task[o].kind /\ task'[o].sid = task[o].sid
  /\ task'[o].at = task[o].at /\ task'[o].found = task[o].found

\* A thread that keeps its session if it is creating one.
Creates(o) ==
  task'[o].pc \in {"read", "cache"} => task[o].pc \in {"read", "cache"} /\ task'[o].sid = task[o].sid

\* A step that only removes entries, or caches one that fits.
LEMMA SessionsKept ==
  ASSUME TypeOK, SessionInv, RowsFit', UNCHANGED <<issued, known, ended, lifetime>>,
         \A s \in Sid : rows'[s] \in {rows[s], 0},
         \A o \in Thread : Same(o) \/ (ThreadFits(o)' /\ Creates(o))
  PROVE  SessionInv'
<1>1. ASSUME NEW o \in Thread
      PROVE  ThreadFits(o)' /\ Creates(o)
  <2>1. CASE Same(o)
    <3>1. Ids(o)' /\ Creates(o)
      BY <2>1 DEF Same, SessionInv, ThreadFits, Ids, Creates
    <3>2. task[o].pc = "forget" => task[o].sid \in Sid /\ rows[task[o].sid] = 0
      BY Running, SessionIs DEF SessionInv, ThreadFits
    <3>3. task'[o].pc = "forget" => rows'[task'[o].sid] = 0
      BY <2>1, <3>2 DEF Same
    <3> QED  BY <2>1, <3>1, <3>3 DEF Same, SessionInv, ThreadFits
  <2> QED  BY <2>1
<1>2. Unshared'
  BY <1>1 DEF Creates, SessionInv, Unshared
<1> QED  BY <1>1, <1>2 DEF SessionInv

LEMMA RowsRemoved ==
  ASSUME TypeOK, SessionInv, UNCHANGED <<issued, ended, lifetime>>,
         \A s \in Sid : rows'[s] \in {rows[s], 0} /\ cached'[s] \in {cached[s], 0}
  PROVE  RowsFit'
<1>1. \A s \in Sid : lifetime[s] \in Nat /\ rows[s] \in Nat /\ cached[s] \in Nat
  BY SessionsAssumption DEF TypeOK, SessionTypeOK
<1>2. \A s \in ended : s \in Sid
  BY SessionsAssumption DEF TypeOK, Sid
<1> QED  BY <1>1, <1>2 DEF SessionInv, RowsFit

\* A thread whose step is of no consequence for its session.
LEMMA Idle ==
  ASSUME NEW o \in Thread, Ids(o),
         task'[o] = Free \/ (task'[o].kind = task[o].kind /\ task'[o].sid = task[o].sid),
         task'[o].pc \in {"free", "fetch", "evict", "expire", "uncache", "create", "hash", "truncate",
                          "write", "apply", "swap", "sweep"},
         UNCHANGED known
  PROVE  ThreadFits(o)' /\ Creates(o)
BY FreeIs DEF ThreadFits, Ids, Creates

\* Clearing an entry of the table, or of the cache, or nothing.
LEMMA Clears ==
  ASSUME TypeOK, NEW s, SetRow(s, 0) \/ UNCHANGED rows, SetCached(s, 0) \/ UNCHANGED cached
  PROVE  \A x \in Sid : rows'[x] \in {rows[x], 0} /\ cached'[x] \in {cached[x], 0}
BY DEF TypeOK, SessionTypeOK, SetRow, SetCached

LEMMA SessionSteps ==
  ASSUME TypeOK, SessionInv, NEW t \in Request,
         \/ Lookup(t) \/ Evict(t) \/ Fetch(t) \/ Expire(t) \/ Uncache(t)
         \/ DeleteRow(t) \/ ReadRow(t) \/ CheckSession(t)
         \/ \E right \in BOOLEAN : Verify(t, right)
  PROVE  SessionInv'
<1>0. t \in Thread /\ ThreadFits(t) /\ Ids(t)
  BY DEF Thread, SessionInv, ThreadFits
<1>a. UNCHANGED <<issued, known, ended, lifetime>>
  BY DEF Lookup, Evict, Fetch, Expire, Uncache, DeleteRow, ReadRow, CheckSession, Verify, counts, history
<1>b. \A x \in Sid : rows'[x] \in {rows[x], 0} /\ cached'[x] \in {cached[x], 0}
  <2>1. SetRow(task[t].sid, 0) \/ UNCHANGED rows
    BY DEF Lookup, Evict, Fetch, Expire, Uncache, DeleteRow, ReadRow, CheckSession, Verify, sessionVars
  <2>2. SetCached(task[t].sid, 0) \/ UNCHANGED cached
    BY DEF Lookup, Evict, Fetch, Expire, Uncache, DeleteRow, ReadRow, CheckSession, Verify, sessionVars
  <2> QED  BY <2>1, <2>2, Clears
<1>c. RowsFit'
  BY <1>a, <1>b, RowsRemoved
<1>d. (\A o \in Thread : o # t => Same(o)) /\ ThreadFits(t)' /\ Creates(t)
  <2>1. CASE Lookup(t)
    <3>1. /\ task[t].sid \in Sid /\ task[t].sid \in known /\ cached[task[t].sid] <= lifetime[task[t].sid]
          /\ task[t].kind \in {"logout", "patch", "blocking"}
      BY <1>0, <2>1, Running, SessionIs DEF Lookup, Validating, SessionInv, RowsFit
    <3>2. CASE Walks(t, "fetch", task[t].sid, now, task[t].found) \/ Walks(t, "evict", task[t].sid, now, task[t].found)
      <4>1. \A o \in Thread : o # t => Same(o)
        BY <3>2 DEF Walks, Advances, Same
      <4> QED  BY <1>0, <1>a, <3>2, <4>1, Idle DEF Walks, Advances
    <3>3. CASE Reads(t) >= now /\ Walks(t, Accepted(t), task[t].sid, now, task[t].found)
      <4>1. \A o \in Thread : o # t => Same(o)
        BY <3>3 DEF Walks, Advances, Same
      <4>2. /\ task'[t].pc \in {"handle", "delete"} /\ task'[t].sid = task[t].sid /\ task'[t].at = now
            /\ task'[t].kind = task[t].kind
        BY <3>3 DEF Walks, Advances, Accepted
      <4>3. now <= lifetime[task[t].sid]
        <5>1. now \in Nat /\ cached[task[t].sid] \in Nat /\ lifetime[task[t].sid] \in Nat
          BY <3>1, SessionsAssumption DEF TypeOK, SessionTypeOK
        <5> QED  BY <3>1, <3>3, <5>1 DEF Reads
      <4>4. Ids(t)' /\ Creates(t)
        BY <1>0, <1>a, <4>2, <3>1 DEF Ids, Creates
      <4> QED  BY <1>a, <4>1, <4>2, <4>3, <4>4 DEF ThreadFits
    <3> QED  BY <1>0, <2>1, <3>2, <3>3, LookupDoes
  <2>2. CASE Evict(t)
    <3>1. Walks(t, "fetch", task[t].sid, task[t].at, task[t].found)
      BY <1>0, <2>2, EvictDoes
    <3>2. \A o \in Thread : o # t => Same(o)
      BY <3>1 DEF Walks, Advances, Same
    <3> QED  BY <1>0, <1>a, <3>1, <3>2, Idle DEF Walks, Advances
  <2>3. CASE Fetch(t)
    <3>1. CASE Frees(t)
      <4>1. \A o \in Thread : o # t => Same(o)
        BY <3>1 DEF Frees, Same
      <4> QED  BY <1>0, <1>a, <3>1, <4>1, Idle, FreeIs DEF Frees
    <3>2. CASE Walks(t, "expire", task[t].sid, task[t].at, task[t].found)
      <4>1. \A o \in Thread : o # t => Same(o)
        BY <3>2 DEF Walks, Advances, Same
      <4> QED  BY <1>0, <1>a, <3>2, <4>1, Idle DEF Walks, Advances
    <3>3. CASE RowOf(t) >= task[t].at /\ Walks(t, "insert", task[t].sid, task[t].at, RowOf(t))
      <4>1. \A o \in Thread : o # t => Same(o)
        BY <3>3 DEF Walks, Advances, Same
      <4>2. /\ task'[t].pc = "insert" /\ task'[t].sid = task[t].sid /\ task'[t].at = task[t].at
            /\ task'[t].kind = task[t].kind /\ task'[t].found = rows[task[t].sid]
        BY <3>3 DEF Walks, Advances, RowOf
      <4>3. task[t].sid \in Sid /\ rows[task[t].sid] <= lifetime[task[t].sid]
        BY <1>0, <2>3, Running, SessionIs DEF Fetch, Validating, SessionInv, RowsFit
      <4>4. task[t].sid \notin ended
        <5>1. rows[task[t].sid] # 0
          <6>1. CASE rows[task[t].sid] = 0
            <7>1. Frees(t)
              BY <2>3, <6>1, <1>0, Replies DEF Fetch
            <7> QED  BY <4>2, <7>1, FreeIs DEF Frees
          <6> QED  BY <6>1
        <5> QED  BY <5>1 DEF SessionInv, RowsFit
      <4>5. task[t].at <= rows[task[t].sid]
        <5>0. task[t].kind \in Kinds /\ task[t] \in Handler(task[t].kind)
          BY <1>0, <2>3, Running DEF Fetch
        <5>1. task[t].at \in Nat /\ rows[task[t].sid] \in Nat
          <6>1. task[t].at \in 0..MaxTime
            BY <5>0 DEF Handler
          <6>2. rows[task[t].sid] \in 0..(MaxTime + Timeout)
            BY <4>3 DEF TypeOK, SessionTypeOK
          <6> QED  BY <6>1, <6>2
        <5> QED  BY <3>3, <5>1 DEF RowOf
      <4>6. Ids(t)' /\ Creates(t)
        BY <1>0, <1>a, <4>2 DEF Ids, Creates
      <4> QED  BY <1>a, <4>1, <4>2, <4>3, <4>4, <4>5, <4>6 DEF ThreadFits
    <3> QED  BY <1>0, <2>3, <3>1, <3>2, <3>3, FetchDoes
  <2>4. CASE Expire(t)
    <3>1. Walks(t, "uncache", task[t].sid, task[t].at, task[t].found)
      BY <1>0, <2>4, ExpireDoes
    <3>2. \A o \in Thread : o # t => Same(o)
      BY <3>1 DEF Walks, Advances, Same
    <3> QED  BY <1>0, <1>a, <3>1, <3>2, Idle DEF Walks, Advances
  <2>5. CASE Uncache(t)
    <3>1. Frees(t)
      BY <1>0, <2>5, Replies DEF Uncache
    <3>2. \A o \in Thread : o # t => Same(o)
      BY <3>1 DEF Frees, Same
    <3> QED  BY <1>0, <1>a, <3>1, <3>2, Idle, FreeIs DEF Frees
  <2>6. CASE DeleteRow(t)
    <3>1. Walks(t, "forget", task[t].sid, task[t].at, task[t].found)
      BY <1>0, <2>6, DeleteDoes
    <3>2. \A o \in Thread : o # t => Same(o)
      BY <3>1 DEF Walks, Advances, Same
    <3>3. task[t].sid \in Sid
      BY <1>0, <2>6, Running, SessionIs DEF DeleteRow
    <3>4. rows'[task[t].sid] = 0
      BY <2>6, <3>3 DEF DeleteRow, SetRow, TypeOK, SessionTypeOK
    <3>5. task'[t].pc = "forget" /\ task'[t].sid = task[t].sid /\ task'[t].kind = task[t].kind
      BY <3>1 DEF Walks, Advances
    <3>6. Ids(t)' /\ Creates(t)
      BY <1>0, <1>a, <3>5 DEF Ids, Creates
    <3> QED  BY <3>2, <3>4, <3>5, <3>6 DEF ThreadFits
  <2>7. CASE ReadRow(t)
    <3>1. CASE Frees(t)
      <4>1. \A o \in Thread : o # t => Same(o)
        BY <3>1 DEF Frees, Same
      <4> QED  BY <1>0, <1>a, <3>1, <4>1, Idle, FreeIs DEF Frees
    <3>2. CASE Walks(t, "cache", task[t].sid, task[t].at, RowOf(t))
      <4>1. \A o \in Thread : o # t => Same(o)
        BY <3>2 DEF Walks, Advances, Same
      <4>2. /\ task'[t].pc = "cache" /\ task'[t].sid = task[t].sid
            /\ task'[t].kind = task[t].kind /\ task'[t].found = rows[task[t].sid]
        BY <3>2 DEF Walks, Advances, RowOf
      <4>3. task[t].sid \in (1..issued) \ known /\ task[t].pc = "read"
        BY <1>0, <2>7 DEF Ids, ReadRow
      <4>4. rows[task[t].sid] <= lifetime[task[t].sid]
        BY <4>3, SessionsAssumption DEF SessionInv, RowsFit, TypeOK, Sid
      <4>5. Ids(t)' /\ Creates(t)
        BY <1>0, <1>a, <4>2, <4>3 DEF Ids, Creates
      <4> QED  BY <1>a, <4>1, <4>2, <4>4, <4>5 DEF ThreadFits
    <3> QED  BY <1>0, <2>7, <3>1, <3>2, ReadDoes
  <2>8. CASE CheckSession(t)
    <3>1. CASE Frees(t)
      <4>1. \A o \in Thread : o # t => Same(o)
        BY <3>1 DEF Frees, Same
      <4> QED  BY <1>0, <1>a, <3>1, <4>1, Idle, FreeIs DEF Frees
    <3>2. CASE Walks(t, "hash", task[t].sid, task[t].at, task[t].found)
      <4>1. \A o \in Thread : o # t => Same(o)
        BY <3>2 DEF Walks, Advances, Same
      <4> QED  BY <1>0, <1>a, <3>2, <4>1, Idle DEF Walks, Advances
    <3> QED  BY <1>0, <2>8, <3>1, <3>2, CheckDoes
  <2>9. ASSUME NEW right \in BOOLEAN, Verify(t, right)
        PROVE  (\A o \in Thread : o # t => Same(o)) /\ ThreadFits(t)' /\ Creates(t)
    <3>1. CASE Frees(t)
      <4>1. \A o \in Thread : o # t => Same(o)
        BY <3>1 DEF Frees, Same
      <4> QED  BY <1>0, <1>a, <3>1, <4>1, Idle, FreeIs DEF Frees
    <3>2. CASE Walks(t, "create", task[t].sid, task[t].at, task[t].found)
      <4>1. \A o \in Thread : o # t => Same(o)
        BY <3>2 DEF Walks, Advances, Same
      <4> QED  BY <1>0, <1>a, <3>2, <4>1, Idle DEF Walks, Advances
    <3> QED  BY <1>0, <2>9, <3>1, <3>2, VerifyDoes
  <2> QED  BY <2>1, <2>2, <2>3, <2>4, <2>5, <2>6, <2>7, <2>8, <2>9
<1> QED  BY <1>a, <1>b, <1>c, <1>d, SessionsKept

LEMMA InsertStep ==
  ASSUME TypeOK, SessionInv, NEW t \in Request, Insert(t)
  PROVE  SessionInv'
<1>0. t \in Thread /\ ThreadFits(t) /\ Ids(t) /\ task[t].pc = "insert"
  BY DEF Thread, SessionInv, ThreadFits, Insert
<1>1. UNCHANGED <<rows, issued, known, ended, lifetime>>
  BY DEF Insert, counts, history
<1>2. Walks(t, Accepted(t), task[t].sid, task[t].at, task[t].found)
  BY <1>0, InsertDoes
<1>3. \A o \in Thread : o # t => Same(o)
  BY <1>2 DEF Walks, Advances, Same
<1>4. task[t].sid \in Sid
  BY <1>0, Running, SessionIs DEF Validating
<1>5. /\ task[t].found <= lifetime[task[t].sid] /\ task[t].at <= task[t].found
      /\ task[t].sid \notin ended
  BY <1>0 DEF ThreadFits
<1>6. task[t].at \in Nat /\ task[t].found \in Nat /\ lifetime[task[t].sid] \in Nat
  <2>0. task[t] \in Handler(task[t].kind)
    BY <1>0, Running
  <2>1. task[t].at \in 0..MaxTime /\ task[t].found \in 0..(MaxTime + Timeout)
    BY <2>0 DEF Handler
  <2>2. lifetime[task[t].sid] \in 0..(MaxTime + Timeout)
    BY <1>4 DEF TypeOK
  <2> QED  BY <2>1, <2>2
<1>7. RowsFit'
  <2>1. cached' = [cached EXCEPT ![task[t].sid] = task[t].found]
    BY DEF Insert, SetCached
  <2>2. \A s \in Sid : cached'[s] = IF s = task[t].sid THEN task[t].found ELSE cached[s]
    BY <2>1 DEF TypeOK, SessionTypeOK
  <2>3. \A s \in ended : s \in Sid
    BY SessionsAssumption DEF TypeOK, Sid
  <2> QED  BY <1>1, <1>5, <2>2, <2>3 DEF SessionInv, RowsFit
<1>8. /\ task'[t].pc \in {"handle", "delete"} /\ task'[t].sid = task[t].sid /\ task'[t].at = task[t].at
      /\ task'[t].kind = task[t].kind
  BY <1>2 DEF Walks, Advances, Accepted
<1>9. Ids(t)' /\ Creates(t)
  BY <1>0, <1>1, <1>8 DEF Ids, Creates
<1>10. ThreadFits(t)'
  BY <1>1, <1>5, <1>6, <1>8, <1>9 DEF ThreadFits
<1> QED  BY <1>1, <1>3, <1>7, <1>9, <1>10, SessionsKept

\* A session that is logged out: nobody is about to cache it.
LEMMA ForgetStep ==
  ASSUME TypeOK, SessionInv, NEW t \in Request, Forget(t)
  PROVE  SessionInv'
<1>0. t \in Thread /\ ThreadFits(t) /\ Ids(t) /\ task[t].pc = "forget"
  BY DEF Thread, SessionInv, ThreadFits, Forget
<1>1. UNCHANGED <<rows, issued, known, lifetime>>
  BY DEF Forget, counts
<1>2. Frees(t)
  BY <1>0, Replies DEF Forget
<1>3. task[t].sid \in Sid /\ rows[task[t].sid] = 0
  BY <1>0, Running, SessionIs DEF ThreadFits
<1>4. cached' = [cached EXCEPT ![task[t].sid] = 0]
  BY DEF Forget, SetCached
<1>5. cached'[task[t].sid] = 0 /\ \A s \in Sid : cached'[s] \in {cached[s], 0}
  BY <1>3, <1>4 DEF TypeOK, SessionTypeOK
<1>6. /\ ended' \subseteq ended \cup {task[t].sid}
      /\ \A o \in Thread : task[o].pc = "insert" /\ task[o].sid = task[t].sid => ended' = ended
  BY DEF Forget, LoggedOut
<1>7. RowsFit'
  <2>1. \A s \in Sid : lifetime[s] \in Nat
    BY SessionsAssumption DEF TypeOK
  <2>2. \A s \in ended : s \in Sid
    BY SessionsAssumption DEF TypeOK, Sid
  <2> QED  BY <1>1, <1>3, <1>5, <1>6, <2>1, <2>2 DEF SessionInv, RowsFit
<1>8. ASSUME NEW o \in Thread
      PROVE  ThreadFits(o)' /\ Creates(o)
  <2>1. CASE o = t
    BY <1>2, <2>1, FreeIs DEF Frees, ThreadFits, Ids, Creates
  <2>2. CASE o # t
    <3>1. task'[o] = task[o]
      BY <1>2, <2>2 DEF Frees
    <3>2. task[o].pc = "insert" => task[o].sid \notin ended'
      <4>1. SUFFICES ASSUME task[o].pc = "insert", task[o].sid \in ended' PROVE FALSE
        OBVIOUS
      <4>2. task[o].sid \notin ended
        BY <4>1 DEF SessionInv, ThreadFits
      <4> QED  BY <1>6, <4>1, <4>2
    <3> QED  BY <1>1, <3>1, <3>2 DEF SessionInv, ThreadFits, Ids, Creates
  <2> QED  BY <2>1, <2>2
<1>9. Unshared'
  BY <1>8 DEF Creates, SessionInv, Unshared
<1> QED  BY <1>7, <1>8, <1>9 DEF SessionInv

LEMMA CreateStep ==
  ASSUME TypeOK, SessionInv, NEW t \in Request, CreateRow(t)
  PROVE  SessionInv'
<1>0. t \in Thread /\ task[t].pc = "create"
  BY DEF Thread, CreateRow
<1>1. UNCHANGED <<cached, known, ended, now>>
  BY DEF CreateRow
<1>2. issued' = issued + 1 /\ issued' \in Sid /\ Walks(t, "read", issued', task[t].at, task[t].found)
  BY <1>0, CreateDoes
<1>3. issued \in 1..MaxSid /\ known \subseteq 1..issued /\ ended \subseteq known /\ MaxSid \in Nat
  BY SessionsAssumption DEF TypeOK
<1>4. /\ \A s \in Sid : rows'[s] = IF s = issued + 1 THEN now + Timeout ELSE rows[s]
      /\ \A s \in Sid : lifetime'[s] = IF s = issued + 1 THEN now + Timeout ELSE lifetime[s]
  <2>1. rows' = [rows EXCEPT ![issued + 1] = now + Timeout]
    BY <1>2 DEF CreateRow, SetRow
  <2>2. lifetime' = [lifetime EXCEPT ![issued + 1] = now + Timeout]
    BY <1>2 DEF CreateRow
  <2> QED  BY <2>1, <2>2 DEF TypeOK, SessionTypeOK
<1>5. now + Timeout \in Nat /\ \A s \in Sid : lifetime[s] \in Nat /\ cached[s] \in Nat
  <2>1. now \in Nat /\ Timeout \in Nat
    BY SessionsAssumption DEF TypeOK, SessionTypeOK
  <2>2. \A s \in Sid : lifetime[s] \in 0..(MaxTime + Timeout) /\ cached[s] \in 0..(MaxTime + Timeout)
    BY DEF TypeOK, SessionTypeOK
  <2> QED  BY <2>1, <2>2
<1>6. RowsFit'
  <2>1. ASSUME NEW s \in Sid
        PROVE  rows'[s] <= lifetime'[s] /\ cached'[s] <= lifetime'[s] /\ (s > issued' => lifetime'[s] = 0)
    <3>1. CASE s = issued + 1
      <4>1. cached[s] <= lifetime[s] /\ lifetime[s] = 0
        BY <1>3, <3>1 DEF SessionInv, RowsFit
      <4> QED  BY <1>1, <1>2, <1>3, <1>4, <1>5, <3>1, <4>1
    <3>2. CASE s # issued + 1
      <4>1. s > issued' => s > issued
        BY <1>2, <1>3 DEF Sid
      <4> QED  BY <1>1, <1>4, <3>2, <4>1 DEF SessionInv, RowsFit
    <3> QED  BY <3>1, <3>2
  <2>2. ASSUME NEW s \in ended
        PROVE  rows'[s] = 0 /\ cached'[s] = 0
    BY <1>1, <1>3, <1>4 DEF SessionInv, RowsFit, Sid
  <2> QED  BY <1>1, <2>1, <2>2 DEF RowsFit
<1>7. ASSUME NEW o \in Thread, o # t
      PROVE  /\ task'[o] = task[o] /\ ThreadFits(o)'
             /\ task[o].pc \in {"read", "cache"} => task[o].sid # issued + 1
  <2>1. task'[o] = task[o]
    BY <1>2, <1>7 DEF Walks, Advances
  <2>2. ThreadFits(o)
    BY DEF SessionInv
  <2>3. task[o].pc \in {"insert", "cache", "forget", "handle", "delete"} =>
          task[o].sid \in 1..issued /\ task[o].sid \in Sid /\ task[o].sid # issued + 1
    <3>1. task[o].pc \in {"insert", "forget", "handle", "delete"} => task[o].sid \in known
      BY <2>2, Running DEF ThreadFits, Ids, Validating
    <3>2. task[o].pc = "cache" => task[o].sid \in 1..issued
      BY <2>2 DEF ThreadFits, Ids
    <3>3. \A s \in 1..issued : s \in Sid /\ s # issued + 1
      BY <1>3 DEF Sid
    <3>4. task[o].pc \in {"insert", "cache", "forget", "handle", "delete"} => task[o].sid \in 1..issued
      BY <1>3, <3>1, <3>2
    <3> QED  BY <3>3, <3>4
  <2>4. Ids(o)'
    <3>1. (1..issued) \ known \subseteq (1..issued') \ known'
      BY <1>1, <1>2, <1>3
    <3> QED  BY <1>1, <2>1, <2>2, <3>1 DEF ThreadFits, Ids
  <2>5. task[o].pc \in {"read", "cache"} => task[o].sid # issued + 1
    BY <1>3, <2>2 DEF ThreadFits, Ids
  <2> QED  BY <1>1, <1>4, <2>1, <2>2, <2>3, <2>4, <2>5 DEF ThreadFits
<1>8. ThreadFits(t)' /\ task'[t].sid = issued + 1
  <2>1. task'[t].pc = "read" /\ task'[t].sid = issued + 1 /\ task'[t].kind = task[t].kind
    BY <1>2 DEF Walks, Advances
  <2>2. task[t].kind = "login"
    BY <1>0, Running
  <2>3. issued + 1 \in (1..issued') \ known'
    BY <1>1, <1>2, <1>3
  <2> QED  BY <2>1, <2>2, <2>3 DEF ThreadFits, Ids
<1>9. Unshared'
  BY <1>7, <1>8 DEF SessionInv, Unshared
<1> QED  BY <1>6, <1>7, <1>8, <1>9 DEF SessionInv

\* A session nobody was told of is in the cache before its client knows it.
LEMMA CacheStep ==
  ASSUME TypeOK, SessionInv, NEW t \in Request, CacheSession(t)
  PROVE  SessionInv'
<1>0. t \in Thread /\ task[t].pc = "cache" /\ ThreadFits(t)
  BY DEF Thread, CacheSession, SessionInv
<1>1. UNCHANGED <<rows, issued, ended, lifetime>> /\ known' = known \cup {task[t].sid}
  BY DEF CacheSession
<1>2. Frees(t)
  BY <1>0, Replies DEF CacheSession
<1>3. task[t].sid \in (1..issued) \ known /\ task[t].found <= lifetime[task[t].sid]
  BY <1>0 DEF ThreadFits, Ids
<1>4. \A s \in Sid : cached'[s] = IF s = task[t].sid THEN task[t].found ELSE cached[s]
  <2>1. cached' = [cached EXCEPT ![task[t].sid] = task[t].found]
    BY DEF CacheSession, SetCached
  <2> QED  BY <2>1 DEF TypeOK, SessionTypeOK
<1>5. RowsFit'
  <2>1. ended \subseteq known /\ \A s \in ended : s \in Sid
    BY SessionsAssumption DEF TypeOK, Sid
  <2> QED  BY <1>1, <1>3, <1>4, <2>1 DEF SessionInv, RowsFit
<1>6. ASSUME NEW o \in Thread
      PROVE  ThreadFits(o)' /\ Creates(o)
  <2>1. CASE o = t
    BY <1>2, <2>1, FreeIs DEF Frees, ThreadFits, Ids, Creates
  <2>2. CASE o # t
    <3>1. task'[o] = task[o]
      BY <1>2, <2>2 DEF Frees
    <3>2. Ids(o)'
      BY <1>0, <1>1, <2>2, <3>1 DEF SessionInv, ThreadFits, Ids, Unshared
    <3> QED  BY <1>1, <3>1, <3>2 DEF SessionInv, ThreadFits, Creates
  <2> QED  BY <2>1, <2>2
<1>7. Unshared'
  BY <1>6 DEF Creates, SessionInv, Unshared
<1> QED  BY <1>5, <1>6, <1>7 DEF SessionInv

\* A request that has just begun has validated nothing.
LEMMA BeginStep ==
  ASSUME TypeOK, SessionInv, NEW t \in Request, (\E c \in Client : BeginLogin(t, c)) \/ RequestBegins(t)
  PROVE  SessionInv'
<1>0. t \in Thread
  BY DEF Thread
<1>1. UNCHANGED <<rows, cached, issued, known, ended, lifetime>>
  <2>1. CASE \E c \in Client : BeginLogin(t, c)
    BY <2>1 DEF BeginLogin
  <2>2. CASE RequestBegins(t)
    BY <2>2, RequestDoes DEF sessionVars, history
  <2> QED  BY <2>1, <2>2
<1>2. RowsFit'
  BY <1>1, RowsRemoved
<1>3. \/ UNCHANGED task
      \/ /\ \A o \in Thread : o # t => task'[o] = task[o]
         /\ task'[t].kind \in {"logout", "setup", "patch", "blocking"} => task'[t].sid \in known
         /\ task'[t].pc \in {"lookup", "handle", "session", "hash", "create", "verify"} /\ task'[t].at = 0
  <2>1. ASSUME NEW c \in Client, BeginLogin(t, c), ~UNCHANGED task
        PROVE  /\ \A o \in Thread : o # t => task'[o] = task[o]
               /\ task'[t].kind = "login"
               /\ task'[t].pc \in {"create", "verify"} /\ task'[t].at = 0
    BY <2>1, LoginDoes DEF Started
  <2>2. CASE RequestBegins(t)
    <3>1. PICK s \in known, kind \in {"logout", "setup", "patch", "blocking"},
               pc \in {"lookup", "handle", "session", "hash"} :
            \E change \in Changes(kind) : Started(t, kind, pc, s, change)
      BY <2>2, RequestDoes
    <3> QED  BY <3>1 DEF Started
  <2> QED  BY <2>1, <2>2
<1>4. ASSUME NEW o \in Thread
      PROVE  Same(o) \/ (ThreadFits(o)' /\ Creates(o))
  <2>1. CASE o # t \/ UNCHANGED task
    BY <1>3, <2>1 DEF Same
  <2>2. CASE o = t /\ ~UNCHANGED task
    BY <1>1, <1>3, <2>2 DEF ThreadFits, Ids, Creates
  <2> QED  BY <2>1, <2>2
<1> QED  BY <1>1, <1>2, <1>4, SessionsKept

\* Changes of the configuration are of no consequence for the sessions, nor is
\* a handler that is dropped.
LEMMA ChangeSteps ==
  ASSUME TypeOK, SessionInv, NEW t \in Request,
         \/ ChangeLive(t) \/ MergePatch(t) \/ OpenFile(t) \/ WriteFile(t) \/ WriteFails(t) \/ ApplyPatch(t)
         \/ ClientGone(t)
  PROVE  SessionInv'
<1>0. t \in Thread /\ Ids(t)
  BY DEF Thread, SessionInv, ThreadFits
<1>1. UNCHANGED <<rows, cached, issued, known, ended, lifetime>>
  BY DEF ChangeLive, MergePatch, OpenFile, WriteFile, WriteFails, ApplyPatch, ClientGone, EndChange,
         sessionVars, counts, history
<1>2. RowsFit'
  BY <1>1, RowsRemoved
<1>3. /\ \A o \in Thread : o # t => Same(o)
      /\ \/ task'[t] = Free
         \/ task'[t].kind = task[t].kind /\ task'[t].sid = task[t].sid
      /\ task'[t].pc \in {"free", "truncate", "write", "apply"}
  <2>1. CASE ChangeLive(t) \/ MergePatch(t)
    <3>1. (\E c : Turns(t, "truncate", c)) \/ Frees(t)
      BY <1>0, <2>1, ChangeLiveDoes, MergeDoes
    <3>2. CASE \E c : Turns(t, "truncate", c)
      BY <1>0, <3>2 DEF Turns, Same
    <3>3. CASE Frees(t)
      BY <1>0, <3>3, FreeIs DEF Frees, Same
    <3> QED  BY <3>1, <3>2, <3>3
  <2>2. CASE OpenFile(t)
    BY <1>0, <2>2, OpenDoes DEF Walks, Advances, Same
  <2>3. CASE WriteFile(t)
    <3>1. CASE task[t].kind = "patch"
      BY <1>0, <2>3, <3>1, WriteDoes DEF Walks, Advances, Same
    <3>2. CASE task[t].kind # "patch"
      BY <1>0, <2>3, <3>2, WriteDoes, FreeIs DEF Frees, Same
    <3> QED  BY <3>1, <3>2
  <2>4. CASE WriteFails(t) \/ ApplyPatch(t) \/ ClientGone(t)
    <3>1. Frees(t)
      BY <1>0, <2>4, Replies DEF WriteFails, ApplyPatch, ClientGone, EndChange
    <3> QED  BY <3>1, FreeIs DEF Frees, Same
  <2> QED  BY <2>1, <2>2, <2>3, <2>4
<1>4. ThreadFits(t)' /\ Creates(t)
  BY <1>0, <1>1, <1>3, Idle
<1> QED  BY <1>1, <1>2, <1>3, <1>4, SessionsKept

LEMMA EventSteps ==
  ASSUME TypeOK, SessionInv,
         \/ \E c \in Edited : Edit(c)
         \/ Sighup \/ SwapConfig \/ CleanRows \/ CleanCache \/ Restart \/ Tick
  PROVE  SessionInv'
<1>0. "sighup" \in Thread /\ "hourly" \in Thread /\ Ids("sighup") /\ Ids("hourly")
  BY DEF Thread, SessionInv, ThreadFits
<1>1. UNCHANGED <<issued, known, ended, lifetime>>
  BY DEF Edit, Sighup, SwapConfig, CleanRows, CleanCache, Restart, Tick, counts, history
<1>2. \A s \in Sid : rows'[s] \in {rows[s], 0} /\ cached'[s] \in {cached[s], 0}
  <2>1. CASE CleanRows
    BY <2>1, RemovalTypes DEF CleanRows
  <2>2. CASE CleanCache
    BY <2>2, RemovalTypes DEF CleanCache
  <2>3. CASE Restart
    BY <2>3 DEF Restart
  <2>4. CASE (\E c \in Edited : Edit(c)) \/ Sighup \/ SwapConfig \/ Tick
    BY <2>4 DEF Edit, Sighup, SwapConfig, Tick, sessionVars
  <2> QED  BY <2>1, <2>2, <2>3, <2>4
<1>3. RowsFit'
  BY <1>1, <1>2, RowsRemoved
<1>4. ASSUME NEW o \in Thread
      PROVE  Same(o) \/ (ThreadFits(o)' /\ Creates(o))
  <2>1. CASE (\E c \in Edited : Edit(c)) \/ Tick \/ UNCHANGED task
    BY <2>1 DEF Edit, Tick, Same
  <2>2. CASE Sighup
    <3>1. CASE \E c : task["sighup"] = Free /\ Turns("sighup", "swap", c)
      <4>1. CASE o = "sighup"
        <5>1. task'[o].kind = task[o].kind /\ task'[o].sid = task[o].sid /\ task'[o].pc = "swap"
          BY <1>0, <3>1, <4>1 DEF Turns
        <5> QED  BY <1>0, <1>1, <4>1, <5>1, Idle
      <4>2. CASE o # "sighup"
        BY <3>1, <4>2 DEF Turns, Same
      <4> QED  BY <4>1, <4>2
    <3> QED  BY <2>1, <2>2, <3>1, SighupDoes
  <2>3. CASE SwapConfig
    <3>1. Frees("sighup")
      BY <1>0, <2>3, Replies DEF SwapConfig
    <3>2. CASE o = "sighup"
      BY <1>0, <1>1, <3>1, <3>2, Idle, FreeIs DEF Frees
    <3>3. CASE o # "sighup"
      BY <3>1, <3>3 DEF Frees, Same
    <3> QED  BY <3>2, <3>3
  <2>4. CASE CleanCache
    <3>1. Frees("hourly")
      BY <1>0, <2>4, Replies DEF CleanCache
    <3>2. CASE o = "hourly"
      BY <1>0, <1>1, <3>1, <3>2, Idle, FreeIs DEF Frees
    <3>3. CASE o # "hourly"
      BY <3>1, <3>3 DEF Frees, Same
    <3> QED  BY <3>2, <3>3
  <2>5. CASE CleanRows
    <3>1. /\ task'["hourly"].pc = "sweep" /\ task'["hourly"].kind = "none"
          /\ \A u \in Thread : u # "hourly" => task'[u] = task[u]
      BY <2>5, SweepDoes
    <3>2. CASE o = "hourly"
      BY <3>1, <3>2 DEF ThreadFits, Ids, Creates
    <3>3. CASE o # "hourly"
      BY <3>1, <3>3 DEF Same
    <3> QED  BY <3>2, <3>3
  <2>6. CASE Restart
    <3>1. task'[o] = Free
      BY <2>6 DEF Restart
    <3> QED  BY <3>1, FreeIs DEF ThreadFits, Ids, Creates
  <2> QED  BY <2>1, <2>2, <2>3, <2>4, <2>5, <2>6
<1> QED  BY <1>1, <1>2, <1>3, <1>4, SessionsKept

LEMMA SessionInit == Init => SessionInv
<1> SUFFICES ASSUME Init PROVE SessionInv
  OBVIOUS
<1>1. \A t \in Thread : ThreadFits(t)
  BY FreeIs DEF Init, ThreadFits, Ids
<1>2. Unshared
  BY FreeIs DEF Init, Unshared
<1>3. RowsFit
  <2>1. now + Timeout \in Nat /\ now + Timeout >= 0
    BY SessionsAssumption DEF Init
  <2> QED  BY <2>1 DEF Init, RowsFit, Sid
<1> QED  BY <1>1, <1>2, <1>3 DEF SessionInv

LEMMA SessionStep ==
  ASSUME TypeOK, SessionInv, [Next]_vars
  PROVE  SessionInv'
<1>1. ASSUME NEW r \in Request, RequestStep(r)
      PROVE  SessionInv'
  BY <1>1, RequestSteps, SessionSteps, InsertStep, ForgetStep, CreateStep, CacheStep, BeginStep, ChangeSteps
<1>2. CASE UNCHANGED vars
  <2>1. UNCHANGED <<task, rows, cached, issued, known, ended, lifetime>>
    BY <1>2 DEF vars, sessionVars, counts, history
  <2> QED  BY <2>1 DEF SessionInv, ThreadFits, Ids, Unshared, RowsFit
<1> QED  BY <1>1, <1>2, EventSteps DEF Next

LEMMA Sound == Spec => [](TypeOK /\ SessionInv)
<1>1. Init => TypeOK /\ SessionInv
  BY TypeInit, SessionInit
<1>2. TypeOK /\ SessionInv /\ [Next]_vars => (TypeOK /\ SessionInv)'
  BY TypeStep, SessionStep
<1> QED  BY <1>1, <1>2, PTL DEF Spec

(* The variables have their types: what the clients know are sessions that   *)
(* were created, and what a handler carries, from the session it validates   *)
(* to the configuration it is about to write, is what its kind of request    *)
(* carries (auth.rs, lib.rs:889-1211).                                       *)
THEOREM TypeCorrect == Spec => []TypeOK
BY Sound, PTL

(* For any sessions, requests and clients, a session that was logged out     *)
(* stays out of the table and of the cache, and a session that has expired   *)
(* lets no request in (auth.rs:153-214, lib.rs:999-1026).                    *)
THEOREM LogoutsHold == Spec => []LogoutHolds
<1>1. TypeOK /\ SessionInv => LogoutHolds
  BY DEF SessionInv, RowsFit, ThreadFits, LogoutHolds
<1> QED  BY <1>1, Sound, PTL

-----------------------------------------------------------------------------
(* Logins.                                                                 *)

LEMMA LeastNumber ==
  ASSUME NEW S \in SUBSET Nat, S # {}
  PROVE  \E x \in S : \A y \in S : x <= y
<1> DEFINE R == OpToRel(<, Nat)
<1>1. IsWellFoundedOn(R, Nat)
  BY NatLessThanWellFounded
<1>2. PICK x \in S : \A y \in S : <<y, x>> \notin R
  BY <1>1, WFMin
<1>3. \A y \in S : ~(y < x)
  BY <1>2 DEF OpToRel
<1> HIDE DEF R
<1>4. \A y \in S : x <= y
  BY <1>3
<1> QED  BY <1>2, <1>4

\* A set of places that has, with a place, those before it.
LEMMA Prefix ==
  ASSUME NEW n \in Nat, NEW S \in SUBSET (1..n), \A i \in S : \A j \in 1..i : j \in S
  PROVE  S = 1..Cardinality(S)
<1> DEFINE Missing == (1..(n + 1)) \ S
<1>1. n + 1 \in Missing /\ Missing \in SUBSET Nat
  OBVIOUS
<1>2. PICK m \in Missing : \A y \in Missing : m <= y
  BY <1>1, LeastNumber
<1>3. m \in 1..(n + 1) /\ m \notin S
  BY <1>2
<1>4. \A i \in 1..(m - 1) : i \in S
  <2>1. SUFFICES ASSUME NEW i \in 1..(m - 1), i \notin S PROVE FALSE
    OBVIOUS
  <2>2. i \in Missing
    BY <1>3, <2>1
  <2> QED  BY <1>2, <1>3, <2>1, <2>2
<1>5. \A i \in S : i \in 1..(m - 1)
  <2>1. SUFFICES ASSUME NEW i \in S, i >= m PROVE FALSE
    BY <1>3
  <2>2. m \in 1..i
    BY <1>3, <2>1
  <2> QED  BY <1>3, <2>1, <2>2
<1>6. S = 1..(m - 1)
  BY <1>4, <1>5
<1>7. Cardinality(1..(m - 1)) = m - 1
  BY <1>3, FS_Interval
<1> HIDE DEF Missing
<1> QED  BY <1>6, <1>7

LEMMA GuessTypes ==
  ASSUME TypeOK, NEW c \in Client
  PROVE  /\ attempts[c] \in Seq(Time) /\ Len(attempts[c]) \in Nat
         /\ guesses[c] \in Seq(Time) /\ Len(guesses[c]) \in Nat
         /\ \A i \in 1..Len(attempts[c]) : attempts[c][i] \in Nat
         /\ \A i \in 1..Len(guesses[c]) : guesses[c][i] \in Nat
         /\ now \in Nat /\ now \in Time /\ now >= 1 /\ Window \in Nat \ {0} /\ MaxAttempts \in Nat \ {0}
BY SessionsAssumption DEF TypeOK, SessionTypeOK, Time

\* The attempts that are too old are the first ones.
LEMMA OldFirst ==
  ASSUME TypeOK, NEW c \in Client, Remembered(c), Chronological(c)
  PROVE  Old(c) = 1..Cardinality(Old(c))
<1> DEFINE A == attempts[c]
           n == Len(A)
           f == Len(guesses[c]) - n
<1>1. n \in Nat /\ f \in Nat /\ Len(guesses[c]) = f + n /\ DOMAIN A = 1..n
  BY GuessTypes DEF Remembered
<1>2. \A i \in 1..n : A[i] = guesses[c][f + i] /\ A[i] \in Nat
  BY GuessTypes DEF Remembered
<1>3. \A i, j \in 1..Len(guesses[c]) : i <= j => guesses[c][i] <= guesses[c][j]
  BY DEF Chronological
<1>4. Old(c) = {i \in 1..n : A[i] <= now - Window}
  BY <1>1 DEF Old
<1> HIDE DEF A, n, f
<1>5. ASSUME NEW i \in Old(c), NEW j \in 1..i
      PROVE  j \in Old(c)
  <2>1. i \in 1..n /\ A[i] <= now - Window /\ j \in 1..n /\ j <= i
    BY <1>1, <1>4, <1>5
  <2>2. f + j \in 1..Len(guesses[c]) /\ f + i \in 1..Len(guesses[c]) /\ f + j <= f + i
    BY <1>1, <2>1
  <2>3. A[j] <= A[i]
    BY <1>2, <1>3, <2>1, <2>2
  <2>4. A[j] \in Nat /\ A[i] \in Nat /\ now \in Nat /\ Window \in Nat
    BY <1>2, <2>1, GuessTypes
  <2>5. A[j] <= now - Window
    BY <2>1, <2>3, <2>4
  <2> QED  BY <1>4, <2>1, <2>5
<1>6. Old(c) \in SUBSET (1..n)
  BY <1>4
<1> QED  BY <1>1, <1>5, <1>6, Prefix

\* An attempt, let through or not.

LEMMA Attempted ==
  ASSUME TypeOK, NEW c \in Client, Remembered(c), Chronological(c), NEW b \in BOOLEAN,
         \A i \in 1..(Len(guesses[c]) - MaxAttempts) :
           guesses[c][i + MaxAttempts] - guesses[c][i] >= Window,
         now' = now,
         b => Len(Recent(c)) < MaxAttempts,
         attempts'[c] = IF b THEN Append(Recent(c), now) ELSE Recent(c),
         guesses'[c] = IF b THEN Append(guesses[c], now) ELSE guesses[c]
  PROVE  /\ Remembered(c)' /\ Chronological(c)'
         /\ \A i \in 1..(Len(guesses'[c]) - MaxAttempts) :
              guesses'[c][i + MaxAttempts] - guesses'[c][i] >= Window
<1> DEFINE A == attempts[c]
           n == Len(A)
           G == guesses[c]
           f == Len(G) - n
           k == Cardinality(Old(c))
           R == Recent(c)
<1>1. /\ n \in Nat /\ f \in Nat /\ Len(G) = f + n /\ DOMAIN A = 1..n /\ k \in 0..n
      /\ G \in Seq(Time) /\ now \in Nat /\ now \in Time /\ Window \in Nat /\ MaxAttempts \in Nat
      /\ \A i \in 1..Len(G) : G[i] \in Nat
  BY GuessTypes, OldCounts DEF Remembered
<1>2. /\ \A i \in 1..n : A[i] = G[f + i]
      /\ \A i \in 1..f : G[i] <= now - Window
  BY DEF Remembered
<1>3. /\ \A i, j \in 1..Len(G) : i <= j => G[i] <= G[j]
      /\ \A i \in 1..Len(G) : G[i] <= now
  BY DEF Chronological
<1>4. R \in Seq(Time) /\ Len(R) = n - k /\ \A i \in 1..(n - k) : R[i] = A[k + i]
  BY RecentIs
<1>5. \A i \in 1..n : A[i] <= now - Window <=> i \in 1..k
  <2>1. Old(c) = 1..k
    BY OldFirst
  <2>2. Old(c) = {i \in 1..n : A[i] <= now - Window}
    BY <1>1 DEF Old
  <2> HIDE DEF A, n, k
  <2> QED  BY <2>1, <2>2
<1>a. \A i \in 1..(Len(G) - MaxAttempts) : G[i + MaxAttempts] - G[i] >= Window
  OBVIOUS
<1> HIDE DEF A, n, G, f, k, R
<1>6. \A i \in 1..(n - k) : R[i] = G[f + k + i]
  <2>1. TAKE i \in 1..(n - k)
  <2>2. k + i \in 1..n /\ f + (k + i) = f + k + i
    BY <1>1
  <2> QED  BY <1>2, <1>4, <2>2
<1>7. \A i \in 1..(f + k) : G[i] <= now - Window
  <2>1. TAKE i \in 1..(f + k)
  <2>2. CASE i <= f
    BY <1>1, <1>2, <2>2
  <2>3. CASE i > f
    <3>1. i - f \in 1..k /\ i - f \in 1..n /\ f + (i - f) = i
      BY <1>1, <2>3
    <3>2. A[i - f] = G[i]
      BY <1>2, <3>1
    <3> QED  BY <1>5, <3>1, <3>2
  <2> QED  BY <1>1, <2>2, <2>3
<1>8. CASE b
  <2>1. attempts'[c] = Append(R, now) /\ guesses'[c] = Append(G, now)
    BY <1>8 DEF R, G
  <2>2. n - k < MaxAttempts
    BY <1>4, <1>8 DEF R
  <2> DEFINE R2 == Append(R, now)
             G2 == Append(G, now)
  <2>3. /\ Len(R2) = n - k + 1 /\ R2[n - k + 1] = now
        /\ \A i \in 1..(n - k) : R2[i] = R[i]
    BY <1>1, <1>4
  <2>4. /\ Len(G2) = f + n + 1 /\ G2[f + n + 1] = now
        /\ \A i \in 1..(f + n) : G2[i] = G[i]
    BY <1>1
  <2> HIDE DEF R2, G2
  <2>5. Remembered(c)'
    <3>1. Len(G2) - Len(R2) = f + k
      BY <1>1, <2>3, <2>4
    <3>2. ASSUME NEW i \in 1..Len(R2)
          PROVE  R2[i] = G2[f + k + i]
      <4>1. CASE i \in 1..(n - k)
        <5>1. f + k + i \in 1..(f + n)
          BY <1>1, <4>1
        <5> QED  BY <1>6, <2>3, <2>4, <4>1, <5>1
      <4>2. CASE i = n - k + 1
        <5>1. f + k + i = f + n + 1
          BY <1>1, <4>2
        <5> QED  BY <2>3, <2>4, <4>2, <5>1
      <4> QED  BY <1>1, <2>3, <4>1, <4>2
    <3>3. ASSUME NEW i \in 1..(f + k)
          PROVE  G2[i] <= now - Window
      <4>1. i \in 1..(f + n)
        BY <1>1
      <4> QED  BY <1>7, <2>4, <4>1
    <3>4. f + k >= 0
      BY <1>1
    <3> QED  BY <2>1, <3>1, <3>2, <3>3, <3>4 DEF Remembered, R2, G2
  <2>6. Chronological(c)'
    <3>1. ASSUME NEW i \in 1..Len(G2)
          PROVE  G2[i] <= now
      BY <1>1, <1>3, <2>4
    <3>2. ASSUME NEW i \in 1..Len(G2), NEW j \in 1..Len(G2), i <= j
          PROVE  G2[i] <= G2[j]
      <4>1. CASE j = f + n + 1
        BY <2>4, <3>1, <4>1
      <4>2. CASE j \in 1..(f + n)
        <5>1. i \in 1..(f + n)
          BY <1>1, <3>2, <4>2
        <5> QED  BY <1>1, <1>3, <2>4, <3>2, <4>2, <5>1
      <4> QED  BY <1>1, <2>4, <4>1, <4>2
    <3> QED  BY <2>1, <3>1, <3>2 DEF Chronological, G2
  <2>7. ASSUME NEW i \in 1..(Len(G2) - MaxAttempts)
        PROVE  G2[i + MaxAttempts] - G2[i] >= Window
    <3>1. CASE i + MaxAttempts = f + n + 1
      <4>1. i \in 1..(f + k) /\ i \in 1..(f + n)
        BY <1>1, <2>2, <2>4, <3>1
      <4>2. G2[i] = G[i] /\ G[i] <= now - Window /\ G2[i + MaxAttempts] = now /\ G[i] \in Nat
        BY <1>1, <1>7, <2>4, <3>1, <4>1
      <4> QED  BY <1>1, <4>2
    <3>2. CASE i + MaxAttempts # f + n + 1
      <4>1. i \in 1..(Len(G) - MaxAttempts) /\ i \in 1..(f + n) /\ i + MaxAttempts \in 1..(f + n)
        BY <1>1, <2>4, <3>2
      <4> QED  BY <1>a, <2>4, <4>1
    <3> QED  BY <3>1, <3>2
  <2> QED  BY <2>1, <2>5, <2>6, <2>7 DEF G2
<1>9. CASE ~b
  <2>1. attempts'[c] = R /\ guesses'[c] = G
    BY <1>9 DEF R, G
  <2>2. Remembered(c)'
    <3>1. Len(G) - Len(R) = f + k
      BY <1>1, <1>4
    <3>2. f + k >= 0
      BY <1>1
    <3> QED  BY <1>4, <1>6, <1>7, <2>1, <3>1, <3>2 DEF Remembered
  <2>3. Chronological(c)'
    BY <1>3, <2>1 DEF Chronological
  <2> QED  BY <1>a, <2>1, <2>2, <2>3
<1> QED  BY <1>8, <1>9

\* The bound for one client.
Bounded(c) ==
  \A i \in 1..(Len(guesses[c]) - MaxAttempts) : guesses[c][i + MaxAttempts] - guesses[c][i] >= Window

LEMMA GuessKept ==
  ASSUME NEW c \in Client, Bounded(c), Remembered(c), Chronological(c), now' = now,
         attempts'[c] = attempts[c], guesses'[c] = guesses[c]
  PROVE  Bounded(c)' /\ Remembered(c)' /\ Chronological(c)'
BY DEF Bounded, Remembered, Chronological

LEMMA GuessCleared ==
  ASSUME TypeOK, NEW c \in Client, attempts'[c] = <<>>, guesses'[c] = <<>>
  PROVE  Bounded(c)' /\ Remembered(c)' /\ Chronological(c)'
<1>1. Len(<<>>) = 0 /\ MaxAttempts \in Nat \ {0}
  BY SessionsAssumption
<1> QED  BY <1>1 DEF Bounded, Remembered, Chronological

LEMMA GuessLater ==
  ASSUME TypeOK, NEW c \in Client, Bounded(c), Remembered(c), Chronological(c), now' = now + 1,
         attempts'[c] = attempts[c], guesses'[c] = guesses[c]
  PROVE  Bounded(c)' /\ Remembered(c)' /\ Chronological(c)'
<1>1. /\ Len(attempts[c]) \in Nat /\ Len(guesses[c]) \in Nat /\ now \in Nat /\ Window \in Nat
      /\ \A i \in 1..Len(guesses[c]) : guesses[c][i] \in Nat
  BY GuessTypes
<1>2. \A x \in Nat : (x <= now - Window => x <= now' - Window) /\ (x <= now => x <= now')
  BY <1>1
<1>3. Bounded(c)'
  BY DEF Bounded
<1>4. Remembered(c)'
  <2> DEFINE f == Len(guesses[c]) - Len(attempts[c])
  <2>1. /\ f >= 0
        /\ \A i \in 1..Len(attempts[c]) : attempts[c][i] = guesses[c][f + i]
        /\ \A i \in 1..f : guesses[c][i] <= now - Window
    BY DEF Remembered
  <2>2. ASSUME NEW i \in 1..f
        PROVE  guesses[c][i] <= now' - Window
    <3>1. i \in 1..Len(guesses[c])
      BY <1>1
    <3>2. guesses[c][i] \in Nat /\ guesses[c][i] <= now - Window
      BY <1>1, <2>1, <3>1
    <3> QED  BY <1>2, <3>2
  <2> QED  BY <2>1, <2>2 DEF Remembered
<1>5. Chronological(c)'
  BY <1>1, <1>2 DEF Chronological
<1> QED  BY <1>3, <1>4, <1>5

LEMMA GuessStep ==
  ASSUME TypeOK, GuessInv, [Next]_vars
  PROVE  GuessInv'
<1>1. SUFFICES ASSUME NEW c \in Client
               PROVE  Bounded(c)' /\ Remembered(c)' /\ Chronological(c)'
  BY DEF GuessInv, GuessesBounded, Bounded
<1>2. Bounded(c) /\ Remembered(c) /\ Chronological(c)
  BY DEF GuessInv, GuessesBounded, Bounded
<1>3. CASE UNCHANGED <<now, attempts, guesses>>
  BY <1>2, <1>3, GuessKept
<1>4. ASSUME NEW r \in Request, NEW d \in Client, BeginLogin(r, d)
      PROVE  Bounded(c)' /\ Remembered(c)' /\ Chronological(c)'
  <2>1. now' = now /\ attempts' = [attempts EXCEPT ![d] = IF Allowed(d) THEN Append(Recent(d), now) ELSE Recent(d)]
    BY <1>4 DEF BeginLogin, CheckAttempt
  <2>2. guesses' = IF Allowed(d) THEN [guesses EXCEPT ![d] = Append(guesses[d], now)] ELSE guesses
    BY <1>4 DEF BeginLogin
  <2>3. CASE c # d
    <3>1. attempts'[c] = attempts[c] /\ guesses'[c] = guesses[c]
      BY <2>1, <2>2, <2>3 DEF TypeOK, SessionTypeOK
    <3> QED  BY <1>2, <2>1, <3>1, GuessKept
  <2>4. CASE c = d
    <3>1. PICK b \in BOOLEAN : b <=> Allowed(c)
      OBVIOUS
    <3>2. attempts'[c] = IF b THEN Append(Recent(c), now) ELSE Recent(c)
      BY <2>1, <2>4, <3>1 DEF TypeOK, SessionTypeOK
    <3>3. guesses'[c] = IF b THEN Append(guesses[c], now) ELSE guesses[c]
      BY <2>2, <2>4, <3>1 DEF TypeOK
    <3>4. b => Len(Recent(c)) < MaxAttempts
      BY <3>1 DEF Allowed
    <3>5. /\ Remembered(c)' /\ Chronological(c)'
          /\ \A i \in 1..(Len(guesses'[c]) - MaxAttempts) :
               guesses'[c][i + MaxAttempts] - guesses'[c][i] >= Window
      BY <1>2, <2>1, <3>2, <3>3, <3>4, Attempted DEF Bounded
    <3> QED  BY <3>5 DEF Bounded
  <2> QED  BY <2>3, <2>4
<1>5. ASSUME NEW r \in Request, CacheSession(r)
      PROVE  Bounded(c)' /\ Remembered(c)' /\ Chronological(c)'
  <2>1. /\ now' = now /\ attempts' = [attempts EXCEPT ![task[r].client] = <<>>]
        /\ guesses' = [guesses EXCEPT ![task[r].client] = <<>>]
    BY <1>5 DEF CacheSession, RecordSuccess
  <2>2. CASE c = task[r].client
    <3>1. attempts'[c] = <<>> /\ guesses'[c] = <<>>
      BY <2>1, <2>2 DEF TypeOK, SessionTypeOK
    <3> QED  BY <3>1, GuessCleared
  <2>3. CASE c # task[r].client
    <3>1. attempts'[c] = attempts[c] /\ guesses'[c] = guesses[c]
      BY <2>1, <2>3 DEF TypeOK, SessionTypeOK
    <3> QED  BY <1>2, <2>1, <3>1, GuessKept
  <2> QED  BY <2>2, <2>3
<1>6. CASE Restart
  <2>1. attempts'[c] = <<>> /\ guesses'[c] = <<>>
    BY <1>6 DEF Restart
  <2> QED  BY <2>1, GuessCleared
<1>7. CASE Tick
  <2>1. now' = now + 1 /\ attempts' = attempts /\ guesses' = guesses
    BY <1>7 DEF Tick, sessionVars, history
  <2> QED  BY <1>2, <2>1, GuessLater
<1>8. CASE (\E x \in Edited : Edit(x)) \/ Sighup \/ SwapConfig \/ CleanRows \/ CleanCache \/ UNCHANGED vars
  <2>1. UNCHANGED <<now, attempts, guesses>>
    BY <1>8 DEF Edit, Sighup, SwapConfig, CleanRows, CleanCache, vars, sessionVars, history
  <2> QED  BY <1>3, <2>1
<1>9. ASSUME NEW r \in Request, RequestStep(r)
      PROVE  Bounded(c)' /\ Remembered(c)' /\ Chronological(c)'
  <2>1. CASE RequestBegins(r)
    <3>1. UNCHANGED <<now, attempts, guesses>>
      BY <2>1, RequestDoes DEF sessionVars, history
    <3> QED  BY <1>3, <3>1
  <2>2. CASE Lookup(r) \/ Evict(r) \/ Fetch(r) \/ Expire(r) \/ Uncache(r) \/ Insert(r) \/ DeleteRow(r)
             \/ Forget(r) \/ (\E right \in BOOLEAN : Verify(r, right)) \/ ReadRow(r) \/ CheckSession(r)
             \/ CreateRow(r)
    <3>1. UNCHANGED <<now, attempts, guesses>>
      BY <2>2 DEF Lookup, Evict, Fetch, Expire, Uncache, Insert, DeleteRow, Forget, Verify, ReadRow,
                  CheckSession, CreateRow, sessionVars, history
    <3> QED  BY <1>3, <3>1
  <2>3. CASE \/ ChangeLive(r) \/ MergePatch(r) \/ OpenFile(r) \/ WriteFile(r) \/ WriteFails(r) \/ ApplyPatch(r)
             \/ ClientGone(r)
    <3>1. UNCHANGED <<now, attempts, guesses>>
      BY <2>3 DEF ChangeLive, MergePatch, OpenFile, WriteFile, WriteFails, ApplyPatch, ClientGone, EndChange,
                  sessionVars, history
    <3> QED  BY <1>3, <3>1
  <2> QED  BY <1>4, <1>5, <1>9, <2>1, <2>2, <2>3, RequestSteps
<1> QED  BY <1>6, <1>7, <1>8, <1>9 DEF Next

LEMMA GuessInit == Init => GuessInv
<1> SUFFICES ASSUME Init PROVE GuessInv
  OBVIOUS
<1>1. \A c \in Client : attempts[c] = <<>> /\ guesses[c] = <<>>
  BY DEF Init
<1>2. Len(<<>>) = 0 /\ MaxAttempts \in Nat \ {0}
  BY SessionsAssumption
<1>3. ASSUME NEW c \in Client
      PROVE  Bounded(c) /\ Remembered(c) /\ Chronological(c)
  <2>1. Len(attempts[c]) = 0 /\ Len(guesses[c]) = 0
    BY <1>1, <1>2
  <2>2. Bounded(c)
    BY <1>2, <2>1 DEF Bounded
  <2>3. Remembered(c)
    BY <2>1 DEF Remembered
  <2>4. Chronological(c)
    BY <2>1 DEF Chronological
  <2> QED  BY <2>2, <2>3, <2>4
<1> QED  BY <1>3 DEF GuessInv, GuessesBounded, Bounded

(* However many login attempts overlap, and however long the passwords take  *)
(* to verify, a client gets at most MaxAttempts of them in a window before   *)
(* one succeeds: what the limiter forgets of them is out of the window       *)
(* (auth.rs:293-313, lib.rs:938-994).                                        *)
THEOREM GuessesAreBounded == Spec => []GuessesBounded
<1>1. TypeOK /\ GuessInv /\ [Next]_vars => GuessInv'
  BY GuessStep
<1>2. GuessInv => GuessesBounded
  BY DEF GuessInv
<1> QED  BY <1>1, <1>2, GuessInit, TypeCorrect, PTL DEF Spec

-----------------------------------------------------------------------------
(* The configuration.                                                      *)

ChangeFits(t) == AloneSound(t) /\ (Changing(t) => Valid(task[t].content))

\* Who takes a step of a change knows that no other change is alone.
LEMMA NoOtherAlone ==
  ASSUME ConfigInv, NEW t \in Thread, Changing(t)
  PROVE  \A o \in Thread : o # t => ~(Changing(o) /\ task[o].alone)
BY DEF ConfigInv, AloneSound

\* Another thread, while a change takes a step.
LEMMA OtherFits ==
  ASSUME TypeOK, ConfigInv, NEW o \in Thread, task'[o] = task[o], ~(Changing(o) /\ task[o].alone)
  PROVE  ChangeFits(o)' /\ (Changing(o)' <=> Changing(o))
BY DEF ConfigInv, ChangeFits, AloneSound, Changing

LEMMA FreeFits ==
  ASSUME NEW o \in Thread, task'[o] = Free
  PROVE  ChangeFits(o)' /\ ~Changing(o)'
BY FreeIs DEF ChangeFits, AloneSound, Changing

\* Steps that are not part of a change.
LEMMA ConfigKept ==
  ASSUME TypeOK, ConfigInv, UNCHANGED <<config, file, expected, settled>>,
         \A o \in Thread : \/ task'[o] = task[o]
                           \/ ~Changing(o) /\ task'[o].pc \notin {"truncate", "write", "apply", "swap"}
  PROVE  ConfigInv'
<1>1. \A o \in Thread : Changing(o)' <=> Changing(o)
  BY DEF Changing
<1>2. ASSUME NEW o \in Thread
      PROVE  ChangeFits(o)'
  <2>1. CASE task'[o] = task[o]
    BY <1>1, <2>1 DEF ConfigInv, ChangeFits, AloneSound
  <2>2. CASE ~Changing(o)
    BY <1>1, <2>2 DEF ChangeFits, AloneSound
  <2> QED  BY <2>1, <2>2 DEF Changing
<1>3. ConfigSettles'
  BY <1>1 DEF ConfigInv, ConfigSettles
<1> QED  BY <1>2, <1>3 DEF ConfigInv, ChangeFits, Valid

\* A change begins: its content is valid, and what was asked for if it is alone.
LEMMA ConfigBegins ==
  ASSUME TypeOK, ConfigInv, NEW t \in Thread, NEW pc \in {"truncate", "swap"}, NEW content \in Config,
         Turns(t, pc, content), ~Changing(t), UNCHANGED <<file, expected, settled>>,
         Valid(content), Valid(config'),
         pc = "swap" => content \in Load(file) /\ task[t].kind = "none",
         task[t].kind \in {"setup", "blocking"} => content = Asked(config, task[t].change) /\ config' = content,
         task[t].kind = "patch" => content = Merge(config, Strip(task[t].change))
  PROVE  ConfigInv'
<1>1. /\ task'[t].pc = pc /\ task'[t].content = content /\ task'[t].kind = task[t].kind
      /\ task'[t].change = task[t].change
      /\ task'[t].alone => \A o \in Thread : o # t => ~Changing(o)
  BY DEF Turns
<1>2. Changing(t)'
  BY <1>1 DEF Changing
<1>3. \A o \in Thread : o # t => (Changing(o)' <=> Changing(o))
  BY DEF Changing, Turns
<1>4. task'[t].alone /\ settled => config = expected
  BY <1>1 DEF ConfigInv, ConfigSettles
<1>5. AloneSound(t)'
  <2>1. SUFFICES ASSUME task'[t].alone PROVE AloneSound(t)'
    BY DEF AloneSound
  <2>2. \A o \in Thread : Changing(o)' => o = t
    BY <1>1, <1>3, <2>1
  <2>3. task[t].kind \in {"setup", "blocking"} =>
          config' = content /\ (settled' => config' = Asked(expected', task'[t].change))
    BY <1>1, <1>4, <2>1
  <2>4. task[t].kind = "patch" => (settled' => content = Merge(expected', Strip(task'[t].change)))
    BY <1>1, <1>4, <2>1
  <2>5. pc = "swap" => content \in Load(file')
    OBVIOUS
  <2>6. task'[t].pc # "write" /\ task'[t].pc # "apply"
    BY <1>1
  <2> QED  BY <1>1, <2>2, <2>3, <2>4, <2>5, <2>6 DEF AloneSound
<1>6. ASSUME NEW o \in Thread
      PROVE  ChangeFits(o)'
  <2>1. CASE o = t
    BY <1>1, <1>5, <2>1 DEF ChangeFits
  <2>2. CASE o # t /\ Changing(o)
    <3>1. task'[o].alone = FALSE /\ task'[o].content = task[o].content /\ Valid(task[o].content)
      BY <2>2 DEF Turns, ConfigInv
    <3> QED  BY <3>1 DEF ChangeFits, AloneSound, Valid
  <2>3. CASE o # t /\ ~Changing(o)
    BY <1>3, <2>3 DEF ChangeFits, AloneSound
  <2> QED  BY <2>1, <2>2, <2>3
<1>7. ConfigSettles'
  BY <1>2 DEF ConfigSettles
<1> QED  BY <1>6, <1>7 DEF ConfigInv, ChangeFits, Valid

LEMMA OpenStep ==
  ASSUME TypeOK, ConfigInv, NEW t \in Thread, OpenFile(t)
  PROVE  ConfigInv'
<1>1. UNCHANGED <<config, expected, settled>> /\ file' = Empty /\ Changing(t) /\ task[t].pc = "truncate"
  BY DEF OpenFile, Truncate, history, Changing
<1>2. Walks(t, "write", task[t].sid, task[t].at, task[t].found)
  BY OpenDoes
<1>3. /\ \A o \in Thread : o # t => task'[o] = task[o]
      /\ task'[t].pc = "write" /\ task'[t].kind = task[t].kind /\ task'[t].change = task[t].change
      /\ task'[t].content = task[t].content /\ task'[t].alone = task[t].alone
  BY <1>2 DEF Walks, Advances
<1>4. \A o \in Thread : o # t => ~(Changing(o) /\ task[o].alone)
  BY <1>1, NoOtherAlone
<1>5. \A o \in Thread : o # t => ChangeFits(o)'
  BY <1>3, <1>4, OtherFits
<1>6. \A o \in Thread : Changing(o)' <=> Changing(o)
  BY <1>1, <1>3 DEF Changing
<1>7. ChangeFits(t)'
  <2>1. AloneSound(t) /\ Valid(task[t].content)
    BY <1>1 DEF ConfigInv
  <2>2. AloneSound(t)'
    BY <1>1, <1>3, <1>6, <2>1 DEF AloneSound
  <2> QED  BY <1>3, <2>1, <2>2 DEF ChangeFits
<1>8. ConfigSettles'
  BY <1>1, <1>6 DEF ConfigSettles
<1> QED  BY <1>1, <1>5, <1>7, <1>8 DEF ConfigInv, ChangeFits, Valid

\* A change that was alone leaves the file whole and the live copy as expected.
LEMMA ConfigEnds ==
  ASSUME TypeOK, ConfigInv, NEW t \in Thread, Changing(t), Frees(t), Valid(config'),
         settled' => /\ file'.state = "whole" /\ config' \in {file'.config, WithEnv(file'.config)}
                     /\ config' = expected'
  PROVE  ConfigInv'
<1>1. \A o \in Thread : o # t => task'[o] = task[o]
  BY DEF Frees
<1>2. \A o \in Thread : o # t => ~(Changing(o) /\ task[o].alone)
  BY NoOtherAlone
<1>3. \A o \in Thread : ChangeFits(o)'
  BY <1>1, <1>2, OtherFits, FreeFits DEF Frees
<1>4. ConfigSettles'
  BY DEF ConfigSettles, Valid
<1> QED  BY <1>3, <1>4 DEF ConfigInv, ChangeFits, Valid

LEMMA WriteStep ==
  ASSUME TypeOK, ConfigInv, NEW t \in Thread, WriteFile(t)
  PROVE  ConfigInv'
<1>1. /\ task[t].pc = "write" /\ Changing(t) /\ config' = config /\ WriteOut(task[t].content)
      /\ IF task[t].kind = "patch" THEN UNCHANGED history ELSE EndChange(t)
  BY DEF WriteFile, Changing
<1>2. AloneSound(t) /\ Valid(task[t].content) /\ Valid(config)
  BY <1>1 DEF ConfigInv
<1>3. task[t].alone => file' = Whole(task[t].content)
  BY <1>1, <1>2 DEF AloneSound, WriteOut
<1>4. task[t].kind \in {"setup", "patch", "blocking"}
  BY <1>1, Running
<1>5. CASE task[t].kind = "patch"
  <2>1. Walks(t, "apply", task[t].sid, task[t].at, task[t].found)
    BY <1>5, WriteDoes
  <2>2. /\ \A o \in Thread : o # t => task'[o] = task[o]
        /\ task'[t].pc = "apply" /\ task'[t].kind = task[t].kind /\ task'[t].change = task[t].change
        /\ task'[t].content = task[t].content /\ task'[t].alone = task[t].alone
    BY <2>1 DEF Walks, Advances
  <2>3. \A o \in Thread : o # t => ~(Changing(o) /\ task[o].alone)
    BY <1>1, NoOtherAlone
  <2>4. \A o \in Thread : o # t => ChangeFits(o)'
    BY <2>2, <2>3, OtherFits
  <2>5. \A o \in Thread : Changing(o)' <=> Changing(o)
    BY <1>1, <2>2 DEF Changing
  <2>6. UNCHANGED <<config, expected, settled>>
    BY <1>1, <1>5 DEF history
  <2>7. AloneSound(t)'
    BY <1>1, <1>2, <1>3, <1>5, <2>2, <2>5, <2>6 DEF AloneSound
  <2>8. ChangeFits(t)'
    BY <1>2, <2>2, <2>7 DEF ChangeFits
  <2>9. ConfigSettles'
    BY <1>1, <2>5 DEF ConfigSettles
  <2> QED  BY <1>2, <2>4, <2>6, <2>8, <2>9 DEF ConfigInv, ChangeFits, Valid
<1>6. CASE task[t].kind \in {"setup", "blocking"}
  <2>1. EndChange(t) /\ config' \in Config /\ task[t].pc \in {"write", "apply"}
    BY <1>1, <1>6 DEF TypeOK, ConfigTypeOK
  <2>2. /\ Frees(t) /\ (settled' => task[t].alone)
        /\ expected' = IF settled' /\ settled THEN Asked(expected, task[t].change) ELSE config'
    BY <1>6, <2>1, EndDoes
  <2>3. task[t].alone => config = task[t].content /\ (settled => config = Asked(expected, task[t].change))
    BY <1>1, <1>2, <1>6 DEF AloneSound
  <2>4. ASSUME settled'
        PROVE  /\ file'.state = "whole" /\ config' \in {file'.config, WithEnv(file'.config)}
               /\ config' = expected'
    <3>1. file' = Whole(task[t].content) /\ config' = task[t].content
      BY <1>1, <1>3, <2>2, <2>3, <2>4
    <3>2. file'.state = "whole" /\ file'.config = task[t].content
      BY <3>1 DEF Whole
    <3>3. config' = expected'
      BY <1>1, <2>2, <2>3, <2>4
    <3> QED  BY <3>1, <3>2, <3>3
  <2>5. Valid(config')
    BY <1>1, <1>2 DEF Valid
  <2> QED  BY <1>1, <2>2, <2>4, <2>5, ConfigEnds
<1> QED  BY <1>4, <1>5, <1>6

LEMMA FailStep ==
  ASSUME TypeOK, ConfigInv, NEW t \in Thread, WriteFails(t)
  PROVE  ConfigInv'
<1>1. Changing(t) /\ Frees(t) /\ settled' = FALSE /\ config' = config
  BY Replies DEF WriteFails, Changing, configVars
<1>2. Valid(config')
  BY <1>1 DEF ConfigInv, Valid
<1> QED  BY <1>1, <1>2, ConfigEnds

\* A handler is dropped: a patch that is in the file is not settled, anything
\* else is no part of a change yet.
LEMMA GoneStep ==
  ASSUME TypeOK, ConfigInv, NEW t \in Thread, ClientGone(t)
  PROVE  ConfigInv'
<1>1. Frees(t) /\ UNCHANGED <<config, file, expected>>
  BY Replies DEF ClientGone, configVars
<1>2. CASE task[t].pc = "apply"
  <2>1. Changing(t) /\ settled' = FALSE
    BY <1>2 DEF ClientGone, Changing
  <2>2. Valid(config')
    BY <1>1 DEF ConfigInv, Valid
  <2> QED  BY <1>1, <2>1, <2>2, ConfigEnds
<1>3. CASE task[t].pc # "apply"
  <2>1. ~Changing(t) /\ settled' = settled
    BY <1>3 DEF ClientGone, Awaiting, Changing, ConfigInv, ConfigSettles, TypeOK
  <2> QED  BY <1>1, <2>1, FreeIs, ConfigKept DEF Frees
<1> QED  BY <1>2, <1>3

LEMMA ApplyStep ==
  ASSUME TypeOK, ConfigInv, NEW t \in Thread, ApplyPatch(t)
  PROVE  ConfigInv'
<1>1. /\ task[t].pc = "apply" /\ Changing(t) /\ config' = task[t].content /\ file' = file /\ EndChange(t)
      /\ config' \in Config /\ task[t].kind = "patch"
  BY ContentIs, Running DEF ApplyPatch, Changing
<1>2. AloneSound(t) /\ Valid(task[t].content)
  BY <1>1 DEF ConfigInv
<1>3. /\ Frees(t) /\ (settled' => task[t].alone)
      /\ expected' = IF settled' /\ settled THEN Merge(expected, Strip(task[t].change)) ELSE config'
  BY <1>1, EndDoes
<1>4. task[t].alone => /\ file = Whole(task[t].content)
                       /\ settled => task[t].content = Merge(expected, Strip(task[t].change))
  BY <1>1, <1>2 DEF AloneSound
<1>5. ASSUME settled'
      PROVE  /\ file'.state = "whole" /\ config' \in {file'.config, WithEnv(file'.config)}
             /\ config' = expected'
  <2>1. file'.state = "whole" /\ file'.config = task[t].content
    BY <1>1, <1>3, <1>4, <1>5 DEF Whole
  <2>2. config' = expected'
    BY <1>1, <1>3, <1>4, <1>5
  <2> QED  BY <1>1, <2>1, <2>2
<1>6. Valid(config')
  BY <1>1, <1>2 DEF Valid
<1> QED  BY <1>1, <1>3, <1>5, <1>6, ConfigEnds

LEMMA SwapStep ==
  ASSUME TypeOK, ConfigInv, SwapConfig
  PROVE  ConfigInv'
<1> DEFINE t == "sighup"
<1>1. /\ t \in Thread /\ task[t].pc = "swap" /\ Changing(t) /\ config' = task[t].content
      /\ file' = file /\ expected' = config' /\ settled' = (task[t].alone /\ file.state = "whole")
  BY DEF SwapConfig, Changing, Thread
<1>2. AloneSound(t) /\ Valid(task[t].content)
  BY <1>1 DEF ConfigInv
<1>3. Frees(t)
  BY <1>1, Replies DEF SwapConfig
<1>4. ASSUME settled'
      PROVE  /\ file'.state = "whole" /\ config' \in {file'.config, WithEnv(file'.config)}
             /\ config' = expected'
  <2>1. task[t].content \in Load(file) /\ file.state = "whole"
    BY <1>1, <1>2, <1>4 DEF AloneSound
  <2>2. task[t].content = WithEnv(file.config)
    BY <2>1 DEF Load
  <2> QED  BY <1>1, <2>1, <2>2
<1>5. Valid(config')
  BY <1>1, <1>2 DEF Valid
<1> QED  BY <1>1, <1>3, <1>4, <1>5, ConfigEnds

LEMMA LiveStep ==
  ASSUME TypeOK, ConfigInv, NEW t \in Thread, ChangeLive(t)
  PROVE  ConfigInv'
<1>1. /\ task[t].kind \in {"setup", "blocking"} /\ task[t].pc \in {"hash", "handle"}
      /\ config' = Asked(config, task[t].change) /\ config' \in Config
      /\ Valid(config) => Valid(config')
      /\ Turns(t, "truncate", config')
  BY ChangeLiveDoes
<1>2. PICK content \in Config : content = config'
  BY <1>1
<1>3. UNCHANGED <<file, expected, settled>> /\ ~Changing(t)
  BY <1>1 DEF ChangeLive, history, Changing
<1>4. Valid(content) /\ Valid(config')
  BY <1>1, <1>2 DEF ConfigInv, Valid
<1>5. Turns(t, "truncate", content)
  BY <1>1, <1>2 DEF Turns
<1> QED  BY <1>1, <1>2, <1>3, <1>4, <1>5, ConfigBegins

LEMMA MergeStep ==
  ASSUME TypeOK, ConfigInv, NEW t \in Thread, MergePatch(t)
  PROVE  ConfigInv'
<1>1. PICK merged : merged = Merge(config, Strip(task[t].change))
  OBVIOUS
<1>2. /\ task[t].kind = "patch" /\ task[t].pc = "handle" /\ merged \in Config
      /\ IF Valid(merged) THEN Turns(t, "truncate", merged) ELSE Frees(t)
  BY <1>1, MergeDoes
<1>3. UNCHANGED <<config, file, expected, settled>> /\ ~Changing(t)
  BY <1>2 DEF MergePatch, configVars, history, Changing
<1>4. CASE Valid(merged)
  <2>1. Valid(config')
    BY <1>3 DEF ConfigInv, Valid
  <2> QED  BY <1>1, <1>2, <1>3, <1>4, <2>1, ConfigBegins
<1>5. CASE ~Valid(merged)
  <2>1. \A o \in Thread : \/ task'[o] = task[o]
                          \/ ~Changing(o) /\ task'[o].pc \notin {"truncate", "write", "apply", "swap"}
    BY <1>2, <1>3, <1>5, FreeIs DEF Frees
  <2> QED  BY <1>3, <2>1, ConfigKept
<1> QED  BY <1>4, <1>5

LEMMA ReloadStep ==
  ASSUME TypeOK, ConfigInv, Sighup
  PROVE  ConfigInv'
<1>1. UNCHANGED <<config, file, expected, settled>>
  BY DEF Sighup, configVars, history
<1>2. CASE UNCHANGED task
  BY <1>1, <1>2, ConfigKept
<1>3. CASE ~UNCHANGED task
  <2>1. PICK c \in Load(file) : task["sighup"] = Free /\ c \in Config /\ Valid(c) /\ Turns("sighup", "swap", c)
    BY <1>3, SighupDoes
  <2>2. "sighup" \in Thread /\ ~Changing("sighup") /\ task["sighup"].kind = "none"
    BY <2>1, FreeIs DEF Thread, Changing
  <2>3. Valid(config')
    BY <1>1 DEF ConfigInv, Valid
  <2> QED  BY <1>1, <2>1, <2>2, <2>3, ConfigBegins
<1> QED  BY <1>2, <1>3

LEMMA RestartStep ==
  ASSUME TypeOK, ConfigInv, Restart
  PROVE  ConfigInv'
<1>1. PICK c \in Load(file) : config' = c /\ expected' = c
  BY DEF Restart
<1>2. file \in File
  BY DEF TypeOK, ConfigTypeOK
<1>3. Valid(c) /\ c = WithEnv(file.config)
  BY <1>2, LoadTypes
<1>4. file' = file /\ settled' = (file.state = "whole") /\ \A t \in Thread : task'[t] = Free
  BY DEF Restart
<1>5. \A o \in Thread : ChangeFits(o)'
  BY <1>4, FreeFits
<1>6. ConfigSettles'
  BY <1>1, <1>3, <1>4 DEF ConfigSettles
<1> QED  BY <1>1, <1>3, <1>5, <1>6 DEF ConfigInv, ChangeFits, Valid

LEMMA EditStep ==
  ASSUME TypeOK, ConfigInv, NEW c \in Edited, Edit(c)
  PROVE  ConfigInv'
<1>1. settled' = FALSE /\ UNCHANGED <<task, config>> /\ \A t \in Thread : ~Changing(t)
  BY DEF Edit
<1>2. \A o \in Thread : ChangeFits(o)'
  BY <1>1 DEF ChangeFits, AloneSound, Changing
<1>3. ConfigSettles'
  BY <1>1 DEF ConfigSettles
<1> QED  BY <1>1, <1>2, <1>3 DEF ConfigInv, ChangeFits, Valid

\* The steps of a session check, of a login and of the hourly task.
LEMMA QuietStep ==
  ASSUME TypeOK, SessionInv, ConfigInv, NEW t \in Request,
         \/ \E c \in Client : BeginLogin(t, c)
         \/ RequestBegins(t) \/ CreateRow(t) \/ CacheSession(t)
         \/ Lookup(t) \/ Evict(t) \/ Fetch(t) \/ Expire(t) \/ Uncache(t) \/ Insert(t)
         \/ DeleteRow(t) \/ Forget(t) \/ (\E right \in BOOLEAN : Verify(t, right))
         \/ ReadRow(t) \/ CheckSession(t)
  PROVE  ConfigInv'
<1>0. t \in Thread /\ Ids(t)
  BY DEF Thread, SessionInv, ThreadFits
<1>1. UNCHANGED <<config, file, expected, settled>>
  <2>1. CASE RequestBegins(t)
    BY <2>1, RequestDoes DEF configVars, history
  <2>2. CASE ~RequestBegins(t)
    BY <2>2 DEF BeginLogin, CreateRow, CacheSession, Lookup, Evict, Fetch, Expire, Uncache, Insert, DeleteRow,
                Forget, Verify, ReadRow, CheckSession, configVars, history
  <2> QED  BY <2>1, <2>2
<1>2. \A o \in Thread : o # t => task'[o] = task[o]
  <2>1. CASE \E c \in Client : BeginLogin(t, c)
    BY <2>1, LoginDoes DEF Started
  <2>2. CASE RequestBegins(t)
    BY <2>2, RequestDoes DEF Started
  <2>3. CASE CreateRow(t)
    BY <1>0, <2>3, CreateDoes DEF Walks, Advances
  <2>4. CASE Lookup(t) \/ Evict(t) \/ Fetch(t) \/ Expire(t) \/ Insert(t) \/ DeleteRow(t) \/ ReadRow(t)
    BY <1>0, <2>4, LookupDoes, EvictDoes, FetchDoes, ExpireDoes, InsertDoes, DeleteDoes, ReadDoes
       DEF Walks, Advances, Frees
  <2>5. CASE (\E right \in BOOLEAN : Verify(t, right)) \/ CheckSession(t)
    BY <1>0, <2>5, VerifyDoes, CheckDoes DEF Walks, Advances, Frees
  <2>6. CASE Uncache(t) \/ Forget(t) \/ CacheSession(t)
    BY <1>0, <2>6, Replies DEF Uncache, Forget, CacheSession, Frees
  <2> QED  BY <2>1, <2>2, <2>3, <2>4, <2>5, <2>6
<1>3. task'[t] = task[t] \/ (~Changing(t) /\ task'[t].pc \notin {"truncate", "write", "apply", "swap"})
  <2>1. CASE \E c \in Client : BeginLogin(t, c)
    <3>1. task[t] = Free
      BY <2>1 DEF BeginLogin
    <3>2. task'[t] = task[t] \/ task'[t].pc \in {"create", "verify"}
      BY <2>1, LoginDoes DEF Started
    <3> QED  BY <3>1, <3>2, FreeIs DEF Changing
  <2>2. CASE RequestBegins(t)
    <3>1. task[t] = Free
      BY <2>2, RequestDoes
    <3>2. task'[t].pc \in {"lookup", "handle", "session", "hash"}
      BY <2>2, RequestDoes DEF Started
    <3> QED  BY <3>1, <3>2, FreeIs DEF Changing
  <2>3. CASE CreateRow(t)
    BY <1>0, <2>3, CreateDoes DEF CreateRow, Walks, Advances, Changing
  <2>4. CASE Lookup(t)
    <3>1. task'[t].pc \in {"fetch", "evict", Accepted(t)}
      BY <1>0, <2>4, LookupDoes DEF Walks, Advances
    <3>2. Accepted(t) \in {"delete", "handle"} /\ task[t].pc = "lookup"
      BY <2>4 DEF Lookup, Accepted
    <3> QED  BY <3>1, <3>2 DEF Changing
  <2>5. CASE Fetch(t)
    BY <1>0, <2>5, FetchDoes, FreeIs DEF Fetch, Walks, Advances, Frees, Changing
  <2>6. CASE Insert(t)
    BY <1>0, <2>6, InsertDoes DEF Insert, Walks, Advances, Accepted, Changing
  <2>7. CASE Evict(t) \/ Expire(t) \/ DeleteRow(t)
    BY <1>0, <2>7, EvictDoes, ExpireDoes, DeleteDoes DEF Evict, Expire, DeleteRow, Walks, Advances, Changing
  <2>8. CASE ReadRow(t)
    BY <1>0, <2>8, ReadDoes, FreeIs DEF ReadRow, Walks, Advances, Frees, Changing
  <2>9. ASSUME NEW right \in BOOLEAN, Verify(t, right)
        PROVE  ~Changing(t) /\ task'[t].pc \notin {"truncate", "write", "apply", "swap"}
    BY <1>0, <2>9, VerifyDoes, FreeIs DEF Verify, Walks, Advances, Frees, Changing
  <2>10. CASE CheckSession(t)
    BY <1>0, <2>10, CheckDoes, FreeIs DEF CheckSession, Walks, Advances, Frees, Changing
  <2>11. CASE Uncache(t) \/ Forget(t) \/ CacheSession(t)
    BY <1>0, <2>11, Replies, FreeIs DEF Uncache, Forget, CacheSession, Frees, Changing
  <2> QED  BY <2>1, <2>2, <2>3, <2>4, <2>5, <2>6, <2>7, <2>8, <2>9, <2>10, <2>11
<1> QED  BY <1>0, <1>1, <1>2, <1>3, ConfigKept

LEMMA HourlyStep ==
  ASSUME TypeOK, ConfigInv, CleanRows \/ CleanCache \/ Tick \/ UNCHANGED vars
  PROVE  ConfigInv'
<1>0. "hourly" \in Thread
  BY DEF Thread
<1>1. UNCHANGED <<config, file, expected, settled>>
  BY DEF CleanRows, CleanCache, Tick, vars, configVars, history
<1>2. CASE CleanRows
  <2>1. task["hourly"] = Free /\ task'["hourly"].pc = "sweep" /\ \A o \in Thread : o # "hourly" => task'[o] = task[o]
    BY <1>2, SweepDoes DEF CleanRows
  <2> QED  BY <1>1, <2>1, FreeIs, ConfigKept DEF Changing
<1>3. CASE CleanCache
  <2>1. task["hourly"].pc = "sweep" /\ Frees("hourly")
    BY <1>0, <1>3, Replies DEF CleanCache
  <2> QED  BY <1>1, <2>1, FreeIs, ConfigKept DEF Changing, Frees
<1>4. CASE Tick \/ UNCHANGED vars
  <2>1. UNCHANGED task
    BY <1>4 DEF Tick, vars
  <2> QED  BY <1>1, <2>1, ConfigKept
<1> QED  BY <1>2, <1>3, <1>4

LEMMA ConfigStep ==
  ASSUME TypeOK, SessionInv, ConfigInv, [Next]_vars
  PROVE  ConfigInv'
<1>1. ASSUME NEW r \in Request, RequestStep(r)
      PROVE  ConfigInv'
  <2>0. r \in Thread
    BY DEF Thread
  <2>1. CASE \/ ChangeLive(r) \/ MergePatch(r) \/ OpenFile(r) \/ WriteFile(r) \/ WriteFails(r) \/ ApplyPatch(r)
             \/ ClientGone(r)
    BY <2>0, <2>1, LiveStep, MergeStep, OpenStep, WriteStep, FailStep, ApplyStep, GoneStep
  <2> QED  BY <1>1, <2>1, RequestSteps, QuietStep
<1>2. ASSUME NEW c \in Edited, Edit(c)
      PROVE  ConfigInv'
  BY <1>2, EditStep
<1> QED  BY <1>1, <1>2, ReloadStep, SwapStep, RestartStep, HourlyStep DEF Next

LEMMA ConfigInit == Init => ConfigInv
<1> SUFFICES ASSUME Init PROVE ConfigInv
  OBVIOUS
<1>0. TypeOK
  BY TypeInit
<1>1. config \in Load(file) /\ file \in File
  BY <1>0 DEF Init, TypeOK, ConfigTypeOK
<1>2. Valid(config) /\ config = WithEnv(file.config)
  BY <1>1, LoadTypes
<1>3. file.state = "whole" /\ expected = config
  BY DEF Init, Whole
<1>4. \A t \in Thread : ~Changing(t)
  BY FreeIs DEF Init, Changing
<1> QED  BY <1>2, <1>3, <1>4 DEF ConfigInv, ConfigSettles, AloneSound

(* Whatever handlers, signals, failed writes, disconnections and restarts    *)
(* overlap: a change that ran alone and to its end has made the file and the *)
(* live configuration agree, on what the changes since the last load asked   *)
(* for (lib.rs:889-936, 1083-1143, 1180-1211, config/mod.rs:649-802,         *)
(* main.rs:156-196).                                                         *)
THEOREM ConfigurationSettles == Spec => []ConfigSettles
<1>1. TypeOK /\ SessionInv /\ ConfigInv /\ [Next]_vars => ConfigInv'
  BY ConfigStep
<1>2. ConfigInv => ConfigSettles
  BY DEF ConfigInv
<1> QED  BY <1>1, <1>2, ConfigInit, Sound, PTL DEF Spec
=============================================================================
