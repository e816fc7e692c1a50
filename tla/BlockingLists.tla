--------------------------- MODULE BlockingLists ---------------------------
(***************************************************************************)
(* The block and allow lists: rows in the gravity database, and the copy   *)
(* in memory that decides every query.  The handlers of the API write a    *)
(* row, await that, and then leave the same change to a detached task,     *)
(* which applies it to the copy; a handler whose client disconnects is     *)
(* dropped at its await.  SIGHUP and the fetcher read the whole database   *)
(* again and swap the copy.  Nothing orders these against each other       *)
(* (nimbus-core/src/blocking/mod.rs, blocking/fetcher.rs,                  *)
(* database/gravity.rs, nimbus-api/src/lib.rs).                            *)
(***************************************************************************)
EXTENDS Integers, FiniteSets, SequencesExt

CONSTANTS
  Name,           \* domain names, as sequences of labels
  ListedText,     \* texts clients send to the allow and deny lists
  GravityText,    \* texts clients send to the blocklist
  Published,      \* the sets of texts the source may publish
  AllowRegex,     \* names matched by the regex rows of the allow list
  DenyRegex,      \* names matched by the regex rows of the deny list
  Request,        \* slots for requests under way at one time
  MaxChanges,     \* bound: requests
  MaxReloads      \* bound: SIGHUPs and crashes together

Spelling == {"lower", "mixed"}
Text     == [wild : BOOLEAN, spelled : Spelling, name : Name]
Kind     == {"allow", "deny"}
Listing  == Kind \cup {"gravity"}
Loader   == {"sighup", "fetcher"}

\* Splitting a string at its dots gives one label at least.
ASSUME ListsAssumption ==
  /\ ListedText \subseteq Text /\ GravityText \subseteq Text
  /\ Published \subseteq SUBSET Text
  /\ \A n \in Name : n \in Seq(Range(n)) \ {<<>>}
  /\ \A published \in Published : IsFiniteSet(published)
  /\ AllowRegex \subseteq Name /\ DenyRegex \subseteq Name /\ IsFiniteSet(DenyRegex)
  /\ {MaxChanges, MaxReloads} \subseteq Nat

VARIABLES
  rows,       \* table domainlist
  gravity,    \* table gravity
  lists,      \* BlockingLists: the copy in memory
  request,    \* per slot: the handler, then its detached task
  loader,     \* per loader: fetch, import, load and swap
  changes, reloads,   \* so far
  missed,     \* per loader: names changed behind the back of its load (history)
  doubt       \* names whose copy may differ from the database (history)

history == <<missed, doubt>>
listsVars == <<rows, gravity, lists, request, loader, changes, reloads, history>>

Lower(t) == [t EXCEPT !.spelled = "lower"]

\* WildcardMatcher::is_match: one look-up at each boundary between labels.
IsMatch(suffixes, n) == \E i \in DOMAIN n : SubSeq(n, i, Len(n)) \in suffixes

Literal(n) == [wild |-> FALSE, spelled |-> "lower", name |-> n]

\* check_blocked: the allow list wins.
CheckBlocked(l, n) ==
  /\ Literal(n) \notin l.allow /\ n \notin AllowRegex
  /\ \/ Literal(n) \in l.deny \cup l.exact
     \/ IsMatch(l.wild, n)
     \/ n \in DenyRegex

\* The four queries of a load, one after the other; between them the database
\* may change.
LoadAllow(l)  == [l EXCEPT !.allow = {Lower(r.text) : r \in {s \in rows : s.kind = "allow"}}]
LoadDeny(l)   == [l EXCEPT !.deny = {Lower(r.text) : r \in {s \in rows : s.kind = "deny"}}]
LoadGravity(l) ==
  LET wildcards == {t \in gravity : t.wild}
      exact     == {Lower(t) : t \in gravity \ wildcards} IN
  [l EXCEPT !.exact = exact, !.wild = {t.name : t \in wildcards},
            !.total = Cardinality(exact) + Cardinality(l.deny)
                        + Cardinality(wildcards) + Cardinality(DenyRegex)]

NoLists == [allow |-> {}, deny |-> {}, exact |-> {}, wild |-> {}, total |-> 0]
Loaded  == LoadGravity(LoadDeny(LoadAllow(NoLists)))

ListsType == [allow : SUBSET Text, deny : SUBSET Text, exact : SUBSET Text,
              wild : SUBSET Name, total : Nat]
Free   == [pc |-> "free"]
Resting == [pc |-> "idle"]
RowType == [id : Nat \ {0}, kind : Kind, text : Text]
\* A change whose row is written: the handler still awaits it, or has handed it to
\* its task.  Nobody else can tell, so that this is one state.
DeltaType == [pc : {"written"}, list : Listing, add : BOOLEAN, text : Text,
              during : SUBSET Loader]

ListsTypeOK ==
  /\ rows \subseteq RowType
  /\ gravity \subseteq Text
  /\ lists \in ListsType
  /\ request \in [Request -> {Free} \cup DeltaType \cup
       [pc : {"remove"}, list : Kind, row : SUBSET RowType, id : Nat] \cup [pc : {"refresh"}]]
  /\ loader \in [Loader -> {Resting} \cup [pc : {"fetch"}] \cup
       [pc : {"allow", "deny", "gravity", "swap"}, new : ListsType]]
  /\ changes \in 0..MaxChanges /\ reloads \in 0..MaxReloads
  /\ missed \in [Loader -> SUBSET Name] /\ doubt \subseteq Name

-----------------------------------------------------------------------------
(* The history: which names the copy may be wrong about, and why.          *)

Touches(t) == {n \in Name : n = t.name \/ (t.wild /\ IsSuffix(t.name, n))}

Pending(r) == request[r].pc = "written"
Reading    == {l \in Loader : loader[l].pc \in {"deny", "gravity", "swap"}}

\* A change has come to a list while the opposite one of the same name is
\* written and not yet applied.
Crossing(r, list, add, t) ==
  \E p \in Request \ {r} : /\ Pending(p)
                           /\ request[p].list = list /\ request[p].add # add
                           /\ request[p].text.name = t.name

\* Changes no task brings to the copy.
Unseen(names) ==
  /\ missed' = [l \in Loader |-> IF l \in Reading THEN missed[l] \cup names ELSE missed[l]]
  /\ doubt' = doubt \cup names

Doubtful(names) == doubt' = doubt \cup names /\ UNCHANGED missed

\* The loads that had read before the row was written do not have it, and will
\* take the change back.
LoadsMiss(r) ==
  missed' = [l \in Loader |-> IF l \in request[r].during
                              THEN missed[l] \cup Touches(request[r].text) ELSE missed[l]]

Written(list, add, t) ==
  [pc |-> "written", list |-> list, add |-> add, text |-> t, during |-> Reading]

-----------------------------------------------------------------------------
Restarted(g) == [l \in Loader |-> IF l = "fetcher" /\ g = {} THEN [pc |-> "fetch"] ELSE Resting]

ListsInit ==
  /\ rows = {}
  /\ gravity \in Published \cup {{}}
  /\ lists = Loaded
  /\ request = [r \in Request |-> Free]
  /\ loader = Restarted(gravity)
  /\ changes = 0 /\ reloads = 0
  /\ missed = [l \in Loader |-> {}] /\ doubt = {}

Accept(r) ==
  /\ request[r] = Free /\ changes < MaxChanges
  /\ changes' = changes + 1

Reply(r, record) == request' = [request EXCEPT ![r] = record]

\* add_to_allowlist, add_to_denylist: the table is UNIQUE over type and domain.
AddListed(r, kind, t) ==
  /\ Accept(r)
  /\ IF \E row \in rows : row.kind = kind /\ row.text = t
     THEN UNCHANGED <<rows, request, history>>
     ELSE /\ rows' = rows \cup {[id |-> changes', kind |-> kind, text |-> t]}
          /\ Reply(r, Written(kind, TRUE, t))
          /\ Doubtful(IF Crossing(r, kind, TRUE, t) THEN {t.name} ELSE {})
  /\ UNCHANGED <<gravity, lists, loader, reloads>>

\* remove_from_allowlist, remove_from_denylist first look the domain up in
\* their own list ...
FindListed(r, kind, id) ==
  /\ Accept(r)
  /\ Reply(r, [pc |-> "remove", list |-> kind, id |-> id,
               row |-> {row \in rows : row.kind = kind /\ row.id = id}])
  /\ UNCHANGED <<rows, gravity, lists, loader, reloads, history>>

\* ... and then delete the row with that id, whatever its list and whether or
\* not it is still there.  What is left under another spelling, or under
\* another id, is removed from the copy all the same.
RemoveListed(r) ==
  /\ request[r].pc = "remove"
  /\ LET kind == request[r].list
         gone == {row \in rows : row.id = request[r].id} IN
     /\ rows' = rows \ gone
     /\ IF request[r].row = {}
        THEN Reply(r, Free) /\ Unseen({row.text.name : row \in gone})
        ELSE \E row \in request[r].row :
               LET wrong == \/ row.text.spelled = "mixed"
                            \/ \E s \in rows' : s.kind = kind /\ Lower(s.text) = Lower(row.text)
                            \/ Crossing(r, kind, FALSE, row.text) IN
               /\ Reply(r, Written(kind, FALSE, row.text))
               /\ Doubtful(IF wrong THEN {row.text.name} ELSE {})
  /\ UNCHANGED <<gravity, lists, loader, changes, reloads>>

\* post_blocklist_add
AddGravity(r, t) ==
  /\ Accept(r)
  /\ gravity' = gravity \cup {t}
  /\ Reply(r, Written("gravity", TRUE, t))
  /\ Doubtful(IF t.wild \/ Crossing(r, "gravity", TRUE, t) THEN Touches(t) ELSE {})
  /\ UNCHANGED <<rows, lists, loader, reloads>>

\* delete_blocklist_entry
RemoveGravity(r, t) ==
  /\ Accept(r)
  /\ gravity' = gravity \ {t}
  /\ Reply(r, Written("gravity", FALSE, t))
  /\ LET wrong == \/ t.wild \/ t.spelled = "mixed"
                  \/ \E s \in gravity' : ~s.wild /\ s.name = t.name
                  \/ Crossing(r, "gravity", FALSE, t) IN
     Doubtful(IF wrong THEN Touches(t) ELSE {})
  /\ UNCHANGED <<rows, lists, loader, reloads>>

\* The client disconnects, and the handler is dropped at its await, before
\* apply_blocking_delta.  What runs in spawn_blocking is not: a row once asked for
\* is written, and nobody is left to bring it to the copy.
ClientGone(r) ==
  /\ \/ request[r].pc = "remove" /\ UNCHANGED history
     \/ /\ Pending(r)
        /\ LoadsMiss(r)
        /\ doubt' = doubt \cup Touches(request[r].text)
  /\ Reply(r, Free)
  /\ UNCHANGED <<rows, gravity, lists, loader, changes, reloads>>

WithDelta_KeepsCase(l, list, add, t) ==
  LET field == IF list = "gravity" THEN "exact" ELSE list
      new   == IF add THEN l[field] \cup {t} ELSE l[field] \ {t} IN
  [l EXCEPT ![field] = new,
            !.total = IF list = "allow" \/ new = l[field] THEN @
                      ELSE IF add THEN @ + 1 ELSE IF @ = 0 THEN 0 ELSE @ - 1]

\* An added text is brought to lower case, a removed one is not; a wildcard is
\* taken for a literal.
WithDelta(l, list, add, t) ==
  LET field == IF list = "gravity" THEN "exact" ELSE list
      new   == IF add THEN l[field] \cup {Lower(t)} ELSE l[field] \ {t} IN
  [l EXCEPT ![field] = new,
            !.total = IF list = "allow" \/ new = l[field] THEN @
                      ELSE IF add THEN @ + 1 ELSE IF @ = 0 THEN 0 ELSE @ - 1]

\* apply_blocking_delta: its task has the lock of the copy.  A load that has read
\* before the row was written will take the change back.
ApplyDelta(r) ==
  /\ Pending(r)
  /\ lists' = WithDelta(lists, request[r].list, request[r].add, request[r].text)
  /\ LoadsMiss(r)
  /\ Reply(r, Free)
  /\ UNCHANGED <<rows, gravity, loader, changes, reloads, doubt>>

-----------------------------------------------------------------------------
(* Fetching and reloading.                                                 *)

\* parse_hosts_file and replace_all_gravity: entries of the API go as well.
Import(published) ==
  LET imported == {Lower(t) : t \in published} IN
  /\ gravity' = imported
  /\ Unseen(UNION {Touches(t) : t \in (gravity \ imported) \cup (imported \ gravity)})

\* post_blocklist_refresh: a detached task fetches and imports; the copy is
\* left as it is.
AskRefresh(r) ==
  /\ Accept(r)
  /\ Reply(r, [pc |-> "refresh"])
  /\ UNCHANGED <<rows, gravity, lists, loader, reloads, history>>

RefreshImports(r, published) ==
  /\ request[r].pc = "refresh"
  /\ Import(published)
  /\ Reply(r, Free)
  /\ UNCHANGED <<rows, lists, loader, changes, reloads>>

RefreshFails(r) ==
  /\ request[r].pc = "refresh"
  /\ Reply(r, Free)
  /\ UNCHANGED <<rows, gravity, lists, loader, changes, reloads, history>>

At(l, record) == loader' = [loader EXCEPT ![l] = record]
BeginLoad == [pc |-> "allow", new |-> NoLists]

\* SIGHUP arrives; the configuration it reloads as well is in Management.
Sighup ==
  /\ loader["sighup"] = Resting /\ reloads < MaxReloads
  /\ reloads' = reloads + 1
  /\ At("sighup", BeginLoad)
  /\ UNCHANGED <<rows, gravity, lists, request, changes, history>>

RefreshDue ==
  /\ loader["fetcher"] = Resting
  /\ At("fetcher", [pc |-> "fetch"])
  /\ UNCHANGED <<rows, gravity, lists, request, changes, reloads, history>>

Fetch_NoReload(published) ==
  /\ loader["fetcher"].pc = "fetch"
  /\ Import(published)
  /\ At("fetcher", Resting)
  /\ UNCHANGED <<rows, lists, request, changes, reloads>>

\* do_fetch: only a fetch that succeeds is followed by a reload.
Fetch(published) ==
  /\ loader["fetcher"].pc = "fetch"
  /\ Import(published)
  /\ At("fetcher", BeginLoad)
  /\ UNCHANGED <<rows, lists, request, changes, reloads>>

\* No answer, a status other than success, or too few domains.
FetchFails ==
  /\ loader["fetcher"].pc = "fetch"
  /\ At("fetcher", Resting)
  /\ UNCHANGED <<rows, gravity, lists, request, changes, reloads, history>>

LoadStep(l) ==
  /\ loader[l].pc \in {"allow", "deny", "gravity"}
  /\ At(l, CASE loader[l].pc = "allow"   -> [pc |-> "deny",    new |-> LoadAllow(loader[l].new)]
             [] loader[l].pc = "deny"    -> [pc |-> "gravity", new |-> LoadDeny(loader[l].new)]
             [] loader[l].pc = "gravity" -> [pc |-> "swap",    new |-> LoadGravity(loader[l].new)])
  /\ UNCHANGED <<rows, gravity, lists, request, changes, reloads, history>>

\* The end of BlockingEngine::reload.  What is in doubt and has a change still
\* to come stays in doubt.
Swap(l) ==
  /\ loader[l].pc = "swap"
  /\ lists' = loader[l].new
  /\ At(l, Resting)
  /\ request' = [r \in Request |-> IF Pending(r) THEN [request[r] EXCEPT !.during = @ \ {l}]
                                   ELSE request[r]]
  /\ missed' = [missed EXCEPT ![l] = {}]
  /\ doubt' = missed[l] \cup
       (doubt \cap UNION {Touches(request[r].text) : r \in {p \in Request : Pending(p)}})
  /\ UNCHANGED <<rows, gravity, changes, reloads>>

\* The process ends and is started again: BlockingEngine::load, and a fetch if
\* there is nothing to block.
Restart ==
  /\ reloads < MaxReloads
  /\ reloads' = reloads + 1
  /\ lists' = Loaded
  /\ request' = [r \in Request |-> Free]
  /\ loader' = Restarted(gravity)
  /\ missed' = [l \in Loader |-> {}] /\ doubt' = {}
  /\ UNCHANGED <<rows, gravity, changes>>

RequestStep(r) ==
  \/ \E kind \in Kind, t \in ListedText : AddListed(r, kind, t)
  \/ \E kind \in Kind, id \in {row.id : row \in rows} : FindListed(r, kind, id)
  \/ RemoveListed(r)
  \/ \E t \in GravityText : AddGravity(r, t) \/ RemoveGravity(r, t)
  \/ AskRefresh(r)
  \/ \E published \in Published : RefreshImports(r, published)
  \/ RefreshFails(r)
  \/ ClientGone(r) \/ ApplyDelta(r)

ListsNext ==
  \/ \E r \in Request : RequestStep(r)
  \/ Sighup \/ RefreshDue \/ FetchFails \/ Restart
  \/ \E published \in Published : Fetch(published)
  \/ \E l \in Loader : LoadStep(l) \/ Swap(l)

ListsSpec == ListsInit /\ [][ListsNext]_listsVars

\* Tasks are scheduled, the refresh interval ends, and the source answers again
\* and again.  Nobody has to send a request or a signal.
Fairness ==
  /\ \A r \in Request : WF_listsVars(RemoveListed(r) \/ ApplyDelta(r))
  /\ \A l \in Loader : WF_listsVars(LoadStep(l) \/ Swap(l))
  /\ WF_listsVars(RefreshDue)
  /\ SF_listsVars(\E published \in Published : Fetch(published))

FairListsSpec == ListsSpec /\ Fairness

-----------------------------------------------------------------------------
\* What the rows say of a name, by the meaning of an entry.
Listed(kind, n) == \E row \in rows : row.kind = kind /\ ~row.text.wild /\ row.text.name = n

ShouldBlock(n) ==
  /\ ~Listed("allow", n) /\ n \notin AllowRegex
  /\ \/ Listed("deny", n)
     \/ \E t \in gravity : n \in Touches(t)
     \/ n \in DenyRegex

Quiet(n) == \A r \in Request : Pending(r) => n \notin Touches(request[r].text)

(* A name is decided in memory as the rows say, unless a change of it is on  *)
(* its way to the copy or one of seven things has happened since the last    *)
(* load: opposite changes of the name crossed, a load took a change back, a  *)
(* wildcard or a text with capitals was changed through the API, a row was   *)
(* removed through the other list or left another spelling behind, a         *)
(* blocklist was imported and not loaded, or the handler was dropped between *)
(* the row and the copy.  Changes of different names and loads may           *)
(* interleave at will (lib.rs:553-653, 1256-1300, blocking/mod.rs:84-157,    *)
(* 209-297).                                                                 *)
FollowsDatabase ==
  /\ \A n \in Name \ doubt : Quiet(n) => (CheckBlocked(lists, n) <=> ShouldBlock(n))
  /\ (doubt = {} /\ \A r \in Request : ~Pending(r)) => lists.total = Loaded.total

(* A name decided otherwise than the rows say is not decided so for ever: a  *)
(* later refresh loads the rows again (fetcher.rs:34-71).                    *)
DisagreementEnds ==
  \A n \in Name : (CheckBlocked(lists, n) # ShouldBlock(n)) ~> (CheckBlocked(lists, n) = ShouldBlock(n))
=============================================================================
