------------------------ MODULE DotConnectionProofs ------------------------
(***************************************************************************)
(* Proofs about DotConnection, for any number of calls, connection tasks   *)
(* and ids that satisfies DotAssumption.                                   *)
(***************************************************************************)
EXTENDS DotConnection, FiniteSetTheorems, WellFoundedInduction, SequenceTheorems, TLAPS

-----------------------------------------------------------------------------
(* The inductive invariant.                                                *)

\* A call is in the channel or the map of a task at most once, and only after
\* it has been queued there: what Take finds at the head of the channel has no
\* entry yet, so that the map has fewer entries than there are calls, and
\* unique_conn_id ends.
OnceEach(k) ==
  /\ \A i, j \in DOMAIN queue[k] : queue[k][i] = queue[k][j] => i = j
  /\ \A i, j \in DOMAIN pending[k] : pending[k][i].query = pending[k][j].query => i = j
  /\ \A i \in DOMAIN queue[k] : queue[k][i] \notin Owners(k)
  /\ \A q \in Range(queue[k]) \cup Owners(k) : caller[q].pc \in {"waiting", "done"}

\* An entry is found under the id of its number.  A query on the wire is the one
\* the entry under its id stands for, unless that entry is younger.
Matched(k) ==
  /\ \A i \in DOMAIN pending[k] : pending[k][i].seq < drawn /\ Id(pending[k][i].seq) = i
  /\ \A r \in wire[k] :
       /\ r.seq < drawn
       /\ \A i \in DOMAIN pending[k] :
            Id(r.seq) = i => r = pending[k][i] \/ r.seq < pending[k][i].seq

Inv ==
  /\ TypeOK
  /\ \A k \in Conn : OnceEach(k) /\ Matched(k)
  /\ AnswersOwnQuery
  /\ WaiterNotForgotten

-----------------------------------------------------------------------------
(* Numbers and ids.                                                        *)

LEMMA Remainder ==
  ASSUME NEW m \in Nat \ {0}, NEW a \in Int
  PROVE  a % m \in 0..m-1 /\ a \div m \in Int /\ a = m * (a \div m) + (a % m)
OBVIOUS

LEMMA RemainderOfSum ==
  ASSUME NEW m \in Nat \ {0}, NEW p \in Int, NEW r \in 0..m-1
  PROVE  (m * p + r) % m = r
OBVIOUS

\* Every number has an id.
LEMMA IdType ==
  ASSUME NEW n \in Nat
  PROVE  Id(n) \in Ids
BY Remainder, DotAssumption DEF Id, Ids

\* Different numbers with the same id are far apart.
LEMMA SameId ==
  ASSUME NEW a \in Nat, NEW b \in Nat, Id(a) = Id(b), a < b
  PROVE  b - a >= IdSpace
<1> DEFINE m == IdSpace
           p == a \div m
           q == b \div m
<1>1. m \in Nat \ {0} /\ a % m = b % m
  BY DotAssumption DEF Id
<1>2. p \in Int /\ q \in Int /\ a = m * p + (a % m) /\ b = m * q + (b % m) /\ a % m \in Int
  BY <1>1, Remainder
<1> HIDE DEF m, p, q
<1>3. b - a = m * (q - p)
  BY <1>1, <1>2
<1>4. q - p >= 1
  BY <1>1, <1>2, <1>3
<1>5. m * (q - p) >= m
  BY <1>1, <1>2, <1>4
<1> QED  BY <1>3, <1>5 DEF m

\* Among IdSpace numbers in a row every id occurs.
LEMMA EveryIdComes ==
  ASSUME NEW a \in Nat, NEW i \in Ids
  PROVE  \E n \in a..a + IdSpace - 1 : Id(n) = i
<1> DEFINE m == IdSpace
           d == (i - a) % m
           q == (i - a) \div m
           back == -q
<1>1. m \in Nat \ {0} /\ i \in 0..m-1
  BY DotAssumption DEF Ids
<1>2. d \in 0..m-1 /\ q \in Int /\ i - a = m * q + d
  BY <1>1, Remainder
<1> HIDE DEF m, d, q
<1>3. back \in Int /\ a + d = m * back + i /\ a + d \in a..a + m - 1
  BY <1>1, <1>2
<1> HIDE DEF back
<1>4. (a + d) % m = i
  BY <1>1, <1>3, RemainderOfSum
<1> QED  BY <1>3, <1>4 DEF Id, m

\* A set of natural numbers has a least element.
LEMMA LeastNumber ==
  ASSUME NEW S \in SUBSET Nat, S # {}
  PROVE  \E x \in S : \A y \in S : x <= y
<1> DEFINE R == OpToRel(<, Nat)
<1>1. IsWellFoundedOn(R, Nat)
  BY NatLessThanWellFounded
<1>2. PICK x \in S : \A y \in S : <<y, x>> \notin R
  BY <1>1, WFMin
<1>3. \A y \in S : ~(y < x)
  BY <1>2 DEF OpToRel
<1> HIDE DEF R
<1> QED  BY <1>2, <1>3

\* A task that takes a query has fewer entries than there are ids.
LEMMA SomeIdFree ==
  ASSUME TypeOK, NEW k \in Conn, OnceEach(k), queue[k] # <<>>
  PROVE  Ids \ DOMAIN pending[k] # {}
<1> DEFINE head == Head(queue[k])
           D == DOMAIN pending[k]
           f == [i \in D |-> pending[k][i].query]
<1>1. head \in Query /\ 1 \in DOMAIN queue[k] /\ head = queue[k][1]
  BY DEF TypeOK
<1>2. f \in [D -> Query \ {head}]
  BY <1>1 DEF OnceEach, Owners, TypeOK, Sent
<1>3. f \in Injection(D, Query \ {head})
  BY <1>2 DEF Injection, IsInjective, OnceEach
<1>4. IsFiniteSet(Query \ {head}) /\ Cardinality(Query \ {head}) = Cardinality(Query) - 1
      /\ Cardinality(Query) \in Nat
  BY <1>1, FS_RemoveElement, FS_CardinalityType, DotAssumption
<1>5. Cardinality(D) <= Cardinality(Query) - 1
  BY <1>3, <1>4, FS_Injection
<1>6. Cardinality(Ids) = IdSpace
  <2>1. 0 \in Int /\ IdSpace - 1 \in Int /\ ~(0 > IdSpace - 1)
    BY DotAssumption
  <2>2. Cardinality(0..IdSpace - 1) = IdSpace - 1 - 0 + 1
    BY <2>1, FS_Interval
  <2> QED  BY <2>2, DotAssumption DEF Ids
<1>7. D # Ids
  BY <1>4, <1>5, <1>6, DotAssumption
<1> QED  BY <1>7 DEF TypeOK

\* unique_conn_id finds a number that is not below the counter, and the id of
\* which is not pending.
LEMMA FreshSeqFree ==
  ASSUME TypeOK, NEW k \in Conn, OnceEach(k), queue[k] # <<>>
  PROVE  FreshSeq(k) \in Nat /\ FreshSeq(k) >= drawn /\ Id(FreshSeq(k)) \notin DOMAIN pending[k]
<1> DEFINE S == {n \in drawn..drawn + IdSpace - 1 : Id(n) \notin DOMAIN pending[k]}
<1>1. drawn \in Nat /\ IdSpace \in Nat
  BY DotAssumption DEF TypeOK
<1>2. S # {} /\ S \in SUBSET Nat
  <2>1. PICK i \in Ids : i \notin DOMAIN pending[k]
    BY SomeIdFree
  <2>2. PICK n \in drawn..drawn + IdSpace - 1 : Id(n) = i
    BY <1>1, EveryIdComes
  <2> QED  BY <1>1, <2>1, <2>2
<1> HIDE DEF S
<1>3. PICK x \in S : \A y \in S : x <= y
  BY <1>2, LeastNumber
<1>4. /\ x \in drawn..drawn + IdSpace - 1 /\ Id(x) \notin DOMAIN pending[k]
      /\ \A m \in drawn..x - 1 : Id(m) \in DOMAIN pending[k]
  <2>1. x \in drawn..drawn + IdSpace - 1 /\ Id(x) \notin DOMAIN pending[k]
    BY <1>3 DEF S
  <2>2. ASSUME NEW m \in drawn..x - 1, Id(m) \notin DOMAIN pending[k]
        PROVE  FALSE
    <3>1. m \in S
      BY <1>1, <2>1, <2>2 DEF S
    <3> QED  BY <1>1, <1>3, <2>1, <3>1
  <2> QED  BY <2>1, <2>2
<1> QED  BY <1>1, <1>4 DEF FreshSeq

-----------------------------------------------------------------------------
(* What the actions do to the maps, and to the calls.                      *)

PendingType ==
  /\ DOMAIN pending = Conn
  /\ \A k \in Conn :
       DOMAIN pending[k] \subseteq Ids /\ pending[k] \in [DOMAIN pending[k] -> Sent]

\* Entries are removed, and the others stay as they are.
Thinned(k) ==
  /\ DOMAIN pending'[k] \subseteq DOMAIN pending[k]
  /\ \A i \in DOMAIN pending'[k] : pending'[k][i] = pending[k][i]

LEMMA RestrictThins ==
  ASSUME TypeOK, NEW k \in Conn, NEW S \in SUBSET DOMAIN pending[k],
         pending' = [pending EXCEPT ![k] = Restrict(pending[k], S)]
  PROVE  /\ PendingType'
         /\ \A l \in Conn : Thinned(l)
         /\ DOMAIN pending'[k] = S /\ \A l \in Conn : l # k => pending'[l] = pending[l]
<1> DEFINE m == Restrict(pending[k], S)
<1>1. DOMAIN m = S /\ \A i \in S : m[i] = pending[k][i]
  BY DEF Restrict
<1>2. m \in [S -> Sent]
  BY <1>1 DEF TypeOK, Restrict
<1> HIDE DEF m
<1>3. DOMAIN pending' = Conn /\ \A l \in Conn : pending'[l] = IF l = k THEN m ELSE pending[l]
  BY DEF TypeOK, m
<1> QED  BY <1>1, <1>2, <1>3 DEF PendingType, Thinned, TypeOK

LEMMA EmptyThins ==
  ASSUME TypeOK, NEW k \in Conn, pending' = [pending EXCEPT ![k] = Empty]
  PROVE  /\ PendingType'
         /\ \A l \in Conn : Thinned(l)
         /\ DOMAIN pending'[k] = {} /\ \A l \in Conn : l # k => pending'[l] = pending[l]
<1>1. DOMAIN Empty = {} /\ Empty \in [{} -> Sent]
  BY DEF Empty
<1>2. DOMAIN pending' = Conn /\ \A l \in Conn : pending'[l] = IF l = k THEN Empty ELSE pending[l]
  BY DEF TypeOK
<1> QED  BY <1>1, <1>2 DEF PendingType, Thinned, TypeOK

\* The three ways entries are withdrawn.
LEMMA WithdrawThins ==
  ASSUME TypeOK, NEW k \in Conn, NEW i,
         pending' = [pending EXCEPT ![k] = Restrict(@, DOMAIN @ \ {i})]
  PROVE  /\ PendingType' /\ \A l \in Conn : Thinned(l)
         /\ DOMAIN pending'[k] = DOMAIN pending[k] \ {i}
         /\ \A l \in Conn : l # k => pending'[l] = pending[l]
<1>1. DOMAIN pending[k] \ {i} \in SUBSET DOMAIN pending[k]
  OBVIOUS
<1> QED  BY <1>1, RestrictThins

LEMMA SweepThins ==
  ASSUME TypeOK, NEW k \in Conn, Sweep(k)
  PROVE  /\ PendingType' /\ \A l \in Conn : Thinned(l)
         /\ DOMAIN pending'[k] = {i \in DOMAIN pending[k] : ~Abandoned(k, i)}
         /\ \A l \in Conn : l # k => pending'[l] = pending[l]
<1> DEFINE S == {i \in DOMAIN pending[k] : ~Abandoned(k, i)}
<1>1. S \in SUBSET DOMAIN pending[k] /\ pending' = [pending EXCEPT ![k] = Restrict(pending[k], S)]
  BY DEF Sweep
<1> HIDE DEF S
<1>2. /\ PendingType' /\ \A l \in Conn : Thinned(l)
      /\ DOMAIN pending'[k] = S /\ \A l \in Conn : l # k => pending'[l] = pending[l]
  BY <1>1, RestrictThins
<1> QED  BY <1>2 DEF S

LEMMA SameThins ==
  ASSUME TypeOK, UNCHANGED pending
  PROVE  PendingType' /\ \A l \in Conn : Thinned(l)
BY DEF PendingType, Thinned, TypeOK

\* An answered call has been waiting, and the others go on.
LEMMA ReplyTyped ==
  ASSUME TypeOK, NEW Q, NEW result \in Result, Reply(Q, result)
  PROVE  /\ caller' \in [Query -> Call]
         /\ \A q \in Query : \/ caller'[q] = caller[q] /\ ~(q \in Q /\ Waiting(q))
                             \/ caller'[q] = result /\ q \in Q /\ Waiting(q)
BY DEF Reply, TypeOK, Call

LEMMA FailedTyped ==
  ASSUME NEW r \in {"timeout", "queue full", "closed", "io"}
  PROVE  Failed(r) \in Result /\ Failed(r).pc = "done" /\ Failed(r).result = r
BY DEF Failed, Result

\* What the callers do.
LEMMA CallerTypes ==
  ASSUME TypeOK, NEW q \in Query, CallerStep(q)
  PROVE  TypeOK'
<1> USE DEF TypeOK
<1>1. CASE Start(q)
  BY <1>1 DEF Start, Call, Alive
<1>2. CASE Enqueue(q)
  <2>1. PICK k \in Conn : /\ Sending(q, k) /\ task[k] \in Alive
                          /\ Len(queue[k]) < ChannelBound
                          /\ queue' = [queue EXCEPT ![k] = Append(@, q)]
                          /\ caller' = [caller EXCEPT ![q].pc = "waiting"]
    BY <1>2 DEF Enqueue
  <2>2. caller' \in [Query -> Call]
    BY <2>1 DEF Sending, Call
  <2>3. Append(queue[k], q) \in Seq(Query) /\ Len(Append(queue[k], q)) <= ChannelBound
    BY <2>1, DotAssumption
  <2>4. queue' \in [Conn -> Seq(Query)] /\ \A l \in Conn : Len(queue'[l]) <= ChannelBound
    BY <2>1, <2>3
  <2> QED  BY <1>2, <2>2, <2>4 DEF Enqueue
<1>3. CASE SendTimeout(q)
  BY <1>3, FailedTyped DEF SendTimeout, Call
<1>4. CASE SendClosed(q)
  BY <1>4, FailedTyped DEF SendClosed, Call
<1>5. CASE WaitTimeout(q)
  BY <1>5, FailedTyped DEF WaitTimeout, Call
<1> QED  BY <1>1, <1>2, <1>3, <1>4, <1>5 DEF CallerStep

\* What Take does, in full.
LEMMA TakeAdds ==
  ASSUME TypeOK, NEW k \in Conn, OnceEach(k), Take(k)
  PROVE  \E seq \in Nat :
           LET sent == [query |-> Head(queue[k]), seq |-> seq] IN
           /\ seq >= drawn /\ Id(seq) \in Ids \ DOMAIN pending[k] /\ sent \in Sent
           /\ drawn' = seq + 1 /\ current' = [current EXCEPT ![k] = Id(seq)]
           /\ PendingType' /\ \A l \in Conn : l # k => pending'[l] = pending[l]
           /\ DOMAIN pending'[k] = DOMAIN pending[k] \cup {Id(seq)}
           /\ pending'[k][Id(seq)] = sent
           /\ \A i \in DOMAIN pending[k] : pending'[k][i] = pending[k][i]
           /\ wire' = [wire EXCEPT ![k] = @ \cup {sent}]
<1> DEFINE seq  == FreshSeq(k)
           sent == [query |-> Head(queue[k]), seq |-> seq]
           m    == [i \in DOMAIN pending[k] \cup {Id(seq)} |->
                      IF i = Id(seq) THEN sent ELSE pending[k][i]]
<1>1. queue[k] # <<>> /\ pending' = [pending EXCEPT ![k] = m]
      /\ wire' = [wire EXCEPT ![k] = @ \cup {sent}] /\ drawn' = seq + 1
      /\ current' = [current EXCEPT ![k] = Id(seq)]
  BY DEF Take
<1>2. seq \in Nat /\ seq >= drawn /\ Id(seq) \notin DOMAIN pending[k] /\ Id(seq) \in Ids
  BY <1>1, FreshSeqFree, IdType
<1> HIDE DEF seq
<1>3. sent \in Sent
  BY <1>1, <1>2 DEF Sent, TypeOK
<1> HIDE DEF sent
<1>4. m \in [DOMAIN pending[k] \cup {Id(seq)} -> Sent]
      /\ DOMAIN pending[k] \cup {Id(seq)} \subseteq Ids
  BY <1>2, <1>3 DEF TypeOK
<1>5. DOMAIN m = DOMAIN pending[k] \cup {Id(seq)} /\ m[Id(seq)] = sent
      /\ \A i \in DOMAIN pending[k] : m[i] = pending[k][i]
  BY <1>2
<1> HIDE DEF m
<1>6. DOMAIN pending' = Conn /\ \A l \in Conn : pending'[l] = IF l = k THEN m ELSE pending[l]
  BY <1>1 DEF TypeOK
<1>7. PendingType'
  BY <1>4, <1>5, <1>6 DEF PendingType, TypeOK
<1> QED  BY <1>1, <1>2, <1>3, <1>5, <1>6, <1>7 DEF sent

-----------------------------------------------------------------------------
(* Type correctness.                                                       *)

\* What a connection task does.
LEMMA TaskTypes ==
  ASSUME TypeOK, NEW k \in Conn, OnceEach(k), TaskStep(k)
  PROVE  TypeOK'
<1> USE DEF TypeOK, Goto, Alive
<1>1. CASE Connect(k) \/ ConnectFails(k) \/ Retry(k) \/ ReaderDone(k)
  BY <1>1 DEF Connect, ConnectFails, Retry, ReaderDone
<1>2. CASE Take(k)
  <2>1. PICK seq \in Nat :
          LET sent == [query |-> Head(queue[k]), seq |-> seq] IN
          /\ Id(seq) \in Ids /\ sent \in Sent /\ PendingType'
          /\ wire' = [wire EXCEPT ![k] = @ \cup {sent}]
          /\ current' = [current EXCEPT ![k] = Id(seq)] /\ drawn' = seq + 1
    BY <1>2, TakeAdds
  <2>2. Tail(queue[k]) \in Seq(Query) /\ Len(Tail(queue[k])) <= ChannelBound
    BY <1>2, DotAssumption DEF Take
  <2>3. queue' \in [Conn -> Seq(Query)] /\ \A l \in Conn : Len(queue'[l]) <= ChannelBound
    BY <1>2, <2>2 DEF Take
  <2> QED  BY <1>2, <2>1, <2>3 DEF Take, PendingType
<1>3. CASE WriteOk(k)
  BY <1>3 DEF WriteOk
<1>4. CASE WriteFails(k)
  <2>1. caller' \in [Query -> Call]
    BY <1>4, FailedTyped, ReplyTyped DEF WriteFails
  <2>2. PendingType'
    BY <1>4, WithdrawThins DEF WriteFails
  <2> QED  BY <1>4, <2>1, <2>2 DEF WriteFails, PendingType
<1>5. CASE Reconnect(k)
  <2>1. caller' \in [Query -> Call]
    BY <1>5, FailedTyped, ReplyTyped DEF Reconnect
  <2>2. PendingType'
    BY <1>5, EmptyThins DEF Reconnect
  <2> QED  BY <1>5, <2>1, <2>2 DEF Reconnect, PendingType
<1>6. CASE Sweep(k)
  <2>1. PendingType'
    BY <1>6, SweepThins
  <2> QED  BY <1>6, <2>1 DEF Sweep, PendingType
<1>7. CASE ChannelClosed(k)
  <2>1. PendingType'
    BY <1>7, EmptyThins DEF ChannelClosed
  <2> QED  BY <1>7, <2>1 DEF ChannelClosed, PendingType
<1> QED  BY <1>1, <1>2, <1>3, <1>4, <1>5, <1>6, <1>7 DEF TaskStep

LEMMA DeathTypes ==
  ASSUME TypeOK, NEW k \in Conn, TaskDies(k)
  PROVE  TypeOK' /\ \A l \in Conn : Thinned(l)
<1>1. caller' \in [Query -> Call]
  BY FailedTyped, ReplyTyped DEF TaskDies
<1>2. PendingType' /\ \A l \in Conn : Thinned(l)
  BY EmptyThins, SameThins DEF TaskDies
<1>3. queue' \in [Conn -> Seq(Query)] /\ \A l \in Conn : Len(queue'[l]) <= ChannelBound
  BY DotAssumption DEF TaskDies, TypeOK
<1>4. reader' \in [Conn -> {"none", "reading", "ended"}] /\ wire' \in [Conn -> SUBSET Sent]
  BY DEF TaskDies, TypeOK
<1> QED  BY <1>1, <1>2, <1>3, <1>4 DEF TaskDies, Goto, TypeOK, PendingType

\* An answer, with the entry it is taken for.
LEMMA AnswerTyped ==
  ASSUME TypeOK, NEW k \in Conn, NEW r \in wire[k], NEW i \in DOMAIN pending[k]
  PROVE  [pc |-> "done", result |-> "answer", seq |-> pending[k][i].seq, from |-> r] \in Result
BY DEF TypeOK, Result, Sent

\* What a reader does.
LEMMA ReaderTypes ==
  ASSUME TypeOK, NEW k \in Conn, ReadResponse(k) \/ ReadError(k)
  PROVE  TypeOK' /\ \A l \in Conn : Thinned(l)
<1>1. CASE ReadResponse(k)
  <2>1. PICK r \in wire[k] :
          /\ wire' = [wire EXCEPT ![k] = @ \ {r}]
          /\ \/ /\ Id(r.seq) \in DOMAIN pending[k]
                /\ Reply({pending[k][Id(r.seq)].query},
                         [pc |-> "done", result |-> "answer",
                          seq |-> pending[k][Id(r.seq)].seq, from |-> r])
                /\ pending' = [pending EXCEPT ![k] = Restrict(@, DOMAIN @ \ {Id(r.seq)})]
             \/ UNCHANGED <<caller, pending>>
    BY <1>1 DEF ReadResponse
  <2>2. caller' \in [Query -> Call]
    BY <2>1, AnswerTyped, ReplyTyped DEF TypeOK
  <2>3. PendingType' /\ \A l \in Conn : Thinned(l)
    BY <2>1, WithdrawThins, SameThins
  <2> QED  BY <1>1, <2>1, <2>2, <2>3 DEF ReadResponse, TypeOK, PendingType
<1>2. CASE ReadError(k)
  <2>1. caller' \in [Query -> Call]
    BY <1>2, FailedTyped, ReplyTyped DEF ReadError
  <2>2. PendingType' /\ \A l \in Conn : Thinned(l)
    BY <1>2, EmptyThins DEF ReadError
  <2> QED  BY <1>2, <2>1, <2>2 DEF ReadError, TypeOK, PendingType
<1> QED  BY <1>1, <1>2

LEMMA TypeStep ==
  ASSUME TypeOK, \A k \in Conn : OnceEach(k), [Next]_vars
  PROVE  TypeOK'
<1>1. CASE \E q \in Query : CallerStep(q)
  BY <1>1, CallerTypes
<1>2. CASE \E k \in Conn : TaskStep(k) \/ ReadResponse(k) \/ ReadError(k) \/ TaskDies(k)
  BY <1>2, TaskTypes, ReaderTypes, DeathTypes
<1>3. CASE OtherUpstreamDraws \/ UNCHANGED vars
  BY <1>3 DEF OtherUpstreamDraws, vars, TypeOK
<1> QED  BY <1>1, <1>2, <1>3 DEF Next

-----------------------------------------------------------------------------
(* Steps that bring nothing new to a map, a channel or the wire.           *)

\* All steps but two of the connection k are of this kind.
Shrinks(k) ==
  /\ Thinned(k)
  /\ wire'[k] \subseteq wire[k]
  /\ queue'[k] \in {queue[k], <<>>}

\* Calls go on from waiting to done, and stay there.
CallsGoOn == \A q \in Query : caller[q].pc \in {"waiting", "done"} =>
                                caller'[q].pc \in {"waiting", "done"}

LEMMA ReplyGoesOn ==
  ASSUME TypeOK, NEW Q, NEW result \in Result, Reply(Q, result)
  PROVE  CallsGoOn
<1>1. result.pc = "done"
  BY DEF Result
<1> QED  BY <1>1, ReplyTyped DEF CallsGoOn

LEMMA QuietSteps ==
  ASSUME TypeOK, [Next]_vars,
         \A q \in Query : ~Enqueue(q), \A k \in Conn : ~Take(k)
  PROVE  CallsGoOn /\ drawn' \in Nat /\ drawn <= drawn' /\ \A k \in Conn : Shrinks(k)
<1>1. CASE \E q \in Query : CallerStep(q)
  <2>1. PICK q \in Query : Start(q) \/ SendTimeout(q) \/ SendClosed(q) \/ WaitTimeout(q)
    BY <1>1 DEF CallerStep
  <2>2. UNCHANGED <<queue, pending, wire, drawn>>
    BY <2>1 DEF Start, SendTimeout, SendClosed, WaitTimeout
  <2>3. caller[q].pc \in {"idle", "sending", "waiting"}
        /\ (~WaitTimeout(q) => caller[q].pc # "waiting")
    <3>1. Start(q) => caller[q].pc = "idle"
      BY DEF Start, Idle
    <3>2. \A k \in Conn : Sending(q, k) => caller[q].pc = "sending"
      BY DEF Sending
    <3>3. SendTimeout(q) \/ SendClosed(q) => caller[q].pc = "sending"
      BY <3>2 DEF SendTimeout, SendClosed
    <3>4. WaitTimeout(q) => caller[q].pc = "waiting"
      BY DEF WaitTimeout, Waiting
    <3> QED  BY <2>1, <3>1, <3>3, <3>4
  <2>4. \A p \in Query : p # q => caller'[p] = caller[p]
    BY <2>1 DEF Start, SendTimeout, SendClosed, WaitTimeout, TypeOK
  <2>5. caller[q].pc = "waiting" => caller'[q].pc = "done"
    <3>1. WaitTimeout(q) => caller'[q].pc = "done"
      BY DEF WaitTimeout, TypeOK, Failed
    <3> QED  BY <2>3, <3>1
  <2>6. CallsGoOn
    BY <2>3, <2>4, <2>5 DEF CallsGoOn
  <2> QED  BY <2>2, <2>6, SameThins DEF Shrinks, TypeOK
<1>2. ASSUME NEW k \in Conn, TaskStep(k)
      PROVE  CallsGoOn /\ UNCHANGED drawn /\ \A l \in Conn : Shrinks(l)
  <2>1. CASE Connect(k) \/ ConnectFails(k) \/ Retry(k) \/ WriteOk(k) \/ ReaderDone(k)
    <3>1. UNCHANGED <<caller, queue, pending, wire, drawn>>
      BY <2>1 DEF Connect, ConnectFails, Retry, WriteOk, ReaderDone
    <3> QED  BY <3>1, SameThins DEF Shrinks, CallsGoOn
  <2>2. CASE WriteFails(k)
    <3>1. CallsGoOn
      BY <2>2, FailedTyped, ReplyGoesOn DEF WriteFails
    <3>2. \A l \in Conn : Thinned(l)
      BY <2>2, WithdrawThins DEF WriteFails
    <3> QED  BY <2>2, <3>1, <3>2 DEF WriteFails, Shrinks
  <2>3. CASE Reconnect(k)
    <3>1. CallsGoOn
      BY <2>3, FailedTyped, ReplyGoesOn DEF Reconnect
    <3>2. \A l \in Conn : Thinned(l)
      BY <2>3, EmptyThins DEF Reconnect
    <3> QED  BY <2>3, <3>1, <3>2 DEF Reconnect, Shrinks, TypeOK
  <2>4. CASE Sweep(k)
    <3>1. \A l \in Conn : Thinned(l)
      BY <2>4, SweepThins
    <3> QED  BY <2>4, <3>1 DEF Sweep, Shrinks, CallsGoOn
  <2>5. CASE ChannelClosed(k)
    <3>1. \A l \in Conn : Thinned(l)
      BY <2>5, EmptyThins DEF ChannelClosed
    <3> QED  BY <2>5, <3>1 DEF ChannelClosed, Shrinks, CallsGoOn, TypeOK
  <2> QED  BY <1>2, <2>1, <2>2, <2>3, <2>4, <2>5 DEF TaskStep
<1>3. ASSUME NEW k \in Conn, ReadResponse(k) \/ ReadError(k)
      PROVE  CallsGoOn /\ UNCHANGED drawn /\ \A l \in Conn : Shrinks(l)
  <2>1. CallsGoOn
    <3>1. CASE ReadResponse(k)
      BY <3>1, AnswerTyped, ReplyGoesOn DEF ReadResponse, CallsGoOn
    <3>2. CASE ReadError(k)
      BY <3>2, FailedTyped, ReplyGoesOn DEF ReadError
    <3> QED  BY <1>3, <3>1, <3>2
  <2>2. wire' \in [Conn -> SUBSET Sent] /\ \A l \in Conn : wire'[l] \subseteq wire[l]
    BY <1>3 DEF ReadResponse, ReadError, TypeOK
  <2> QED  BY <1>3, <2>1, <2>2, ReaderTypes DEF ReadResponse, ReadError, Shrinks
<1>4. ASSUME NEW k \in Conn, TaskDies(k)
      PROVE  CallsGoOn /\ UNCHANGED drawn /\ \A l \in Conn : Shrinks(l)
  <2>1. CallsGoOn
    BY <1>4, FailedTyped, ReplyGoesOn DEF TaskDies
  <2>2. \A l \in Conn : wire'[l] \subseteq wire[l] /\ queue'[l] \in {queue[l], <<>>}
    BY <1>4 DEF TaskDies, TypeOK
  <2> QED  BY <1>4, <2>1, <2>2, DeathTypes DEF TaskDies, Shrinks
<1>5. CASE OtherUpstreamDraws \/ UNCHANGED vars
  <2>1. UNCHANGED <<caller, queue, pending, wire>> /\ drawn' \in {drawn, drawn + 1}
    BY <1>5 DEF OtherUpstreamDraws, vars
  <2> QED  BY <2>1, SameThins DEF Shrinks, CallsGoOn, TypeOK
<1> QED  BY <1>1, <1>2, <1>3, <1>4, <1>5 DEF Next, TypeOK

-----------------------------------------------------------------------------
(* Each call once.                                                         *)

LEMMA OwnersOf ==
  ASSUME NEW k \in Conn, NEW q
  PROVE  q \in Owners(k) <=> \E i \in DOMAIN pending[k] : q = pending[k][i].query
BY DEF Owners

LEMMA OwnersOfNext ==
  ASSUME NEW k \in Conn, NEW q
  PROVE  q \in Owners(k)' <=> \E i \in DOMAIN pending'[k] : q = pending'[k][i].query
BY DEF Owners

LEMMA QueuedOf ==
  ASSUME TypeOK, NEW k \in Conn, NEW q
  PROVE  q \in Range(queue[k]) <=> \E i \in DOMAIN queue[k] : q = queue[k][i]
BY DEF Range

LEMMA OnceEachShrinks ==
  ASSUME TypeOK, NEW k \in Conn, OnceEach(k), Shrinks(k), CallsGoOn, TypeOK'
  PROVE  OnceEach(k)'
<1>1. \A q : q \in Owners(k)' => q \in Owners(k) /\ q \in Query
  BY OwnersOf, OwnersOfNext DEF Shrinks, Thinned, TypeOK, Sent
<1>2. Owners(k)' \subseteq Owners(k)
  BY <1>1
<1>3. Range(queue'[k]) \subseteq Range(queue[k]) /\ Range(queue[k]) \subseteq Query
      /\ DOMAIN queue'[k] \subseteq DOMAIN queue[k]
      /\ \A i \in DOMAIN queue'[k] : queue'[k][i] = queue[k][i]
  BY DEF Shrinks, Range, TypeOK
<1>4. \A i, j \in DOMAIN queue'[k] : queue'[k][i] = queue'[k][j] => i = j
  BY <1>3 DEF OnceEach
<1>5. \A i, j \in DOMAIN pending'[k] : pending'[k][i].query = pending'[k][j].query => i = j
  BY DEF OnceEach, Shrinks, Thinned
<1>6. \A i \in DOMAIN queue'[k] : queue'[k][i] \notin Owners(k)'
  BY <1>2, <1>3 DEF OnceEach
<1>7. \A q \in Range(queue'[k]) \cup Owners(k)' : caller'[q].pc \in {"waiting", "done"}
  BY <1>1, <1>3 DEF OnceEach, CallsGoOn
<1> QED  BY <1>4, <1>5, <1>6, <1>7 DEF OnceEach

LEMMA OnceEachQueued ==
  ASSUME TypeOK, \A k \in Conn : OnceEach(k), NEW q \in Query, Enqueue(q)
  PROVE  \A k \in Conn : OnceEach(k)'
<1>1. PICK k \in Conn : /\ Sending(q, k)
                        /\ queue' = [queue EXCEPT ![k] = Append(@, q)]
                        /\ caller' = [caller EXCEPT ![q].pc = "waiting"]
  BY DEF Enqueue
<1>2. caller[q].pc = "sending" /\ caller'[q].pc = "waiting"
      /\ \A p \in Query : p # q => caller'[p] = caller[p]
  BY <1>1 DEF Sending, TypeOK
<1>3. UNCHANGED pending
  BY DEF Enqueue
<1>4. ASSUME NEW l \in Conn, l # k
      PROVE  OnceEach(l)'
  <2>1. queue'[l] = queue[l] /\ Owners(l)' = Owners(l)
    BY <1>1, <1>3, <1>4 DEF TypeOK, Owners
  <2>2. \A p \in Range(queue[l]) \cup Owners(l) : p \in Query
    BY OwnersOf DEF Range, TypeOK, Sent
  <2> QED  BY <1>2, <1>3, <2>1, <2>2 DEF OnceEach
<1>5. OnceEach(k)'
  <2> DEFINE s == queue[k]
  <2>1. s \in Seq(Query) /\ queue'[k] = Append(s, q) /\ Owners(k)' = Owners(k)
    BY <1>1, <1>3 DEF TypeOK, Owners
  <2>2. q \notin Range(s) /\ q \notin Owners(k)
    BY <1>2 DEF OnceEach
  <2>3. \A i \in DOMAIN s : s[i] # q
    BY <2>2 DEF Range
  <2> DEFINE t == queue'[k]
  <2>4. /\ DOMAIN t = DOMAIN s \cup {Len(s) + 1} /\ t[Len(s) + 1] = q
        /\ Len(s) + 1 \notin DOMAIN s /\ \A i \in DOMAIN s : t[i] = s[i]
    BY <2>1
  <2>5. \A i, j \in DOMAIN t : t[i] = t[j] => i = j
    BY <2>3, <2>4 DEF OnceEach
  <2>6. \A i \in DOMAIN t : t[i] \notin Owners(k)
    BY <2>2, <2>4 DEF OnceEach
  <2>7. \A p \in Range(t) \cup Owners(k) : p \in Query /\ (p # q => p \in Range(s) \cup Owners(k))
    <3>1. \A p \in Owners(k) : p \in Query
      BY OwnersOf DEF TypeOK, Sent
    <3> QED  BY <2>1, <2>4, <3>1 DEF Range
  <2>8. \A p \in Range(t) \cup Owners(k) : caller'[p].pc \in {"waiting", "done"}
    BY <1>2, <2>7 DEF OnceEach
  <2> QED  BY <1>3, <2>1, <2>5, <2>6, <2>8 DEF OnceEach
<1> QED  BY <1>4, <1>5

LEMMA OnceEachTaken ==
  ASSUME TypeOK, \A k \in Conn : OnceEach(k), NEW k \in Conn, Take(k)
  PROVE  \A l \in Conn : OnceEach(l)'
<1>1. PICK seq \in Nat :
        /\ Id(seq) \in Ids \ DOMAIN pending[k]
        /\ \A l \in Conn : l # k => pending'[l] = pending[l]
        /\ DOMAIN pending'[k] = DOMAIN pending[k] \cup {Id(seq)}
        /\ pending'[k][Id(seq)] = [query |-> Head(queue[k]), seq |-> seq]
        /\ \A i \in DOMAIN pending[k] : pending'[k][i] = pending[k][i]
  BY TakeAdds
<1> DEFINE s == queue[k]
           t == queue'[k]
<1>2. s # <<>> /\ s \in Seq(Query) /\ t = Tail(s) /\ UNCHANGED caller
      /\ \A l \in Conn : l # k => queue'[l] = queue[l]
  BY DEF Take, TypeOK
<1>3. ASSUME NEW l \in Conn, l # k
      PROVE  OnceEach(l)'
  <2>1. queue'[l] = queue[l] /\ pending'[l] = pending[l] /\ Owners(l)' = Owners(l)
    BY <1>1, <1>2, <1>3 DEF Owners
  <2> QED  BY <1>2, <2>1 DEF OnceEach
<1>4. OnceEach(k)'
  <2>1. /\ \A i \in DOMAIN t : i + 1 \in DOMAIN s /\ i \in Nat /\ t[i] = s[i + 1]
        /\ 1 \in DOMAIN s /\ Head(s) = s[1] /\ \A i \in DOMAIN t : i + 1 # 1
    BY <1>2
  <2>2. \A i, j \in DOMAIN t : t[i] = t[j] => i = j
    BY <2>1 DEF OnceEach
  <2>3. \A i \in DOMAIN t : t[i] # Head(s)
    BY <2>1 DEF OnceEach
  <2>4. Head(s) \notin Owners(k) /\ Head(s) \in Range(s)
    BY <2>1 DEF OnceEach, Range
  <2>5. \A p : p \in Owners(k)' <=> p \in Owners(k) \/ p = Head(s)
    BY <1>1, OwnersOf, OwnersOfNext
  <2>6. \A i, j \in DOMAIN pending'[k] : pending'[k][i].query = pending'[k][j].query => i = j
    BY <1>1, <2>4, OwnersOf DEF OnceEach
  <2>7. \A i \in DOMAIN t : t[i] \notin Owners(k)'
    BY <2>1, <2>3, <2>5 DEF OnceEach
  <2>8. Range(t) \subseteq Range(s)
    BY <2>1 DEF Range
  <2>9. \A p \in Range(t) \cup Owners(k)' : caller'[p].pc \in {"waiting", "done"}
    BY <1>2, <2>4, <2>5, <2>8 DEF OnceEach
  <2> QED  BY <2>2, <2>6, <2>7, <2>9 DEF OnceEach
<1> QED  BY <1>3, <1>4

LEMMA OnceEachStep ==
  ASSUME TypeOK, TypeOK', \A k \in Conn : OnceEach(k), [Next]_vars
  PROVE  \A k \in Conn : OnceEach(k)'
BY OnceEachQueued, OnceEachTaken, QuietSteps, OnceEachShrinks

-----------------------------------------------------------------------------
(* The entry of an id is the youngest query with that id.                  *)

LEMMA MatchedShrinks ==
  ASSUME TypeOK, NEW k \in Conn, Matched(k), Shrinks(k), drawn' \in Nat, drawn <= drawn'
  PROVE  Matched(k)'
<1>1. \A i \in DOMAIN pending'[k] :
        i \in DOMAIN pending[k] /\ pending'[k][i] = pending[k][i] /\ pending[k][i].seq \in Nat
  BY DEF Shrinks, Thinned, TypeOK, Sent
<1>2. \A r \in wire'[k] : r \in wire[k] /\ r.seq \in Nat
  BY DEF Shrinks, TypeOK, Sent
<1>3. drawn \in Nat
  BY DEF TypeOK
<1>4. \A i \in DOMAIN pending'[k] : pending'[k][i].seq < drawn' /\ Id(pending'[k][i].seq) = i
  BY <1>1, <1>3 DEF Matched
<1>5. \A r \in wire'[k] : r.seq < drawn'
  BY <1>2, <1>3 DEF Matched
<1> QED  BY <1>1, <1>2, <1>4, <1>5 DEF Matched

LEMMA MatchedTaken ==
  ASSUME TypeOK, \A k \in Conn : OnceEach(k) /\ Matched(k), NEW k \in Conn, Take(k)
  PROVE  \A l \in Conn : Matched(l)'
<1>1. PICK seq \in Nat :
        LET sent == [query |-> Head(queue[k]), seq |-> seq] IN
        /\ seq >= drawn /\ Id(seq) \in Ids \ DOMAIN pending[k] /\ sent \in Sent
        /\ drawn' = seq + 1
        /\ \A l \in Conn : l # k => pending'[l] = pending[l]
        /\ DOMAIN pending'[k] = DOMAIN pending[k] \cup {Id(seq)}
        /\ pending'[k][Id(seq)] = sent
        /\ \A i \in DOMAIN pending[k] : pending'[k][i] = pending[k][i]
        /\ wire' = [wire EXCEPT ![k] = @ \cup {sent}]
  BY TakeAdds
<1> DEFINE sent == [query |-> Head(queue[k]), seq |-> seq]
<1>2. sent.seq = seq /\ drawn \in Nat /\ drawn' \in Nat /\ drawn <= drawn'
  BY <1>1 DEF TypeOK
<1>3. ASSUME NEW l \in Conn, l # k
      PROVE  Matched(l)'
  <2>1. pending'[l] = pending[l] /\ wire'[l] = wire[l]
    BY <1>1, <1>3 DEF TypeOK
  <2>2. Thinned(l) /\ queue'[l] = queue[l]
    BY <1>3, <2>1 DEF Thinned, Take, TypeOK
  <2> QED  BY <1>2, <2>1, <2>2, MatchedShrinks DEF Shrinks
<1>4. Matched(k)'
  <2> HIDE DEF sent
  <2>1. /\ DOMAIN pending'[k] = DOMAIN pending[k] \cup {Id(seq)} /\ Id(seq) \notin DOMAIN pending[k]
        /\ pending'[k][Id(seq)] = sent /\ \A i \in DOMAIN pending[k] : pending'[k][i] = pending[k][i]
        /\ wire'[k] = wire[k] \cup {sent} /\ seq >= drawn /\ drawn' = seq + 1
    BY <1>1 DEF sent, TypeOK
  <2>2. /\ \A i \in DOMAIN pending[k] : pending[k][i].seq \in Nat /\ pending[k][i].seq < seq
                                        /\ Id(pending[k][i].seq) = i
        /\ \A r \in wire[k] : r.seq \in Nat /\ r.seq < seq
    BY <1>2, <2>1 DEF TypeOK, Sent, Matched
  <2>3. \A i \in DOMAIN pending'[k] : pending'[k][i].seq < drawn' /\ Id(pending'[k][i].seq) = i
    BY <1>2, <2>1, <2>2
  <2>4. \A r \in wire'[k] : r.seq < drawn'
    BY <1>2, <2>1, <2>2
  <2>5. ASSUME NEW r \in wire'[k], NEW i \in DOMAIN pending'[k], Id(r.seq) = i
        PROVE  r = pending'[k][i] \/ r.seq < pending'[k][i].seq
    <3>1. CASE r = sent
      BY <1>2, <2>1, <2>5, <3>1
    <3>2. CASE r \in wire[k] /\ i \in DOMAIN pending[k]
      BY <2>1, <2>5, <3>2 DEF Matched
    <3>3. CASE r \in wire[k] /\ i = Id(seq)
      BY <1>2, <2>1, <2>2, <3>3
    <3> QED  BY <2>1, <3>1, <3>2, <3>3
  <2> QED  BY <2>3, <2>4, <2>5 DEF Matched
<1> QED  BY <1>3, <1>4

LEMMA MatchedStep ==
  ASSUME TypeOK, TypeOK', \A k \in Conn : OnceEach(k) /\ Matched(k), [Next]_vars
  PROVE  \A k \in Conn : Matched(k)'
<1>1. ASSUME NEW q \in Query, Enqueue(q)
      PROVE  \A k \in Conn : Matched(k)'
  BY <1>1 DEF Enqueue, Matched
<1> QED  BY <1>1, MatchedTaken, QuietSteps, MatchedShrinks

-----------------------------------------------------------------------------
(* Answers and waiting calls.                                              *)

\* A call that gives up, or is turned away.
LEMMA GivesUp ==
  ASSUME TypeOK, NEW q \in Query, SendTimeout(q) \/ SendClosed(q) \/ WaitTimeout(q)
  PROVE  caller'[q].pc = "done" /\ caller'[q].result # "answer"
<1>1. CASE SendTimeout(q)
  BY <1>1 DEF SendTimeout, Failed, TypeOK
<1>2. CASE SendClosed(q)
  BY <1>2 DEF SendClosed, Failed, TypeOK
<1>3. CASE WaitTimeout(q)
  BY <1>3 DEF WaitTimeout, Failed, TypeOK
<1> QED  BY <1>1, <1>2, <1>3

\* A call that gets an answer gets it from a reader.
LEMMA AnswersStep ==
  ASSUME TypeOK, TypeOK', \A k \in Conn : Matched(k), AnswersOwnQuery, [Next]_vars
  PROVE  AnswersOwnQuery'
<1> DEFINE Good(c, q) == c.pc = "done" /\ c.result = "answer" =>
                           c.from.query = q \/ c.seq - c.from.seq >= IdSpace
<1>1. \A q \in Query : Good(caller[q], q)
  BY DEF AnswersOwnQuery
<1>2. ASSUME NEW q \in Query, NEW p \in Query, CallerStep(q)
      PROVE  Good(caller'[p], p)
  <2>1. p # q => caller'[p] = caller[p]
    BY <1>2 DEF CallerStep, Start, Enqueue, SendTimeout, SendClosed, WaitTimeout, TypeOK
  <2>2. ~(caller'[q].pc = "done" /\ caller'[q].result = "answer")
    <3>1. CASE Start(q)
      BY <3>1 DEF Start, TypeOK
    <3>2. CASE Enqueue(q)
      BY <3>2 DEF Enqueue, Sending, TypeOK
    <3>3. CASE SendTimeout(q) \/ SendClosed(q) \/ WaitTimeout(q)
      BY <3>3, GivesUp
    <3> QED  BY <1>2, <3>1, <3>2, <3>3 DEF CallerStep
  <2> QED  BY <1>1, <2>1, <2>2
<1>3. ASSUME NEW k \in Conn, ReadResponse(k), NEW q \in Query
      PROVE  Good(caller'[q], q)
  <2>1. CASE caller'[q] = caller[q]
    BY <1>1, <2>1
  <2>2. CASE caller'[q] # caller[q]
    <3>1. PICK r \in wire[k] :
            /\ Id(r.seq) \in DOMAIN pending[k]
            /\ Reply({pending[k][Id(r.seq)].query},
                     [pc |-> "done", result |-> "answer",
                      seq |-> pending[k][Id(r.seq)].seq, from |-> r])
      BY <1>3, <2>2 DEF ReadResponse
    <3> DEFINE e == pending[k][Id(r.seq)]
    <3>2. q = e.query /\ caller'[q] = [pc |-> "done", result |-> "answer", seq |-> e.seq, from |-> r]
      BY <2>2, <3>1 DEF Reply, TypeOK
    <3>3. r.seq \in Nat /\ e.seq \in Nat /\ Id(e.seq) = Id(r.seq)
          /\ (r = e \/ r.seq < e.seq)
      BY <3>1 DEF Matched, TypeOK, Sent
    <3> HIDE DEF e
    <3>4. r = e \/ e.seq - r.seq >= IdSpace
      BY <3>3, SameId
    <3> QED  BY <3>2, <3>4
  <2> QED  BY <2>1, <2>2
<1>4. ASSUME NEW Q, NEW r \in {"closed", "io"}, Reply(Q, Failed(r)), NEW q \in Query
      PROVE  Good(caller'[q], q)
  <2>1. Failed(r).result # "answer"
    BY FailedTyped
  <2>2. caller'[q] = caller[q] \/ caller'[q] = Failed(r)
    BY <1>4, FailedTyped, ReplyTyped
  <2> QED  BY <1>1, <2>1, <2>2
<1>5. ASSUME NEW k \in Conn, TaskStep(k) \/ ReadError(k) \/ TaskDies(k), NEW q \in Query
      PROVE  Good(caller'[q], q)
  <2>1. CASE UNCHANGED caller
    BY <1>1, <2>1
  <2>2. CASE WriteFails(k) \/ Reconnect(k) \/ ReadError(k) \/ TaskDies(k)
    BY <1>4, <2>2 DEF WriteFails, Reconnect, ReadError, TaskDies
  <2>3. CASE Connect(k) \/ ConnectFails(k) \/ Retry(k) \/ Take(k) \/ WriteOk(k) \/ ReaderDone(k)
             \/ Sweep(k) \/ ChannelClosed(k)
    BY <2>1, <2>3 DEF Connect, ConnectFails, Retry, Take, WriteOk, ReaderDone, Sweep, ChannelClosed
  <2> QED  BY <1>5, <2>2, <2>3 DEF TaskStep
<1>6. CASE OtherUpstreamDraws \/ UNCHANGED vars
  BY <1>1, <1>6 DEF OtherUpstreamDraws, vars, AnswersOwnQuery
<1>7. CASE ~(OtherUpstreamDraws \/ UNCHANGED vars)
  <2>1. \A q \in Query : Good(caller'[q], q)
    <3> HIDE DEF Good
    <3> QED  BY <1>2, <1>3, <1>5, <1>7 DEF Next
  <2> QED  BY <2>1 DEF AnswersOwnQuery
<1> QED  BY <1>6, <1>7

\* Where a waiting call is.
SeenTo(q, k) ==
  \/ task[k] \in Alive /\ q \in Range(queue[k])
  \/ q \in Owners(k) /\ (task[k] \in Alive \/ reader[k] = "reading")

LEMMA WaiterSeen ==
  ASSUME TypeOK, WaiterNotForgotten, NEW q \in Query, Waiting(q)
  PROVE  \E k \in Conn : caller[q].conn = k /\ SeenTo(q, k)
<1>1. caller[q] \in Call /\ caller[q].pc = "waiting"
  BY DEF TypeOK, Waiting
<1>2. caller[q] # Idle /\ caller[q] \notin Result
  <2>1. Idle.pc = "idle" /\ \A c \in Result : c.pc = "done"
    BY DEF Idle, Result
  <2> QED  BY <1>1, <2>1
<1>3. caller[q].conn \in Conn
  BY <1>1, <1>2 DEF Call
<1> QED  BY <1>3 DEF WaiterNotForgotten, SeenTo

LEMMA SeenNext ==
  ASSUME NEW q \in Query, NEW k \in Conn, caller'[q].conn = k, SeenTo(q, k)'
  PROVE  LET l == caller'[q].conn IN
           \/ task'[l] \in Alive /\ q \in Range(queue'[l])
           \/ /\ q \in {pending'[l][i].query : i \in DOMAIN pending'[l]}
              /\ task'[l] \in Alive \/ reader'[l] = "reading"
BY DEF SeenTo, Owners

LEMMA AllSeenNext ==
  ASSUME \A q \in Query : Waiting(q)' => \E k \in Conn : caller'[q].conn = k /\ SeenTo(q, k)'
  PROVE  WaiterNotForgotten'
BY SeenNext DEF WaiterNotForgotten, Owners, Waiting

\* A call that waits after a step of the connections waited before, and was not
\* among those the step replied to.
LEMMA StillWaiting ==
  ASSUME TypeOK, NEW Q, NEW r \in {"closed", "io"}, Reply(Q, Failed(r)), NEW q \in Query,
         Waiting(q)'
  PROVE  Waiting(q) /\ q \notin Q /\ caller'[q] = caller[q]
<1>1. Failed(r) \in Result /\ Failed(r).pc = "done"
  BY FailedTyped
<1> QED  BY <1>1, ReplyTyped DEF Waiting

LEMMA WaiterCallers ==
  ASSUME TypeOK, TypeOK', WaiterNotForgotten, NEW p \in Query, CallerStep(p)
  PROVE  WaiterNotForgotten'
<1> SUFFICES ASSUME NEW q \in Query, Waiting(q)'
             PROVE  \E k \in Conn : caller'[q].conn = k /\ SeenTo(q, k)'
  BY AllSeenNext
<1>1. UNCHANGED <<pending, reader>> /\ \A k \in Conn : task[k] \in Alive => task'[k] \in Alive
  BY DEF CallerStep, Start, Enqueue, SendTimeout, SendClosed, WaitTimeout, TypeOK, Alive
<1>2. CASE caller'[q] = caller[q]
  <2>1. PICK k \in Conn : caller[q].conn = k /\ SeenTo(q, k)
    BY <1>2, WaiterSeen DEF Waiting
  <2>2. Owners(k)' = Owners(k)
    BY <1>1 DEF Owners
  <2>3. Range(queue[k]) \subseteq Range(queue'[k])
    <3>1. CASE UNCHANGED queue
      BY <3>1
    <3>2. CASE Enqueue(p)
      <4>1. PICK l \in Conn : queue' = [queue EXCEPT ![l] = Append(@, p)]
        BY <3>2 DEF Enqueue
      <4>2. queue[k] \in Seq(Query) /\ queue'[k] \in {queue[k], Append(queue[k], p)}
        BY <2>1, <4>1 DEF TypeOK
      <4> QED  BY <4>2 DEF Range
    <3> QED  BY <3>1, <3>2 DEF CallerStep, Start, SendTimeout, SendClosed, WaitTimeout
  <2> QED  BY <1>1, <1>2, <2>1, <2>2, <2>3 DEF SeenTo
<1>3. CASE caller'[q] # caller[q]
  <2>1. q = p /\ Enqueue(p)
    <3>1. q = p
      BY <1>3 DEF CallerStep, Start, Enqueue, SendTimeout, SendClosed, WaitTimeout, TypeOK
    <3>2. ~(SendTimeout(p) \/ SendClosed(p) \/ WaitTimeout(p))
      BY <3>1, GivesUp DEF Waiting
    <3>3. ~Start(p)
      BY <3>1 DEF Start, Waiting, TypeOK
    <3> QED  BY <3>1, <3>2, <3>3 DEF CallerStep
  <2>2. PICK k \in Conn : /\ Sending(p, k) /\ task[k] \in Alive
                          /\ queue' = [queue EXCEPT ![k] = Append(@, p)]
                          /\ caller' = [caller EXCEPT ![p].pc = "waiting"]
    BY <2>1 DEF Enqueue
  <2>3. caller'[q].conn = k
    BY <2>1, <2>2 DEF Sending, TypeOK
  <2>4. queue'[k] = Append(queue[k], q) /\ queue[k] \in Seq(Query)
    BY <2>1, <2>2 DEF TypeOK
  <2>5. q \in Range(queue'[k])
    BY <2>4 DEF Range
  <2> QED  BY <1>1, <2>2, <2>3, <2>5 DEF SeenTo
<1> QED  BY <1>2, <1>3

\* A step that leaves a call waiting, and its queue, entry and reader in place.
LEMMA StaysSeen ==
  ASSUME NEW q \in Query, NEW k \in Conn, SeenTo(q, k), caller[q].conn = k,
         caller'[q] = caller[q],
         task[k] \in Alive => task'[k] \in Alive,
         task[k] \in Alive /\ q \in Range(queue[k]) => q \in Range(queue'[k]) \/ q \in Owners(k)',
         q \in Owners(k) => q \in Owners(k)',
         reader'[k] = reader[k] \/ task[k] \in Alive
  PROVE  \E l \in Conn : caller'[q].conn = l /\ SeenTo(q, l)'
BY DEF SeenTo

LEMMA WaiterTasks ==
  ASSUME TypeOK, TypeOK', \A k \in Conn : OnceEach(k), WaiterNotForgotten,
         NEW k \in Conn, TaskStep(k)
  PROVE  WaiterNotForgotten'
<1> SUFFICES ASSUME NEW q \in Query, Waiting(q)'
             PROVE  \E l \in Conn : caller'[q].conn = l /\ SeenTo(q, l)'
  BY AllSeenNext
<1> USE DEF Goto, Alive
<1>1. CASE Connect(k) \/ ConnectFails(k) \/ Retry(k) \/ WriteOk(k) \/ ReaderDone(k)
  <2>1. /\ UNCHANGED <<caller, queue, pending>>
        /\ \A l \in Conn : task[l] \in Alive => task'[l] \in Alive
        /\ \A l \in Conn : reader'[l] = reader[l] \/ task[l] \in Alive
    BY <1>1 DEF Connect, ConnectFails, Retry, WriteOk, ReaderDone, TypeOK
  <2>2. PICK l \in Conn : caller[q].conn = l /\ SeenTo(q, l)
    BY <2>1, WaiterSeen DEF Waiting
  <2>3. Owners(l)' = Owners(l)
    BY <2>1 DEF Owners
  <2> QED  BY <2>1, <2>2, <2>3, StaysSeen
<1>2. CASE Take(k)
  <2>1. /\ UNCHANGED <<caller, reader>> /\ queue[k] # <<>>
        /\ \A l \in Conn : task[l] \in Alive => task'[l] \in Alive
        /\ \A l \in Conn : l # k => queue'[l] = queue[l]
        /\ queue'[k] = Tail(queue[k]) /\ queue[k] \in Seq(Query)
    BY <1>2 DEF Take, TypeOK
  <2>2. PICK l \in Conn : caller[q].conn = l /\ SeenTo(q, l)
    BY <2>1, WaiterSeen DEF Waiting
  <2>3. PICK seq \in Nat :
          /\ \A j \in Conn : j # k => pending'[j] = pending[j]
          /\ DOMAIN pending'[k] = DOMAIN pending[k] \cup {Id(seq)}
          /\ pending'[k][Id(seq)] = [query |-> Head(queue[k]), seq |-> seq]
          /\ \A i \in DOMAIN pending[k] : pending'[k][i] = pending[k][i]
    BY <1>2, TakeAdds
  <2>4. q \in Owners(l) => q \in Owners(l)'
    BY <2>3, OwnersOf, OwnersOfNext
  <2>5. q \in Range(queue[l]) => q \in Range(queue'[l]) \/ q \in Owners(l)'
    <3>1. CASE l # k
      BY <2>1, <3>1
    <3>2. CASE l = k
      <4>1. Head(queue[k]) \in Owners(k)'
        BY <2>3, OwnersOfNext
      <4>2. \A i \in DOMAIN queue[k] : i = 1 \/ i - 1 \in DOMAIN Tail(queue[k])
        BY <2>1
      <4>3. \A i \in DOMAIN queue[k] :
              queue[k][i] = Head(queue[k]) \/ queue[k][i] = Tail(queue[k])[i - 1]
        BY <2>1
      <4>4. Range(queue[k]) \subseteq {Head(queue[k])} \cup Range(queue'[k])
        <5>1. \A i \in DOMAIN queue[k] :
                queue[k][i] \in {Head(queue[k])} \cup Range(Tail(queue[k]))
          <6>1. ASSUME NEW i \in DOMAIN queue[k], i # 1
                PROVE  Tail(queue[k])[i - 1] \in Range(Tail(queue[k]))
            BY <4>2, <6>1 DEF Range
          <6>2. queue[k][1] = Head(queue[k])
            BY <2>1
          <6> QED  BY <4>3, <6>1, <6>2
        <5> QED  BY <2>1, <5>1 DEF Range
      <4> QED  BY <3>2, <4>1, <4>4
    <3> QED  BY <3>1, <3>2
  <2> QED  BY <2>1, <2>2, <2>4, <2>5, StaysSeen
<1>3. CASE WriteFails(k)
  <2> DEFINE Q == {pending[k][i].query : i \in DOMAIN pending[k] \cap {current[k]}}
  <2>1. /\ Waiting(q) /\ q \notin Q /\ caller'[q] = caller[q]
    BY <1>3, StillWaiting DEF WriteFails
  <2>2. /\ DOMAIN pending'[k] = DOMAIN pending[k] \ {current[k]} /\ \A l \in Conn : Thinned(l)
        /\ \A l \in Conn : l # k => pending'[l] = pending[l]
    BY <1>3, WithdrawThins DEF WriteFails
  <2>3. PICK l \in Conn : caller[q].conn = l /\ SeenTo(q, l)
    BY <2>1, WaiterSeen
  <2>4. q \in Owners(l) => q \in Owners(l)'
    BY <2>1, <2>2, OwnersOf, OwnersOfNext DEF Thinned
  <2>5. UNCHANGED <<queue, reader>> /\ \A j \in Conn : task[j] \in Alive => task'[j] \in Alive
    BY <1>3 DEF WriteFails, TypeOK
  <2> QED  BY <2>1, <2>3, <2>4, <2>5, StaysSeen
<1>4. CASE Reconnect(k)
  <2>1. Waiting(q) /\ q \notin Owners(k) /\ caller'[q] = caller[q]
    BY <1>4, StillWaiting DEF Reconnect
  <2>2. PICK l \in Conn : caller[q].conn = l /\ SeenTo(q, l)
    BY <2>1, WaiterSeen
  <2>3. q \in Owners(l) => q \in Owners(l)'
    BY <1>4, <2>1, EmptyThins, OwnersOf, OwnersOfNext DEF Reconnect
  <2>4. /\ UNCHANGED queue /\ \A j \in Conn : task[j] \in Alive => task'[j] \in Alive
        /\ \A j \in Conn : reader'[j] = reader[j] \/ task[j] \in Alive
    BY <1>4 DEF Reconnect, TypeOK
  <2> QED  BY <2>1, <2>2, <2>3, <2>4, StaysSeen
<1>5. CASE Sweep(k)
  <2>1. UNCHANGED <<caller, task, queue, reader>>
    BY <1>5 DEF Sweep
  <2>2. PICK l \in Conn : caller[q].conn = l /\ SeenTo(q, l)
    BY <2>1, WaiterSeen DEF Waiting
  <2>3. q \in Owners(l) => q \in Owners(l)'
    <3>1. /\ DOMAIN pending'[k] = {i \in DOMAIN pending[k] : ~Abandoned(k, i)}
          /\ \A j \in Conn : Thinned(j)
          /\ \A j \in Conn : j # k => pending'[j] = pending[j]
      BY <1>5, SweepThins
    <3>2. \A i \in DOMAIN pending[k] : pending[k][i].query = q => ~Abandoned(k, i)
      BY <2>1 DEF Abandoned, Waiting
    <3> QED  BY <3>1, <3>2, OwnersOf, OwnersOfNext DEF Thinned
  <2> QED  BY <2>1, <2>2, <2>3, StaysSeen
<1>6. CASE ChannelClosed(k)
  <2>1. /\ UNCHANGED <<caller, queue>> /\ Senders(k) = {}
        /\ \A l \in Conn : l # k => UNCHANGED <<task[l], reader[l]>>
        /\ pending' = [pending EXCEPT ![k] = Empty]
    BY <1>6 DEF ChannelClosed, TypeOK
  <2>2. PICK l \in Conn : caller[q].conn = l /\ SeenTo(q, l)
    BY <2>1, WaiterSeen DEF Waiting
  <2>3. l # k
    BY <2>1, <2>2 DEF Senders, Waiting
  <2>4. Owners(l)' = Owners(l)
    BY <2>1, <2>3, EmptyThins DEF Owners
  <2> QED  BY <2>1, <2>2, <2>3, <2>4, StaysSeen
<1> QED  BY <1>1, <1>2, <1>3, <1>4, <1>5, <1>6 DEF TaskStep

LEMMA WaiterDeath ==
  ASSUME TypeOK, TypeOK', WaiterNotForgotten, NEW k \in Conn, TaskDies(k)
  PROVE  WaiterNotForgotten'
<1> SUFFICES ASSUME NEW q \in Query, Waiting(q)'
             PROVE  \E l \in Conn : caller'[q].conn = l /\ SeenTo(q, l)'
  BY AllSeenNext
<1> DEFINE detached == task[k] \in {"open", "writing"} /\ reader[k] = "reading"
           Q == Range(queue[k]) \cup (IF detached THEN {} ELSE Owners(k))
<1>1. Waiting(q) /\ q \notin Q /\ caller'[q] = caller[q]
  BY StillWaiting DEF TaskDies
<1>2. PICK l \in Conn : caller[q].conn = l /\ SeenTo(q, l)
  BY <1>1, WaiterSeen
<1>3. CASE l # k
  <2>1. queue'[l] = queue[l] /\ task'[l] = task[l] /\ reader'[l] = reader[l]
    BY <1>3 DEF TaskDies, Goto, TypeOK
  <2>2. pending'[l] = pending[l]
    BY <1>3, EmptyThins DEF TaskDies
  <2>3. Owners(l)' = Owners(l)
    BY <2>2 DEF Owners
  <2> QED  BY <1>1, <1>2, <2>1, <2>3, StaysSeen
<1>4. CASE l = k
  <2>1. q \in Owners(k) /\ detached
    BY <1>1, <1>2, <1>4 DEF SeenTo
  <2>2. UNCHANGED <<pending, reader>>
    BY <2>1 DEF TaskDies
  <2>3. Owners(k)' = Owners(k)
    BY <2>2 DEF Owners
  <2> QED  BY <1>1, <1>2, <1>4, <2>1, <2>2, <2>3 DEF SeenTo
<1> QED  BY <1>3, <1>4

LEMMA WaiterReaders ==
  ASSUME TypeOK, TypeOK', WaiterNotForgotten, NEW k \in Conn, ReadResponse(k) \/ ReadError(k)
  PROVE  WaiterNotForgotten'
<1> SUFFICES ASSUME NEW q \in Query, Waiting(q)'
             PROVE  \E l \in Conn : caller'[q].conn = l /\ SeenTo(q, l)'
  BY AllSeenNext
<1>1. CASE ReadResponse(k)
  <2>1. PICK r \in wire[k] :
          \/ /\ Id(r.seq) \in DOMAIN pending[k]
             /\ Reply({pending[k][Id(r.seq)].query},
                      [pc |-> "done", result |-> "answer",
                       seq |-> pending[k][Id(r.seq)].seq, from |-> r])
             /\ pending' = [pending EXCEPT ![k] = Restrict(@, DOMAIN @ \ {Id(r.seq)})]
          \/ UNCHANGED <<caller, pending>>
    BY <1>1 DEF ReadResponse
  <2>2. UNCHANGED <<task, queue, reader>>
    BY <1>1 DEF ReadResponse
  <2>3. CASE UNCHANGED <<caller, pending>>
    <3>1. PICK l \in Conn : caller[q].conn = l /\ SeenTo(q, l)
      BY <2>3, WaiterSeen DEF Waiting
    <3>2. Owners(l)' = Owners(l)
      BY <2>3 DEF Owners
    <3> QED  BY <2>2, <2>3, <3>1, <3>2, StaysSeen
  <2>4. CASE ~UNCHANGED <<caller, pending>>
    <3> DEFINE i == Id(r.seq)
               Q == {pending[k][i].query}
               result == [pc |-> "done", result |-> "answer", seq |-> pending[k][i].seq, from |-> r]
    <3>1. /\ i \in DOMAIN pending[k] /\ Reply(Q, result)
          /\ pending' = [pending EXCEPT ![k] = Restrict(@, DOMAIN @ \ {i})]
      BY <2>1, <2>4
    <3>2. result \in Result /\ result.pc = "done"
      BY <3>1, AnswerTyped
    <3> HIDE DEF result, i
    <3>3. Waiting(q) /\ q # pending[k][i].query /\ caller'[q] = caller[q]
      BY <3>1, <3>2, ReplyTyped DEF Waiting
    <3>4. PICK l \in Conn : caller[q].conn = l /\ SeenTo(q, l)
      BY <3>3, WaiterSeen
    <3>5. /\ DOMAIN pending'[k] = DOMAIN pending[k] \ {i} /\ \A j \in Conn : Thinned(j)
          /\ \A j \in Conn : j # k => pending'[j] = pending[j]
      BY <3>1, WithdrawThins
    <3>6. q \in Owners(l) => q \in Owners(l)'
      BY <3>3, <3>5, OwnersOf, OwnersOfNext DEF Thinned
    <3> QED  BY <2>2, <3>3, <3>4, <3>6, StaysSeen
  <2> QED  BY <2>3, <2>4
<1>2. CASE ReadError(k)
  <2>1. Waiting(q) /\ q \notin Owners(k) /\ caller'[q] = caller[q]
    BY <1>2, StillWaiting DEF ReadError
  <2>2. PICK l \in Conn : caller[q].conn = l /\ SeenTo(q, l)
    BY <2>1, WaiterSeen
  <2>3. CASE l # k
    <3>1. queue'[l] = queue[l] /\ task'[l] = task[l] /\ reader'[l] = reader[l]
      BY <1>2, <2>3 DEF ReadError, TypeOK
    <3>2. pending'[l] = pending[l]
      BY <1>2, <2>3, EmptyThins DEF ReadError
    <3>3. Owners(l)' = Owners(l)
      BY <3>2 DEF Owners
    <3> QED  BY <2>1, <2>2, <3>1, <3>3, StaysSeen
  <2>4. CASE l = k
    <3>1. task[k] \in Alive /\ q \in Range(queue[k])
      BY <2>1, <2>2, <2>4 DEF SeenTo
    <3>2. UNCHANGED <<task, queue>>
      BY <1>2 DEF ReadError
    <3> QED  BY <2>1, <2>2, <2>4, <3>1, <3>2 DEF SeenTo
  <2> QED  BY <2>3, <2>4
<1> QED  BY <1>1, <1>2

LEMMA WaiterStep ==
  ASSUME TypeOK, TypeOK', \A k \in Conn : OnceEach(k), WaiterNotForgotten, [Next]_vars
  PROVE  WaiterNotForgotten'
<1>1. CASE OtherUpstreamDraws \/ UNCHANGED vars
  <2>1. UNCHANGED <<caller, task, queue, pending, reader>>
    BY <1>1 DEF OtherUpstreamDraws, vars
  <2> QED  BY <2>1 DEF WaiterNotForgotten, Waiting, Owners
<1>2. CASE ~(OtherUpstreamDraws \/ UNCHANGED vars)
  BY <1>2, WaiterCallers, WaiterTasks, WaiterDeath, WaiterReaders DEF Next
<1> QED  BY <1>1, <1>2

-----------------------------------------------------------------------------
(* The theorems.                                                           *)

LEMMA InvHolds == Spec => []Inv
<1>1. Init => Inv
  <2> SUFFICES ASSUME Init PROVE Inv
    OBVIOUS
  <2>1. TypeOK
    BY DotAssumption DEF Init, TypeOK, Empty, Call
  <2>2. \A k \in Conn : OnceEach(k) /\ Matched(k)
    BY DEF Init, OnceEach, Matched, Empty, Owners, Range
  <2>3. AnswersOwnQuery /\ WaiterNotForgotten
    BY DEF Init, AnswersOwnQuery, WaiterNotForgotten, Waiting, Idle
  <2> QED  BY <2>1, <2>2, <2>3 DEF Inv
<1>2. Inv /\ [Next]_vars => Inv'
  <2> SUFFICES ASSUME Inv, [Next]_vars PROVE Inv'
    OBVIOUS
  <2>1. TypeOK'
    BY TypeStep DEF Inv
  <2>2. \A k \in Conn : OnceEach(k)'
    BY <2>1, OnceEachStep DEF Inv
  <2>3. \A k \in Conn : Matched(k)'
    BY <2>1, MatchedStep DEF Inv
  <2>4. AnswersOwnQuery'
    BY <2>1, AnswersStep DEF Inv
  <2>5. WaiterNotForgotten'
    BY <2>1, WaiterStep DEF Inv
  <2> QED  BY <2>1, <2>2, <2>3, <2>4, <2>5 DEF Inv
<1> QED  BY <1>1, <1>2, PTL DEF Spec

\* Every reachable state is well typed; in particular unique_conn_id always
\* finds an id (dot.rs).
THEOREM TypeCorrect == Spec => []TypeOK
<1>1. Inv => TypeOK
  BY DEF Inv
<1> QED  BY <1>1, InvHolds, PTL

\* Whatever is swept, lost, late or reconnected, and whatever the other
\* upstreams draw: a caller gets the answer to its own query, or one a whole
\* round of the ids old (dot.rs).
THEOREM OwnAnswer == Spec => []AnswersOwnQuery
<1>1. Inv => AnswersOwnQuery
  BY DEF Inv
<1> QED  BY <1>1, InvHolds, PTL

\* No step of a task, a reader or another caller, and no death of a task, leaves
\* a caller waiting for nobody (dot.rs).
THEOREM NoneForgotten == Spec => []WaiterNotForgotten
<1>1. Inv => WaiterNotForgotten
  BY DEF Inv
<1> QED  BY <1>1, InvHolds, PTL
=============================================================================
