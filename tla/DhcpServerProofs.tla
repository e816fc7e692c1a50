-------------------------- MODULE DhcpServerProofs --------------------------
(***************************************************************************)
(* Proofs about DhcpServer, for any clients, any pool and any timeouts.    *)
(*                                                                         *)
(* Who owns an address is kept in four places (leases, offers, exclusions, *)
(* the pool's set) and once more on disk.  None of the invariants of the   *)
(* component is inductive by itself; together they are, with two facts of  *)
(* the running transaction and one of the table:                           *)
(*                                                                         *)
(*   - SingleClaim: a client has a claim, lease or offer, to one address   *)
(*     at most.  Without it RELEASE, which gives back one address but      *)
(*     drops all offers of the client, and DECLINE, which drops its lease  *)
(*     whatever the address, would leave addresses nobody owns.            *)
(*   - FreshInside: inside a transaction, nothing in memory had expired    *)
(*     when it began.                                                      *)
(*   - RowsAreLeases: an unexpired row is a lease in memory.  It fails if  *)
(*     a write of the table may fail, hence the assumption ~DbMayFail.     *)
(***************************************************************************)
EXTENDS DhcpServer, TLAPS

\* The time as of which the running transaction, if any, has reclaimed.
AsOf == IF lock.held THEN lock.since ELSE now

SingleClaim ==
  /\ \A m \in DOMAIN leases, ip \in DOMAIN offered :
       /\ offered[ip].mac = m
       /\ leases[m].expires > AsOf /\ offered[ip].expires > AsOf
       => ip = leases[m].ip
  /\ \A i, j \in DOMAIN offered :
       /\ offered[i].mac = offered[j].mac
       /\ offered[i].expires > AsOf /\ offered[j].expires > AsOf
       => i = j

FreshInside ==
  lock.held =>
    /\ lock.since <= now
    /\ \A m \in DOMAIN leases : leases[m].expires > lock.since
    /\ \A ip \in DOMAIN offered : offered[ip].expires > lock.since

RowsAreLeases ==
  \A m \in DOMAIN db : db[m].expires > now => m \in DOMAIN leases /\ leases[m] = db[m]

\* The pool and who owns its addresses.
Ownership == PoolAccounting /\ ExclusiveOwnership /\ ExcludedNotServed /\ SingleClaim

\* The table and what clients rely on.
Persistence == RowsAreLeases /\ AckedIsPersisted

IInv == TypeOK /\ Ownership /\ FreshInside /\ Persistence

-----------------------------------------------------------------------------
(* The maps.                                                               *)

\* What Unexpired keeps of a map.
LEMMA UnexpiredFacts ==
  ASSUME NEW f
  PROVE  /\ DOMAIN Unexpired(f) = {x \in DOMAIN f : f[x].expires > now}
         /\ \A z \in DOMAIN Unexpired(f) : Unexpired(f)[z] = f[z]
         /\ Unexpired(f) = [z \in DOMAIN Unexpired(f) |-> Unexpired(f)[z]]
  BY DEF Unexpired, RestrictValues, Restrict

\* Partial maps stay so.
LEMMA PartialPut ==
  ASSUME NEW f, NEW S, NEW T, Partial(f, S, T), NEW x \in S, NEW y \in T
  PROVE  Partial(Put(f, x, y), S, T)
  BY DEF Partial, Put

\* Removing keys.
LEMMA PartialWithout ==
  ASSUME NEW f, NEW S, NEW T, Partial(f, S, T), NEW D
  PROVE  Partial(Without(f, D), S, T)
  BY DEF Partial, Without, Restrict

\* Dropping what has expired.
LEMMA PartialUnexpired ==
  ASSUME NEW f, NEW S, NEW T, Partial(f, S, T)
  PROVE  Partial(Unexpired(f), S, T)
  BY DEF Partial, Unexpired, RestrictValues, Restrict

\* An element of a partial map.
LEMMA PartialElement ==
  ASSUME NEW f, NEW S, NEW T, Partial(f, S, T), NEW x \in DOMAIN f
  PROVE  x \in S /\ f[x] \in T
  BY DEF Partial

\* The empty map.
LEMMA PartialEmpty ==
  ASSUME NEW S, NEW T
  PROVE  Partial(Empty, S, T) /\ DOMAIN Empty = {}
  BY DEF Partial, Empty

\* A map of leases, and the map of offers, element by element.
LEMMA LeaseElement ==
  ASSUME NEW f, Partial(f, Mac, Lease), NEW m \in DOMAIN f
  PROVE  m \in Mac /\ f[m].ip \in Pool /\ f[m].expires \in Int
<1>1. m \in Mac /\ f[m] \in Lease
  BY PartialElement
<1> QED
  BY <1>1 DEF Lease

\* The same of the offers.
LEMMA OfferElement ==
  ASSUME NEW f, Partial(f, Pool, Offer), NEW ip \in DOMAIN f
  PROVE  ip \in Pool /\ f[ip].mac \in Mac /\ f[ip].expires \in Int
<1>1. ip \in Pool /\ f[ip] \in Offer
  BY PartialElement
<1> QED
  BY <1>1 DEF Offer

\* The message of the transaction that holds the lock.
LEMMA MessageType ==
  ASSUME TypeOK, lock.held
  PROVE  /\ lock \in Held /\ lock.since \in Int
         /\ Msg \in Message /\ Msg.mac \in Mac
         /\ Msg.type # "discover" => Msg.ip \in Ip
<1>1. lock \in Held
  BY DEF TypeOK, Free
<1>2. Msg \in Message
  BY <1>1 DEF Held, Msg
<1> QED
  BY <1>1, <1>2 DEF Held, Message

\* A client asks only for addresses of the pool that are its own.
LEMMA RequestableInPool ==
  ASSUME TypeOK, NEW m, NEW ip, CanRequest(m, ip)
  PROVE  ip \in Pool
<1>1. CASE HasLease(m) /\ leases[m].ip = ip
  BY <1>1, LeaseElement DEF TypeOK, HasLease
<1>2. CASE ip \in OwnOffers(m)
  BY <1>2, PartialElement DEF TypeOK, OwnOffers
<1> QED
  BY <1>1, <1>2 DEF CanRequest

\* What a DISCOVER may be answered with lies in the pool.
LEMMA ChoicesInPool ==
  ASSUME TypeOK, NEW m, NEW ip \in Choices(m)
  PROVE  ip \in Pool
<1>1. CASE HasLease(m)
  BY <1>1, LeaseElement DEF TypeOK, HasLease, Choices
<1>2. CASE ~HasLease(m) /\ OwnOffers(m) # {}
  BY <1>2, PartialElement DEF TypeOK, OwnOffers, Choices
<1>3. CASE ~HasLease(m) /\ OwnOffers(m) = {}
  BY <1>3 DEF Choices
<1> QED
  BY <1>1, <1>2, <1>3

-----------------------------------------------------------------------------
(* Type correctness.                                                       *)

\* Reclaiming keeps the types of what is in memory.
LEMMA ReclaimType ==
  ASSUME TypeOK, ReclaimExpired
  PROVE  /\ Partial(leases', Mac, Lease) /\ Partial(offered', Pool, Offer)
         /\ allocated' \subseteq Pool /\ excluded' \subseteq Pool
         /\ Partial(declined', Pool, Int)
<1>1. Partial(leases', Mac, Lease) /\ Partial(offered', Pool, Offer)
  BY PartialUnexpired DEF TypeOK, ReclaimExpired
<1>2. Partial(declined', Pool, Int)
  BY DEF TypeOK, ReclaimExpired, Partial, RestrictValues, Restrict
<1> QED
  BY <1>1, <1>2 DEF TypeOK, ReclaimExpired

\* A write of the table, done or failed, leaves a table.
LEMMA WriteType ==
  ASSUME TypeOK, NEW rows, Partial(rows, Mac, Lease), WriteDb(rows)
  PROVE  Partial(db', Mac, Lease)
  BY DEF TypeOK, WriteDb, Partial

\* The two facts that make TypeOK an invariant.
LEMMA InitType == Init => TypeOK
  BY PartialEmpty DEF Init, TypeOK

\* Every step keeps the types, whatever becomes of the writes.
LEMMA TypeStep ==
  ASSUME TypeOK, [Next]_vars
  PROVE  TypeOK'
<1> USE DhcpAssumption
<1>1. CASE \E msg \in Message : Begin(msg)
  BY <1>1, ReclaimType DEF TypeOK, Begin, Held, Partial
<1>2. CASE Discover
  <2>1. PICK ip \in Choices(Msg.mac) :
          /\ offered' = Put(offered, ip, [mac |-> Msg.mac, expires |-> now + OfferTimeout])
          /\ allocated' = allocated \cup {ip}
    BY <1>2 DEF Discover
  <2>2. ip \in Pool /\ Msg.mac \in Mac
    BY <1>2, <2>1, ChoicesInPool, MessageType DEF Discover, Handling
  <2>3. [mac |-> Msg.mac, expires |-> now + OfferTimeout] \in Offer
    BY <2>2 DEF Offer, TypeOK
  <2>4. Partial(offered', Pool, Offer)
    BY <2>1, <2>2, <2>3, PartialPut DEF TypeOK
  <2> QED
    BY <1>2, <2>1, <2>2, <2>4 DEF TypeOK, Discover, Done
<1>3. CASE DiscoverExhausted \/ Refuse \/ Ignore
  BY <1>3 DEF TypeOK, DiscoverExhausted, Refuse, Ignore, Done, memory
<1>4. CASE Request
  <2> DEFINE lease == [ip |-> Msg.ip, expires |-> now + LeaseTime]
  <2>1. Msg.mac \in Mac /\ Msg.ip \in Pool
    BY <1>4, MessageType, RequestableInPool DEF Request, Handling, Acceptable, Requestable
  <2>2. lease \in Lease
    BY <2>1 DEF Lease, TypeOK
  <2>3. Partial(leases', Mac, Lease) /\ Partial(acked', Mac, Lease)
    BY <1>4, <2>1, <2>2, PartialPut DEF TypeOK, Request
  <2>4. Partial(db', Mac, Lease)
    BY <1>4, <2>1, <2>2, PartialPut, WriteType DEF TypeOK, Request
  <2>5. Partial(offered', Pool, Offer)
    BY <1>4, PartialWithout DEF TypeOK, Request
  <2> QED
    BY <1>4, <2>1, <2>3, <2>4, <2>5 DEF TypeOK, Request, Done
<1>5. CASE Release
  <2>1. Partial(leases', Mac, Lease) /\ Partial(acked', Mac, Lease)
    BY <1>5, PartialWithout DEF TypeOK, Release, GivenUp
  <2>2. Partial(db', Mac, Lease)
    BY <1>5, PartialWithout, WriteType DEF TypeOK, Release
  <2>3. Partial(offered', Pool, Offer)
    BY <1>5 DEF TypeOK, Release, Partial, RestrictValues, Restrict
  <2> QED
    BY <1>5, <2>1, <2>2, <2>3 DEF TypeOK, Release, Done
<1>6. CASE Decline
  <2>1. Msg.ip \in Pool
    BY <1>6, RequestableInPool DEF Decline
  <2>2. Partial(leases', Mac, Lease) /\ Partial(acked', Mac, Lease)
    BY <1>6, PartialWithout DEF TypeOK, Decline, GivenUp
  <2>3. Partial(db', Mac, Lease)
    BY <1>6, PartialWithout, WriteType DEF TypeOK, Decline
  <2>4. Partial(offered', Pool, Offer)
    BY <1>6, PartialWithout DEF TypeOK, Decline
  <2>5. Partial(declined', Pool, Int)
    BY <1>6, <2>1, PartialPut DEF TypeOK, Decline
  <2> QED
    BY <1>6, <2>1, <2>2, <2>3, <2>4, <2>5 DEF TypeOK, Decline, Done
<1>7. CASE Reclaim
  BY <1>7, ReclaimType DEF TypeOK, Reclaim, Partial
<1>8. CASE Stop
  BY <1>8 DEF TypeOK, Stop, memory
<1>9. CASE Restart
  <2>1. Partial(leases', Mac, Lease)
    BY <1>9, PartialUnexpired DEF TypeOK, Restart
  <2>2. allocated' \subseteq Pool
    BY <1>9, <2>1, LeaseElement DEF Restart, LeasedIps
  <2> QED
    BY <1>9, <2>1, <2>2, PartialEmpty DEF TypeOK, Restart
<1>10. CASE Tick
  BY <1>10 DEF TypeOK, Tick, memory
<1>11. CASE UNCHANGED vars
  BY <1>11 DEF TypeOK, vars, Partial
<1> QED
  BY <1>1, <1>2, <1>3, <1>4, <1>5, <1>6, <1>7, <1>8, <1>9, <1>10, <1>11 DEF Next, Handle

\* Whatever packets come, whatever fails and however often the server is
\* restarted, every map holds what it is declared to hold: clients' leases and
\* offers of addresses of the pool only.
THEOREM TypeCorrect == Spec => []TypeOK
<1>1. Init => TypeOK
  BY InitType
<1>2. TypeOK /\ [Next]_vars => TypeOK'
  BY TypeStep
<1> QED
  BY <1>1, <1>2, PTL DEF Spec

-----------------------------------------------------------------------------
(* Who owns an address.                                                    *)

\* Inside a transaction SingleClaim says: one client, one address.
LEMMA OneAddress ==
  ASSUME IInv, lock.held
  PROVE  /\ \A m \in DOMAIN leases, ip \in DOMAIN offered :
              offered[ip].mac = m => ip = leases[m].ip
         /\ \A i, j \in DOMAIN offered : offered[i].mac = offered[j].mac => i = j
  BY DEF IInv, Ownership, SingleClaim, FreshInside, AsOf

\* What a client may request it leases already, or nobody does.
LEMMA RequestedIsFree ==
  ASSUME IInv, lock.held, NEW m, NEW ip, CanRequest(m, ip)
  PROVE  /\ ip \notin excluded
         /\ \A x \in DOMAIN leases : leases[x].ip = ip => x = m
         /\ m \in DOMAIN leases => leases[m].ip = ip
         /\ \A j \in DOMAIN offered : offered[j].mac = m => j = ip
<1>1. ip \notin excluded
  BY DEF CanRequest
<1>2. CASE HasLease(m) /\ leases[m].ip = ip
  BY <1>1, <1>2, OneAddress DEF HasLease, IInv, Ownership, ExclusiveOwnership
<1>3. CASE ip \in OwnOffers(m)
  BY <1>1, <1>3, OneAddress DEF OwnOffers, IInv, Ownership, ExclusiveOwnership
<1> QED
  BY <1>2, <1>3 DEF CanRequest

\* Reclaiming what has expired gives back exactly what nobody owns any more.
LEMMA ReclaimOwnership ==
  ASSUME IInv, ReclaimExpired
  PROVE  /\ PoolAccounting' /\ ExclusiveOwnership' /\ ExcludedNotServed'
         /\ \A m \in DOMAIN leases' :
              m \in DOMAIN leases /\ leases'[m] = leases[m] /\ leases[m].expires > now
         /\ \A ip \in DOMAIN offered' :
              ip \in DOMAIN offered /\ offered'[ip] = offered[ip] /\ offered[ip].expires > now
<1>1. /\ DOMAIN leases' = {m \in DOMAIN leases : leases[m].expires > now}
      /\ \A m \in DOMAIN leases' : leases'[m] = leases[m]
  BY UnexpiredFacts DEF ReclaimExpired
<1>2. /\ DOMAIN offered' = {ip \in DOMAIN offered : offered[ip].expires > now}
      /\ \A ip \in DOMAIN offered' : offered'[ip] = offered[ip]
  BY UnexpiredFacts DEF ReclaimExpired
<1>3. excluded' = excluded
  BY DEF ReclaimExpired
<1>4. LeasedIps(leases') \subseteq LeasedIps(leases)
  BY <1>1 DEF LeasedIps
<1>5. ExclusiveOwnership' /\ ExcludedNotServed'
  BY <1>1, <1>2, <1>3, <1>4
     DEF IInv, Ownership, ExclusiveOwnership, ExcludedNotServed
<1>6. PoolAccounting'
  <2>1. FreedLeases = {leases[m].ip : m \in DOMAIN leases \ DOMAIN leases'}
                        \ (LeasedIps(leases') \cup DOMAIN offered \cup excluded)
    BY DEF FreedLeases, ReclaimExpired
  <2>2. FreedOffers = (DOMAIN offered \ DOMAIN offered') \ (LeasedIps(leases') \cup excluded)
    BY DEF FreedOffers, ReclaimExpired
  <2>3. LeasedIps(leases) =
          LeasedIps(leases') \cup {leases[m].ip : m \in DOMAIN leases \ DOMAIN leases'}
    BY <1>1 DEF LeasedIps
  <2>4. DOMAIN offered' \subseteq DOMAIN offered
    BY <1>2
  <2>5. allocated' = allocated \ (FreedLeases \cup FreedOffers)
    BY DEF ReclaimExpired
  <2>6. allocated = LeasedIps(leases) \cup DOMAIN offered \cup excluded
    BY DEF IInv, Ownership, PoolAccounting
  <2>7. allocated' = LeasedIps(leases') \cup DOMAIN offered' \cup excluded
    BY <2>1, <2>2, <2>3, <2>4, <2>5, <2>6
  <2> QED
    BY <2>7, <1>3 DEF PoolAccounting, LeasedIps
<1> QED
  BY <1>1, <1>2, <1>5, <1>6

\* The first half of a transaction, or a sweep, keeps the ownership.
LEMMA ReclaimStep ==
  ASSUME IInv, Reclaim \/ \E msg \in Message : Begin(msg)
  PROVE  Ownership' /\ FreshInside'
<1>1. ReclaimExpired /\ lock = Free /\ now' = now
  BY DEF Reclaim, Begin
<1>2. AsOf = now /\ AsOf' = now
  BY <1>1 DEF Reclaim, Begin, AsOf, Free
<1>3. SingleClaim'
  BY <1>1, <1>2, ReclaimOwnership DEF SingleClaim, IInv, Ownership
<1>4. now \in Nat
  BY DEF IInv, TypeOK
<1>5. FreshInside'
  BY <1>1, <1>4, ReclaimOwnership DEF FreshInside, Reclaim, Begin, Free
<1> QED
  BY <1>1, <1>3, <1>5, ReclaimOwnership DEF Ownership

\* An offer takes a free address, or one its client has already.
LEMMA DiscoverStep ==
  ASSUME IInv, Discover
  PROVE  Ownership' /\ FreshInside'
<1> DEFINE m == Msg.mac
<1>1. PICK ip \in Choices(m) :
        /\ offered' = Put(offered, ip, [mac |-> m, expires |-> now + OfferTimeout])
        /\ allocated' = allocated \cup {ip}
  BY DEF Discover
<1>2. /\ lock.held /\ lock' = Free /\ AsOf' = now
      /\ leases' = leases /\ excluded' = excluded /\ now' = now
  BY DEF Discover, Handling, Done, AsOf, Free
<1>3. /\ DOMAIN offered' = DOMAIN offered \cup {ip} /\ offered'[ip].mac = m
      /\ \A j \in DOMAIN offered \ {ip} : offered'[j] = offered[j]
  BY <1>1 DEF Put
<1> HIDE DEF m
\* Nobody else leases ip, and no other claim of m is still good.
<1>4. /\ ip \notin excluded
      /\ \A x \in DOMAIN leases : leases[x].ip = ip => x = m
      /\ m \in DOMAIN leases /\ leases[m].expires > now => leases[m].ip = ip
      /\ \A j \in DOMAIN offered :
           offered[j].mac = m /\ offered[j].expires > now => j = ip
  <2>1. CASE HasLease(m)
    <3>1. m \in DOMAIN leases /\ leases[m].ip = ip
      BY <1>1, <2>1 DEF Choices, HasLease
    <3>2. ip \notin excluded
      BY <3>1 DEF IInv, Ownership, ExcludedNotServed, LeasedIps
    <3> QED
      BY <1>2, <3>1, <3>2, OneAddress DEF IInv, Ownership, ExclusiveOwnership
  <2>2. CASE ~HasLease(m) /\ OwnOffers(m) # {}
    <3>1. ip \in DOMAIN offered /\ offered[ip].mac = m
      BY <1>1, <2>2 DEF Choices, OwnOffers
    <3>2. ip \notin excluded
      BY <3>1 DEF IInv, Ownership, ExcludedNotServed
    <3> QED
      BY <1>2, <3>1, <3>2, OneAddress DEF IInv, Ownership, ExclusiveOwnership
  <2>3. CASE ~HasLease(m) /\ OwnOffers(m) = {}
    <3>1. ip \notin allocated /\ ip \notin excluded
      BY <1>1, <2>3 DEF Choices
    <3>2. \A x \in DOMAIN leases : leases[x].ip # ip
      BY <3>1 DEF IInv, Ownership, PoolAccounting, LeasedIps
    <3> QED
      BY <2>3, <3>1, <3>2 DEF HasLease, OwnOffers
  <2> QED
    BY <2>1, <2>2, <2>3
<1>5. PoolAccounting'
  BY <1>1, <1>2, <1>3 DEF IInv, Ownership, PoolAccounting, LeasedIps
<1>6. ExclusiveOwnership'
  BY <1>2, <1>3, <1>4 DEF IInv, Ownership, ExclusiveOwnership
<1>7. ExcludedNotServed'
  BY <1>2, <1>3, <1>4 DEF IInv, Ownership, ExcludedNotServed, LeasedIps
<1>8. SingleClaim'
  <2>1. \A x \in DOMAIN leases, j \in DOMAIN offered : offered[j].mac = x => j = leases[x].ip
    BY <1>2, OneAddress
  <2>2. \A i, j \in DOMAIN offered : offered[i].mac = offered[j].mac => i = j
    BY <1>2, OneAddress
  <2> QED
    BY <1>2, <1>3, <1>4, <2>1, <2>2 DEF SingleClaim
<1> QED
  BY <1>2, <1>5, <1>6, <1>7, <1>8 DEF Ownership, FreshInside, Free

\* A commit moves the address from the offers to the leases.
LEMMA RequestStep ==
  ASSUME IInv, Request
  PROVE  Ownership' /\ FreshInside'
<1> DEFINE m == Msg.mac
           ip == Msg.ip
<1>1. /\ lock.held /\ lock' = Free /\ now' = now /\ excluded' = excluded
      /\ leases' = Put(leases, m, [ip |-> ip, expires |-> now + LeaseTime])
      /\ offered' = Without(offered, {ip})
      /\ allocated' = (allocated \ Vacated(m, ip)) \cup {ip}
      /\ CanRequest(m, ip)
  BY DEF Request, Handling, Done, Acceptable, Requestable
<1> HIDE DEF m, ip
<1>2. /\ ip \notin excluded
      /\ \A x \in DOMAIN leases : leases[x].ip = ip => x = m
      /\ m \in DOMAIN leases => leases[m].ip = ip
      /\ \A j \in DOMAIN offered : offered[j].mac = m => j = ip
  BY <1>1, RequestedIsFree
<1>3. /\ DOMAIN leases' = DOMAIN leases \cup {m} /\ leases'[m].ip = ip
      /\ \A x \in DOMAIN leases \ {m} : leases'[x] = leases[x]
  BY <1>1 DEF Put
<1>4. /\ DOMAIN offered' = DOMAIN offered \ {ip}
      /\ \A j \in DOMAIN offered' : offered'[j] = offered[j]
  BY <1>1 DEF Without, Restrict
\* A client keeps its address, so none is vacated.
<1>5. Vacated(m, ip) = {}
  BY <1>2 DEF Vacated
<1>6. LeasedIps(leases') = LeasedIps(leases) \cup {ip}
  BY <1>2, <1>3 DEF LeasedIps
<1>7. PoolAccounting'
  <2>1. allocated' = LeasedIps(leases') \cup DOMAIN offered' \cup excluded'
    BY <1>1, <1>4, <1>5, <1>6 DEF IInv, Ownership, PoolAccounting
  <2> QED
    BY <2>1 DEF PoolAccounting, LeasedIps
<1>8. ExclusiveOwnership'
  BY <1>2, <1>3, <1>4 DEF IInv, Ownership, ExclusiveOwnership
<1>9. ExcludedNotServed'
  <2>1. excluded' \cap (LeasedIps(leases') \cup DOMAIN offered') = {}
    BY <1>1, <1>2, <1>4, <1>6 DEF IInv, Ownership, ExcludedNotServed
  <2> QED
    BY <2>1 DEF ExcludedNotServed, LeasedIps
<1>10. SingleClaim'
  <2>1. \A x \in DOMAIN leases, j \in DOMAIN offered : offered[j].mac = x => j = leases[x].ip
    BY <1>1, OneAddress
  <2>2. \A i, j \in DOMAIN offered : offered[i].mac = offered[j].mac => i = j
    BY <1>1, OneAddress
  <2> QED
    BY <1>2, <1>3, <1>4, <2>1, <2>2 DEF SingleClaim
<1> QED
  BY <1>1, <1>7, <1>8, <1>9, <1>10 DEF Ownership, FreshInside, Free

\* A release frees what nobody else can own.
LEMMA ReleaseStep ==
  ASSUME IInv, Release
  PROVE  Ownership' /\ FreshInside'
<1> DEFINE m == Msg.mac
           ip == Msg.ip
<1>1. /\ lock.held /\ lock' = Free /\ now' = now /\ excluded' = excluded
      /\ leases' = Without(leases, {m})
      /\ offered' = RestrictValues(offered, LAMBDA o : o.mac # m)
      /\ allocated' = allocated \ ({ip} \ excluded)
      /\ m \in DOMAIN leases /\ leases[m].ip = ip
  BY DEF Release, Handling, Done, Owns
<1> HIDE DEF m, ip
<1>2. /\ DOMAIN leases' = DOMAIN leases \ {m}
      /\ \A x \in DOMAIN leases' : leases'[x] = leases[x]
  BY <1>1 DEF Without, Restrict
<1>3. /\ DOMAIN offered' = {j \in DOMAIN offered : offered[j].mac # m}
      /\ \A j \in DOMAIN offered' : offered'[j] = offered[j]
  BY <1>1 DEF RestrictValues, Restrict
<1>4. /\ \A x \in DOMAIN leases, j \in DOMAIN offered : offered[j].mac = x => j = leases[x].ip
      /\ \A i, j \in DOMAIN offered : offered[i].mac = offered[j].mac => i = j
  BY <1>1, OneAddress
<1>5. \A x \in DOMAIN leases : leases[x].ip = ip => x = m
  BY <1>1 DEF IInv, Ownership, ExclusiveOwnership
<1>6. \A j \in DOMAIN offered : j = ip <=> offered[j].mac = m
  BY <1>1, <1>4 DEF IInv, Ownership, ExclusiveOwnership
<1>7. LeasedIps(leases') = LeasedIps(leases) \ {ip} /\ DOMAIN offered' = DOMAIN offered \ {ip}
  <2>1. \A x \in DOMAIN leases' : x \in DOMAIN leases /\ x # m /\ leases'[x].ip = leases[x].ip
    BY <1>2
  <2>2. \A x \in DOMAIN leases : leases[x].ip # ip => x \in DOMAIN leases' /\ leases'[x] = leases[x]
    BY <1>1, <1>2
  <2>3. LeasedIps(leases') = LeasedIps(leases) \ {ip}
    BY <1>5, <2>1, <2>2 DEF LeasedIps
  <2>4. DOMAIN offered' = DOMAIN offered \ {ip}
    BY <1>3, <1>6
  <2> QED
    BY <2>3, <2>4
<1>8. PoolAccounting'
  <2>1. allocated' = LeasedIps(leases') \cup DOMAIN offered' \cup excluded'
    BY <1>1, <1>7 DEF IInv, Ownership, PoolAccounting
  <2> QED
    BY <2>1 DEF PoolAccounting, LeasedIps
<1>9. ExclusiveOwnership'
  BY <1>2, <1>3 DEF IInv, Ownership, ExclusiveOwnership
<1>10. ExcludedNotServed'
  <2>1. excluded' \cap (LeasedIps(leases') \cup DOMAIN offered') = {}
    BY <1>1, <1>7 DEF IInv, Ownership, ExcludedNotServed
  <2> QED
    BY <2>1 DEF ExcludedNotServed, LeasedIps
<1>11. SingleClaim'
  BY <1>2, <1>3, <1>4 DEF SingleClaim
<1> QED
  BY <1>1, <1>8, <1>9, <1>10, <1>11 DEF Ownership, FreshInside, Free

\* A declined address belongs to the exclusions only.
LEMMA DeclineStep ==
  ASSUME IInv, Decline
  PROVE  Ownership' /\ FreshInside'
<1> DEFINE m == Msg.mac
           ip == Msg.ip
<1>1. /\ lock.held /\ lock' = Free /\ now' = now /\ excluded' = excluded \cup {ip}
      /\ leases' = Without(leases, {m})
      /\ offered' = Without(offered, {ip})
      /\ allocated' = allocated \cup ({ip} \cap Pool)
      /\ CanRequest(m, ip)
  BY DEF Decline, Handling, Done
<1> HIDE DEF m, ip
<1>2. /\ \A x \in DOMAIN leases : leases[x].ip = ip => x = m
      /\ m \in DOMAIN leases => leases[m].ip = ip
  BY <1>1, RequestedIsFree
<1>3. /\ DOMAIN leases' = DOMAIN leases \ {m}
      /\ \A x \in DOMAIN leases' : leases'[x] = leases[x]
  BY <1>1 DEF Without, Restrict
<1>4. /\ DOMAIN offered' = DOMAIN offered \ {ip}
      /\ \A j \in DOMAIN offered' : offered'[j] = offered[j]
  BY <1>1 DEF Without, Restrict
<1>5. ip \in Pool
  BY <1>1, RequestableInPool DEF IInv
<1>6. LeasedIps(leases') = LeasedIps(leases) \ {ip}
  <2>1. \A x \in DOMAIN leases' : leases'[x].ip = leases[x].ip /\ leases[x].ip # ip
    BY <1>2, <1>3
  <2>2. \A x \in DOMAIN leases : leases[x].ip # ip => x \in DOMAIN leases' /\ leases'[x] = leases[x]
    BY <1>2, <1>3
  <2> QED
    BY <1>3, <2>1, <2>2 DEF LeasedIps
<1>7. PoolAccounting'
  <2>1. allocated' = LeasedIps(leases') \cup DOMAIN offered' \cup excluded'
    BY <1>1, <1>4, <1>5, <1>6 DEF IInv, Ownership, PoolAccounting
  <2> QED
    BY <2>1 DEF PoolAccounting, LeasedIps
<1>8. ExclusiveOwnership'
  BY <1>3, <1>4 DEF IInv, Ownership, ExclusiveOwnership
<1>9. ExcludedNotServed'
  <2>1. excluded' \cap (LeasedIps(leases') \cup DOMAIN offered') = {}
    BY <1>1, <1>4, <1>6 DEF IInv, Ownership, ExcludedNotServed
  <2> QED
    BY <2>1 DEF ExcludedNotServed, LeasedIps
<1>10. SingleClaim'
  <2>1. /\ \A x \in DOMAIN leases, j \in DOMAIN offered : offered[j].mac = x => j = leases[x].ip
        /\ \A i, j \in DOMAIN offered : offered[i].mac = offered[j].mac => i = j
    BY <1>1, OneAddress
  <2> QED
    BY <1>3, <1>4, <2>1 DEF SingleClaim
<1> QED
  BY <1>1, <1>7, <1>8, <1>9, <1>10 DEF Ownership, FreshInside, Free

\* The rows that are loaded were leases in memory, so nobody shares an address.
LEMMA RestartStep ==
  ASSUME IInv, Restart
  PROVE  Ownership' /\ FreshInside'
<1>1. /\ leases' = Unexpired(db) /\ allocated' = LeasedIps(leases')
      /\ offered' = Empty /\ excluded' = {} /\ lock' = Free
  BY DEF Restart
<1>2. \A m \in DOMAIN leases' :
        /\ m \in DOMAIN db /\ leases'[m] = db[m] /\ db[m].expires > now
  BY <1>1, UnexpiredFacts
<1>3. \A m \in DOMAIN leases' : m \in DOMAIN leases /\ leases[m] = leases'[m]
  BY <1>2 DEF IInv, Persistence, RowsAreLeases
<1>4. DOMAIN offered' = {}
  BY <1>1, PartialEmpty
<1>5. PoolAccounting'
  <2>1. allocated' = LeasedIps(leases') \cup DOMAIN offered' \cup excluded'
    BY <1>1, <1>4
  <2> QED
    BY <2>1 DEF PoolAccounting, LeasedIps
<1>6. ExclusiveOwnership'
  BY <1>3, <1>4 DEF IInv, Ownership, ExclusiveOwnership
<1> QED
  BY <1>1, <1>4, <1>5, <1>6 DEF Ownership, FreshInside, Free, ExcludedNotServed, SingleClaim

\* Steps that leave the maps alone; time only ends claims.
LEMMA QuietStep ==
  ASSUME IInv,
         DiscoverExhausted \/ Refuse \/ Ignore \/ Stop \/ Tick \/ UNCHANGED vars
  PROVE  Ownership' /\ FreshInside'
<1>1. leases' = leases /\ offered' = offered /\ allocated' = allocated /\ excluded' = excluded
  BY DEF DiscoverExhausted, Refuse, Ignore, Stop, Tick, vars, memory
<1>2. PoolAccounting' /\ ExclusiveOwnership' /\ ExcludedNotServed'
  BY <1>1 DEF IInv, Ownership, PoolAccounting, ExclusiveOwnership, ExcludedNotServed, LeasedIps
<1>3. now \in Nat /\ now' \in Nat /\ now <= now'
  BY DEF IInv, TypeOK, DiscoverExhausted, Refuse, Ignore, Done, Stop, Tick, vars
<1>4. lock' = Free \/ lock' = lock
  BY DEF DiscoverExhausted, Refuse, Ignore, Done, Stop, Tick, vars
<1>5. /\ \A m \in DOMAIN leases : leases[m].expires \in Int
      /\ \A ip \in DOMAIN offered : offered[ip].expires \in Int
  BY LeaseElement, OfferElement DEF IInv, TypeOK
<1>6. lock.held => lock.since \in Int
  BY MessageType DEF IInv
<1>7. FreshInside'
  BY <1>1, <1>3, <1>4, <1>5, <1>6 DEF IInv, FreshInside, Free
<1>8. SingleClaim'
  <2>1. CASE lock.held
    BY <2>1, <1>1, OneAddress DEF SingleClaim
  <2>2. CASE ~lock.held
    <3>1. ~lock'.held /\ AsOf = now /\ AsOf' = now'
      BY <2>2, <1>4 DEF AsOf, Free
    <3> QED
      BY <3>1, <1>1, <1>3, <1>5 DEF IInv, Ownership, SingleClaim
  <2> QED
    BY <2>1, <2>2
<1> QED
  BY <1>2, <1>7, <1>8 DEF Ownership

-----------------------------------------------------------------------------
(* The table and the clients.                                              *)

\* What a client may rely on is a lease in memory.
LEMMA BindingIsLease ==
  ASSUME IInv, NEW m \in Mac, Binding(m)
  PROVE  m \in DOMAIN leases /\ leases[m] = acked[m]
  BY DEF IInv, Persistence, AckedIsPersisted, RowsAreLeases, Binding

\* An ACK is written to all three maps.
LEMMA RequestPersists ==
  ASSUME IInv, Request, ~DbMayFail
  PROVE  Persistence'
<1> DEFINE m == Msg.mac
           lease == [ip |-> Msg.ip, expires |-> now + LeaseTime]
<1>1. /\ leases' = Put(leases, m, lease) /\ db' = Put(db, m, lease)
      /\ acked' = Put(acked, m, lease) /\ now' = now
  BY DEF Request, Done, WriteDb
<1> HIDE DEF m, lease
<1>2. RowsAreLeases'
  BY <1>1 DEF Put, IInv, Persistence, RowsAreLeases
<1>3. AckedIsPersisted'
  BY <1>1 DEF Put, IInv, Persistence, AckedIsPersisted, Binding
<1> QED
  BY <1>2, <1>3 DEF Persistence

\* A lease leaves memory and table together, and only if its client gives up
\* the address it was acknowledged.
LEMMA RemovalPersists ==
  ASSUME IInv, ~DbMayFail, NEW m, NEW ip,
         m \in DOMAIN leases => leases[m].ip = ip,
         leases' = Without(leases, {m}), WriteDb(Without(db, {m})), GivenUp(m, ip),
         now' = now
  PROVE  Persistence'
<1>1. db' = Without(db, {m})
  BY DEF WriteDb
<1>2. RowsAreLeases'
  BY <1>1 DEF Without, Restrict, IInv, Persistence, RowsAreLeases
<1>3. AckedIsPersisted'
  <2> SUFFICES ASSUME NEW x \in Mac, Binding(x)'
               PROVE  x \in DOMAIN db' /\ db'[x] = acked'[x]
    BY DEF AckedIsPersisted
  <2>1. /\ x \in DOMAIN acked /\ acked'[x] = acked[x] /\ Binding(x)
        /\ x = m => acked[x].ip # ip
    BY DEF Binding, GivenUp, Without, Restrict
  <2>2. x # m
    BY <2>1, BindingIsLease
  <2>3. x \in DOMAIN db /\ db[x] = acked[x]
    BY <2>1 DEF IInv, Persistence, AckedIsPersisted
  <2> QED
    BY <1>1, <2>1, <2>2, <2>3 DEF Without, Restrict
<1> QED
  BY <1>2, <1>3 DEF Persistence

\* Every step keeps the rows and the leases in agreement.
LEMMA PersistenceStep ==
  ASSUME IInv, [Next]_vars, ~DbMayFail
  PROVE  Persistence'
<1>1. CASE Reclaim \/ \E msg \in Message : Begin(msg)
  <2>1. leases' = Unexpired(leases) /\ db' = db /\ acked' = acked /\ now' = now
    BY <1>1 DEF Reclaim, Begin, ReclaimExpired
  <2>2. RowsAreLeases'
    BY <2>1, UnexpiredFacts DEF IInv, Persistence, RowsAreLeases
  <2>3. AckedIsPersisted'
    BY <2>1 DEF IInv, Persistence, AckedIsPersisted, Binding
  <2> QED
    BY <2>2, <2>3 DEF Persistence
<1>2. CASE Request
  BY <1>2, RequestPersists
<1>3. CASE Release
  BY <1>3, RemovalPersists DEF Release, Owns, Done
<1>4. CASE Decline
  <2>1. Msg.mac \in DOMAIN leases => leases[Msg.mac].ip = Msg.ip
    BY <1>4, RequestedIsFree DEF Decline, Handling
  <2> QED
    BY <1>4, <2>1, RemovalPersists DEF Decline, Done
<1>5. CASE Restart
  <2>1. leases' = Unexpired(db) /\ db' = db /\ acked' = acked /\ now' = now
    BY <1>5 DEF Restart
  <2>2. RowsAreLeases'
    BY <2>1, UnexpiredFacts DEF RowsAreLeases
  <2>3. AckedIsPersisted'
    BY <2>1 DEF IInv, Persistence, AckedIsPersisted, Binding
  <2> QED
    BY <2>2, <2>3 DEF Persistence
<1>6. CASE Discover \/ DiscoverExhausted \/ Refuse \/ Ignore \/ Stop \/ Tick \/ UNCHANGED vars
  <2>1. leases' = leases /\ db' = db /\ acked' = acked
    BY <1>6 DEF Discover, DiscoverExhausted, Refuse, Ignore, Stop, Tick, vars, memory
  <2>2. now \in Nat /\ now' \in Nat /\ now <= now'
    BY <1>6 DEF IInv, TypeOK, Discover, DiscoverExhausted, Refuse, Ignore, Done, Stop, Tick, vars
  <2>3. /\ \A m \in DOMAIN db : db[m].expires \in Int
        /\ \A m \in DOMAIN acked : acked[m].expires \in Int
    BY LeaseElement DEF IInv, TypeOK
  <2>4. RowsAreLeases'
    BY <2>1, <2>2, <2>3 DEF IInv, Persistence, RowsAreLeases
  <2>5. AckedIsPersisted'
    BY <2>1, <2>2, <2>3 DEF IInv, Persistence, AckedIsPersisted, Binding
  <2> QED
    BY <2>4, <2>5 DEF Persistence
<1> QED
  BY <1>1, <1>2, <1>3, <1>4, <1>5, <1>6 DEF Next, Handle

-----------------------------------------------------------------------------
(* The theorems.                                                           *)

\* The two facts that make IInv an invariant.
LEMMA InitInv == Init => IInv
<1> SUFFICES ASSUME Init PROVE IInv
  OBVIOUS
<1>1. TypeOK
  BY InitType
<1>2. /\ DOMAIN leases = {} /\ DOMAIN offered = {} /\ DOMAIN db = {} /\ DOMAIN acked = {}
      /\ allocated = {} /\ excluded = {} /\ lock = Free
  BY PartialEmpty DEF Init
<1>3. PoolAccounting
  BY <1>2 DEF PoolAccounting, LeasedIps
<1>4. Ownership
  BY <1>2, <1>3 DEF Ownership, ExclusiveOwnership, ExcludedNotServed, SingleClaim
<1>5. Persistence
  BY <1>2 DEF Persistence, RowsAreLeases, AckedIsPersisted, Binding
<1> QED
  BY <1>1, <1>2, <1>4, <1>5 DEF IInv, FreshInside, Free

\* One step of the server, by the lemmas of its parts.
LEMMA InvStep ==
  ASSUME IInv, [Next]_vars, ~DbMayFail
  PROVE  IInv'
<1>1. TypeOK'
  BY TypeStep DEF IInv
<1>2. Ownership' /\ FreshInside'
  BY ReclaimStep, DiscoverStep, RequestStep, ReleaseStep, DeclineStep, RestartStep, QuietStep
     DEF Next, Handle
<1>3. Persistence'
  BY PersistenceStep
<1> QED
  BY <1>1, <1>2, <1>3 DEF IInv

\* As long as writes of the lease table succeed, the inductive invariant holds
\* of every state of the server, across crashes and restarts.
THEOREM Inductive == ~DbMayFail => (Spec => []IInv)
<1> SUFFICES ASSUME ~DbMayFail PROVE Spec => []IInv
  OBVIOUS
<1>1. Init => IInv
  BY InitInv
<1>2. IInv /\ [Next]_vars => IInv'
  BY InvStep
<1> QED
  BY <1>1, <1>2, PTL DEF Spec

\* No address is lost to the pool and none is free while a lease, an offer or an
\* exclusion holds it, whichever of them ends first.
THEOREM PoolAccounted == ~DbMayFail => (Spec => []PoolAccounting)
<1>1. IInv => PoolAccounting
  BY DEF IInv, Ownership
<1> QED
  BY <1>1, Inductive, PTL

\* An address has one owner: no two leases of it, no offer beside another
\* client's lease.
THEOREM OwnershipExclusive == ~DbMayFail => (Spec => []ExclusiveOwnership)
<1>1. IInv => ExclusiveOwnership
  BY DEF IInv, Ownership
<1> QED
  BY <1>1, Inductive, PTL

\* A declined address is not served again by this process.
THEOREM ExcludedStaysOut == ~DbMayFail => (Spec => []ExcludedNotServed)
<1>1. IInv => ExcludedNotServed
  BY DEF IInv, Ownership
<1> QED
  BY <1>1, Inductive, PTL

\* The table has every lease a client may rely on.
THEOREM AckPersisted == ~DbMayFail => (Spec => []AckedIsPersisted)
<1>1. IInv => AckedIsPersisted
  BY DEF IInv, Persistence
<1> QED
  BY <1>1, Inductive, PTL

\* Two clients never use one address on the strength of ACKs, also when the
\* server forgot everything but the table between the two.
THEOREM BindingsDisjoint == ~DbMayFail => (Spec => []NoSharedBinding)
<1>1. IInv => NoSharedBinding
  <2> SUFFICES ASSUME IInv, NEW m1 \in Mac, NEW m2 \in Mac,
                      Binding(m1), Binding(m2), acked[m1].ip = acked[m2].ip
               PROVE  m1 = m2
    BY DEF NoSharedBinding
  <2>1. /\ m1 \in DOMAIN leases /\ leases[m1].ip = acked[m1].ip
        /\ m2 \in DOMAIN leases /\ leases[m2].ip = acked[m2].ip
    BY BindingIsLease
  <2> QED
    BY <2>1 DEF IInv, Ownership, ExclusiveOwnership
<1> QED
  BY <1>1, Inductive, PTL
=============================================================================
