----------------------------- MODULE DhcpServer -----------------------------
(***************************************************************************)
(* The DHCP server (nimbus-core/src/dhcp/mod.rs): leases, offers, the      *)
(* address pool and the addresses excluded from it, the rows the leases    *)
(* are persisted in, and what a restart makes of them.                     *)
(*                                                                         *)
(* A packet is one transaction under the mutation lock: it reclaims what   *)
(* has expired, then handles the message.  The two halves each read the    *)
(* clock, so time may pass between them; Begin is the first half and each  *)
(* handler the second.  Every packet runs in a task of its own and may be  *)
(* lost, repeated or overtaken on the way, so any message can come next.   *)
(*                                                                         *)
(* A crash inside a transaction loses what it did in memory, and before    *)
(* the row is written that is all it did, so Restart between two actions   *)
(* stands for it.  Left out: the options of the replies, hostnames, and    *)
(* INFORM, which changes nothing.                                          *)
(***************************************************************************)
EXTENDS Integers, Functions

CONSTANTS
  Mac,           \* clients
  PoolStart, PoolEnd,  \* the pool, as numbers
  Foreign,       \* an address outside the pool that a client may ask for
  LeaseTime,     \* dhcp.lease_time
  OfferTimeout,  \* OFFER_TIMEOUT
  Quarantine,    \* the 600 seconds of handle_decline
  MaxTime,       \* bound of the clock
  DbMayFail      \* whether a write of the lease table may fail

ASSUME DhcpAssumption ==
  /\ PoolStart \in Int /\ PoolEnd \in Int /\ Foreign \in Int
  /\ LeaseTime \in Nat /\ OfferTimeout \in Nat /\ Quarantine \in Nat
  /\ MaxTime \in Nat /\ DbMayFail \in BOOLEAN

Pool == PoolStart..PoolEnd
Ip   == Pool \cup {Foreign}

VARIABLES
  leases,     \* mac -> its lease
  offered,    \* ip -> who it is offered to, and until when
  allocated,  \* pool.allocated
  excluded,   \* addresses found in use by somebody else
  declined,   \* ip -> end of its quarantine
  db,         \* the rows of dhcp_leases: mac -> lease
  now,        \* the wall clock
  lock,       \* the transaction that holds the mutation lock
  running,    \* the receive loop runs
  acked       \* ghost: mac -> the lease last acknowledged to it

memory == <<leases, offered, allocated, excluded, declined>>
vars   == <<leases, offered, allocated, excluded, declined, db, now, lock, running, acked>>

Lease == [ip : Pool, expires : Int]
Offer == [mac : Mac, expires : Int]

\* A REQUEST names its address in one of three ways.
Selecting  == "selecting"   \* server id and requested address
InitReboot == "reboot"      \* requested address only
Renewing   == "renewing"    \* ciaddr only

Message ==
  [type : {"discover"}, mac : Mac]
    \cup [type : {"request"}, mac : Mac, ip : Ip, kind : {Selecting, InitReboot, Renewing}]
    \cup [type : {"release", "decline"}, mac : Mac, ip : Ip]

Free == [held |-> FALSE]
Held == [held : {TRUE}, msg : Message, since : Int]   \* since: the clock at Begin

Partial(f, S, T) == DOMAIN f \subseteq S /\ f \in [DOMAIN f -> T]

TypeOK ==
  /\ Partial(leases, Mac, Lease)
  /\ Partial(offered, Pool, Offer)
  /\ allocated \subseteq Pool
  /\ excluded \subseteq Pool
  /\ Partial(declined, Pool, Int)
  /\ Partial(db, Mac, Lease)
  /\ now \in Nat
  /\ lock \in {Free} \cup Held
  /\ running \in BOOLEAN
  /\ Partial(acked, Mac, Lease)

Empty == [x \in {} |-> 0]

Init ==
  /\ leases = Empty /\ offered = Empty
  /\ allocated = {} /\ excluded = {} /\ declined = Empty
  /\ db = Empty /\ now = 0 /\ lock = Free /\ running = TRUE /\ acked = Empty

-----------------------------------------------------------------------------
(* The maps.                                                               *)

Put(f, x, y)  == [z \in DOMAIN f \cup {x} |-> IF z = x THEN y ELSE f[z]]
Without(f, S) == Restrict(f, DOMAIN f \ S)
Unexpired(f)  == RestrictValues(f, LAMBDA e : e.expires > now)

LeasedIps(f) == {f[m].ip : m \in DOMAIN f}

Msg == lock.msg

HasLease(m) == m \in DOMAIN leases /\ leases[m].expires > now

OwnOffers(m) == {ip \in DOMAIN offered : offered[ip].mac = m /\ offered[ip].expires > now}

\* can_client_request: the client's own lease or an offer made to it.
CanRequest(m, ip) ==
  /\ ip \notin excluded
  /\ ~(ip \in DOMAIN declined /\ declined[ip] > now)
  /\ (HasLease(m) /\ leases[m].ip = ip) \/ ip \in OwnOffers(m)

Requestable(m, ip) == ip \in Pool /\ CanRequest(m, ip)

-----------------------------------------------------------------------------
(* reclaim_expired_locked.                                                 *)

FreedLeases_IgnoresOffers ==
  LET kept == Unexpired(leases)
      gone == {leases[m].ip : m \in DOMAIN leases \ DOMAIN kept}
  IN  gone \ (LeasedIps(kept) \cup excluded)

\* Addresses of expired leases that nobody else holds.
FreedLeases ==
  LET kept == Unexpired(leases)
      gone == {leases[m].ip : m \in DOMAIN leases \ DOMAIN kept}
  IN  gone \ (LeasedIps(kept) \cup DOMAIN offered \cup excluded)

FreedOffers_IgnoresLeases == (DOMAIN offered \ DOMAIN Unexpired(offered)) \ excluded

\* Addresses of expired offers that no lease holds.
FreedOffers ==
  (DOMAIN offered \ DOMAIN Unexpired(offered))
    \ (LeasedIps(Unexpired(leases)) \cup excluded)

\* Leases first, then offers, then quarantines.
ReclaimExpired ==
  /\ leases' = Unexpired(leases)
  /\ offered' = Unexpired(offered)
  /\ allocated' = allocated \ (FreedLeases \cup FreedOffers)
  /\ declined' = RestrictValues(declined, LAMBDA until : until > now)
  /\ UNCHANGED excluded

\* check.tick of the loop, and every listing of the leases by the API.
Reclaim ==
  /\ lock = Free
  /\ ReclaimExpired
  /\ UNCHANGED <<db, now, lock, running, acked>>

-----------------------------------------------------------------------------
(* process_dhcp_message.                                                   *)

\* A packet for this server has come and its task has the lock.
Begin(msg) ==
  /\ running /\ lock = Free
  /\ ReclaimExpired
  /\ lock' = [held |-> TRUE, msg |-> msg, since |-> now]
  /\ UNCHANGED <<db, now, running, acked>>

Handling(type) == lock.held /\ Msg.type = type

Done == lock' = Free /\ UNCHANGED <<now, running>>

\* The write of one row: it is done or, if it fails, only logged.
WriteDb(rows) == db' = rows \/ (DbMayFail /\ UNCHANGED db)

Choices_PastEnd(m) ==
  LET free == (PoolStart..PoolEnd + 1) \ (allocated \cup excluded) IN
  IF HasLease(m) THEN {leases[m].ip}
  ELSE IF OwnOffers(m) # {} THEN OwnOffers(m)
  ELSE {ip \in free : \A other \in free : ip <= other}

\* What is offered to m: the address it leases, else one offered to it
\* already, else the first that is free.
Choices(m) ==
  LET free == Pool \ (allocated \cup excluded) IN
  IF HasLease(m) THEN {leases[m].ip}
  ELSE IF OwnOffers(m) # {} THEN OwnOffers(m)
  ELSE {ip \in free : \A other \in free : ip <= other}

\* An address that is offered is reserved, a leased one too: the lease may
\* run out before the REQUEST.
Discover ==
  /\ Handling("discover")
  /\ \E ip \in Choices(Msg.mac) :
       /\ offered' = Put(offered, ip, [mac |-> Msg.mac, expires |-> now + OfferTimeout])
       /\ allocated' = allocated \cup {ip}
  /\ Done
  /\ UNCHANGED <<leases, excluded, declined, db, acked>>

\* The pool is exhausted: no reply.
DiscoverExhausted ==
  /\ Handling("discover") /\ Choices(Msg.mac) = {}
  /\ Done
  /\ UNCHANGED <<memory, db, acked>>

\* Another client has an unexpired lease of the address.
Conflict(m, ip) ==
  \E other \in DOMAIN leases \ {m} : leases[other].ip = ip /\ leases[other].expires > now

\* try_commit_lease gives back the address m had, if m moves to another one.
Vacated(m, ip) ==
  {old \in {leases[x].ip : x \in DOMAIN leases \cap {m}} \ {ip} :
     /\ ~\E other \in DOMAIN leases \ {m} :
            leases[other].ip = old /\ leases[other].expires > now
     /\ old \notin DOMAIN offered /\ old \notin excluded}

\* A client that asks, unknown, for the address it had elsewhere is ignored.
\* (The pool lies in the subnet of the server, so that for an address elsewhere
\* the subnet test only tells silence from a NAK.)
Unanswered == Msg.kind = InitReboot /\ Msg.mac \notin DOMAIN leases

Acceptable(m, ip) == Requestable(m, ip) /\ ~Conflict(m, ip)

Request_PersistsFirstOnly ==
  /\ Handling("request") /\ ~Unanswered /\ Acceptable(Msg.mac, Msg.ip)
  /\ LET m     == Msg.mac
         lease == [ip |-> Msg.ip, expires |-> now + LeaseTime]
     IN  /\ leases' = Put(leases, m, lease)
         /\ allocated' = (allocated \ Vacated(m, Msg.ip)) \cup {Msg.ip}
         /\ offered' = Without(offered, {Msg.ip})
         /\ IF m \in DOMAIN db THEN UNCHANGED db ELSE WriteDb(Put(db, m, lease))
         /\ acked' = Put(acked, m, lease)
  /\ Done
  /\ UNCHANGED <<excluded, declined>>

\* ACK: the lease is committed, its offer used up, its row written.
Request ==
  /\ Handling("request") /\ ~Unanswered /\ Acceptable(Msg.mac, Msg.ip)
  /\ LET m     == Msg.mac
         lease == [ip |-> Msg.ip, expires |-> now + LeaseTime]
     IN  /\ leases' = Put(leases, m, lease)
         /\ allocated' = (allocated \ Vacated(m, Msg.ip)) \cup {Msg.ip}
         /\ offered' = Without(offered, {Msg.ip})
         /\ WriteDb(Put(db, m, lease))
         /\ acked' = Put(acked, m, lease)
  /\ Done
  /\ UNCHANGED <<excluded, declined>>

\* Silence, or a NAK.
Refuse ==
  /\ Handling("request") /\ (Unanswered \/ ~Acceptable(Msg.mac, Msg.ip))
  /\ Done
  /\ UNCHANGED <<memory, db, acked>>

\* The client itself stops using ip.
GivenUp(m, ip) ==
  acked' = Without(acked, {x \in DOMAIN acked \cap {m} : acked[x].ip = ip})

Owns(m, ip) == m \in DOMAIN leases /\ leases[m].ip = ip

\* The owner gives its address back; its offers go with it.
Release ==
  /\ Handling("release") /\ Owns(Msg.mac, Msg.ip)
  /\ leases' = Without(leases, {Msg.mac})
  /\ offered' = RestrictValues(offered, LAMBDA o : o.mac # Msg.mac)
  /\ allocated' = allocated \ ({Msg.ip} \ excluded)
  /\ WriteDb(Without(db, {Msg.mac}))
  /\ GivenUp(Msg.mac, Msg.ip)
  /\ Done
  /\ UNCHANGED <<excluded, declined>>

Decline_KeepsOffer ==
  /\ Handling("decline") /\ CanRequest(Msg.mac, Msg.ip)
  /\ excluded' = excluded \cup {Msg.ip}
  /\ declined' = Put(declined, Msg.ip, now + Quarantine)
  /\ allocated' = allocated \cup ({Msg.ip} \cap Pool)
  /\ leases' = Without(leases, {Msg.mac})
  /\ UNCHANGED offered
  /\ WriteDb(Without(db, {Msg.mac}))
  /\ GivenUp(Msg.mac, Msg.ip)
  /\ Done

\* handle_decline: the address is in use by somebody else.
Decline ==
  /\ Handling("decline") /\ CanRequest(Msg.mac, Msg.ip)
  /\ excluded' = excluded \cup {Msg.ip}
  /\ declined' = Put(declined, Msg.ip, now + Quarantine)
  /\ allocated' = allocated \cup ({Msg.ip} \cap Pool)
  /\ leases' = Without(leases, {Msg.mac})
  /\ offered' = Without(offered, {Msg.ip})
  /\ WriteDb(Without(db, {Msg.mac}))
  /\ GivenUp(Msg.mac, Msg.ip)
  /\ Done

\* A RELEASE or DECLINE of an address the client does not have.
Ignore ==
  /\ \/ Handling("release") /\ ~Owns(Msg.mac, Msg.ip)
     \/ Handling("decline") /\ ~CanRequest(Msg.mac, Msg.ip)
  /\ Done
  /\ UNCHANGED <<memory, db, acked>>

-----------------------------------------------------------------------------
(* The process.                                                            *)

\* DHCP is switched off in the configuration, or the server shuts down.
Stop ==
  /\ running
  /\ running' = FALSE
  /\ UNCHANGED <<memory, db, now, lock, acked>>

Restart_LoadsNothing ==
  /\ leases' = Empty
  /\ allocated' = {}
  /\ offered' = Empty /\ excluded' = {} /\ declined' = Empty
  /\ lock' = Free /\ running' = TRUE
  /\ UNCHANGED <<db, now, acked>>

\* The process ends, by a crash or not, and a new one loads the rows that have
\* not expired.  Offers, exclusions and quarantines are gone.
Restart ==
  LET loaded == Unexpired(db) IN
  /\ leases' = loaded
  /\ allocated' = LeasedIps(loaded)
  /\ offered' = Empty /\ excluded' = {} /\ declined' = Empty
  /\ lock' = Free /\ running' = TRUE
  /\ UNCHANGED <<db, now, acked>>

Tick ==
  /\ now < MaxTime
  /\ now' = now + 1
  /\ UNCHANGED <<memory, db, lock, running, acked>>

-----------------------------------------------------------------------------
Handle ==
  \/ Discover
  \/ DiscoverExhausted
  \/ Request
  \/ Refuse
  \/ Release
  \/ Decline
  \/ Ignore

Next ==
  \/ \E msg \in Message : Begin(msg)
  \/ Handle
  \/ Reclaim
  \/ Stop
  \/ Restart
  \/ Tick

Spec == Init /\ [][Next]_vars

-----------------------------------------------------------------------------
(* Properties.                                                             *)

\* "An address cannot return to the free pool while a lease or outstanding
\* offer still owns it" (release notes 0.5.8), nor stay allocated when nothing
\* owns it any more: the pool's set is exactly what the three maps hold.
PoolAccounting == allocated = LeasedIps(leases) \cup DOMAIN offered \cup excluded

\* The quoted half of it, to be checked where writes of the table may fail.
OwnedNotFree == LeasedIps(leases) \cup DOMAIN offered \subseteq allocated

\* No address is leased to two clients, nor offered to one while another has
\* its lease.
ExclusiveOwnership ==
  /\ \A m1, m2 \in DOMAIN leases : leases[m1].ip = leases[m2].ip => m1 = m2
  /\ \A m \in DOMAIN leases :
       leases[m].ip \in DOMAIN offered => offered[leases[m].ip].mac = m

\* An address that a client found in use is neither leased nor offered again
\* while this process lives.
ExcludedNotServed == excluded \cap (LeasedIps(leases) \cup DOMAIN offered) = {}

\* What a client may rely on: a lease it was sent an ACK for, which it has
\* neither released nor declined and which has not expired.
Binding(m) == m \in DOMAIN acked /\ acked[m].expires > now

\* No two clients use one address on the strength of ACKs of this server,
\* whatever restarts came between them.
NoSharedBinding ==
  \A m1, m2 \in Mac :
    Binding(m1) /\ Binding(m2) /\ acked[m1].ip = acked[m2].ip => m1 = m2

\* "All state and persistence changes happen ... before emitting the reply": a
\* lease that was acknowledged is known, and its row there for the next start.
AckedIsPersisted ==
  \A m \in Mac : Binding(m) => m \in DOMAIN db /\ db[m] = acked[m]
=============================================================================
