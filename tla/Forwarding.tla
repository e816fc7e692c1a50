----------------------------- MODULE Forwarding -----------------------------
(***************************************************************************)
(* What a query goes through once it is admitted: QueryRouter::route and   *)
(* forward_attempt (nimbus-core/src/dns/router.rs) and DnsForwarder        *)
(* (nimbus-core/src/dns/forwarder.rs), for any number of queries at once.  *)
(*                                                                         *)
(* A query is answered from the cache or tried at each upstream in turn,   *)
(* over TLS, or over UDP and then TCP.  UDP sockets are pooled: one is     *)
(* handed on as soon as its query stops listening, and what the upstream   *)
(* still sends to it waits for whoever listens next.                       *)
(*                                                                         *)
(* A message is an id, a key (the cache's: name and type) and a class.     *)
(* Times are whole, and a timer that is due fires before the clock goes on.*)
(* The cache is what DnsCache promises: it keeps what it is given, or not. *)
(* DoT is what DotConnection promises: the query's own answer, or none.    *)
(*                                                                         *)
(* Left out: the query log, the content of answers, queries without a      *)
(* question, the DNSSEC flag (which is in the cache's key, not in what is   *)
(* validated), and a response that cannot be encoded again.                *)
(***************************************************************************)
EXTENDS Integers, FiniteSets, Sequences

CONSTANTS
  Query,          \* calls of route
  Socket,         \* identities for the UDP sockets bound
  Message,        \* messages clients send
  UpstreamLists,  \* values dns.upstreams may have
  PerAttempt,     \* the most one upstream is given; DEFAULT_TIMEOUT
  Overall,        \* the most a query is given; DEFAULT_TIMEOUT
  Ttls,           \* what cache_ttl_secs makes of an answer
  MaxTime,        \* bound of the clock
  None

ASSUME ForwardingAssumption ==
  /\ IsFiniteSet(Query) /\ IsFiniteSet(Socket)
  /\ Cardinality(Socket) >= Cardinality(Query)
  /\ \A m \in Message : m = [id |-> m.id, key |-> m.key, class |-> m.class]
  /\ UpstreamLists \subseteq Seq({"plain", "tls"})
  /\ PerAttempt \in Nat \ {0} /\ Overall \in Nat \ {0}
  /\ Ttls \subseteq Nat /\ MaxTime \in Nat
  /\ None \notin Socket \cup Nat

VARIABLES
  now,    \* the clock
  call,   \* each call of route, with its local variables
  idle,   \* udp_pool.idle
  net,    \* by socket: queries sent from it, with when they were answered
  cache,  \* key -> entry
  told,   \* the answer a client has just got, for the properties only
  peak    \* most sockets in use at one time, for PoolBounded only

vars == <<now, call, idle, net, cache, told, peak>>

Key  == {m.key : m \in Message}
Time == 0..MaxTime

Positive == Nat \ {0}

\* A response: id and question, when the upstream made it, its TTL, and whether
\* it was made for the query that took it.  A hit gives it the id of another.
Shown == [id : {m.id : m \in Message}, key : Key, class : {m.class : m \in Message}]

Response == [msg : Shown, born : Time, ttl : Ttls, own : BOOLEAN]

\* at is cached_at, life what was left of the TTL then.
Entry == [response : Response, at : Time, life : Positive]

Datagram == [socket : Socket, from : Query, msg : Message, at : Time \cup {None}]

Idle == [pc |-> "idle"]

Open    == {"next", "udp", "tcp", "tls"}
Span    == 0..PerAttempt
Holding == Socket \cup {None}

\* Of a query under way: the upstream it is at, when it came, when it last asked
\* and what time it had for that, the socket it listens on.
Active ==
  [pc : Open, msg : Message, list : UpstreamLists, up : Positive,
   start : Time, asked : Time, budget : Span, socket : Holding]

Done == [pc : {"done"}, result : {"answered", "servfail"}]

\* To whom, what, and when the TTL it carried runs out.
Told == [msg : Message, response : Response, until : Nat, hit : BOOLEAN]

Held == {call[q].socket : q \in {p \in Query : call[p].pc = "udp"}}

\* A call is at one of its upstreams or past the last, and has a socket exactly
\* while it listens on it.
Proper(c) ==
  c.pc \in Open =>
    /\ c.up <= Len(c.list) \/ (c.pc = "next" /\ c.up = Len(c.list) + 1)
    /\ c.pc = "udp" <=> c.socket # None

TypeOK ==
  /\ now \in Time
  /\ call \in [Query -> {Idle} \cup Active \cup Done]
  /\ \A q \in Query : Proper(call[q])
  /\ idle \in Seq(Socket)
  /\ net \subseteq Datagram
  /\ cache \in [Key -> Entry \cup {None}]
  /\ told \in Told \cup {None}
  /\ peak \in Nat

Init ==
  /\ now = 0
  /\ call = [q \in Query |-> Idle]
  /\ idle = <<>>
  /\ net = {}
  /\ cache = [k \in Key |-> None]
  /\ told = None
  /\ peak = 0

\* No client is told anything.
Quiet == told' = None

-----------------------------------------------------------------------------
(* The cache, as the router sees it.                                       *)

\* Older than its life is expired (DnsCache).
Hit(k) == cache[k] # None /\ now - cache[k].at <= cache[k].life

\* The cache drops an entry: expired and looked up, swept, evicted, removed.
Drop(k) ==
  /\ cache[k] # None
  /\ cache' = [cache EXCEPT ![k] = None]
  /\ Quiet /\ UNCHANGED <<now, call, idle, net, peak>>

Life_Whole(start, ttl) == ttl

\* What is left of the TTL after the time the query took.
Life(start, ttl) == IF ttl > now - start THEN ttl - (now - start) ELSE 0

\* What the cache holds once the response is kept under its key.
Kept(response, life) ==
  [cache EXCEPT ![response.msg.key] = [response |-> response, at |-> now, life |-> life]]

CacheResponse_Always(start, response) ==
  cache' = Kept(response, Life(start, response.ttl))

\* A response is kept for what is left of its TTL, unless that is nothing.
CacheResponse(start, response) ==
  LET life == Life(start, response.ttl)
  IN  cache' = IF life > 0 THEN Kept(response, life) ELSE cache

-----------------------------------------------------------------------------
(* Sockets.                                                                *)

Acquire_Peeks(s) ==
  IF idle # <<>>
  THEN s = Head(idle) /\ idle' = idle
  ELSE s \notin Held /\ idle' = idle

Acquire_AlwaysBinds(s) ==
  /\ s \notin Held /\ \A i \in DOMAIN idle : idle[i] # s
  /\ idle' = idle

\* A socket of the pool, or a new one if none is idle.
Acquire(s) ==
  IF idle # <<>>
  THEN s = Head(idle) /\ idle' = Tail(idle)
  ELSE s \notin Held /\ idle' = idle

Release(s) == idle' = Append(idle, s)

\* A dropped socket is closed, and with it goes what was sent to it.
Closed(s) == {d \in net : d.socket # s}

-----------------------------------------------------------------------------
(* The calls of route.                                                     *)

At(q, pc) == call[q].pc = pc

Deadline(q) == call[q].start + Overall

Set(q, c) == call' = [call EXCEPT ![q] = c]

Finish(q, result) == Set(q, [pc |-> "done", result |-> result])

\* A response goes to a client, with ttl seconds to live.
Answer(q, m, response, ttl, hit) ==
  /\ Finish(q, "answered")
  /\ told' = [msg |-> m, response |-> response, until |-> now + ttl, hit |-> hit]

\* The rate limit refuses the query, or a list blocks it.
TurnAway(q) ==
  /\ At(q, "idle")
  /\ Finish(q, "answered")
  /\ Quiet /\ UNCHANGED <<now, idle, net, cache, peak>>

WithId(m, id) == [id |-> id, key |-> m.key, class |-> m.class]

AnswerFromCache_KeepsTtl(q, m) ==
  /\ At(q, "idle") /\ Hit(m.key)
  /\ LET e == cache[m.key]
     IN  Answer(q, m, [e.response EXCEPT !.msg = WithId(@, m.id)], e.response.ttl, TRUE)
  /\ UNCHANGED <<now, idle, net, cache, peak>>

\* A hit.  The id becomes the query's, the TTLs lose the time since caching.
AnswerFromCache(q, m) ==
  /\ At(q, "idle") /\ Hit(m.key)
  /\ LET e == cache[m.key]
     IN  Answer(q, m, [e.response EXCEPT !.msg = WithId(@, m.id)], e.response.ttl - (now - e.at), TRUE)
  /\ UNCHANGED <<now, idle, net, cache, peak>>

\* A miss, with the upstreams of this moment; an expired entry is removed.
Forward(q, m, list) ==
  /\ At(q, "idle") /\ ~Hit(m.key)
  /\ now + Overall <= MaxTime
  /\ Set(q, [pc |-> "next", msg |-> m, list |-> list, up |-> 1, start |-> now,
             asked |-> now, budget |-> 0, socket |-> None])
  /\ cache' = [cache EXCEPT ![m.key] = None]
  /\ Quiet /\ UNCHANGED <<now, idle, net, peak>>

-----------------------------------------------------------------------------
(* forward_attempt: one upstream after the other.                          *)

\* The upstream whose turn it is gets PerAttempt, or what is left if less.
Budget(q) == LET left == Deadline(q) - now
             IN  IF left < PerAttempt THEN left ELSE PerAttempt

Upstream(q) == call[q].list[call[q].up]

\* There is an upstream left to try, and time.
Turn(q) ==
  /\ At(q, "next")
  /\ call[q].up <= Len(call[q].list)
  /\ now < Deadline(q)

Ask(q, pc, s) ==
  Set(q, [call[q] EXCEPT !.pc = pc, !.asked = now, !.budget = Budget(q), !.socket = s])

InUse == Cardinality(Held')

\* forward_plain: a socket is acquired and the query sent from it.
AskUdp(q, s) ==
  /\ Turn(q) /\ Upstream(q) = "plain"
  /\ Acquire(s)
  /\ Ask(q, "udp", s)
  /\ net' = net \cup {[socket |-> s, from |-> q, msg |-> call[q].msg, at |-> None]}
  /\ peak' = IF InUse > peak THEN InUse ELSE peak
  /\ Quiet /\ UNCHANGED <<now, cache>>

\* forward_tls.
AskTls(q) ==
  /\ Turn(q) /\ Upstream(q) = "tls"
  /\ Ask(q, "tls", None)
  /\ Quiet /\ UNCHANGED <<now, idle, net, cache, peak>>

NextUpstream(q) ==
  Set(q, [call[q] EXCEPT !.pc = "next", !.up = @ + 1, !.socket = None])

\* The query cannot be encoded, or no socket be bound.
AskFails(q) ==
  /\ Turn(q)
  /\ NextUpstream(q)
  /\ Quiet /\ UNCHANGED <<now, idle, net, cache, peak>>

\* Every upstream has failed, or the time is up.
Exhausted(q) ==
  /\ At(q, "next")
  /\ call[q].up > Len(call[q].list) \/ now >= Deadline(q)
  /\ Finish(q, "servfail")
  /\ Quiet /\ UNCHANGED <<now, idle, net, cache, peak>>

GiveUp_UdpOnly(q) ==
  /\ At(q, "udp") /\ now >= Deadline(q)
  /\ Finish(q, "servfail")
  /\ net' = Closed(call[q].socket)
  /\ Quiet /\ UNCHANGED <<now, idle, cache, peak>>

\* The outer timeout.  What the attempt holds is dropped, not given back.
GiveUp(q) ==
  /\ call[q].pc \in Open /\ now >= Deadline(q)
  /\ Finish(q, "servfail")
  /\ net' = Closed(call[q].socket)
  /\ Quiet /\ UNCHANGED <<now, idle, cache, peak>>

Matches_IdOnly(m, r) == m.id = r.id

\* validate_response_question: the id and the question.
Matches(m, r) == m.id = r.id /\ m.key = r.key /\ m.class = r.class

\* A valid answer goes to the client and into the cache.
Succeed(q, response) ==
  /\ Answer(q, call[q].msg, response, response.ttl, FALSE)
  /\ CacheResponse(call[q].start, response)

-----------------------------------------------------------------------------
(* forward_plain, forward_tcp and the answers they wait for.               *)

\* When the timer of the current wait is due.  send_query gives the channel and
\* the reply its timeout each.
Due(q) ==
  LET c == call[q]
  IN  c.asked + (IF c.pc = "tls" THEN 2 * c.budget ELSE c.budget)

\* The upstream answers a query sent by UDP, some time, or never.
UdpAnswered(d) ==
  /\ d.at = None
  /\ net' = (net \ {d}) \cup {[d EXCEPT !.at = now]}
  /\ Quiet /\ UNCHANGED <<now, call, idle, cache, peak>>

\* d is next in the socket.  The network may have another copy of it.
Receives(q, d) ==
  /\ At(q, "udp") /\ d.socket = call[q].socket /\ d.at # None
  /\ net' \in {net, net \ {d}}
  /\ Release(d.socket)

ReadUdp(q, d, ttl) ==
  /\ Receives(q, d) /\ Matches(call[q].msg, d.msg)
  /\ Succeed(q, [msg |-> d.msg, born |-> d.at, ttl |-> ttl, own |-> d.from = q])
  /\ UNCHANGED <<now, peak>>

ReadMismatch_GivesUp(q, d) ==
  /\ Receives(q, d) /\ ~Matches(call[q].msg, d.msg)
  /\ Finish(q, "servfail")
  /\ Quiet /\ UNCHANGED <<now, cache, peak>>

\* Not the answer: the next upstream, without a second look at the socket.
ReadMismatch(q, d) ==
  /\ Receives(q, d) /\ ~Matches(call[q].msg, d.msg)
  /\ NextUpstream(q)
  /\ Quiet /\ UNCHANGED <<now, cache, peak>>

\* forward_tcp gets the attempt's whole budget once more.
GoTcp(q) == Set(q, [call[q] EXCEPT !.pc = "tcp", !.asked = now, !.socket = None])

\* The answer is truncated, or cannot be decoded.
ReadUnusable(q, d) ==
  /\ Receives(q, d)
  /\ GoTcp(q)
  /\ Quiet /\ UNCHANGED <<now, cache, peak>>

\* Sending fails, and nothing is on its way, or receiving does.
UdpError(q) ==
  /\ At(q, "udp")
  /\ net' \in {net, {d \in net : d.from # q \/ d.socket # call[q].socket \/ d.at # None}}
  /\ Release(call[q].socket)
  /\ GoTcp(q)
  /\ Quiet /\ UNCHANGED <<now, cache, peak>>

\* Nothing has come in time.
UdpTimeout(q) ==
  /\ At(q, "udp") /\ now >= Due(q)
  /\ Release(call[q].socket)
  /\ GoTcp(q)
  /\ Quiet /\ UNCHANGED <<now, net, cache, peak>>

\* An answer over TCP or TLS, made since it was asked for.
StreamAnswers(q, born, ttl) ==
  /\ At(q, "tcp") \/ At(q, "tls")
  /\ call[q].asked <= born /\ born <= now
  /\ Succeed(q, [msg |-> call[q].msg, born |-> born, ttl |-> ttl, own |-> TRUE])
  /\ UNCHANGED <<now, idle, net, peak>>

\* An error, a timeout, or an answer that does not match.
StreamFails(q) ==
  /\ At(q, "tcp") \/ At(q, "tls")
  /\ NextUpstream(q)
  /\ Quiet /\ UNCHANGED <<now, idle, net, cache, peak>>

-----------------------------------------------------------------------------
(* Time.                                                                   *)

\* No timer of q is due.
Waits(q) ==
  /\ call[q].pc \in Open => now < Deadline(q)
  /\ call[q].pc \in Open \ {"next"} => now < Due(q)

Tick ==
  /\ now < MaxTime
  /\ \A q \in Query : Waits(q)
  /\ now' = now + 1
  /\ Quiet /\ UNCHANGED <<call, idle, net, cache, peak>>

Route(q) ==
  \/ TurnAway(q)
  \/ \E m \in Message : \/ AnswerFromCache(q, m)
                        \/ \E list \in UpstreamLists : Forward(q, m, list)
  \/ \E s \in Socket : AskUdp(q, s)
  \/ AskTls(q) \/ AskFails(q) \/ Exhausted(q) \/ GiveUp(q)

Answers(q) ==
  \/ \E d \in net : \/ \E ttl \in Ttls : ReadUdp(q, d, ttl)
                    \/ ReadMismatch(q, d)
                    \/ ReadUnusable(q, d)
  \/ UdpError(q) \/ UdpTimeout(q)
  \/ \E born \in Time, ttl \in Ttls : StreamAnswers(q, born, ttl)
  \/ StreamFails(q)

Next ==
  \/ \E q \in Query : Route(q) \/ Answers(q)
  \/ \E d \in net : UdpAnswered(d)
  \/ \E k \in Key : Drop(k)
  \/ Tick

Spec == Init /\ [][Next]_vars

StreamTimeout(q) == call[q].pc \in {"tcp", "tls"} /\ now >= Due(q) /\ StreamFails(q)

\* Timers fire and time passes.  Nothing is assumed of upstreams, nor of when
\* the next one is asked.
Fairness ==
  /\ WF_vars(Tick)
  /\ \A q \in Query : WF_vars(GiveUp(q)) /\ WF_vars(UdpTimeout(q) \/ StreamTimeout(q))

FairSpec == Spec /\ Fairness

-----------------------------------------------------------------------------
(* Properties.                                                             *)

\* A client gets an answer with its own id and to its own name and type,
\* whatever arrives late on a socket that had other users (forwarder.rs:200),
\* and the cache keeps an answer under its own key.  Not so for the class: the
\* router looks every query up as IN (router.rs:122), so a hit may be of another.
AnswersQuestion ==
  /\ told # None =>
       /\ told.response.msg.id = told.msg.id
       /\ told.response.msg.key = told.msg.key
       /\ told.hit \/ told.response.msg.class = told.msg.class
  /\ \A k \in Key : cache[k] # None => cache[k].response.msg.key = k

\* A socket is with one query, or once in the pool, and never both
\* (forwarder.rs:18).
SocketsExclusive ==
  /\ \A p, q \in Query :
       At(p, "udp") /\ At(q, "udp") /\ p # q => call[p].socket # call[q].socket
  /\ \A i, j \in DOMAIN idle : idle[i] = idle[j] => i = j
  /\ \A i \in DOMAIN idle : idle[i] \notin Held

\* The pool never shrinks, but it does not grow beyond the most sockets that
\* were ever needed at one time.
PoolBounded == Len(idle) + Cardinality(Held) <= peak

\* No entry outlives the TTL its upstream gave it, counted from when the answer
\* was made: the time the query took is taken off (router.rs:179).  A response
\* that answered an earlier identical query is older than the router can know.
CachedWithinTtl ==
  \A k \in Key : cache[k] # None /\ cache[k].response.own =>
    cache[k].at + cache[k].life <= cache[k].response.born + cache[k].response.ttl

\* The TTL a client is told, directly or from the cache, ends at most Overall
\* after the record's own: that is how long an answer may have been under way.
ToldWithinTtl ==
  told # None /\ told.response.own =>
    told.until <= told.response.born + told.response.ttl + Overall

\* A query fails only when its deadline has passed or each of its upstreams has
\* failed it: one bad answer does not end the attempt (router.rs:219).
FailsAfterAll ==
  [][\A q \in Query :
       call[q].pc \in Open /\ call'[q].pc = "done" /\ call'[q].result = "servfail" =>
         now >= Deadline(q) \/ call[q].up > Len(call[q].list)]_vars

\* A query that is forwarded is answered, with SERVFAIL at worst, though
\* upstreams never answer (router.rs:148).
EveryQueryEnds == \A q \in Query : call[q].pc \in Open ~> At(q, "done")

\* "Each query gets its own ephemeral UDP socket" (forwarder.rs:87): what may
\* come to the socket a query listens on is meant for it.
OwnSocket ==
  \A q \in Query : At(q, "udp") =>
    \A d \in net : d.socket = call[q].socket => d.from = q
=============================================================================
