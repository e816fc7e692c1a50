-------------------------- MODULE ForwardingProofs --------------------------
(***************************************************************************)
(* Proofs about Forwarding, for any number of queries, any messages and    *)
(* upstreams, and any timeouts.                                            *)
(***************************************************************************)
EXTENDS Forwarding, FiniteSetTheorems, TLAPS

Call == {Idle} \cup Active \cup Done

\* A call whose record changes for one of the right type and shape leaves all
\* calls of the right type and shape.
LEMMA SetKeepsCalls ==
  ASSUME NEW q \in Query, NEW c \in Call, Proper(c),
         call \in [Query -> Call], \A p \in Query : Proper(call[p]), Set(q, c)
  PROVE  /\ call' \in [Query -> Call]
         /\ (\A p \in Query : Proper(call[p]))'
<1>1. call' \in [Query -> Call]
  BY DEF Set
<1>2. \A p \in Query : call'[p] = IF p = q THEN c ELSE call[p]
  BY DEF Set
<1>3. \A p \in Query : Proper(call'[p])
  BY <1>2
<1> QED  BY <1>1, <1>3

\* A call that ends.
LEMMA FinishKeepsCalls ==
  ASSUME TypeOK, NEW q \in Query, NEW r \in {"answered", "servfail"}, Finish(q, r)
  PROVE  /\ call' \in [Query -> Call]
         /\ (\A p \in Query : Proper(call[p]))'
<1> DEFINE c == [pc |-> "done", result |-> r]
<1>1. c \in Call /\ Proper(c)
  BY DEF Call, Done, Proper, Open
<1> QED  BY <1>1, SetKeepsCalls DEF Finish, TypeOK, Call

\* The record of a call that is open.
LEMMA OpenCall ==
  ASSUME TypeOK, NEW q \in Query, call[q].pc \in Open
  PROVE  call[q] \in Active /\ Proper(call[q])
BY DEF TypeOK, Idle, Done, Open

\* A call that goes on to its next upstream.
LEMMA NextKeepsCalls ==
  ASSUME TypeOK, NEW q \in Query, call[q].pc \in Open, call[q].up <= Len(call[q].list),
         NextUpstream(q)
  PROVE  /\ call' \in [Query -> Call]
         /\ (\A p \in Query : Proper(call[p]))'
<1> DEFINE c == [call[q] EXCEPT !.pc = "next", !.up = @ + 1, !.socket = None]
<1>1. call[q] \in Active
  BY OpenCall
<1>2. c \in Active
  <2>1. call[q].up + 1 \in Positive /\ "next" \in Open /\ None \in Holding
    BY <1>1 DEF Active, Positive, Open, Holding
  <2> QED  BY <1>1, <2>1 DEF Active
<1>3. c.pc = "next" /\ c.socket = None /\ c.up = call[q].up + 1 /\ c.list = call[q].list
  BY <1>1 DEF Active
<1>4. Proper(c)
  <2>1. call[q].up \in Nat /\ call[q].list \in Seq({"plain", "tls"})
    BY <1>1, ForwardingAssumption DEF Active, Positive
  <2> QED  BY <1>3, <2>1 DEF Proper
<1> QED  BY <1>2, <1>4, SetKeepsCalls DEF NextUpstream, TypeOK, Call

\* A call that asks an upstream.
LEMMA AskKeepsCalls ==
  ASSUME TypeOK, NEW q \in Query, Turn(q), NEW pc \in {"udp", "tls"}, NEW s \in Holding,
         pc = "udp" <=> s # None, Ask(q, pc, s)
  PROVE  /\ call' \in [Query -> Call]
         /\ (\A p \in Query : Proper(call[p]))'
<1> DEFINE c == [call[q] EXCEPT !.pc = pc, !.asked = now, !.budget = Budget(q), !.socket = s]
<1>1. call[q] \in Active /\ call[q].up <= Len(call[q].list) /\ now < Deadline(q)
  BY OpenCall DEF Turn, At, Open
<1>2. pc \in Open /\ now \in Time
  BY DEF Open, TypeOK
<1>3. Budget(q) \in Span
  <2>1. Deadline(q) \in Int /\ now \in Int
    BY <1>1, ForwardingAssumption DEF Deadline, Active, Time, TypeOK
  <2> QED  BY <1>1, <2>1, ForwardingAssumption DEF Budget, Span
<1>4. c \in Active
  BY <1>1, <1>2, <1>3 DEF Active
<1>5. c.pc = pc /\ c.socket = s /\ c.up = call[q].up /\ c.list = call[q].list
  BY <1>1 DEF Active
<1>6. Proper(c)
  BY <1>1, <1>5 DEF Proper
<1> QED  BY <1>4, <1>6, SetKeepsCalls DEF Ask, TypeOK, Call

\* A call that turns to TCP.
LEMMA TcpKeepsCalls ==
  ASSUME TypeOK, NEW q \in Query, At(q, "udp"), GoTcp(q)
  PROVE  /\ call' \in [Query -> Call]
         /\ (\A p \in Query : Proper(call[p]))'
<1> DEFINE c == [call[q] EXCEPT !.pc = "tcp", !.asked = now, !.socket = None]
<1>1. call[q] \in Active /\ call[q].up <= Len(call[q].list)
  BY OpenCall DEF At, Open, Proper
<1>2. c \in Active
  <2>1. "tcp" \in Open /\ now \in Time /\ None \in Holding
    BY DEF Open, TypeOK, Holding
  <2> QED  BY <1>1, <2>1 DEF Active
<1>3. c.pc = "tcp" /\ c.socket = None /\ c.up = call[q].up /\ c.list = call[q].list
  BY <1>1 DEF Active
<1>4. Proper(c)
  BY <1>1, <1>3 DEF Proper
<1> QED  BY <1>2, <1>4, SetKeepsCalls DEF GoTcp, TypeOK, Call

-----------------------------------------------------------------------------
(* Type correctness.                                                       *)

\* Calls look back, and entries were cached no later than now, with no more
\* life than TTL.
Past ==
  /\ \A q \in Query : call[q].pc \in Open => call[q].start <= now /\ call[q].asked <= now
  /\ \A k \in Key : cache[k] # None =>
       cache[k].at <= now /\ cache[k].life <= cache[k].response.ttl

\* The key of a message, and the message a hit shows.
LEMMA MessageParts ==
  ASSUME NEW m \in Message
  PROVE  m \in Shown /\ m.key \in Key
<1>1. m = [id |-> m.id, key |-> m.key, class |-> m.class]
  BY ForwardingAssumption
<1> QED  BY <1>1 DEF Shown, Key

LEMMA Rewritten ==
  ASSUME NEW r \in Shown, NEW m \in Message
  PROVE  WithId(r, m.id) \in Shown
BY DEF WithId, Shown

\* What the response of a call does to the cache and to what clients know.
LEMMA SucceedKeeps ==
  ASSUME TypeOK, Past, NEW q \in Query, call[q].pc \in Open,
         NEW response \in Response, response.msg.key = call[q].msg.key,
         Succeed(q, response), now' = now
  PROVE  /\ call' \in [Query -> Call] /\ (\A p \in Query : Proper(call[p]))'
         /\ cache' \in [Key -> Entry \cup {None}]
         /\ told' \in Told
         /\ Past'
<1>1. call[q] \in Active /\ call[q].msg \in Message /\ call[q].start \in Time
  BY OpenCall DEF Active
<1>2. now \in Nat /\ call[q].start \in Nat /\ call[q].start <= now
      /\ response.ttl \in Nat
  BY <1>1, ForwardingAssumption DEF TypeOK, Time, Past, Response
<1>3. call' \in [Query -> Call] /\ (\A p \in Query : Proper(call[p]))'
  BY FinishKeepsCalls DEF Succeed, Answer
<1>4. told' \in Told
  BY <1>1, <1>2 DEF Succeed, Answer, Told
<1> DEFINE life == Life(call[q].start, response.ttl)
           e    == [response |-> response, at |-> now, life |-> life]
<1>5. life \in Nat /\ life <= response.ttl
  BY <1>2 DEF Life
<1>6. CASE life > 0
  <2>1. e \in Entry
    BY <1>5, <1>6 DEF Entry, Positive, TypeOK
  <2>2. cache' = [cache EXCEPT ![response.msg.key] = e]
    BY <1>6 DEF Succeed, CacheResponse, Kept
  <2>3. response.msg.key \in Key
    BY <1>1, MessageParts
  <2>4. cache' \in [Key -> Entry \cup {None}]
    BY <2>1, <2>2 DEF TypeOK
  <2>5. \A k \in Key : cache'[k] # None =>
          cache'[k].at <= now /\ cache'[k].life <= cache'[k].response.ttl
    BY <2>2, <2>3, <1>2, <1>5 DEF TypeOK, Past
  <2>6. \A p \in Query : call'[p].pc \in Open => call'[p] = call[p]
    BY DEF Succeed, Answer, Finish, Set, TypeOK, Open
  <2> QED  BY <1>3, <1>4, <2>4, <2>5, <2>6 DEF Past
<1>7. CASE ~(life > 0)
  <2>1. cache' = cache
    BY <1>7 DEF Succeed, CacheResponse
  <2>2. \A p \in Query : call'[p].pc \in Open => call'[p] = call[p]
    BY DEF Succeed, Answer, Finish, Set, TypeOK, Open
  <2> QED  BY <1>3, <1>4, <2>1, <2>2 DEF Past, TypeOK
<1> QED  BY <1>6, <1>7

\* Where a call turns to another wait, it looks back no further than before.
LEMMA SetKeepsPast ==
  ASSUME TypeOK, Past, NEW q \in Query, NEW c, Set(q, c),
         c.pc \in Open => c.start <= now /\ c.asked <= now,
         now' = now, cache' = cache
  PROVE  Past'
<1>1. \A p \in Query : call'[p] = IF p = q THEN c ELSE call[p]
  BY DEF Set, TypeOK
<1> QED  BY <1>1 DEF Past

\* The next upstream is no wait of its own.
LEMMA NextKeepsPast ==
  ASSUME TypeOK, Past, NEW q \in Query, call[q].pc \in Open, NextUpstream(q),
         now' = now, cache' = cache
  PROVE  Past'
<1> DEFINE c == [call[q] EXCEPT !.pc = "next", !.up = @ + 1, !.socket = None]
<1>1. call[q] \in Active
  BY OpenCall
<1>2. c.start = call[q].start /\ c.asked = call[q].asked
  BY <1>1 DEF Active
<1>3. c.start <= now /\ c.asked <= now
  BY <1>2 DEF Past
<1> QED  BY <1>3, SetKeepsPast DEF NextUpstream

\* The pool after a socket is given back.
LEMMA ReleaseKeepsIdle ==
  ASSUME TypeOK, NEW s \in Socket, Release(s)
  PROVE  idle' \in Seq(Socket)
BY DEF TypeOK, Release

\* The socket of a query that listens.
LEMMA HeldSocket ==
  ASSUME TypeOK, NEW q \in Query, At(q, "udp")
  PROVE  call[q].pc \in Open /\ call[q].socket \in Socket /\ call[q].up <= Len(call[q].list)
<1>1. call[q].pc \in Open
  BY DEF At, Open
<1>2. call[q] \in Active /\ Proper(call[q])
  BY <1>1, OpenCall
<1> QED  BY <1>1, <1>2 DEF Proper, Active, Holding, At

\* The initial state.
LEMMA InitTyped == Init => TypeOK /\ Past
<1> SUFFICES ASSUME Init PROVE TypeOK /\ Past
  OBVIOUS
<1>1. now \in Time
  BY ForwardingAssumption DEF Init, Time
<1>2. \A q \in Query : call[q] = Idle
  BY DEF Init
<1>3. TypeOK
  <2>1. \A q \in Query : Proper(call[q])
    BY <1>2 DEF Proper, Idle, Open
  <2> QED  BY <1>1, <2>1 DEF Init, TypeOK
<1>4. Past
  BY <1>2 DEF Past, Idle, Open, Init
<1> QED  BY <1>3, <1>4

\* A query that comes in, and what forward_attempt does with it.
LEMMA RouteTyped ==
  ASSUME TypeOK, Past, NEW q \in Query, Route(q)
  PROVE  TypeOK' /\ Past'
<1> USE DEF Quiet
<1>1. CASE TurnAway(q)
  <2>1. call' \in [Query -> Call] /\ (\A p \in Query : Proper(call[p]))'
    BY <1>1, FinishKeepsCalls DEF TurnAway
  <2>2. Past'
    BY <1>1, SetKeepsPast DEF TurnAway, Finish, Open
  <2> QED  BY <1>1, <2>1, <2>2 DEF TurnAway, TypeOK, Call
<1>2. ASSUME NEW m \in Message, AnswerFromCache(q, m)
      PROVE  TypeOK' /\ Past'
  <2> DEFINE e == cache[m.key]
             r == [e.response EXCEPT !.msg = WithId(@, m.id)]
             ttl == e.response.ttl - (now - e.at)
  <2>1. Answer(q, m, r, ttl, TRUE)
    BY <1>2 DEF AnswerFromCache
  <2>2. m.key \in Key /\ e # None /\ now - e.at <= e.life
    BY <1>2, MessageParts DEF AnswerFromCache, Hit
  <2>3. e \in Entry /\ e.at <= now /\ e.life <= e.response.ttl
    BY <2>2 DEF TypeOK, Past
  <2>4. r \in Response
    BY <2>3, Rewritten DEF Entry, Response
  <2>5. now + ttl \in Nat
    BY <2>2, <2>3, ForwardingAssumption DEF Entry, Response, Time, TypeOK
  <2>6. call' \in [Query -> Call] /\ (\A p \in Query : Proper(call[p]))'
    BY <2>1, FinishKeepsCalls DEF Answer
  <2>7. told' \in Told
    BY <2>1, <2>4, <2>5 DEF Answer, Told
  <2>8. Past'
    BY <1>2, <2>1, SetKeepsPast DEF AnswerFromCache, Answer, Finish, Open
  <2> QED  BY <1>2, <2>6, <2>7, <2>8 DEF AnswerFromCache, TypeOK, Call
<1>3. ASSUME NEW m \in Message, NEW list \in UpstreamLists, Forward(q, m, list)
      PROVE  TypeOK' /\ Past'
  <2> DEFINE c == [pc |-> "next", msg |-> m, list |-> list, up |-> 1, start |-> now,
                   asked |-> now, budget |-> 0, socket |-> None]
  <2>1. c \in Active
    BY ForwardingAssumption DEF TypeOK, Active, Open, Positive, Span, Holding
  <2>2. Proper(c)
    BY ForwardingAssumption DEF Proper
  <2>3. call' \in [Query -> Call] /\ (\A p \in Query : Proper(call[p]))'
    BY <1>3, <2>1, <2>2, SetKeepsCalls DEF Forward, TypeOK, Call
  <2>4. cache' \in [Key -> Entry \cup {None}]
    BY <1>3 DEF Forward, TypeOK
  <2>5. Past'
    <3>1. \A p \in Query : call'[p] = IF p = q THEN c ELSE call[p]
      BY <1>3 DEF Forward, Set, TypeOK
    <3>2. c.start <= now /\ c.asked <= now
      BY ForwardingAssumption DEF TypeOK, Time
    <3>3. \A k \in Key : cache'[k] # None => cache'[k] = cache[k]
      BY <1>3 DEF Forward, TypeOK
    <3>4. now' = now
      BY <1>3 DEF Forward
    <3> QED  BY <3>1, <3>2, <3>3, <3>4 DEF Past, TypeOK
  <2> QED  BY <1>3, <2>3, <2>4, <2>5 DEF Forward, TypeOK, Call
<1>4. ASSUME NEW s \in Socket, AskUdp(q, s)
      PROVE  TypeOK' /\ Past'
  <2>1. call[q] \in Active /\ now \in Nat
    BY <1>4, OpenCall, ForwardingAssumption DEF AskUdp, Turn, At, Open, TypeOK, Time
  <2>2. call' \in [Query -> Call] /\ (\A p \in Query : Proper(call[p]))'
    BY <1>4, AskKeepsCalls, ForwardingAssumption DEF AskUdp, Holding
  <2>3. idle' \in Seq(Socket)
    BY <1>4 DEF AskUdp, Acquire, TypeOK
  <2>4. net' \subseteq Datagram
    BY <1>4, <2>1 DEF AskUdp, TypeOK, Datagram, Active
  <2>5. peak' \in Nat
    <3>1. Held' \subseteq Socket
      <4>1. \A p \in Query : call'[p].pc = "udp" => call'[p].socket \in Socket
        BY <2>2 DEF Call, Proper, Open, Active, Holding, Idle, Done
      <4> QED  BY <2>2, <4>1 DEF Held
    <3>2. InUse \in Nat
      BY <3>1, FS_Subset, FS_CardinalityType, ForwardingAssumption DEF InUse
    <3> QED  BY <1>4, <3>2 DEF AskUdp, TypeOK
  <2>6. Past'
    <3> DEFINE c == [call[q] EXCEPT !.pc = "udp", !.asked = now, !.budget = Budget(q), !.socket = s]
    <3>1. c.start <= now /\ c.asked <= now
      BY <1>4, <2>1 DEF AskUdp, Turn, At, Open, Past, Active
    <3> QED  BY <1>4, <3>1, SetKeepsPast DEF AskUdp, Ask
  <2> QED  BY <1>4, <2>2, <2>3, <2>4, <2>5, <2>6 DEF AskUdp, TypeOK, Call
<1>5. CASE AskTls(q)
  <2>1. call[q] \in Active /\ now \in Nat
    BY <1>5, OpenCall, ForwardingAssumption DEF AskTls, Turn, At, Open, TypeOK, Time
  <2>2. call' \in [Query -> Call] /\ (\A p \in Query : Proper(call[p]))'
    BY <1>5, AskKeepsCalls, ForwardingAssumption DEF AskTls, Holding
  <2>3. Past'
    <3> DEFINE c == [call[q] EXCEPT !.pc = "tls", !.asked = now, !.budget = Budget(q), !.socket = None]
    <3>1. c.start <= now /\ c.asked <= now
      BY <1>5, <2>1 DEF AskTls, Turn, At, Open, Past, Active
    <3> QED  BY <1>5, <3>1, SetKeepsPast DEF AskTls, Ask
  <2> QED  BY <1>5, <2>2, <2>3 DEF AskTls, TypeOK, Call
<1>6. CASE AskFails(q)
  <2>1. call[q].pc \in Open /\ call[q].up <= Len(call[q].list)
    BY <1>6 DEF AskFails, Turn, At, Open
  <2>2. call' \in [Query -> Call] /\ (\A p \in Query : Proper(call[p]))'
    BY <1>6, <2>1, NextKeepsCalls DEF AskFails
  <2>3. Past'
    BY <1>6, <2>1, NextKeepsPast DEF AskFails
  <2> QED  BY <1>6, <2>2, <2>3 DEF AskFails, TypeOK, Call
<1>7. CASE Exhausted(q)
  <2>1. call' \in [Query -> Call] /\ (\A p \in Query : Proper(call[p]))'
    BY <1>7, FinishKeepsCalls DEF Exhausted
  <2>2. Past'
    BY <1>7, SetKeepsPast DEF Exhausted, Finish, Open
  <2> QED  BY <1>7, <2>1, <2>2 DEF Exhausted, TypeOK, Call
<1>8. CASE GiveUp(q)
  <2>1. call' \in [Query -> Call] /\ (\A p \in Query : Proper(call[p]))'
    BY <1>8, FinishKeepsCalls DEF GiveUp
  <2>2. Past'
    BY <1>8, SetKeepsPast DEF GiveUp, Finish, Open
  <2> QED  BY <1>8, <2>1, <2>2 DEF GiveUp, Closed, TypeOK, Call
<1> QED  BY <1>1, <1>2, <1>3, <1>4, <1>5, <1>6, <1>7, <1>8 DEF Route

\* What comes back to a query that waits.
LEMMA AnswersTyped ==
  ASSUME TypeOK, Past, NEW q \in Query, Answers(q)
  PROVE  TypeOK' /\ Past'
<1> USE DEF Quiet
<1>1. ASSUME NEW d \in net, Receives(q, d)
      PROVE  /\ d \in Datagram /\ d.at \in Time
             /\ net' \subseteq Datagram /\ idle' \in Seq(Socket)
             /\ call[q].pc \in Open /\ call[q].up <= Len(call[q].list)
  <2>1. d \in Datagram
    BY DEF TypeOK
  <2>2. d.at \in Time
    BY <1>1, <2>1 DEF Receives, Datagram
  <2>3. net' \subseteq Datagram
    BY <1>1 DEF Receives, TypeOK
  <2>4. idle' \in Seq(Socket)
    BY <1>1, <2>1, ReleaseKeepsIdle DEF Receives, Datagram
  <2> QED  BY <1>1, <2>1, <2>2, <2>3, <2>4, HeldSocket DEF Receives
<1>2. ASSUME NEW d \in net, NEW ttl \in Ttls, ReadUdp(q, d, ttl)
      PROVE  TypeOK' /\ Past'
  <2> DEFINE r == [msg |-> d.msg, born |-> d.at, ttl |-> ttl, own |-> d.from = q]
  <2>1. /\ d \in Datagram /\ d.at \in Time /\ call[q].pc \in Open
        /\ net' \subseteq Datagram /\ idle' \in Seq(Socket)
    BY <1>1, <1>2 DEF ReadUdp
  <2>2. r \in Response
    BY <2>1, MessageParts DEF Response, Datagram
  <2>3. r.msg.key = call[q].msg.key /\ Succeed(q, r) /\ now' = now
    BY <1>2 DEF ReadUdp, Matches
  <2>4. /\ call' \in [Query -> Call] /\ (\A p \in Query : Proper(call[p]))'
        /\ cache' \in [Key -> Entry \cup {None}]
        /\ told' \in Told /\ Past'
    BY <2>1, <2>2, <2>3, SucceedKeeps
  <2> QED  BY <1>2, <2>1, <2>4 DEF ReadUdp, TypeOK, Call
<1>3. ASSUME NEW d \in net, ReadMismatch(q, d)
      PROVE  TypeOK' /\ Past'
  <2>1. /\ call[q].pc \in Open /\ call[q].up <= Len(call[q].list)
        /\ net' \subseteq Datagram /\ idle' \in Seq(Socket)
    BY <1>1, <1>3 DEF ReadMismatch
  <2>2. call' \in [Query -> Call] /\ (\A p \in Query : Proper(call[p]))'
    BY <1>3, <2>1, NextKeepsCalls DEF ReadMismatch
  <2>3. Past'
    BY <1>3, <2>1, NextKeepsPast DEF ReadMismatch
  <2> QED  BY <1>3, <2>1, <2>2, <2>3 DEF ReadMismatch, TypeOK, Call
<1>4. ASSUME At(q, "udp"), GoTcp(q), now' = now, cache' = cache
      PROVE  /\ call' \in [Query -> Call] /\ (\A p \in Query : Proper(call[p]))'
             /\ Past'
  <2> DEFINE c == [call[q] EXCEPT !.pc = "tcp", !.asked = now, !.socket = None]
  <2>1. call' \in [Query -> Call] /\ (\A p \in Query : Proper(call[p]))'
    BY <1>4, TcpKeepsCalls
  <2>2. call[q] \in Active /\ call[q].start <= now
    BY <1>4, OpenCall DEF At, Open, Past
  <2>3. c.start <= now /\ c.asked <= now
    BY <2>2, ForwardingAssumption DEF Active, TypeOK, Time
  <2> QED  BY <1>4, <2>1, <2>3, SetKeepsPast DEF GoTcp
<1>5. ASSUME NEW d \in net, ReadUnusable(q, d)
      PROVE  TypeOK' /\ Past'
  <2>1. net' \subseteq Datagram /\ idle' \in Seq(Socket)
    BY <1>1, <1>5 DEF ReadUnusable
  <2>2. /\ call' \in [Query -> Call] /\ (\A p \in Query : Proper(call[p]))'
        /\ Past'
    BY <1>4, <1>5 DEF ReadUnusable, Receives
  <2> QED  BY <1>5, <2>1, <2>2 DEF ReadUnusable, TypeOK, Call
<1>6. CASE UdpError(q)
  <2>1. idle' \in Seq(Socket)
    BY <1>6, HeldSocket, ReleaseKeepsIdle DEF UdpError
  <2>2. /\ call' \in [Query -> Call] /\ (\A p \in Query : Proper(call[p]))'
        /\ Past'
    BY <1>4, <1>6 DEF UdpError
  <2>3. net' \subseteq Datagram
    BY <1>6 DEF UdpError, TypeOK
  <2> QED  BY <1>6, <2>1, <2>2, <2>3 DEF UdpError, TypeOK, Call
<1>7. CASE UdpTimeout(q)
  <2>1. idle' \in Seq(Socket)
    BY <1>7, HeldSocket, ReleaseKeepsIdle DEF UdpTimeout
  <2>2. /\ call' \in [Query -> Call] /\ (\A p \in Query : Proper(call[p]))'
        /\ Past'
    BY <1>4, <1>7 DEF UdpTimeout
  <2> QED  BY <1>7, <2>1, <2>2 DEF UdpTimeout, TypeOK, Call
<1>8. ASSUME NEW born \in Time, NEW ttl \in Ttls, StreamAnswers(q, born, ttl)
      PROVE  TypeOK' /\ Past'
  <2> DEFINE r == [msg |-> call[q].msg, born |-> born, ttl |-> ttl, own |-> TRUE]
  <2>1. call[q].pc \in Open
    BY <1>8 DEF StreamAnswers, At, Open
  <2>2. r \in Response
    BY <2>1, OpenCall, MessageParts DEF Response, Active
  <2>3. r.msg.key = call[q].msg.key /\ Succeed(q, r) /\ now' = now
    BY <1>8 DEF StreamAnswers
  <2>4. /\ call' \in [Query -> Call] /\ (\A p \in Query : Proper(call[p]))'
        /\ cache' \in [Key -> Entry \cup {None}]
        /\ told' \in Told /\ Past'
    BY <2>1, <2>2, <2>3, SucceedKeeps
  <2> QED  BY <1>8, <2>4 DEF StreamAnswers, TypeOK, Call
<1>9. CASE StreamFails(q)
  <2>1. call[q].pc \in Open /\ call[q].up <= Len(call[q].list)
    BY <1>9, OpenCall DEF StreamFails, At, Open, Proper
  <2>2. call' \in [Query -> Call] /\ (\A p \in Query : Proper(call[p]))'
    BY <1>9, <2>1, NextKeepsCalls DEF StreamFails
  <2>3. Past'
    BY <1>9, <2>1, NextKeepsPast DEF StreamFails
  <2> QED  BY <1>9, <2>2, <2>3 DEF StreamFails, TypeOK, Call
<1> QED  BY <1>2, <1>3, <1>5, <1>6, <1>7, <1>8, <1>9 DEF Answers

\* Every step keeps the types, and looks back.
LEMMA NextTyped == TypeOK /\ Past /\ [Next]_vars => TypeOK' /\ Past'
<1> SUFFICES ASSUME TypeOK, Past, [Next]_vars PROVE TypeOK' /\ Past'
  OBVIOUS
<1>1. ASSUME NEW q \in Query, Route(q) PROVE TypeOK' /\ Past'
  BY <1>1, RouteTyped
<1>2. ASSUME NEW q \in Query, Answers(q) PROVE TypeOK' /\ Past'
  BY <1>2, AnswersTyped
<1>3. ASSUME NEW d \in net, UdpAnswered(d) PROVE TypeOK' /\ Past'
  <2>1. d \in Datagram /\ now \in Time
    BY DEF TypeOK
  <2>2. [d EXCEPT !.at = now] \in Datagram
    BY <2>1 DEF Datagram
  <2>3. net' \subseteq Datagram
    BY <1>3, <2>2 DEF UdpAnswered, TypeOK
  <2> QED  BY <1>3, <2>3 DEF UdpAnswered, Quiet, TypeOK, Past
<1>4. ASSUME NEW k \in Key, Drop(k) PROVE TypeOK' /\ Past'
  <2>1. cache' \in [Key -> Entry \cup {None}]
    BY <1>4 DEF Drop, TypeOK
  <2>2. \A i \in Key : cache'[i] # None => cache'[i] = cache[i]
    BY <1>4 DEF Drop, TypeOK
  <2> QED  BY <1>4, <2>1, <2>2 DEF Drop, Quiet, TypeOK, Past
<1>5. CASE Tick
  <2>1. now \in Nat /\ now' = now + 1 /\ now' \in Time
    BY <1>5, ForwardingAssumption DEF Tick, TypeOK, Time
  <2>2. \A q \in Query : call[q].pc \in Open => call[q].start \in Nat /\ call[q].asked \in Nat
    BY OpenCall DEF Active, Time
  <2>3. \A k \in Key : cache[k] # None => cache[k].at \in Nat
    BY DEF TypeOK, Entry, Time
  <2>4. Past'
    BY <1>5, <2>1, <2>2, <2>3 DEF Tick, Past
  <2> QED  BY <1>5, <2>1, <2>4 DEF Tick, Quiet, TypeOK
<1>6. CASE UNCHANGED vars
  BY <1>6 DEF vars, TypeOK, Past
<1> QED  BY <1>1, <1>2, <1>3, <1>4, <1>5, <1>6 DEF Next

\* Type correctness: sockets, calls, answers and entries are what they are meant
\* to be, with any number of queries, upstreams and timeouts.
THEOREM TypeCorrect == Spec => []TypeOK
<1>1. Init => TypeOK /\ Past
  BY InitTyped
<1>2. TypeOK /\ Past /\ [Next]_vars => (TypeOK /\ Past)'
  BY NextTyped
<1> QED  BY <1>1, <1>2, PTL DEF Spec

-----------------------------------------------------------------------------
(* Answers and questions.                                                  *)

\* An answer that matches goes to its question.
LEMMA SucceedAnswers ==
  ASSUME TypeOK, AnswersQuestion, NEW q \in Query, NEW response \in Response,
         Matches(call[q].msg, response.msg), Succeed(q, response)
  PROVE  AnswersQuestion'
<1>1. told' = [msg |-> call[q].msg, response |-> response, until |-> now + response.ttl,
               hit |-> FALSE]
  BY DEF Succeed, Answer
<1>2. \A k \in Key : cache'[k] # None => cache'[k].response.msg.key = k
  <2> DEFINE e == [response |-> response, at |-> now, life |-> Life(call[q].start, response.ttl)]
  <2>1. cache' = cache \/ cache' = [cache EXCEPT ![response.msg.key] = e]
    BY DEF Succeed, CacheResponse, Kept
  <2>2. e.response.msg.key = response.msg.key
    OBVIOUS
  <2> HIDE DEF e
  <2> QED  BY <2>1, <2>2 DEF AnswersQuestion, TypeOK
<1> QED  BY <1>1, <1>2 DEF AnswersQuestion, Matches

\* A hit shows the entry under the query's key with the query's id.
LEMMA HitAnswers ==
  ASSUME TypeOK, AnswersQuestion, NEW q \in Query, NEW m \in Message, AnswerFromCache(q, m)
  PROVE  AnswersQuestion'
<1> DEFINE e == cache[m.key]
           r == [e.response EXCEPT !.msg = WithId(@, m.id)]
           ttl == e.response.ttl - (now - e.at)
<1>1. told' = [msg |-> m, response |-> r, until |-> now + ttl, hit |-> TRUE] /\ cache' = cache
  BY DEF AnswerFromCache, Answer
<1>2. m.key \in Key /\ e # None
  BY MessageParts DEF AnswerFromCache, Hit
<1>3. e.response \in Response /\ e.response.msg.key = m.key
  BY <1>2 DEF TypeOK, Entry, AnswersQuestion
<1>4. r.msg = WithId(e.response.msg, m.id)
  BY <1>3 DEF Response
<1>5. r.msg.id = m.id /\ r.msg.key = m.key
  BY <1>3, <1>4 DEF WithId
<1> HIDE DEF r, ttl
<1> QED  BY <1>1, <1>5 DEF AnswersQuestion

\* A step that tells nobody anything, and caches nothing new.
LEMMA QuietAnswers ==
  ASSUME AnswersQuestion, Quiet,
         \A k \in Key : cache'[k] # None => cache'[k] = cache[k]
  PROVE  AnswersQuestion'
BY DEF AnswersQuestion, Quiet

\* Clients get answers to their questions, and the cache keeps them under their
\* own keys, however late and from wherever they come.
THEOREM QuestionsAnswered == Spec => []AnswersQuestion
<1>1. Init => AnswersQuestion
  BY DEF Init, AnswersQuestion
<1>2. TypeOK /\ AnswersQuestion /\ [Next]_vars => AnswersQuestion'
  <2> SUFFICES ASSUME TypeOK, AnswersQuestion, [Next]_vars PROVE AnswersQuestion'
    OBVIOUS
  <2>1. ASSUME NEW q \in Query, Route(q) PROVE AnswersQuestion'
    <3>1. ASSUME NEW m \in Message, AnswerFromCache(q, m) PROVE AnswersQuestion'
      BY <3>1, HitAnswers
    <3>2. ASSUME NEW m \in Message, NEW list \in UpstreamLists, Forward(q, m, list)
          PROVE  AnswersQuestion'
      <4>1. \A k \in Key : cache'[k] # None => cache'[k] = cache[k]
        BY <3>2 DEF Forward, TypeOK
      <4> QED  BY <3>2, <4>1, QuietAnswers DEF Forward
    <3>3. CASE TurnAway(q) \/ (\E s \in Socket : AskUdp(q, s)) \/ AskTls(q) \/ AskFails(q)
               \/ Exhausted(q) \/ GiveUp(q)
      <4>1. Quiet /\ cache' = cache
        BY <3>3 DEF TurnAway, AskUdp, AskTls, AskFails, Exhausted, GiveUp
      <4> QED  BY <4>1, QuietAnswers
    <3> QED  BY <2>1, <3>1, <3>2, <3>3 DEF Route
  <2>2. ASSUME NEW q \in Query, Answers(q) PROVE AnswersQuestion'
    <3>1. ASSUME NEW d \in net, NEW ttl \in Ttls, ReadUdp(q, d, ttl) PROVE AnswersQuestion'
      <4> DEFINE r == [msg |-> d.msg, born |-> d.at, ttl |-> ttl, own |-> d.from = q]
      <4>1. d \in Datagram /\ d.at # None
        BY <3>1 DEF ReadUdp, Receives, TypeOK
      <4>2. r \in Response
        BY <4>1, MessageParts DEF Response, Datagram
      <4>3. Matches(call[q].msg, r.msg) /\ Succeed(q, r)
        BY <3>1 DEF ReadUdp
      <4> QED  BY <4>2, <4>3, SucceedAnswers
    <3>2. ASSUME NEW born \in Time, NEW ttl \in Ttls, StreamAnswers(q, born, ttl)
          PROVE  AnswersQuestion'
      <4> DEFINE r == [msg |-> call[q].msg, born |-> born, ttl |-> ttl, own |-> TRUE]
      <4>1. call[q] \in Active
        BY <3>2, OpenCall DEF StreamAnswers, At, Open
      <4>2. r \in Response
        BY <4>1, MessageParts DEF Response, Active
      <4>3. Matches(call[q].msg, r.msg) /\ Succeed(q, r)
        BY <3>2 DEF StreamAnswers, Matches
      <4> QED  BY <4>2, <4>3, SucceedAnswers
    <3>3. CASE \/ \E d \in net : ReadMismatch(q, d) \/ ReadUnusable(q, d)
               \/ UdpError(q) \/ UdpTimeout(q) \/ StreamFails(q)
      <4>1. Quiet /\ cache' = cache
        BY <3>3 DEF ReadMismatch, ReadUnusable, UdpError, UdpTimeout, StreamFails
      <4> QED  BY <4>1, QuietAnswers
    <3> QED  BY <2>2, <3>1, <3>2, <3>3 DEF Answers
  <2>3. ASSUME NEW d \in net, UdpAnswered(d) PROVE AnswersQuestion'
    BY <2>3, QuietAnswers DEF UdpAnswered
  <2>4. ASSUME NEW k \in Key, Drop(k) PROVE AnswersQuestion'
    <3>1. \A i \in Key : cache'[i] # None => cache'[i] = cache[i]
      BY <2>4 DEF Drop, TypeOK
    <3> QED  BY <2>4, <3>1, QuietAnswers DEF Drop
  <2>5. CASE Tick
    BY <2>5, QuietAnswers DEF Tick
  <2>6. CASE UNCHANGED vars
    BY <2>6 DEF vars, AnswersQuestion
  <2> QED  BY <2>1, <2>2, <2>3, <2>4, <2>5, <2>6 DEF Next
<1> QED  BY <1>1, <1>2, TypeCorrect, PTL DEF Spec

-----------------------------------------------------------------------------
(* Sockets.                                                                *)

\* A step after which q listens no more, and which touches no other query.
Leaves(q) ==
  \A p \in Query : /\ p # q => call'[p] = call[p]
                   /\ p = q => call'[p].pc # "udp"

LEMMA SetLeaves ==
  ASSUME TypeOK, NEW q \in Query, NEW c, Set(q, c), c.pc # "udp"
  PROVE  Leaves(q)
BY DEF TypeOK, Set, Leaves

LEMMA NextLeaves ==
  ASSUME TypeOK, NEW q \in Query, call[q].pc \in Open, NextUpstream(q)
  PROVE  Leaves(q)
<1> DEFINE c == [call[q] EXCEPT !.pc = "next", !.up = @ + 1, !.socket = None]
<1>1. c.pc = "next"
  BY OpenCall DEF Active
<1> QED  BY <1>1, SetLeaves DEF NextUpstream

LEMMA TcpLeaves ==
  ASSUME TypeOK, NEW q \in Query, At(q, "udp"), GoTcp(q)
  PROVE  Leaves(q)
<1> DEFINE c == [call[q] EXCEPT !.pc = "tcp", !.asked = now, !.socket = None]
<1>1. c.pc = "tcp"
  BY OpenCall DEF Active, At, Open
<1> QED  BY <1>1, SetLeaves DEF GoTcp

\* Sockets that are let go of.
LEMMA LeavesHeld ==
  ASSUME NEW q \in Query, Leaves(q)
  PROVE  /\ Held' \subseteq Held
         /\ At(q, "udp") /\ SocketsExclusive => Held' \subseteq Held \ {call[q].socket}
BY DEF Leaves, Held, SocketsExclusive, At

LEMMA HeldTyped ==
  ASSUME TypeOK
  PROVE  Held \subseteq Socket /\ IsFiniteSet(Held) /\ Cardinality(Held) \in Nat
<1>1. Held \subseteq Socket
  BY HeldSocket DEF Held, At
<1> QED  BY <1>1, FS_Subset, FS_CardinalityType, ForwardingAssumption

\* The socket facts together.
PoolSound == SocketsExclusive /\ PoolBounded

\* A query that listened or not, and closes what it has.
LEMMA LeavingKeepsPool ==
  ASSUME TypeOK, PoolSound, NEW q \in Query, Leaves(q), idle' = idle, peak' = peak
  PROVE  PoolSound'
<1>1. Held' \subseteq Held
  BY LeavesHeld
<1>2. SocketsExclusive'
  BY <1>1 DEF PoolSound, SocketsExclusive, Leaves, At
<1>3. Cardinality(Held') <= Cardinality(Held) /\ Cardinality(Held') \in Nat
  BY <1>1, HeldTyped, FS_Subset, FS_CardinalityType
<1>4. PoolBounded'
  BY <1>3, HeldTyped DEF PoolSound, PoolBounded, TypeOK
<1> QED  BY <1>2, <1>4 DEF PoolSound

\* A query that stops listening and gives its socket back.
LEMMA ReleaseKeepsPool ==
  ASSUME TypeOK, PoolSound, NEW q \in Query, At(q, "udp"), Leaves(q),
         Release(call[q].socket), peak' = peak
  PROVE  PoolSound'
<1> DEFINE s == call[q].socket
<1>1. s \in Held /\ s \in Socket /\ Held' \subseteq Held \ {s}
  BY LeavesHeld, HeldSocket DEF Held, At, PoolSound
<1>2. idle \in Seq(Socket) /\ idle' = Append(idle, s)
  BY DEF TypeOK, Release
<1>3. SocketsExclusive'
  <2>1. \A i \in DOMAIN idle : idle[i] # s
    BY <1>1 DEF PoolSound, SocketsExclusive
  <2>2. \A i, j \in DOMAIN idle' : idle'[i] = idle'[j] => i = j
    BY <1>1, <1>2, <2>1 DEF PoolSound, SocketsExclusive
  <2>3. \A i \in DOMAIN idle' : idle'[i] \notin Held'
    BY <1>1, <1>2, <2>1 DEF PoolSound, SocketsExclusive
  <2> QED  BY <2>2, <2>3 DEF PoolSound, SocketsExclusive, Leaves, At
<1>4. Cardinality(Held') + 1 <= Cardinality(Held) /\ Cardinality(Held') \in Nat
  <2>1. /\ IsFiniteSet(Held \ {s}) /\ Cardinality(Held \ {s}) = Cardinality(Held) - 1
    BY <1>1, HeldTyped, FS_RemoveElement
  <2>2. Cardinality(Held') <= Cardinality(Held \ {s}) /\ Cardinality(Held') \in Nat
    BY <1>1, <2>1, FS_Subset, FS_CardinalityType
  <2> QED  BY <2>1, <2>2, HeldTyped
<1>5. PoolBounded'
  BY <1>2, <1>4, HeldTyped DEF PoolSound, PoolBounded, TypeOK
<1> QED  BY <1>3, <1>5 DEF PoolSound

\* A query that begins to listen, on a pooled or a new socket.
LEMMA AskKeepsPool ==
  ASSUME TypeOK, TypeOK', PoolSound, NEW q \in Query, NEW s \in Socket, AskUdp(q, s)
  PROVE  PoolSound'
<1>1. /\ call[q] \in Active /\ call[q].pc = "next"
      /\ Acquire(s) /\ Ask(q, "udp", s)
      /\ peak' = IF InUse > peak THEN InUse ELSE peak
  BY OpenCall DEF AskUdp, Turn, At, Open
<1>2. /\ \A p \in Query : p # q => call'[p] = call[p]
      /\ call'[q].pc = "udp" /\ call'[q].socket = s
  BY <1>1 DEF Ask, Set, TypeOK, Active
<1>3. Held' = Held \cup {s}
  BY <1>1, <1>2 DEF Held
<1>4. InUse = Cardinality(Held') /\ InUse \in Nat /\ Cardinality(Held) \in Nat /\ peak \in Nat
      /\ idle \in Seq(Socket)
  <2>1. Held' \subseteq Socket
    BY <1>3, HeldTyped
  <2>2. Cardinality(Held') \in Nat
    BY <2>1, FS_Subset, FS_CardinalityType, ForwardingAssumption
  <2>3. InUse = Cardinality(Held')
    BY DEF InUse
  <2> QED  BY <2>2, <2>3, HeldTyped DEF TypeOK
<1>5. CASE idle # <<>>
  <2>1. s = idle[1] /\ idle' = Tail(idle) /\ Len(idle) >= 1
    BY <1>1, <1>4, <1>5 DEF Acquire
  <2>2. /\ DOMAIN idle' = 1..Len(idle) - 1 /\ Len(idle') = Len(idle) - 1
        /\ \A i \in DOMAIN idle' : idle'[i] = idle[i + 1] /\ i + 1 \in DOMAIN idle
    BY <1>4, <2>1
  <2>3. 1 \in DOMAIN idle /\ DOMAIN idle \subseteq Int
    BY <1>4, <2>1
  <2>4. s \notin Held
    BY <2>1, <2>3 DEF PoolSound, SocketsExclusive
  <2>5. \A i, j \in DOMAIN idle' : idle'[i] = idle'[j] => i = j
    BY <2>2, <2>3 DEF PoolSound, SocketsExclusive
  <2>6. \A i \in DOMAIN idle' : idle'[i] \notin Held'
    <3> SUFFICES ASSUME NEW i \in DOMAIN idle' PROVE idle[i + 1] \notin Held \cup {s}
      BY <1>3, <2>2
    <3>1. i \in Nat \ {0} /\ i + 1 \in DOMAIN idle
      BY <2>2, <1>4
    <3>2. idle[i + 1] # s
      BY <2>1, <2>3, <3>1 DEF PoolSound, SocketsExclusive
    <3> QED  BY <3>1, <3>2 DEF PoolSound, SocketsExclusive
  <2>7. \A p, r \in Query :
          call'[p].pc = "udp" /\ call'[r].pc = "udp" /\ p # r => call'[p].socket # call'[r].socket
    BY <1>2, <2>4 DEF PoolSound, SocketsExclusive, Held, At
  <2>8. Cardinality(Held') = Cardinality(Held) + 1
    BY <1>3, <2>4, HeldTyped, FS_AddElement
  <2>9. PoolBounded'
    BY <1>1, <1>4, <2>2, <2>8 DEF PoolSound, PoolBounded
  <2> QED  BY <2>5, <2>6, <2>7, <2>9 DEF PoolSound, SocketsExclusive, At
<1>6. CASE idle = <<>>
  <2>1. s \notin Held /\ idle' = <<>>
    BY <1>1, <1>6 DEF Acquire
  <2>2. \A p, r \in Query :
          call'[p].pc = "udp" /\ call'[r].pc = "udp" /\ p # r => call'[p].socket # call'[r].socket
    BY <1>2, <2>1 DEF PoolSound, SocketsExclusive, Held, At
  <2>3. PoolBounded'
    <3>1. Len(idle') = 0
      BY <2>1
    <3> QED  BY <1>1, <1>4, <3>1 DEF PoolBounded
  <2>4. DOMAIN idle' = {}
    BY <2>1
  <2> QED  BY <2>2, <2>3, <2>4 DEF PoolSound, SocketsExclusive, At
<1> QED  BY <1>5, <1>6

\* Every step keeps the pool sound.
LEMMA NextKeepsPool == TypeOK /\ TypeOK' /\ PoolSound /\ [Next]_vars => PoolSound'
<1> SUFFICES ASSUME TypeOK, TypeOK', PoolSound, [Next]_vars PROVE PoolSound'
  OBVIOUS
<1>1. ASSUME call' = call, idle' = idle, peak' = peak PROVE PoolSound'
  BY <1>1 DEF PoolSound, SocketsExclusive, PoolBounded, Held, At
<1>2. ASSUME NEW q \in Query, NEW r \in {"answered", "servfail"}, Finish(q, r),
             idle' = idle, peak' = peak
      PROVE  PoolSound'
  <2>1. Leaves(q)
    BY <1>2, SetLeaves DEF Finish
  <2> QED  BY <1>2, <2>1, LeavingKeepsPool
<1>3. ASSUME NEW q \in Query, Route(q) PROVE PoolSound'
  <2>1. CASE TurnAway(q) \/ Exhausted(q) \/ GiveUp(q)
    BY <1>2, <2>1 DEF TurnAway, Exhausted, GiveUp
  <2>2. ASSUME NEW m \in Message, AnswerFromCache(q, m) PROVE PoolSound'
    BY <1>2, <2>2 DEF AnswerFromCache, Answer
  <2>3. ASSUME NEW m \in Message, NEW list \in UpstreamLists, Forward(q, m, list)
        PROVE  PoolSound'
    <3>1. Leaves(q)
      BY <2>3, SetLeaves DEF Forward
    <3> QED  BY <2>3, <3>1, LeavingKeepsPool DEF Forward
  <2>4. ASSUME NEW s \in Socket, AskUdp(q, s) PROVE PoolSound'
    BY <2>4, AskKeepsPool
  <2>5. CASE AskTls(q)
    <3> DEFINE c == [call[q] EXCEPT !.pc = "tls", !.asked = now, !.budget = Budget(q), !.socket = None]
    <3>1. c.pc = "tls"
      BY <2>5, OpenCall DEF AskTls, Turn, At, Open, Active
    <3>2. Leaves(q)
      BY <2>5, <3>1, SetLeaves DEF AskTls, Ask
    <3> QED  BY <2>5, <3>2, LeavingKeepsPool DEF AskTls
  <2>6. CASE AskFails(q)
    <3>1. Leaves(q)
      BY <2>6, NextLeaves DEF AskFails, Turn, At, Open
    <3> QED  BY <2>6, <3>1, LeavingKeepsPool DEF AskFails
  <2> QED  BY <1>3, <2>1, <2>2, <2>3, <2>4, <2>5, <2>6 DEF Route
<1>4. ASSUME NEW q \in Query, Answers(q) PROVE PoolSound'
  <2>1. ASSUME NEW d \in net, Receives(q, d), Leaves(q), peak' = peak PROVE PoolSound'
    BY <2>1, ReleaseKeepsPool DEF Receives
  <2>2. ASSUME NEW d \in net, NEW ttl \in Ttls, ReadUdp(q, d, ttl) PROVE PoolSound'
    <3>1. Leaves(q)
      BY <2>2, SetLeaves DEF ReadUdp, Succeed, Answer, Finish
    <3> QED  BY <2>1, <2>2, <3>1 DEF ReadUdp
  <2>3. ASSUME NEW d \in net, ReadMismatch(q, d) PROVE PoolSound'
    <3>1. Leaves(q)
      BY <2>3, NextLeaves, HeldSocket DEF ReadMismatch, Receives
    <3> QED  BY <2>1, <2>3, <3>1 DEF ReadMismatch
  <2>4. ASSUME NEW d \in net, ReadUnusable(q, d) PROVE PoolSound'
    <3>1. Leaves(q)
      BY <2>4, TcpLeaves DEF ReadUnusable, Receives
    <3> QED  BY <2>1, <2>4, <3>1 DEF ReadUnusable
  <2>5. CASE UdpError(q) \/ UdpTimeout(q)
    <3>1. Leaves(q)
      BY <2>5, TcpLeaves DEF UdpError, UdpTimeout
    <3> QED  BY <2>5, <3>1, ReleaseKeepsPool DEF UdpError, UdpTimeout
  <2>6. ASSUME NEW born \in Time, NEW ttl \in Ttls, StreamAnswers(q, born, ttl) PROVE PoolSound'
    BY <1>2, <2>6 DEF StreamAnswers, Succeed, Answer
  <2>7. CASE StreamFails(q)
    <3>1. Leaves(q)
      BY <2>7, NextLeaves DEF StreamFails, At, Open
    <3> QED  BY <2>7, <3>1, LeavingKeepsPool DEF StreamFails
  <2> QED  BY <1>4, <2>2, <2>3, <2>4, <2>5, <2>6, <2>7 DEF Answers
<1>5. ASSUME NEW d \in net, UdpAnswered(d) PROVE PoolSound'
  BY <1>1, <1>5 DEF UdpAnswered
<1>6. ASSUME NEW k \in Key, Drop(k) PROVE PoolSound'
  BY <1>1, <1>6 DEF Drop
<1>7. CASE Tick \/ UNCHANGED vars
  BY <1>1, <1>7 DEF Tick, vars
<1> QED  BY <1>3, <1>4, <1>5, <1>6, <1>7 DEF Next

LEMMA PoolInvariant == Spec => []PoolSound
<1>1. Init => PoolSound
  <2> SUFFICES ASSUME Init PROVE PoolSound
    OBVIOUS
  <2>1. \A q \in Query : call[q].pc = "idle"
    BY DEF Init, Idle
  <2>2. Held = {} /\ Len(idle) = 0 /\ DOMAIN idle = {} /\ peak = 0
    BY <2>1 DEF Init, Held
  <2> QED  BY <2>1, <2>2, FS_EmptySet DEF PoolSound, SocketsExclusive, PoolBounded, At
<1> QED  BY <1>1, NextKeepsPool, TypeCorrect, PTL DEF Spec

\* A socket is with one query or in the pool once, whatever the order in which
\* queries acquire, release and drop sockets.
THEOREM SocketsAreExclusive == Spec => []SocketsExclusive
<1>1. PoolSound => SocketsExclusive
  BY DEF PoolSound
<1> QED  BY <1>1, PoolInvariant, PTL

\* The pool never holds more than were once needed together.
THEOREM PoolStaysBounded == Spec => []PoolBounded
<1>1. PoolSound => PoolBounded
  BY DEF PoolSound
<1> QED  BY <1>1, PoolInvariant, PTL

-----------------------------------------------------------------------------
(* TTLs.                                                                   *)

\* Whoever is under way is so within its deadline.
InTime ==
  \A q \in Query : call[q].pc \in Open =>
    /\ call[q].start <= call[q].asked /\ call[q].asked <= now
    /\ now <= Deadline(q)

\* An answer was made after the query that is still under way for it came in.
AnsweredSince ==
  \A d \in net :
    /\ call[d.from].pc # "idle"
    /\ d.at # None => d.at <= now
    /\ d.at # None /\ call[d.from].pc \in Open => call[d.from].start <= d.at

\* What was cached had been under way for no longer than a query may be.
CachedInTime ==
  \A k \in Key : cache[k] # None /\ cache[k].response.own =>
    cache[k].at <= cache[k].response.born + Overall

TtlSound == InTime /\ AnsweredSince /\ CachedInTime /\ CachedWithinTtl /\ ToldWithinTtl

\* The times of the state are numbers.
LEMMA Numbers ==
  ASSUME TypeOK
  PROVE  /\ now \in Nat /\ Overall \in Nat
         /\ \A q \in Query : call[q].pc \in Open =>
              call[q].start \in Nat /\ call[q].asked \in Nat /\ Deadline(q) = call[q].start + Overall
         /\ \A d \in net : d.at # None => d.at \in Nat
         /\ \A k \in Key : cache[k] # None =>
              /\ cache[k].at \in Nat /\ cache[k].life \in Nat
              /\ cache[k].response.born \in Nat /\ cache[k].response.ttl \in Nat
<1>1. now \in Nat /\ Overall \in Nat
  BY ForwardingAssumption DEF TypeOK, Time
<1>2. \A q \in Query : call[q].pc \in Open =>
        call[q].start \in Nat /\ call[q].asked \in Nat /\ Deadline(q) = call[q].start + Overall
  BY OpenCall, ForwardingAssumption DEF Active, Time, Deadline
<1>3. \A d \in net : d.at # None => d.at \in Nat
  BY ForwardingAssumption DEF TypeOK, Datagram, Time
<1>4. \A k \in Key : cache[k] # None => cache[k] \in Entry
  BY DEF TypeOK
<1>5. \A k \in Key : cache[k] # None =>
        /\ cache[k].at \in Nat /\ cache[k].life \in Nat
        /\ cache[k].response.born \in Nat /\ cache[k].response.ttl \in Nat
  BY <1>4, ForwardingAssumption DEF Entry, Positive, Response, Time
<1> QED  BY <1>1, <1>2, <1>3, <1>5

\* An own answer, made since the query came in, is cached and told in time.
LEMMA SucceedInTime ==
  ASSUME TypeOK, TtlSound, NEW q \in Query, call[q].pc \in Open, NEW response \in Response,
         response.own => call[q].start <= response.born,
         Succeed(q, response)
  PROVE  CachedInTime' /\ CachedWithinTtl' /\ ToldWithinTtl'
<1> DEFINE start == call[q].start
           life  == Life(start, response.ttl)
           e     == [response |-> response, at |-> now, life |-> life]
<1>1. /\ now \in Nat /\ Overall \in Nat /\ start \in Nat /\ response.ttl \in Nat
      /\ response.born \in Nat
      /\ start <= now /\ now <= start + Overall
  BY Numbers, ForwardingAssumption DEF TtlSound, InTime, Response, Time
<1>2. told' = [msg |-> call[q].msg, response |-> response, until |-> now + response.ttl,
               hit |-> FALSE]
  BY DEF Succeed, Answer
<1>3. ToldWithinTtl'
  BY <1>1, <1>2 DEF ToldWithinTtl
<1>4. cache' = cache \/ (life > 0 /\ cache' = [cache EXCEPT ![response.msg.key] = e])
  BY DEF Succeed, CacheResponse, Kept
<1>5. /\ life > 0 => now + life = start + response.ttl
      /\ life \in Nat
  BY <1>1 DEF Life
<1>6. \A k \in Key : cache'[k] # None =>
        cache'[k] = cache[k] \/ (life > 0 /\ cache'[k] = e)
  BY <1>4 DEF TypeOK
<1>7. e.response = response /\ e.at = now /\ e.life = life
  OBVIOUS
<1>8. CachedInTime'
  <2>1. response.own => now <= response.born + Overall
    BY <1>1
  <2> HIDE DEF e, life
  <2> QED  BY <1>6, <1>7, <2>1 DEF CachedInTime, TtlSound
<1>9. CachedWithinTtl'
  <2>1. response.own /\ life > 0 => now + life <= response.born + response.ttl
    BY <1>1, <1>5
  <2> HIDE DEF e, life
  <2> QED  BY <1>6, <1>7, <2>1 DEF CachedWithinTtl, TtlSound
<1> QED  BY <1>3, <1>8, <1>9

\* A hit ends when the TTL, counted from when it was cached, does.
LEMMA HitInTime ==
  ASSUME TypeOK, TtlSound, NEW q \in Query, NEW m \in Message, AnswerFromCache(q, m)
  PROVE  ToldWithinTtl'
<1> DEFINE e == cache[m.key]
           r == [e.response EXCEPT !.msg = WithId(@, m.id)]
           ttl == e.response.ttl - (now - e.at)
<1>1. told' = [msg |-> m, response |-> r, until |-> now + ttl, hit |-> TRUE]
  BY DEF AnswerFromCache, Answer
<1>2. m.key \in Key /\ e # None
  BY MessageParts DEF AnswerFromCache, Hit
<1>3. e.response \in Response
  BY <1>2 DEF TypeOK, Entry
<1>4. r.own = e.response.own /\ r.born = e.response.born /\ r.ttl = e.response.ttl
  BY <1>3 DEF Response
<1>5. now + ttl = e.at + e.response.ttl
  BY <1>2, Numbers
<1>6. e.response.own => e.at + e.response.ttl <= e.response.born + e.response.ttl + Overall
  BY <1>2, Numbers DEF TtlSound, CachedInTime
<1>7. /\ told'.until = now + ttl /\ told'.response = r
  BY <1>1
<1> HIDE DEF r, ttl, e
<1> QED  BY <1>4, <1>5, <1>6, <1>7 DEF ToldWithinTtl

\* Steps of a call that is under way, or ends: nothing else of it changes.
Goes(q) ==
  /\ \A p \in Query : p # q => call'[p] = call[p]
  /\ call'[q].pc # "idle"
  /\ call'[q].pc \in Open =>
       /\ call[q].pc \in Open /\ call'[q].start = call[q].start
       /\ call'[q].asked = call[q].asked \/ call'[q].asked = now

LEMMA GoesInTime ==
  ASSUME TypeOK, TtlSound, NEW q \in Query, Goes(q), now' = now
  PROVE  InTime'
<1>1. \A p \in Query : call'[p].pc \in Open =>
        /\ call[p].pc \in Open /\ call'[p].start = call[p].start
        /\ call'[p].asked = call[p].asked \/ call'[p].asked = now
  BY DEF Goes
<1> QED  BY <1>1, Numbers DEF TtlSound, InTime, Deadline

LEMMA GoesAnswered ==
  ASSUME TypeOK, TtlSound, NEW q \in Query, Goes(q), now' = now,
         \A d \in net' : d \in net \/ (d.from = q /\ d.at = None)
  PROVE  AnsweredSince'
<1>1. \A p \in Query : call'[p].pc \in Open => call[p].pc \in Open /\ call'[p].start = call[p].start
  BY DEF Goes
<1>2. \A p \in Query : call[p].pc # "idle" => call'[p].pc # "idle"
  BY DEF Goes
<1>3. \A d \in net : d.from \in Query
  BY DEF TypeOK, Datagram
<1> QED  BY <1>1, <1>2, <1>3 DEF TtlSound, AnsweredSince, Goes

\* A record that is put in place of a call's.
LEMMA SetGoes ==
  ASSUME TypeOK, NEW q \in Query, NEW c, Set(q, c), c.pc # "idle",
         c.pc \in Open => /\ call[q].pc \in Open /\ c.start = call[q].start
                          /\ c.asked = call[q].asked \/ c.asked = now
  PROVE  Goes(q)
<1>1. \A p \in Query : call'[p] = IF p = q THEN c ELSE call[p]
  BY DEF Set, TypeOK
<1> QED  BY <1>1 DEF Goes

LEMMA FinishGoes ==
  ASSUME TypeOK, NEW q \in Query, NEW r, Finish(q, r)
  PROVE  Goes(q)
BY SetGoes DEF Finish, Open

LEMMA NextGoes ==
  ASSUME TypeOK, NEW q \in Query, call[q].pc \in Open, NextUpstream(q)
  PROVE  Goes(q)
<1> DEFINE c == [call[q] EXCEPT !.pc = "next", !.up = @ + 1, !.socket = None]
<1>1. c.pc = "next" /\ c.start = call[q].start /\ c.asked = call[q].asked
  BY OpenCall DEF Active
<1> QED  BY <1>1, SetGoes DEF NextUpstream

LEMMA AskGoes ==
  ASSUME TypeOK, NEW q \in Query, call[q].pc \in Open, NEW pc \in Open, NEW s, Ask(q, pc, s)
  PROVE  Goes(q)
<1> DEFINE c == [call[q] EXCEPT !.pc = pc, !.asked = now, !.budget = Budget(q), !.socket = s]
<1>1. c.pc = pc /\ c.start = call[q].start /\ c.asked = now
  BY OpenCall DEF Active
<1>2. c.pc # "idle"
  BY <1>1 DEF Open
<1> QED  BY <1>1, <1>2, SetGoes DEF Ask

LEMMA TcpGoes ==
  ASSUME TypeOK, NEW q \in Query, call[q].pc \in Open, GoTcp(q)
  PROVE  Goes(q)
<1> DEFINE c == [call[q] EXCEPT !.pc = "tcp", !.asked = now, !.socket = None]
<1>1. c.pc = "tcp" /\ c.start = call[q].start /\ c.asked = now
  BY OpenCall DEF Active
<1> QED  BY <1>1, SetGoes DEF GoTcp

\* A step that caches nothing and tells nobody.
LEMMA QuietKeepsCache ==
  ASSUME TtlSound, Quiet, \A k \in Key : cache'[k] # None => cache'[k] = cache[k]
  PROVE  CachedInTime' /\ CachedWithinTtl' /\ ToldWithinTtl'
BY DEF TtlSound, Quiet, CachedInTime, CachedWithinTtl, ToldWithinTtl

LEMMA QuietlyGoes ==
  ASSUME TypeOK, TtlSound, Quiet, NEW q \in Query, Goes(q), now' = now, cache' = cache,
         \A d \in net' : d \in net \/ (d.from = q /\ d.at = None)
  PROVE  TtlSound'
<1>1. CachedInTime' /\ CachedWithinTtl' /\ ToldWithinTtl'
  BY QuietKeepsCache
<1> QED  BY <1>1, GoesInTime, GoesAnswered DEF TtlSound

\* A query that comes in and misses the cache.
LEMMA ForwardKeepsTtl ==
  ASSUME TypeOK, TtlSound, NEW q \in Query, NEW m \in Message, NEW list \in UpstreamLists,
         Forward(q, m, list)
  PROVE  TtlSound'
<1> DEFINE c == [pc |-> "next", msg |-> m, list |-> list, up |-> 1, start |-> now,
                 asked |-> now, budget |-> 0, socket |-> None]
<1>1. \A p \in Query : call'[p] = IF p = q THEN c ELSE call[p]
  BY DEF Forward, Set, TypeOK
<1>2. call[q].pc = "idle" /\ now' = now /\ net' = net /\ Quiet
  BY DEF Forward, At
<1>3. InTime'
  <2>1. c.start = now /\ c.asked = now
    OBVIOUS
  <2>2. \A p \in Query : call'[p].pc \in Open =>
          call'[p].start <= call'[p].asked /\ call'[p].asked <= now
          /\ now <= call'[p].start + Overall
    BY <1>1, <2>1, Numbers DEF TtlSound, InTime
  <2> QED  BY <1>2, <2>2 DEF InTime, Deadline
<1>4. AnsweredSince'
  <2>1. \A d \in net : d.from \in Query /\ d.from # q
    BY <1>2 DEF TypeOK, Datagram, TtlSound, AnsweredSince
  <2> QED  BY <1>1, <1>2, <2>1 DEF TtlSound, AnsweredSince
<1>5. \A k \in Key : cache'[k] # None => cache'[k] = cache[k]
  BY DEF Forward, TypeOK
<1> QED  BY <1>2, <1>3, <1>4, <1>5, QuietKeepsCache DEF TtlSound

\* A query that comes in, and what forward_attempt does with it.
LEMMA RouteKeepsTtl ==
  ASSUME TypeOK, TtlSound, NEW q \in Query, Route(q)
  PROVE  TtlSound'
<1>1. CASE TurnAway(q) \/ Exhausted(q)
  BY <1>1, FinishGoes, QuietlyGoes DEF TurnAway, Exhausted
<1>2. CASE GiveUp(q)
  BY <1>2, FinishGoes, QuietlyGoes DEF GiveUp, Closed
<1>3. ASSUME NEW m \in Message, AnswerFromCache(q, m) PROVE TtlSound'
  <2>1. Goes(q) /\ now' = now /\ net' = net /\ cache' = cache
    BY <1>3, FinishGoes DEF AnswerFromCache, Answer
  <2>2. CachedInTime' /\ CachedWithinTtl'
    BY <2>1 DEF TtlSound, CachedInTime, CachedWithinTtl
  <2> QED  BY <1>3, <2>1, <2>2, HitInTime, GoesInTime, GoesAnswered DEF TtlSound
<1>4. ASSUME NEW m \in Message, NEW list \in UpstreamLists, Forward(q, m, list) PROVE TtlSound'
  BY <1>4, ForwardKeepsTtl
<1>5. ASSUME NEW s \in Socket, AskUdp(q, s) PROVE TtlSound'
  <2>1. Goes(q)
    BY <1>5, AskGoes DEF AskUdp, Turn, At, Open
  <2> QED  BY <1>5, <2>1, QuietlyGoes DEF AskUdp
<1>6. CASE AskTls(q)
  <2>1. Goes(q)
    BY <1>6, AskGoes DEF AskTls, Turn, At, Open
  <2> QED  BY <1>6, <2>1, QuietlyGoes DEF AskTls
<1>7. CASE AskFails(q)
  <2>1. Goes(q)
    BY <1>7, NextGoes DEF AskFails, Turn, At, Open
  <2> QED  BY <1>7, <2>1, QuietlyGoes DEF AskFails
<1> QED  BY <1>1, <1>2, <1>3, <1>4, <1>5, <1>6, <1>7 DEF Route

\* What comes back to a query that waits.
LEMMA AnswersKeepTtl ==
  ASSUME TypeOK, TtlSound, NEW q \in Query, Answers(q)
  PROVE  TtlSound'
<1>1. ASSUME NEW response \in Response, call[q].pc \in Open, Succeed(q, response), now' = now,
             response.own => call[q].start <= response.born, net' \subseteq net
      PROVE  TtlSound'
  <2>1. Goes(q)
    BY <1>1, FinishGoes DEF Succeed, Answer
  <2> QED  BY <1>1, <2>1, SucceedInTime, GoesInTime, GoesAnswered DEF TtlSound
<1>2. ASSUME NEW d \in net, NEW ttl \in Ttls, ReadUdp(q, d, ttl) PROVE TtlSound'
  <2> DEFINE r == [msg |-> d.msg, born |-> d.at, ttl |-> ttl, own |-> d.from = q]
  <2>1. d.msg \in Shown /\ d.at \in Time /\ call[q].pc \in Open
    BY <1>2, HeldSocket, MessageParts DEF ReadUdp, Receives, TypeOK, Datagram
  <2>2. r \in Response /\ r.own = (d.from = q) /\ r.born = d.at
    BY <2>1 DEF Response
  <2>3. r.own => call[q].start <= r.born
    BY <1>2, <2>1, <2>2 DEF ReadUdp, Receives, TtlSound, AnsweredSince
  <2>4. Succeed(q, r) /\ now' = now /\ net' \subseteq net
    BY <1>2 DEF ReadUdp, Receives
  <2> HIDE DEF r
  <2> QED  BY <1>1, <2>1, <2>2, <2>3, <2>4
<1>3. ASSUME NEW d \in net, ReadMismatch(q, d) PROVE TtlSound'
  <2>1. Goes(q) /\ net' \subseteq net
    BY <1>3, NextGoes, HeldSocket DEF ReadMismatch, Receives
  <2> QED  BY <1>3, <2>1, QuietlyGoes DEF ReadMismatch
<1>4. ASSUME NEW d \in net, ReadUnusable(q, d) PROVE TtlSound'
  <2>1. Goes(q) /\ net' \subseteq net
    BY <1>4, TcpGoes, HeldSocket DEF ReadUnusable, Receives
  <2> QED  BY <1>4, <2>1, QuietlyGoes DEF ReadUnusable
<1>5. CASE UdpError(q) \/ UdpTimeout(q)
  <2>1. Goes(q) /\ net' \subseteq net
    BY <1>5, TcpGoes, HeldSocket DEF UdpError, UdpTimeout
  <2> QED  BY <1>5, <2>1, QuietlyGoes DEF UdpError, UdpTimeout
<1>6. ASSUME NEW born \in Time, NEW ttl \in Ttls, StreamAnswers(q, born, ttl) PROVE TtlSound'
  <2> DEFINE r == [msg |-> call[q].msg, born |-> born, ttl |-> ttl, own |-> TRUE]
  <2>1. call[q].pc \in Open /\ call[q].asked <= born
    BY <1>6 DEF StreamAnswers, At, Open
  <2>2. r \in Response /\ r.born = born
    BY <2>1, OpenCall, MessageParts DEF Response, Active
  <2>3. call[q].start <= r.born
    BY <2>1, <2>2, Numbers, ForwardingAssumption DEF TtlSound, InTime, Time
  <2>4. Succeed(q, r) /\ now' = now /\ net' \subseteq net
    BY <1>6 DEF StreamAnswers
  <2> HIDE DEF r
  <2> QED  BY <1>1, <2>1, <2>2, <2>3, <2>4
<1>7. CASE StreamFails(q)
  <2>1. Goes(q)
    BY <1>7, NextGoes DEF StreamFails, At, Open
  <2> QED  BY <1>7, <2>1, QuietlyGoes DEF StreamFails
<1> QED  BY <1>2, <1>3, <1>4, <1>5, <1>6, <1>7 DEF Answers

LEMMA NextKeepsTtl == TypeOK /\ TtlSound /\ [Next]_vars => TtlSound'
<1> SUFFICES ASSUME TypeOK, TtlSound, [Next]_vars PROVE TtlSound'
  OBVIOUS
<1>1. ASSUME NEW d \in net, UdpAnswered(d) PROVE TtlSound'
  <2> DEFINE a == [d EXCEPT !.at = now]
  <2>1. d \in Datagram /\ a.from = d.from /\ a.at = now
    BY DEF TypeOK, Datagram
  <2>2. \A b \in net' : b \in net \/ b = a
    BY <1>1 DEF UdpAnswered
  <2>3. call' = call /\ now' = now /\ cache' = cache /\ Quiet
    BY <1>1 DEF UdpAnswered
  <2>4. InTime'
    BY <2>3 DEF TtlSound, InTime, Deadline
  <2>5. AnsweredSince'
    <3>1. d.from \in Query /\ call[d.from].pc # "idle" /\ now <= now
      BY <2>1, Numbers DEF Datagram, TtlSound, AnsweredSince
    <3>2. call[d.from].pc \in Open => call[d.from].start <= now
      BY <3>1, Numbers DEF TtlSound, InTime
    <3> HIDE DEF a
    <3> QED  BY <2>1, <2>2, <2>3, <3>1, <3>2 DEF TtlSound, AnsweredSince
  <2> QED  BY <2>3, <2>4, <2>5, QuietKeepsCache DEF TtlSound
<1>2. ASSUME NEW k \in Key, Drop(k) PROVE TtlSound'
  <2>1. Quiet /\ \A j \in Key : cache'[j] # None => cache'[j] = cache[j]
    BY <1>2 DEF Drop, TypeOK
  <2>2. InTime' /\ AnsweredSince'
    BY <1>2 DEF Drop, TtlSound, InTime, AnsweredSince, Deadline
  <2> QED  BY <2>1, <2>2, QuietKeepsCache DEF TtlSound
<1>3. CASE Tick
  <2>1. now' = now + 1 /\ call' = call /\ net' = net /\ cache' = cache /\ Quiet
    BY <1>3 DEF Tick
  <2>2. \A q \in Query : call[q].pc \in Open => now + 1 <= call[q].start + Overall
    BY <1>3, Numbers DEF Tick, Waits
  <2>3. InTime'
    BY <2>1, <2>2, Numbers DEF TtlSound, InTime, Deadline
  <2>4. AnsweredSince'
    BY <2>1, Numbers DEF TtlSound, AnsweredSince
  <2> QED  BY <2>1, <2>3, <2>4, QuietKeepsCache DEF TtlSound
<1>4. CASE UNCHANGED vars
  BY <1>4 DEF vars, TtlSound, InTime, AnsweredSince, CachedInTime, CachedWithinTtl,
              ToldWithinTtl, Deadline
<1> QED  BY <1>1, <1>2, <1>3, <1>4, RouteKeepsTtl, AnswersKeepTtl DEF Next

LEMMA TtlInvariant == Spec => []TtlSound
<1>1. Init => TtlSound
  <2> SUFFICES ASSUME Init PROVE TtlSound
    OBVIOUS
  <2>1. \A q \in Query : call[q].pc = "idle"
    BY DEF Init, Idle
  <2> QED  BY <2>1 DEF Init, Open, TtlSound, InTime, AnsweredSince, CachedInTime,
                       CachedWithinTtl, ToldWithinTtl
<1> QED  BY <1>1, NextKeepsTtl, TypeCorrect, PTL DEF Spec

\* No cached answer outlives its own TTL, however long the query was under way.
THEOREM CacheKeepsTtls == Spec => []CachedWithinTtl
<1>1. TtlSound => CachedWithinTtl
  BY DEF TtlSound
<1> QED  BY <1>1, TtlInvariant, PTL

\* What clients are told ends at most Overall after the record's TTL.
THEOREM ClientsToldTtls == Spec => []ToldWithinTtl
<1>1. TtlSound => ToldWithinTtl
  BY DEF TtlSound
<1> QED  BY <1>1, TtlInvariant, PTL

-----------------------------------------------------------------------------
(* Failing.                                                                *)

\* What FailsAfterAll says of one step and one call.
FailsRightly(q) ==
  call[q].pc \in Open /\ call'[q].pc = "done" /\ call'[q].result = "servfail" =>
    now >= Deadline(q) \/ call[q].up > Len(call[q].list)

\* A step of one call that does not fail it fails no other.
LEMMA OthersFailRightly ==
  ASSUME TypeOK, NEW q \in Query, NEW c, Set(q, c),
         c.pc = "done" => c.result = "answered"
  PROVE  \A p \in Query : FailsRightly(p)
<1>1. \A p \in Query : call'[p] = IF p = q THEN c ELSE call[p]
  BY DEF Set, TypeOK
<1> QED  BY <1>1 DEF FailsRightly, Open

\* Nor does one that fails it for a reason.
LEMMA FinishesRightly ==
  ASSUME TypeOK, NEW q \in Query, NEW r, Finish(q, r),
         now >= Deadline(q) \/ call[q].up > Len(call[q].list) \/ r = "answered"
  PROVE  \A p \in Query : FailsRightly(p)
<1>1. \A p \in Query : call'[p] = IF p = q THEN [pc |-> "done", result |-> r] ELSE call[p]
  BY DEF Finish, Set, TypeOK
<1>2. "servfail" # "answered"
  OBVIOUS
<1> QED  BY <1>1, <1>2 DEF FailsRightly, Open

\* A query fails only at its deadline or past its last upstream.
THEOREM FailuresAreFinal == Spec => FailsAfterAll
<1>1. TypeOK /\ [Next]_vars =>
        [\A q \in Query :
           call[q].pc \in Open /\ call'[q].pc = "done" /\ call'[q].result = "servfail" =>
             now >= Deadline(q) \/ call[q].up > Len(call[q].list)]_vars
  <2> SUFFICES ASSUME TypeOK, [Next]_vars, ~UNCHANGED vars
               PROVE  \A q \in Query : FailsRightly(q)
    BY DEF FailsRightly
  <2>1. ASSUME NEW q \in Query, call[q].pc \in Open, NextUpstream(q)
        PROVE  \A p \in Query : FailsRightly(p)
    <3> DEFINE c == [call[q] EXCEPT !.pc = "next", !.up = @ + 1, !.socket = None]
    <3>1. c.pc = "next"
      BY <2>1, OpenCall DEF Active
    <3> QED  BY <2>1, <3>1, OthersFailRightly DEF NextUpstream
  <2>2. ASSUME NEW q \in Query, call[q].pc \in Open, NEW pc \in {"udp", "tls"}, NEW s, Ask(q, pc, s)
        PROVE  \A p \in Query : FailsRightly(p)
    <3> DEFINE c == [call[q] EXCEPT !.pc = pc, !.asked = now, !.budget = Budget(q), !.socket = s]
    <3>1. c.pc = pc
      BY <2>2, OpenCall DEF Active
    <3> QED  BY <2>2, <3>1, OthersFailRightly DEF Ask
  <2>3. ASSUME NEW q \in Query, At(q, "udp"), GoTcp(q)
        PROVE  \A p \in Query : FailsRightly(p)
    <3> DEFINE c == [call[q] EXCEPT !.pc = "tcp", !.asked = now, !.socket = None]
    <3>1. c.pc = "tcp"
      BY <2>3, OpenCall DEF Active, At, Open
    <3> QED  BY <2>3, <3>1, OthersFailRightly DEF GoTcp
  <2>4. ASSUME call' = call PROVE \A p \in Query : FailsRightly(p)
    BY <2>4 DEF FailsRightly, Open
  <2>5. ASSUME NEW q \in Query, Route(q) PROVE \A p \in Query : FailsRightly(p)
    <3>1. CASE TurnAway(q) \/ Exhausted(q) \/ GiveUp(q)
      BY <3>1, FinishesRightly DEF TurnAway, Exhausted, GiveUp
    <3>2. ASSUME NEW m \in Message, AnswerFromCache(q, m) PROVE \A p \in Query : FailsRightly(p)
      BY <3>2, FinishesRightly DEF AnswerFromCache, Answer
    <3>3. ASSUME NEW m \in Message, NEW list \in UpstreamLists, Forward(q, m, list)
          PROVE  \A p \in Query : FailsRightly(p)
      BY <3>3, OthersFailRightly DEF Forward
    <3>4. ASSUME NEW s \in Socket, AskUdp(q, s) PROVE \A p \in Query : FailsRightly(p)
      BY <3>4, <2>2 DEF AskUdp, Turn, At, Open
    <3>5. CASE AskTls(q)
      BY <3>5, <2>2 DEF AskTls, Turn, At, Open
    <3>6. CASE AskFails(q)
      BY <3>6, <2>1 DEF AskFails, Turn, At, Open
    <3> QED  BY <2>5, <3>1, <3>2, <3>3, <3>4, <3>5, <3>6 DEF Route
  <2>6. ASSUME NEW q \in Query, Answers(q) PROVE \A p \in Query : FailsRightly(p)
    <3>1. ASSUME NEW d \in net, NEW ttl \in Ttls, ReadUdp(q, d, ttl)
          PROVE  \A p \in Query : FailsRightly(p)
      BY <3>1, FinishesRightly DEF ReadUdp, Succeed, Answer
    <3>2. ASSUME NEW d \in net, ReadMismatch(q, d) PROVE \A p \in Query : FailsRightly(p)
      BY <3>2, <2>1 DEF ReadMismatch, Receives, At, Open
    <3>3. ASSUME NEW d \in net, ReadUnusable(q, d) PROVE \A p \in Query : FailsRightly(p)
      BY <3>3, <2>3 DEF ReadUnusable, Receives
    <3>4. CASE UdpError(q) \/ UdpTimeout(q)
      BY <3>4, <2>3 DEF UdpError, UdpTimeout
    <3>5. ASSUME NEW born \in Time, NEW ttl \in Ttls, StreamAnswers(q, born, ttl)
          PROVE  \A p \in Query : FailsRightly(p)
      BY <3>5, FinishesRightly DEF StreamAnswers, Succeed, Answer
    <3>6. CASE StreamFails(q)
      BY <3>6, <2>1 DEF StreamFails, At, Open
    <3> QED  BY <2>6, <3>1, <3>2, <3>3, <3>4, <3>5, <3>6 DEF Answers
  <2> QED  BY <2>4, <2>5, <2>6 DEF Next, UdpAnswered, Drop, Tick
<1> QED  BY <1>1, TypeCorrect, PTL DEF Spec, FailsAfterAll
=============================================================================
