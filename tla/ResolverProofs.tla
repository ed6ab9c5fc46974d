--------------------------- MODULE ResolverProofs ---------------------------
(***************************************************************************)
(* The query handler on top of the upstream client, for any queries, any   *)
(* upstreams, any pool size and any mix of transports.                     *)
(***************************************************************************)
EXTENDS Resolver, SequenceTheorems, WellFoundedInduction, TLAPS

-----------------------------------------------------------------------------
(* Pools *)

LEMMA LeastElement ==
    ASSUME NEW T \in SUBSET Nat, T # {}
    PROVE  \E m \in T : \A k \in T : m <= k
<1> DEFINE R == OpToRel(<, Nat)
<1>1. IsWellFoundedOn(R, Nat)
  BY NatLessThanWellFounded
<1> HIDE DEF R
<1>2. PICK m \in T : \A k \in T : ~(<<k, m>> \in R)
  BY <1>1, WFMin
<1>3. \A k \in Nat : k < m => <<k, m>> \in R
  BY DEF R, OpToRel
<1>4. \A k \in T : ~(k < m)
  BY <1>2, <1>3
<1> QED
  BY <1>2, <1>4

LEMMA LargestIndex ==
    ASSUME NEW n \in Nat, NEW S \in SUBSET (1 .. n), S # {}
    PROVE  Max(S) \in S
<1> DEFINE T == {n - i : i \in S}
<1>1. T \in SUBSET Nat /\ T # {}
  <2>1. \A i \in S : n - i \in Nat
    OBVIOUS
  <2>2. PICK i \in S : TRUE
    OBVIOUS
  <2>3. n - i \in T
    OBVIOUS
  <2> QED
    BY <2>1, <2>3
<1> HIDE DEF T
<1>2. PICK m \in T : \A k \in T : m <= k
  BY <1>1, LeastElement
<1>3. PICK i \in S : m = n - i
  BY <1>2 DEF T
<1>4. \A j \in S : n - j \in T
  BY DEF T
<1>5. \A j \in S : i >= j
  BY <1>2, <1>3, <1>4
<1> QED
  BY <1>5 DEF Max

\* An idle connection as ConnPool should keep it, and a pool within its limit.
Idle == [conn : {NewConn}, old : BOOLEAN]
Pool == {s \in Seq(Idle) : Len(s) <= MaxIdle}

LEMMA FreshPartType ==
    ASSUME NEW s \in Pool
    PROVE  /\ FreshPart(s) \in Pool
           /\ FreshPart(s) # <<>> => /\ Front(FreshPart(s)) \in Pool
                                     /\ Last(FreshPart(s)) \in Idle
<1> DEFINE fresh == {i \in DOMAIN s : ~s[i].old}
           k == IF fresh = {} THEN 0 ELSE Max(fresh)
<1>1. s \in Seq(Idle) /\ Len(s) \in Nat /\ DOMAIN s = 1 .. Len(s) /\ Len(s) <= MaxIdle
      /\ MaxIdle \in Nat
  BY UpstreamAssumption DEF Pool
<1>2. k \in 0 .. Len(s)
  <2>1. fresh \in SUBSET (1 .. Len(s))
    BY <1>1
  <2> HIDE DEF fresh
  <2>2. fresh # {} => Max(fresh) \in fresh
    BY <1>1, <2>1, LargestIndex
  <2>3. fresh # {} => Max(fresh) \in 1 .. Len(s)
    BY <2>1, <2>2
  <2>4. CASE fresh = {}
    BY <1>1, <2>4
  <2>5. CASE fresh # {}
    <3>1. k = Max(fresh)
      BY <2>5
    <3> HIDE DEF k
    <3> QED
      BY <1>1, <2>3, <2>5, <3>1
  <2> QED
    BY <2>4, <2>5
<1>3. FreshPart(s) = SubSeq(s, 1, k)
  BY DEF FreshPart
<1> HIDE DEF k
<1>4. \A j \in 0 .. Len(s) : SubSeq(s, 1, j) \in Pool /\ Len(SubSeq(s, 1, j)) = j
  <2> TAKE j \in 0 .. Len(s)
  <2>1. \A i \in 1 .. j : s[i] \in Idle
    BY <1>1
  <2>2. SubSeq(s, 1, j) \in Seq(Idle) /\ Len(SubSeq(s, 1, j)) = j
    BY <1>1, <2>1, SubSeqProperties
  <2> QED
    BY <1>1, <2>2 DEF Pool
<1>5. FreshPart(s) \in Pool /\ Len(FreshPart(s)) = k
  BY <1>2, <1>3, <1>4
<1>6. ASSUME FreshPart(s) # <<>>
      PROVE  Front(FreshPart(s)) \in Pool /\ Last(FreshPart(s)) \in Idle
  <2> DEFINE f == FreshPart(s)
  <2>1. f \in Seq(Idle) /\ Len(f) = k /\ k \in 1 .. Len(s) /\ k <= MaxIdle
    BY <1>1, <1>2, <1>5, <1>6 DEF Pool
  <2> HIDE DEF f
  <2>2. Last(f) \in Idle
    BY <2>1 DEF Last
  <2>3. \A i \in 1 .. k - 1 : f[i] \in Idle
    BY <2>1
  <2>4. SubSeq(f, 1, k - 1) \in Seq(Idle) /\ Len(SubSeq(f, 1, k - 1)) = k - 1
    BY <2>1, <2>3, SubSeqProperties
  <2>5. Front(f) \in Pool
    BY <1>1, <2>1, <2>4 DEF Front, Pool
  <2> QED
    BY <2>2, <2>5 DEF f
<1> QED
  BY <1>5, <1>6

LEMMA PutType ==
    ASSUME NEW s \in Pool
    PROVE  put(s, NewConn) \in Pool
BY UpstreamAssumption, AppendProperties DEF Pool, Idle, put
-----------------------------------------------------------------------------
(* Connections *)

\* What a connection that is in use for q may be: its query was sent, or its
\* reply is there.
Asking(q) == [unread |-> <<>>, owed |-> {q}]
Delivered(q) == [unread |-> <<q>>, owed |-> {}]
Conn == [unread : Seq(Queries), owed : SUBSET Queries]

LEMMA ConnFacts ==
    ASSUME NEW q \in Queries
    PROVE  /\ NewConn \in Conn /\ Asking(q) \in Conn /\ Delivered(q) \in Conn
           /\ [NewConn EXCEPT !.owed = @ \cup {q}] = Asking(q)
           /\ [NewConn EXCEPT !.owed = {q}] = Asking(q)
           /\ Asking(q).unread = <<>> /\ Asking(q).owed = {q}
           /\ [unread |-> Append(Asking(q).unread, q), owed |-> Asking(q).owed \ {q}]
                 = Delivered(q)
           /\ Delivered(q).owed = {}
           /\ Delivered(q).unread # <<>> /\ Head(Delivered(q).unread) = q
           /\ [Delivered(q) EXCEPT !.unread = Tail(@)] = NewConn
<1>1. <<q>> \in Seq(Queries) /\ <<>> \in Seq(Queries)
  OBVIOUS
<1>2. Append(<<>>, q) = <<q>> /\ Head(<<q>>) = q /\ Tail(<<q>>) = <<>> /\ <<q>> # <<>>
  OBVIOUS
<1>3. {q} \ {q} = {} /\ {} \cup {q} = {q}
  OBVIOUS
<1>4. NewConn \in Conn /\ Asking(q) \in Conn /\ Delivered(q) \in Conn
  BY <1>1 DEF NewConn, Asking, Delivered, Conn
<1>0. \A a, b, c : /\ [[unread |-> a, owed |-> b] EXCEPT !.owed = c] = [unread |-> a, owed |-> c]
                   /\ [[unread |-> a, owed |-> b] EXCEPT !.unread = c] = [unread |-> c, owed |-> b]
  OBVIOUS
<1>5. /\ [NewConn EXCEPT !.owed = @ \cup {q}] = Asking(q)
      /\ [NewConn EXCEPT !.owed = {q}] = Asking(q)
  <2>1. NewConn.owed \cup {q} = {q}
    BY <1>3 DEF NewConn
  <2>2. [NewConn EXCEPT !.owed = @ \cup {q}] = [NewConn EXCEPT !.owed = {q}]
    BY <2>1
  <2>3. [NewConn EXCEPT !.owed = {q}] = Asking(q)
    <3>1. PICK a, b, c : a = <<>> /\ b = {} /\ c = {q}
      OBVIOUS
    <3>2. NewConn = [unread |-> a, owed |-> b] /\ Asking(q) = [unread |-> a, owed |-> c]
      BY <3>1, Zenon DEF NewConn, Asking
    <3>3. [[unread |-> a, owed |-> b] EXCEPT !.owed = c] = [unread |-> a, owed |-> c]
      OBVIOUS
    <3> QED
      BY <3>1, <3>2, <3>3, Zenon
  <2> QED
    BY <2>2, <2>3
<1>6. /\ Asking(q).unread = <<>> /\ Asking(q).owed = {q}
      /\ [unread |-> Append(Asking(q).unread, q), owed |-> Asking(q).owed \ {q}] = Delivered(q)
  BY <1>2, <1>3 DEF Asking, Delivered
<1>7. /\ Delivered(q).owed = {}
      /\ Delivered(q).unread # <<>> /\ Head(Delivered(q).unread) = q
  BY <1>2 DEF Delivered
<1>8. [Delivered(q) EXCEPT !.unread = Tail(@)] = NewConn
  <2>1. Tail(Delivered(q).unread) = <<>>
    BY <1>2 DEF Delivered
  <2>2. [Delivered(q) EXCEPT !.unread = Tail(@)] = [Delivered(q) EXCEPT !.unread = <<>>]
    BY <2>1
  <2>3. \A e : [Delivered(q) EXCEPT !.unread = e] = [unread |-> e, owed |-> {}]
    BY DEF Delivered
  <2> QED
    BY <2>2, <2>3 DEF NewConn
<1> QED
  BY <1>4, <1>5, <1>6, <1>7, <1>8
-----------------------------------------------------------------------------
(***************************************************************************)
(* The invariant.  A pooled connection is clean because a connection in    *)
(* use carries one query only, its own, and goes back once the reply has   *)
(* been read.  A message is about the query it is taken for because only a *)
(* UDP socket is shared, and about a question because only a query that    *)
(* was forwarded (Raced) has messages.                                     *)
(***************************************************************************)
AttemptPcs == {"none", "start", "bind", "recv_from", "pooled", "connect",
               "handshake", "fresh", "body", "ok", "err"}
AttemptType == [pc : AttemptPcs, conn : Conn, sock : Queries \cup {NoSocket},
                reply : Queries \cup {NoReply}]
RaceType == [pc : {"idle", "racing", "won", "failed"}, reply : Queries \cup {NoReply}]
DatagramType == [u : Upstreams, sock : Queries \cup {NoSocket}, reply : Queries]
ReplyType == [kind : Kinds, id : Queries \cup {NoId}, about : Questions \cup {NoQuestion}]

Raced == {q \in Queries : race[q].pc # "idle"}

\* Attempt a of q at u, when the queries in R have been forwarded.
GoodAttempt(q, u, a, R) ==
    /\ a \in AttemptType
    /\ a.pc # "none" => q \in R /\ u \in Configured
    /\ a.pc \in {"bind", "recv_from"} => config[u] = "udp"
    /\ IF a.pc \in {"pooled", "fresh"} THEN a.conn \in {Asking(q), Delivered(q)}
                                       ELSE a.conn = NewConn
    /\ a.pc = "ok" <=> a.reply # NoReply
    /\ a.reply \in R \cup {NoReply}
    /\ a.reply \notin {q, NoReply} => config[u] = "udp"

GoodRace(q, R) ==
    /\ race[q] \in RaceType
    /\ race[q].pc = "won" <=> race[q].reply # NoReply
    /\ race[q].reply \in R \cup {NoReply}
    /\ race[q].reply \notin {q, NoReply} => ~UsesOnly(Transports \ {"udp"})
    /\ race[q].pc # "idle" => q \in Asked /\ question[q] \in Questions

UpInv ==
    /\ config \in Configs /\ question \in Workloads[config]
    /\ race \in [Queries -> RaceType]
    /\ \A q \in Queries : GoodRace(q, Raced)
    /\ att \in [Queries -> [Upstreams -> AttemptType]]
    /\ \A q \in Queries, u \in Upstreams : GoodAttempt(q, u, att[q][u], Raced)
    /\ pool \in [Upstreams -> Pool]
    /\ socket \in [Upstreams -> Queries \cup {NoSocket}]
    /\ net \subseteq DatagramType /\ inbox \subseteq DatagramType
    /\ \A m \in net \cup inbox : m.reply \in Raced

HandlerInv ==
    /\ cache \in [Questions -> Raced \cup {NoReply}]
    /\ UsesOnly(Transports \ {"udp"}) =>
          \A d \in Questions : cache[d] # NoReply => question[cache[d]] = d
    /\ reply \in [Queries -> ReplyType]
    /\ AnswersOwnQuestion

LEMMA ConfigFacts ==
    ASSUME UpInv
    PROVE  /\ Configured \subseteq Upstreams
           /\ \A u \in Configured : config[u] \in Transports
           /\ Asked \subseteq Queries
           /\ \A q \in Asked : question[q] \in Questions \cup {NoQuestion, Garbled}
  BY UpstreamAssumption, ResolverAssumption DEF UpInv, Configured, Asked

LEMMA InitInv == Init => UpInv /\ HandlerInv
<1> SUFFICES ASSUME Init PROVE UpInv /\ HandlerInv
  OBVIOUS
<1>1. Attempt \in AttemptType /\ Attempt.pc = "none" /\ Attempt.conn = NewConn
      /\ Attempt.reply = NoReply
  BY DEF Attempt, AttemptType, AttemptPcs, Conn, NewConn
<1>2. \A u \in Upstreams : <<>> \in Pool
  BY UpstreamAssumption DEF Pool
<1>3. \A q \in Queries : race[q].pc = "idle" /\ race[q].reply = NoReply /\ race[q] \in RaceType
  BY DEF Init, UpInit, RaceType
<1>4. UpInv
  BY <1>1, <1>2, <1>3 DEF Init, UpInit, UpInv, GoodRace, GoodAttempt, RaceType
<1>5. Pending \in ReplyType /\ Pending.kind = "pending"
  BY DEF Pending, Reply, ReplyType, Kinds
<1>6. HandlerInv
  BY <1>5 DEF Init, HandlerInv, AnswersOwnQuestion
<1> QED
  BY <1>4, <1>6

\* TypeOK and PooledConnectionsAreClean are parts of it.
LEMMA InvImplies == UpInv /\ HandlerInv => TypeOK /\ PooledConnectionsAreClean
<1> SUFFICES ASSUME UpInv, HandlerInv PROVE TypeOK /\ PooledConnectionsAreClean
  OBVIOUS
<1>1. TypeOK
  BY DEF UpInv, HandlerInv, TypeOK, GoodRace, GoodAttempt, RaceType, AttemptType, AttemptPcs,
         Conn, Pool, Raced, ReplyType
<1>2. PooledConnectionsAreClean
  <2> SUFFICES ASSUME NEW u \in Upstreams, NEW i \in DOMAIN pool[u]
               PROVE  pool[u][i].conn = NewConn
    BY DEF PooledConnectionsAreClean
  <2>1. pool[u] \in Seq(Idle)
    BY DEF UpInv, Pool
  <2>2. pool[u][i] \in Idle
    BY <2>1
  <2> QED
    BY <2>2 DEF Idle
<1> QED
  BY <1>1, <1>2
-----------------------------------------------------------------------------
(* Attempts *)

\* A step of the attempt of q at u: it leaves a good attempt, clean pools, and
\* messages of forwarded queries.
AttemptStep(q, u) ==
    /\ UNCHANGED <<config, race>>
    /\ \E a \in AttemptType : GoodAttempt(q, u, a, Raced) /\ att' = [att EXCEPT ![q][u] = a]
    /\ pool' \in [Upstreams -> Pool]
    /\ socket' \in [Upstreams -> Queries \cup {NoSocket}]
    /\ net' \subseteq DatagramType /\ inbox' \subseteq DatagramType
    /\ \A m \in net' \cup inbox' : m.reply \in Raced

LEMMA AttemptStepInv ==
    ASSUME NEW q \in Queries, NEW u \in Configured, UpInv, AttemptStep(q, u), UNCHANGED question
    PROVE  UpInv'
<1>1. PICK a \in AttemptType : GoodAttempt(q, u, a, Raced) /\ att' = [att EXCEPT ![q][u] = a]
  BY DEF AttemptStep
<1>2. Raced' = Raced /\ UNCHANGED <<config, race, question>>
  BY DEF AttemptStep, Raced
<1>3. u \in Upstreams
  BY ConfigFacts
<1>4. att' \in [Queries -> [Upstreams -> AttemptType]]
  BY <1>1, <1>3 DEF UpInv
<1>5. ASSUME NEW p \in Queries, NEW v \in Upstreams
      PROVE  GoodAttempt(p, v, att'[p][v], Raced)
  <2>1. CASE p = q /\ v = u
    <3>1. att'[p][v] = a
      BY <1>1, <1>3, <2>1 DEF UpInv
    <3> QED
      BY <1>1, <2>1, <3>1
  <2>2. CASE ~(p = q /\ v = u)
    <3>1. att'[p][v] = att[p][v]
      BY <1>1, <2>2 DEF UpInv
    <3> QED
      BY <3>1 DEF UpInv
  <2> QED
    BY <2>1, <2>2
<1>6. \A p \in Queries, v \in Upstreams : GoodAttempt(p, v, att[p][v], Raced)'
  BY <1>2, <1>5 DEF GoodAttempt, Configured
<1>7. \A p \in Queries : GoodRace(p, Raced)'
  BY <1>2 DEF UpInv, GoodRace, UsesOnly, Configured, Asked
<1> QED
  BY <1>2, <1>4, <1>6, <1>7 DEF UpInv, AttemptStep

\* How an attempt ends.
LEMMA EndedAttempt ==
    ASSUME NEW q \in Raced, NEW u \in Configured
    PROVE  /\ GoodAttempt(q, u, [Attempt EXCEPT !.pc = "err"], Raced)
           /\ GoodAttempt(q, u, [Attempt EXCEPT !.pc = "connect"], Raced)
           /\ \A r \in Raced : r = q \/ config[u] = "udp" =>
                 GoodAttempt(q, u, [Attempt EXCEPT !.pc = "ok", !.reply = r], Raced)
<1>1. NewConn \in Conn
  BY DEF Conn, NewConn
<1>2. \A r \in Raced : r \in Queries /\ r # NoReply
  BY UpstreamAssumption DEF Raced
<1>3. \A p \in {"err", "connect"} :
         [Attempt EXCEPT !.pc = p] = [pc |-> p, conn |-> NewConn, sock |-> NoSocket, reply |-> NoReply]
  BY DEF Attempt
<1>4. \A r : [Attempt EXCEPT !.pc = "ok", !.reply = r]
                = [pc |-> "ok", conn |-> NewConn, sock |-> NoSocket, reply |-> r]
  <2> TAKE r
  <2> DEFINE ok == [pc |-> "ok", conn |-> NewConn, sock |-> NoSocket, reply |-> NoReply]
  <2>1. [Attempt EXCEPT !.pc = "ok"] = ok
    BY DEF Attempt
  <2>2. [Attempt EXCEPT !.pc = "ok", !.reply = r] = [[Attempt EXCEPT !.pc = "ok"] EXCEPT !.reply = r]
    BY DEF Attempt
  <2>3. [ok EXCEPT !.reply = r] = [pc |-> "ok", conn |-> NewConn, sock |-> NoSocket, reply |-> r]
    OBVIOUS
  <2> HIDE DEF ok
  <2> QED
    BY <2>1, <2>2, <2>3
<1>5. \A p \in {"err", "connect"} : GoodAttempt(q, u, [Attempt EXCEPT !.pc = p], Raced)
  BY <1>1, <1>3 DEF GoodAttempt, AttemptType, AttemptPcs
<1>6. \A r \in Raced : r = q \/ config[u] = "udp" =>
                 GoodAttempt(q, u, [Attempt EXCEPT !.pc = "ok", !.reply = r], Raced)
  BY <1>1, <1>2, <1>4 DEF GoodAttempt, AttemptType, AttemptPcs
<1> QED
  BY <1>5, <1>6

LEMMA OwnStepResult ==
    ASSUME NEW q \in Queries, NEW u \in Configured, UpInv, OwnStep(q, u) \/ PeerStep(q, u)
    PROVE  AttemptStep(q, u)
<1> DEFINE a == att[q][u]
<1>1. u \in Upstreams /\ config[u] \in Transports
  BY ConfigFacts
<1>2. a \in AttemptType /\ GoodAttempt(q, u, a, Raced)
  BY <1>1 DEF UpInv
<1>3. a.pc # "none" => q \in Raced
  BY <1>2 DEF GoodAttempt
<1>4. Raced \subseteq Queries
  BY DEF Raced
<1>5. /\ pool \in [Upstreams -> Pool]
      /\ socket \in [Upstreams -> Queries \cup {NoSocket}]
      /\ net \subseteq DatagramType /\ inbox \subseteq DatagramType
      /\ \A m \in net \cup inbox : m.reply \in Raced
      /\ att \in [Queries -> [Upstreams -> AttemptType]]
  BY DEF UpInv
<1>6. ASSUME Fail(q, u), a.pc # "none"
      PROVE  \E b \in AttemptType : GoodAttempt(q, u, b, Raced) /\ att' = [att EXCEPT ![q][u] = b]
  BY <1>3, <1>6, EndedAttempt DEF Fail, GoodAttempt
<1>7. ASSUME NEW r \in Raced, Receive(q, u, r), a.pc # "none", r = q \/ config[u] = "udp"
      PROVE  \E b \in AttemptType : GoodAttempt(q, u, b, Raced) /\ att' = [att EXCEPT ![q][u] = b]
  <2>1. /\ GoodAttempt(q, u, [Attempt EXCEPT !.pc = "err"], Raced)
        /\ GoodAttempt(q, u, [Attempt EXCEPT !.pc = "ok", !.reply = r], Raced)
    BY <1>3, <1>7, EndedAttempt
  <2>2. /\ [Attempt EXCEPT !.pc = "err"] \in AttemptType
        /\ [Attempt EXCEPT !.pc = "ok", !.reply = r] \in AttemptType
    BY <2>1, Zenon DEF GoodAttempt
  <2> QED
    BY <1>7, <2>1, <2>2, Zenon DEF Receive
<1>8. ASSUME NEW p, NEW p2 \in AttemptPcs \ {"none", "ok", "pooled", "fresh"}, Move(q, u, p, p2),
             a.pc \notin {"none", "ok", "pooled", "fresh"},
             p2 \in {"bind", "recv_from"} => config[u] = "udp"
      PROVE  \E b \in AttemptType : GoodAttempt(q, u, b, Raced) /\ att' = [att EXCEPT ![q][u] = b]
  <2> DEFINE b == [a EXCEPT !.pc = p2]
  <2>1. att' = [att EXCEPT ![q][u] = b]
    BY <1>1, <1>5, <1>8 DEF Move
  <2>2. GoodAttempt(q, u, b, Raced)
    BY <1>2, <1>8 DEF GoodAttempt, AttemptType
  <2> QED
    BY <2>1, <2>2 DEF GoodAttempt
<1>9. CASE Refused(q, u)
  <2>1. Move(q, u, "start", "err") /\ a.pc = "start"
    BY <1>9 DEF Refused, Move
  <2>2. \E b \in AttemptType : GoodAttempt(q, u, b, Raced) /\ att' = [att EXCEPT ![q][u] = b]
    BY <1>8, <2>1 DEF AttemptPcs
  <2> QED
    BY <1>5, <1>9, <2>2 DEF Refused, AttemptStep
<1>10. CASE UdpSend(q, u)
  <2> DEFINE b == [a EXCEPT !.pc = "recv_from", !.sock = socket[u]]
  <2>1. att' = [att EXCEPT ![q][u] = b]
    BY <1>1, <1>5, <1>10 DEF UdpSend
  <2>2. GoodAttempt(q, u, b, Raced)
    BY <1>1, <1>2, <1>5, <1>10 DEF UdpSend, GoodAttempt, AttemptType, AttemptPcs
  <2>3. Datagram(q, u, socket[u]) \in DatagramType /\ Datagram(q, u, socket[u]).reply \in Raced
    BY <1>1, <1>3, <1>5, <1>10 DEF UdpSend, Datagram, DatagramType
  <2> QED
    BY <1>5, <1>10, <2>1, <2>2, <2>3 DEF UdpSend, AttemptStep, GoodAttempt
<1>11. CASE UdpNoSocket(q, u)
  BY <1>5, <1>8, <1>11 DEF UdpNoSocket, Move, AttemptStep, AttemptPcs
<1>12. CASE UdpBind(q, u)
  <2>1. CASE Fail(q, u) /\ UNCHANGED <<socket, net>>
    BY <1>5, <1>6, <1>12, <2>1 DEF UdpBind, AttemptStep
  <2>2. CASE ~(Fail(q, u) /\ UNCHANGED <<socket, net>>)
    <3> DEFINE b == [a EXCEPT !.pc = "recv_from", !.sock = q]
    <3>1. att' = [att EXCEPT ![q][u] = b]
      BY <1>1, <1>5, <1>12, <2>2 DEF UdpBind
    <3>2. GoodAttempt(q, u, b, Raced)
      BY <1>1, <1>2, <1>5, <1>12 DEF UdpBind, GoodAttempt, AttemptType, AttemptPcs
    <3>3. Datagram(q, u, q) \in DatagramType /\ Datagram(q, u, q).reply \in Raced
      BY <1>1, <1>3, <1>12 DEF UdpBind, Datagram, DatagramType
    <3> QED
      BY <1>5, <1>12, <2>2, <3>1, <3>2, <3>3 DEF UdpBind, AttemptStep, GoodAttempt
  <2> QED
    BY <2>1, <2>2
<1>13. CASE UdpRecv(q, u)
  <2>1. PICK m \in inbox : Receive(q, u, m.reply) /\ inbox' = inbox \ {m}
    BY <1>13 DEF UdpRecv
  <2>2. m.reply \in Raced /\ config[u] = "udp" /\ a.pc # "none"
    BY <1>2, <1>5, <1>13 DEF UdpRecv, GoodAttempt
  <2> QED
    BY <1>5, <1>7, <1>13, <2>1, <2>2 DEF UdpRecv, AttemptStep
<1>14. CASE UdpGiveUp(q, u) \/ FreshFail(q, u)
  BY <1>5, <1>6, <1>14 DEF UdpGiveUp, FreshFail, AttemptStep
<1>15. CASE TakePooled(q, u)
  <2> DEFINE s == FreshPart(pool[u])
             b == [a EXCEPT !.pc = "pooled", !.conn = Asking(q)]
  <2>1. Front(s) \in Pool /\ Last(s) \in Idle
    BY <1>1, <1>5, <1>15, FreshPartType DEF TakePooled
  <2>2. Last(s).conn = NewConn
    BY <2>1 DEF Idle
  <2>3. att' = [att EXCEPT ![q][u] = b]
    BY <1>1, <1>5, <1>15, <2>2, ConnFacts DEF TakePooled
  <2>4. GoodAttempt(q, u, b, Raced)
    BY <1>2, <1>15, ConnFacts DEF TakePooled, GoodAttempt, AttemptType, AttemptPcs
  <2>5. pool' \in [Upstreams -> Pool]
    BY <1>5, <1>15, <2>1 DEF TakePooled
  <2> QED
    BY <1>5, <1>15, <2>3, <2>4, <2>5 DEF TakePooled, AttemptStep, GoodAttempt
<1>16. CASE TakeNone(q, u)
  <2>1. <<>> \in Pool
    BY UpstreamAssumption DEF Pool
  <2>2. Move(q, u, "start", "connect") /\ a.pc = "start"
    BY <1>16 DEF TakeNone, Move
  <2>3. \E b \in AttemptType : GoodAttempt(q, u, b, Raced) /\ att' = [att EXCEPT ![q][u] = b]
    BY <1>8, <2>2 DEF AttemptPcs
  <2>4. pool' \in [Upstreams -> Pool]
    BY <1>5, <1>16, <2>1 DEF TakeNone
  <2> QED
    BY <1>5, <1>16, <2>3, <2>4 DEF TakeNone, AttemptStep
<1>17. CASE StreamRecv(q, u)
  <2>1. a.conn = Delivered(q) /\ q \in Raced /\ a.pc # "none"
    BY <1>2, <1>3, <1>17, ConnFacts DEF StreamRecv, GoodAttempt
  <2>2. Head(a.conn.unread) = q /\ [a.conn EXCEPT !.unread = Tail(@)] = NewConn
    BY <2>1, ConnFacts
  <2>3. put(pool[u], NewConn) \in Pool
    BY <1>1, <1>5, PutType
  <2>4. pool' \in [Upstreams -> Pool]
    BY <1>5, <1>17, <2>2, <2>3 DEF StreamRecv
  <2>5. Receive(q, u, q)
    BY <1>17, <2>2 DEF StreamRecv
  <2> QED
    BY <1>5, <1>7, <1>17, <2>1, <2>4, <2>5 DEF StreamRecv, AttemptStep
<1>18. CASE PooledFail(q, u)
  BY <1>3, <1>5, <1>18, EndedAttempt DEF PooledFail, AttemptStep, GoodAttempt
<1>19. ASSUME att' = [att EXCEPT ![q][u] =
                        [@ EXCEPT !.pc = "fresh", !.conn = [NewConn EXCEPT !.owed = {q}]]],
              a.pc \in {"connect", "handshake"}
       PROVE  \E b \in AttemptType : GoodAttempt(q, u, b, Raced) /\ att' = [att EXCEPT ![q][u] = b]
  <2> DEFINE b == [a EXCEPT !.pc = "fresh", !.conn = Asking(q)]
  <2>1. att' = [att EXCEPT ![q][u] = b]
    BY <1>1, <1>5, <1>19, ConnFacts
  <2>2. GoodAttempt(q, u, b, Raced)
    BY <1>2, <1>19, ConnFacts DEF GoodAttempt, AttemptType, AttemptPcs
  <2> QED
    BY <2>1, <2>2 DEF GoodAttempt
<1>20. CASE Connect(q, u)
  <2>1. CASE Fail(q, u)
    BY <1>5, <1>6, <1>20, <2>1 DEF Connect, AttemptStep
  <2>2. CASE att' = [att EXCEPT ![q][u].pc = "handshake"]
    <3>1. Move(q, u, "connect", "handshake") /\ a.pc = "connect"
      BY <1>20, <2>2 DEF Connect, Move
    <3>2. \E b \in AttemptType : GoodAttempt(q, u, b, Raced) /\ att' = [att EXCEPT ![q][u] = b]
      BY <1>8, <3>1 DEF AttemptPcs
    <3> QED
      BY <1>5, <1>20, <3>2 DEF Connect, AttemptStep
  <2>3. CASE att' = [att EXCEPT ![q][u] =
                        [@ EXCEPT !.pc = "fresh", !.conn = [NewConn EXCEPT !.owed = {q}]]]
    BY <1>5, <1>19, <1>20, <2>3 DEF Connect, AttemptStep
  <2> QED
    BY <1>20, <2>1, <2>2, <2>3 DEF Connect
<1>21. CASE Handshake(q, u)
  <2>1. CASE Fail(q, u)
    BY <1>5, <1>6, <1>21, <2>1 DEF Handshake, AttemptStep
  <2>2. CASE ~Fail(q, u)
    BY <1>5, <1>19, <1>21, <2>2 DEF Handshake, AttemptStep
  <2> QED
    BY <2>1, <2>2
<1>22. CASE HttpRequest(q, u)
  <2>1. CASE Fail(q, u)
    BY <1>5, <1>6, <1>22, <2>1 DEF HttpRequest, AttemptStep
  <2>2. CASE ~Fail(q, u)
    <3>1. Move(q, u, "start", "body") /\ a.pc = "start"
      BY <1>22, <2>2 DEF HttpRequest, Move
    <3>2. \E b \in AttemptType : GoodAttempt(q, u, b, Raced) /\ att' = [att EXCEPT ![q][u] = b]
      BY <1>8, <3>1 DEF AttemptPcs
    <3> QED
      BY <1>5, <1>22, <3>2 DEF HttpRequest, AttemptStep
  <2> QED
    BY <2>1, <2>2
<1>23. CASE HttpBody(q, u)
  BY <1>3, <1>5, <1>7, <1>23 DEF HttpBody, AttemptStep
<1>24. CASE StreamReply(q, u)
  <2> DEFINE b == [a EXCEPT !.conn = Delivered(q)]
  <2>1. PICK r \in a.conn.owed :
           att' = [att EXCEPT ![q][u].conn =
                     [unread |-> Append(@.unread, r), owed |-> @.owed \ {r}]]
    BY <1>24 DEF StreamReply
  <2>2. a.conn = Asking(q) /\ r = q
    BY <1>2, <1>24, <2>1, ConnFacts DEF StreamReply, GoodAttempt
  <2>3. [unread |-> Append(a.conn.unread, r), owed |-> a.conn.owed \ {r}] = Delivered(q)
    BY <2>2, ConnFacts
  <2>4. att' = [att EXCEPT ![q][u] = b]
    BY <1>1, <1>5, <2>1, <2>3
  <2>5. GoodAttempt(q, u, b, Raced)
    BY <1>2, <1>24, ConnFacts DEF StreamReply, GoodAttempt, AttemptType, AttemptPcs
  <2> QED
    BY <1>5, <1>24, <2>4, <2>5 DEF StreamReply, AttemptStep, GoodAttempt
<1> QED
  BY <1>9, <1>10, <1>11, <1>12, <1>13, <1>14, <1>15, <1>16, <1>17, <1>18, <1>20, <1>21, <1>22,
     <1>23, <1>24 DEF OwnStep, PeerStep
-----------------------------------------------------------------------------
(* Races, the network and the pools *)

\* The race of q moves on, and no attempt with it.
LEMMA RaceStepInv ==
    ASSUME NEW q \in Raced, UpInv, NEW r \in RaceType, r.pc # "idle",
           race' = [race EXCEPT ![q] = r],
           r.pc = "won" <=> r.reply # NoReply,
           r.reply \in Raced \cup {NoReply},
           r.reply \notin {q, NoReply} => ~UsesOnly(Transports \ {"udp"}),
           UNCHANGED <<config, att, pool, socket, net, inbox, question>>
    PROVE  UpInv'
<1>1. q \in Queries /\ race[q].pc # "idle"
  BY DEF Raced
<1>2. race' \in [Queries -> RaceType]
  BY <1>1 DEF UpInv
<1>3. \A p \in Queries : race'[p] = IF p = q THEN r ELSE race[p]
  BY <1>1 DEF UpInv
<1>4. Raced' = Raced
  BY <1>1, <1>3 DEF Raced
<1>5. UsesOnly(Transports \ {"udp"})' <=> UsesOnly(Transports \ {"udp"})
  BY DEF UsesOnly, Configured
<1>6. ASSUME NEW p \in Queries PROVE GoodRace(p, Raced)'
  <2>1. GoodRace(p, Raced) /\ GoodRace(q, Raced)
    BY <1>1 DEF UpInv
  <2>2. CASE p = q
    BY <1>1, <1>3, <1>4, <1>5, <2>1, <2>2 DEF GoodRace, Asked
  <2>3. CASE p # q
    BY <1>3, <1>4, <1>5, <2>1, <2>3 DEF GoodRace, Asked
  <2> QED
    BY <2>2, <2>3
<1>7. \A p \in Queries, v \in Upstreams : GoodAttempt(p, v, att[p][v], Raced)'
  BY <1>4 DEF UpInv, GoodAttempt, Configured
<1> QED
  BY <1>2, <1>4, <1>6, <1>7 DEF UpInv

LEMMA UpNextInv == UpInv /\ UpNext /\ UNCHANGED question => UpInv'
<1> SUFFICES ASSUME UpInv, UpNext, UNCHANGED question PROVE UpInv'
  OBVIOUS
<1>1. ASSUME NEW q \in Queries, ForwardWin(q) PROVE UpInv'
  <2>1. PICK u \in Configured : /\ att[q][u].pc = "ok"
                                /\ race' = [race EXCEPT ![q] = [pc |-> "won", reply |-> att[q][u].reply]]
    BY <1>1 DEF ForwardWin
  <2>2. u \in Upstreams
    BY ConfigFacts
  <2> DEFINE r == [pc |-> "won", reply |-> att[q][u].reply]
  <2>3. GoodAttempt(q, u, att[q][u], Raced)
    BY <2>2 DEF UpInv
  <2>4. r \in RaceType /\ r.pc = "won" /\ r.reply # NoReply /\ r.reply \in Raced /\ q \in Raced
    BY <2>1, <2>3 DEF GoodAttempt, RaceType, Raced
  <2>5. r.reply # q => ~UsesOnly(Transports \ {"udp"})
    BY <2>3, <2>4 DEF GoodAttempt, UsesOnly
  <2>6. race' = [race EXCEPT ![q] = r]
    BY <2>1
  <2>7. UNCHANGED <<config, att, pool, socket, net, inbox, question>>
    BY <1>1 DEF ForwardWin
  <2> HIDE DEF r
  <2> QED
    BY <2>4, <2>5, <2>6, <2>7, RaceStepInv
<1>2. ASSUME NEW q \in Queries, ForwardAllFailed(q) PROVE UpInv'
  <2> DEFINE r == [race[q] EXCEPT !.pc = "failed"]
  <2>1. GoodRace(q, Raced) /\ race[q] \in RaceType /\ race[q].pc = "racing"
    BY <1>2 DEF UpInv, ForwardAllFailed
  <2>2. r \in RaceType /\ r.pc = "failed" /\ r.reply = race[q].reply /\ race[q].reply = NoReply
    BY <2>1 DEF GoodRace, RaceType
  <2>3. race' = [race EXCEPT ![q] = r]
    BY <1>2 DEF ForwardAllFailed, UpInv
  <2>4. q \in Raced
    BY <2>1 DEF Raced
  <2>5. UNCHANGED <<config, att, pool, socket, net, inbox, question>>
    BY <1>2 DEF ForwardAllFailed
  <2> HIDE DEF r
  <2> QED
    BY <2>2, <2>3, <2>4, <2>5, RaceStepInv
<1>3. ASSUME NEW q \in Queries, NEW u \in Configured, OwnStep(q, u) \/ PeerStep(q, u) PROVE UpInv'
  BY <1>3, OwnStepResult, AttemptStepInv
<1>4. ASSUME UNCHANGED <<config, race, att, socket, question>>,
             pool' \in [Upstreams -> Pool],
             net' \subseteq net, inbox' \subseteq inbox \cup net
      PROVE  UpInv'
  <2>1. Raced' = Raced
    BY <1>4 DEF Raced
  <2>2. \A p \in Queries : GoodRace(p, Raced)'
    BY <1>4, <2>1 DEF UpInv, GoodRace, UsesOnly, Configured, Asked
  <2>3. \A p \in Queries, v \in Upstreams : GoodAttempt(p, v, att[p][v], Raced)'
    BY <1>4, <2>1 DEF UpInv, GoodAttempt, Configured
  <2>4. net' \subseteq DatagramType /\ inbox' \subseteq DatagramType
        /\ \A m \in net' \cup inbox' : m.reply \in Raced
    BY <1>4 DEF UpInv
  <2> QED
    BY <1>4, <2>1, <2>2, <2>3, <2>4 DEF UpInv
<1>5. CASE UdpArrive
  BY <1>4, <1>5 DEF UdpArrive, UpInv
<1>6. ASSUME NEW u \in Configured, PoolAge(u) PROVE UpInv'
  <2>1. u \in Upstreams
    BY ConfigFacts
  <2>2. PICK i \in DOMAIN pool[u] : pool' = [pool EXCEPT ![u][i].old = TRUE]
    BY <1>6 DEF PoolAge
  <2>3. pool[u] \in Seq(Idle) /\ Len(pool[u]) <= MaxIdle /\ pool[u][i] \in Idle /\ i \in 1 .. Len(pool[u])
    BY <2>1 DEF UpInv, Pool
  <2> DEFINE e == [pool[u][i] EXCEPT !.old = TRUE]
             t == [pool[u] EXCEPT ![i] = e]
  <2>4. e \in Idle
    BY <2>3 DEF Idle
  <2> HIDE DEF e
  <2>5. t \in Seq(Idle) /\ Len(t) = Len(pool[u])
    BY <2>3, <2>4, ExceptSeq
  <2>6. t \in Pool
    BY <2>3, <2>5 DEF Pool
  <2>7. pool' = [pool EXCEPT ![u] = t]
    BY <2>1, <2>2 DEF UpInv, e
  <2> HIDE DEF t
  <2>8. pool' \in [Upstreams -> Pool]
    BY <2>6, <2>7 DEF UpInv
  <2> QED
    BY <1>4, <1>6, <2>8 DEF PoolAge
<1> QED
  BY <1>1, <1>2, <1>3, <1>5, <1>6 DEF UpNext

\* CacheMiss: the attempts of q start, and q is forwarded from now on.
LEMMA ForwardBeginInv ==
    ASSUME NEW q \in Queries, UpInv, q \in Asked, question[q] \in Questions, ForwardBegin(q),
           UNCHANGED question
    PROVE  UpInv' /\ Raced \subseteq Raced'
<1>1. race' = [race EXCEPT ![q] = [race[q] EXCEPT !.pc = "racing"]]
  BY DEF ForwardBegin, UpInv
<1>2. race[q] \in RaceType /\ GoodRace(q, Raced) /\ race[q].reply = NoReply
  BY DEF UpInv, GoodRace, ForwardBegin
<1>3. race' \in [Queries -> RaceType]
  BY <1>1, <1>2 DEF UpInv, RaceType
<1>4. \A p \in Queries : p # q => race'[p] = race[p]
  BY <1>1 DEF UpInv
<1>5. race'[q].pc = "racing" /\ race'[q].reply = NoReply
  BY <1>1, <1>2 DEF UpInv, RaceType
<1>6. Raced \subseteq Raced' /\ q \in Raced'
  BY <1>4, <1>5 DEF Raced
<1>7. UNCHANGED <<config, pool, socket, net, inbox, question>>
  BY DEF ForwardBegin
<1>8. ASSUME NEW p \in Queries PROVE GoodRace(p, Raced)'
  <2>1. CASE p = q
    BY <1>3, <1>5, <1>7, <2>1 DEF GoodRace, Asked
  <2>2. CASE p # q
    <3>1. GoodRace(p, Raced)
      BY DEF UpInv
    <3> QED
      BY <1>4, <1>6, <1>7, <2>2, <3>1 DEF GoodRace, UsesOnly, Configured, Asked
  <2> QED
    BY <2>1, <2>2
<1>9. ASSUME NEW v \in Upstreams
      PROVE  /\ att'[q][v] \in AttemptType
             /\ GoodAttempt(q, v, att[q][v], Raced)'
  <2>1. att'[q][v] = [Attempt EXCEPT !.pc = IF v \in Configured THEN "start" ELSE "none"]
    BY DEF ForwardBegin, UpInv
  <2>2. \A p : [Attempt EXCEPT !.pc = p] = [pc |-> p, conn |-> NewConn, sock |-> NoSocket, reply |-> NoReply]
    BY DEF Attempt
  <2>3. NewConn \in Conn
    BY DEF Conn, NewConn
  <2>4. CASE v \in Configured
    BY <1>6, <1>7, <2>1, <2>2, <2>3, <2>4 DEF GoodAttempt, AttemptType, AttemptPcs, Configured
  <2>5. CASE v \notin Configured
    BY <1>6, <1>7, <2>1, <2>2, <2>3, <2>5 DEF GoodAttempt, AttemptType, AttemptPcs, Configured
  <2> QED
    BY <2>4, <2>5
<1>10. ASSUME NEW p \in Queries, NEW v \in Upstreams
       PROVE  GoodAttempt(p, v, att[p][v], Raced)'
  <2>1. CASE p = q
    BY <1>9, <2>1
  <2>2. CASE p # q
    <3>1. att'[p][v] = att[p][v]
      BY <2>2 DEF ForwardBegin, UpInv
    <3>2. GoodAttempt(p, v, att[p][v], Raced)
      BY DEF UpInv
    <3> QED
      BY <1>6, <1>7, <3>1, <3>2 DEF GoodAttempt, Configured
  <2> QED
    BY <2>1, <2>2
<1>11. att' \in [Queries -> [Upstreams -> AttemptType]]
  <2>1. att'[q] \in [Upstreams -> AttemptType]
    <3>1. att'[q] = [u \in Upstreams |-> att'[q][u]]
      BY DEF ForwardBegin, UpInv
    <3> QED
      BY <1>9, <3>1
  <2> QED
    BY <2>1 DEF ForwardBegin, UpInv
<1> QED
  BY <1>3, <1>6, <1>7, <1>8, <1>10, <1>11 DEF UpInv
-----------------------------------------------------------------------------
(* The handler *)

\* What the answer to q must be.
GoodReply(q, r) ==
    /\ r \in ReplyType
    /\ UsesOnly(Transports \ {"udp"}) /\ r.kind \in {"cache", "upstream"} =>
          r.id = q /\ r.about = question[q]

LEMMA AnswerInv ==
    ASSUME NEW q \in Queries, NEW r, HandlerInv, GoodReply(q, r), Answer(q, r),
           UNCHANGED <<config, question>>
    PROVE  (reply \in [Queries -> ReplyType])' /\ AnswersOwnQuestion'
<1>1. reply' = [reply EXCEPT ![q] = r] /\ reply \in [Queries -> ReplyType] /\ r \in ReplyType
  BY DEF Answer, HandlerInv, GoodReply
<1>2. reply' \in [Queries -> ReplyType]
  BY <1>1
<1>3. UsesOnly(Transports \ {"udp"})' <=> UsesOnly(Transports \ {"udp"})
  BY DEF UsesOnly, Configured
<1>4. \A p \in Queries : reply'[p] = IF p = q THEN r ELSE reply[p]
  BY <1>1
<1>5. AnswersOwnQuestion'
  BY <1>3, <1>4 DEF HandlerInv, AnswersOwnQuestion, GoodReply
<1> QED
  BY <1>2, <1>5

LEMMA HandlerFrame ==
    ASSUME HandlerInv, UNCHANGED <<config, question, cache, reply>>, Raced \subseteq Raced'
    PROVE  HandlerInv'
<1>1. UsesOnly(Transports \ {"udp"})' <=> UsesOnly(Transports \ {"udp"})
  BY DEF UsesOnly, Configured
<1> QED
  BY <1>1 DEF HandlerInv, AnswersOwnQuestion

\* A step of the upstream client takes no forwarded query back.
LEMMA RacedLasts == UpInv /\ UpNext => Raced \subseteq Raced' /\ UNCHANGED config
<1> SUFFICES ASSUME UpInv, UpNext PROVE Raced \subseteq Raced' /\ UNCHANGED config
  OBVIOUS
<1>1. ASSUME NEW q \in Queries, ForwardWin(q) \/ ForwardAllFailed(q)
      PROVE  Raced \subseteq Raced' /\ UNCHANGED config
  <2>1. PICK r \in {"won", "failed"} : \A p \in Queries :
           race'[p].pc = IF p = q THEN r ELSE race[p].pc
    BY <1>1 DEF ForwardWin, ForwardAllFailed, UpInv, RaceType
  <2> QED
    BY <1>1, <2>1 DEF ForwardWin, ForwardAllFailed, Raced
<1>2. ASSUME NEW q \in Queries, NEW u \in Configured, OwnStep(q, u) \/ PeerStep(q, u)
      PROVE  Raced \subseteq Raced' /\ UNCHANGED config
  BY <1>2, OwnStepResult DEF AttemptStep, Raced
<1> QED
  BY <1>1, <1>2 DEF UpNext, UdpArrive, PoolAge, Raced

LEMMA ResolverStep ==
    UpInv /\ HandlerInv /\ [Next]_vars => UpInv' /\ HandlerInv'
<1> SUFFICES ASSUME UpInv, HandlerInv, [Next]_vars PROVE UpInv' /\ HandlerInv'
  OBVIOUS
<1>1. ASSUME UNCHANGED <<upVars, question>>
      PROVE  UpInv' /\ Raced' = Raced
             /\ (UsesOnly(Transports \ {"udp"})' <=> UsesOnly(Transports \ {"udp"}))
  BY <1>1 DEF upVars, UpInv, GoodRace, GoodAttempt, Raced, UsesOnly, Configured, Asked
<1>2. ASSUME NEW q \in Queries, NEW r, GoodReply(q, r), Answer(q, r),
             UNCHANGED <<upVars, question, cache>>
      PROVE  UpInv' /\ HandlerInv'
  <2>1. UNCHANGED <<config, question, cache>>
    BY <1>2 DEF upVars
  <2> QED
    BY <1>1, <1>2, <2>1, AnswerInv DEF HandlerInv
<1>3. ASSUME NEW q \in Queries, New(q)
      PROVE  q \in Asked /\ question[q] \in Questions \cup {NoQuestion, Garbled}
  BY <1>3, ConfigFacts DEF New
<1>4. ASSUME NEW q \in Queries, Malformed(q) PROVE UpInv' /\ HandlerInv'
  <2>1. /\ GoodReply(q, Reply("formerr", NoId, NoQuestion))
        /\ GoodReply(q, Reply("formerr", q, NoQuestion))
    BY DEF GoodReply, Reply, ReplyType, Kinds
  <2> QED
    BY <1>2, <1>4, <2>1 DEF Malformed
<1>5. ASSUME NEW q \in Queries, Override(q) PROVE UpInv' /\ HandlerInv'
  <2>1. GoodReply(q, Reply("override", q, question[q]))
    BY <1>5 DEF Override, WellFormed, GoodReply, Reply, ReplyType, Kinds
  <2> QED
    BY <1>2, <1>5, <2>1 DEF Override
<1>6. ASSUME NEW q \in Queries, CacheHit(q) PROVE UpInv' /\ HandlerInv'
  <2> DEFINE c == cache[question[q]]
  <2>1. question[q] \in Questions /\ c \in Raced
    BY <1>6 DEF CacheHit, WellFormed, HandlerInv
  <2>2. question[c] \in Questions
    BY <2>1 DEF UpInv, GoodRace, Raced
  <2>3. GoodReply(q, Reply("cache", q, question[c]))
    BY <1>6, <2>1, <2>2 DEF CacheHit, HandlerInv, GoodReply, Reply, ReplyType, Kinds
  <2> QED
    BY <1>2, <1>6, <2>3 DEF CacheHit
<1>7. ASSUME NEW q \in Queries, CacheMiss(q) PROVE UpInv' /\ HandlerInv'
  <2>1. UpInv' /\ Raced \subseteq Raced'
    BY <1>3, <1>7, ForwardBeginInv DEF CacheMiss, WellFormed
  <2>2. UNCHANGED <<config, question, cache, reply>>
    BY <1>7 DEF CacheMiss, ForwardBegin
  <2> QED
    BY <2>1, <2>2, HandlerFrame
<1>8. ASSUME NEW q \in Queries, Forwarded(q) PROVE UpInv' /\ HandlerInv'
  <2> DEFINE c == race[q].reply
  <2>1. GoodRace(q, Raced) /\ q \in Asked /\ question[q] \in Questions /\ c \in Raced
    BY <1>8 DEF Forwarded, UpInv, GoodRace
  <2>2. c \in Queries /\ question[c] \in Questions
    BY <2>1 DEF UpInv, GoodRace, Raced
  <2>3. c # q => ~UsesOnly(Transports \ {"udp"})
    BY <2>1, UpstreamAssumption DEF GoodRace, Raced
  <2>4. GoodReply(q, Reply("upstream", c, question[c]))
    BY <2>2, <2>3 DEF GoodReply, Reply, ReplyType, Kinds
  <2>5. UpInv' /\ Raced' = Raced
        /\ (UsesOnly(Transports \ {"udp"})' <=> UsesOnly(Transports \ {"udp"}))
    BY <1>1, <1>8 DEF Forwarded
  <2>6. (reply \in [Queries -> ReplyType])' /\ AnswersOwnQuestion'
    BY <1>8, <2>4, AnswerInv DEF Forwarded, upVars
  <2>7. cache' \in [Questions -> Raced \cup {NoReply}]
    BY <1>8, <2>1 DEF Forwarded, HandlerInv
  <2>8. ASSUME UsesOnly(Transports \ {"udp"}), NEW d \in Questions, cache'[d] # NoReply
        PROVE  question[cache'[d]] = d
    <3>1. cache'[d] = cache[d] \/ (d = question[q] /\ cache'[d] = c)
      BY <1>8 DEF Forwarded, HandlerInv
    <3> QED
      BY <2>3, <2>8, <3>1 DEF HandlerInv
  <2>9. UNCHANGED question
    BY <1>8 DEF Forwarded
  <2> QED
    BY <2>5, <2>6, <2>7, <2>8, <2>9 DEF HandlerInv
<1>9. ASSUME NEW q \in Queries, ServFail(q) PROVE UpInv' /\ HandlerInv'
  <2>1. question[q] \in Questions
    BY <1>9 DEF ServFail, UpInv, GoodRace
  <2>2. GoodReply(q, Reply("servfail", q, question[q]))
    BY <2>1 DEF GoodReply, Reply, ReplyType, Kinds
  <2> QED
    BY <1>2, <1>9, <2>2 DEF ServFail
<1>10. CASE UpNext /\ UNCHANGED <<question, cache, reply>>
  BY <1>10, UpNextInv, RacedLasts, HandlerFrame
<1>11. CASE CacheForget
  <2>1. UpInv' /\ Raced' = Raced
        /\ (UsesOnly(Transports \ {"udp"})' <=> UsesOnly(Transports \ {"udp"}))
    BY <1>1, <1>11 DEF CacheForget
  <2>2. cache' \in [Questions -> Raced \cup {NoReply}]
    BY <1>11 DEF CacheForget, HandlerInv
  <2>3. \A d \in Questions : cache'[d] \in {cache[d], NoReply}
    BY <1>11 DEF CacheForget, HandlerInv
  <2>4. UNCHANGED <<question, reply>>
    BY <1>11 DEF CacheForget
  <2> QED
    BY <2>1, <2>2, <2>3, <2>4 DEF HandlerInv, AnswersOwnQuestion
<1>12. CASE UNCHANGED vars
  <2>1. UNCHANGED <<upVars, question, cache, reply>> /\ UNCHANGED config
    BY <1>12 DEF vars, upVars
  <2>2. UpInv' /\ Raced' = Raced
    BY <1>1, <2>1
  <2> QED
    BY <2>1, <2>2, HandlerFrame
<1> QED
  BY <1>4, <1>5, <1>6, <1>7, <1>8, <1>9, <1>10, <1>11, <1>12 DEF Next, Handle

LEMMA ResolverInvariant == Spec => [](UpInv /\ HandlerInv)
  BY InitInv, ResolverStep, PTL DEF Spec

\* Type correctness of handle_dns_query and of the upstream client: a pool never
\* outgrows POOL_MAX_IDLE, a race that was won has a reply, and every reply that
\* a listener sends is about a question or about none.
THEOREM ResolverTypeCorrect == Spec => []TypeOK
  BY ResolverInvariant, InvImplies, PTL

\* take, put and the failure paths of forward_tcp and forward_tls: whatever
\* attempts share a pool, no connection in it has an unread reply or an
\* unanswered query.
THEOREM PooledConnectionsHold == Spec => []PooledConnectionsAreClean
  BY ResolverInvariant, InvImplies, PTL

\* Without UDP upstreams, a client of handle_dns_query gets an answer under its
\* own id and about its own question, from the cache or from an upstream,
\* however many queries share connections and whichever rivals run on.
THEOREM AnswersOwnQuestionHolds == Spec => []AnswersOwnQuestion
<1>1. HandlerInv => AnswersOwnQuestion
  BY DEF HandlerInv
<1> QED
  BY <1>1, ResolverInvariant, PTL
=============================================================================
