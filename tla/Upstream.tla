------------------------------ MODULE Upstream ------------------------------
(***************************************************************************)
(* border-dns-upstream: a query is raced against every configured          *)
(* upstream.  Each attempt is a spawned task of its own:                   *)
(*   - UDP attempts to one upstream share one socket and take whatever     *)
(*     datagram it delivers next;                                          *)
(*   - TCP and TLS attempts take an idle connection from a bounded pool    *)
(*     and fall back to a fresh one when the exchange on it fails;         *)
(*   - HTTPS attempts use a client library; QUIC is refused.               *)
(* The first attempt to succeed decides the query.  Its rivals are tasks   *)
(* that nobody aborts, so they run on.                                     *)
(*                                                                         *)
(* A message is reduced to the query it replies to.  Timers are reduced to *)
(* the possibility of giving up; they exist exactly where the code has     *)
(* them.  A connection older than the idle timeout carries a mark.         *)
(***************************************************************************)
EXTENDS Integers, Sequences, SequencesExt

CONSTANTS
    Queries,     \* the queries the process is asked, each by its own task
    Upstreams,   \* upstream addresses
    Configs,     \* upstream configurations: from sets of Upstreams to Transports
    MaxIdle,     \* POOL_MAX_IDLE
    NoSocket, NoReply

\* "invalid" stands for an endpoint that does not parse as an address.
Transports == {"udp", "tcp", "tls", "https", "quic", "invalid"}

ASSUME UpstreamAssumption ==
    /\ MaxIdle \in Nat
    /\ NoSocket \notin Queries /\ NoReply \notin Queries
    /\ \A cfg \in Configs : /\ DOMAIN cfg \subseteq Upstreams
                            /\ \A u \in DOMAIN cfg : cfg[u] \in Transports

VARIABLES
    config,   \* the configuration in use
    race,     \* race[q]: where forward(q) is, and the reply it returned
    att,      \* att[q][u]: the attempt of q at upstream u
    pool,     \* pool[u]: idle connections, the last one put back at the end
    socket,   \* socket[u]: the UDP socket in UDP_SOCKETS, named by its binder
    net,      \* UDP replies under way to a socket
    inbox     \* UDP replies waiting in a socket

upVars == <<config, race, att, pool, socket, net, inbox>>

\* A stream connection: replies it has delivered that nobody read yet, and the
\* queries sent on it that the server has not answered yet.
NewConn == [unread |-> <<>>, owed |-> {}]

Attempt == [pc |-> "none", conn |-> NewConn, sock |-> NoSocket, reply |-> NoReply]

UpInit ==
    /\ config \in Configs
    /\ race = [q \in Queries |-> [pc |-> "idle", reply |-> NoReply]]
    /\ att = [q \in Queries |-> [u \in Upstreams |-> Attempt]]
    /\ pool = [u \in Upstreams |-> <<>>]
    /\ socket = [u \in Upstreams |-> NoSocket]
    /\ net = {}
    /\ inbox = {}

Configured == DOMAIN config

\* Attempt (q, u) moves from step p to step p2.
Move(q, u, p, p2) ==
    /\ att[q][u].pc = p
    /\ att' = [att EXCEPT ![q][u].pc = p2]

\* The attempt has its reply bytes; they parse, or the attempt fails.
Receive(q, u, reply) ==
    \/ att' = [att EXCEPT ![q][u] = [Attempt EXCEPT !.pc = "ok", !.reply = reply]]
    \/ att' = [att EXCEPT ![q][u] = [Attempt EXCEPT !.pc = "err"]]

Fail(q, u) == att' = [att EXCEPT ![q][u] = [Attempt EXCEPT !.pc = "err"]]
-----------------------------------------------------------------------------
(* forward *)

\* One task is spawned per configured upstream.
ForwardBegin(q) ==
    /\ race[q].pc = "idle"
    /\ race' = [race EXCEPT ![q].pc = "racing"]
    /\ att' = [att EXCEPT ![q] = [u \in Upstreams |->
                  [Attempt EXCEPT !.pc = IF u \in Configured THEN "start" ELSE "none"]]]
    /\ UNCHANGED <<config, pool, socket, net, inbox>>

ForwardWin(q) ==
    /\ race[q].pc = "racing"
    /\ \E u \in Configured :
          /\ att[q][u].pc = "ok"
          /\ race' = [race EXCEPT ![q] = [pc |-> "won", reply |-> att[q][u].reply]]
    /\ UNCHANGED <<config, att, pool, socket, net, inbox>>

\* AllFailed, also when no upstream is configured.
ForwardAllFailed(q) ==
    /\ race[q].pc = "racing"
    /\ \A u \in Configured : att[q][u].pc = "err"
    /\ race' = [race EXCEPT ![q].pc = "failed"]
    /\ UNCHANGED <<config, att, pool, socket, net, inbox>>
-----------------------------------------------------------------------------
(* forward_single, forward_udp *)

\* QUIC is not implemented, and an endpoint that is no address is an error.
Refused(q, u) ==
    /\ config[u] \in {"quic", "invalid"}
    /\ Move(q, u, "start", "err")
    /\ UNCHANGED <<config, race, pool, socket, net, inbox>>

Datagram(q, u, s) == [u |-> u, sock |-> s, reply |-> q]

\* get_udp_socket finds the shared socket and the query is sent on it.
UdpSend(q, u) ==
    /\ config[u] = "udp"
    /\ socket[u] # NoSocket
    /\ att[q][u].pc = "start"
    /\ att' = [att EXCEPT ![q][u] = [@ EXCEPT !.pc = "recv_from", !.sock = socket[u]]]
    /\ net' = net \cup {Datagram(q, u, socket[u])}
    /\ UNCHANGED <<config, race, pool, socket, inbox>>

\* get_udp_socket finds none: between this look and the insertion of the new
\* socket another attempt may do the same.
UdpNoSocket(q, u) ==
    /\ config[u] = "udp"
    /\ socket[u] = NoSocket
    /\ Move(q, u, "start", "bind")
    /\ UNCHANGED <<config, race, pool, socket, net, inbox>>

UdpBind(q, u) ==
    /\ att[q][u].pc = "bind"
    /\ \/ /\ socket' = [socket EXCEPT ![u] = q]
          /\ att' = [att EXCEPT ![q][u] = [@ EXCEPT !.pc = "recv_from", !.sock = q]]
          /\ net' = net \cup {Datagram(q, u, q)}
       \/ /\ Fail(q, u)
          /\ UNCHANGED <<socket, net>>
    /\ UNCHANGED <<config, race, pool, inbox>>

\* The network: a reply reaches the socket, is duplicated, or is lost.
UdpArrive ==
    /\ \E m \in net :
          \/ inbox' = inbox \cup {m} /\ net' = net \ {m}
          \/ inbox' = inbox \cup {m} /\ UNCHANGED net
          \/ net' = net \ {m} /\ UNCHANGED inbox
    /\ UNCHANGED <<config, race, att, pool, socket>>

\* recv_from takes any datagram of the socket: neither its id nor its question
\* is compared with the query.
UdpRecv(q, u) ==
    /\ att[q][u].pc = "recv_from"
    /\ \E m \in inbox :
          /\ m.u = u /\ m.sock = att[q][u].sock
          /\ Receive(q, u, m.reply)
          /\ inbox' = inbox \ {m}
    /\ UNCHANGED <<config, race, pool, socket, net>>

\* The timer, or an I/O error.  A late reply stays for the next reader.
UdpGiveUp(q, u) ==
    /\ att[q][u].pc = "recv_from"
    /\ Fail(q, u)
    /\ UNCHANGED <<config, race, pool, socket, net, inbox>>
-----------------------------------------------------------------------------
(* ConnPool *)

\* The stale connections at the back are dropped.
FreshPart(s) ==
    LET fresh == {i \in DOMAIN s : ~s[i].old}
    IN  SubSeq(s, 1, IF fresh = {} THEN 0 ELSE Max(fresh))

\* Slip: the limit is not looked at.
put_always(s, conn) == Append(s, [conn |-> conn, old |-> FALSE])

\* The pool after put: a full pool drops the connection.
put(s, conn) ==
    IF Len(s) < MaxIdle THEN Append(s, [conn |-> conn, old |-> FALSE]) ELSE s

\* Time passes: the connection that has been idle longest becomes stale.
PoolAge(u) ==
    /\ \E i \in DOMAIN pool[u] :
          /\ ~pool[u][i].old
          /\ \A j \in 1 .. (i - 1) : pool[u][j].old
          /\ pool' = [pool EXCEPT ![u][i].old = TRUE]
    /\ UNCHANGED <<config, race, att, socket, net, inbox>>
-----------------------------------------------------------------------------
(* forward_tcp and forward_tls *)

Streams == {"tcp", "tls"}

\* take gives a connection and the query is sent on it.
TakePooled(q, u) ==
    LET s == FreshPart(pool[u]) IN
    /\ config[u] \in Streams
    /\ att[q][u].pc = "start"
    /\ s # <<>>
    /\ pool' = [pool EXCEPT ![u] = Front(s)]
    /\ att' = [att EXCEPT ![q][u] = [@ EXCEPT !.pc = "pooled",
                                              !.conn = [Last(s).conn EXCEPT !.owed = @ \cup {q}]]]
    /\ UNCHANGED <<config, race, socket, net, inbox>>

TakeNone(q, u) ==
    /\ config[u] \in Streams
    /\ FreshPart(pool[u]) = <<>>
    /\ Move(q, u, "start", "connect")
    /\ pool' = [pool EXCEPT ![u] = <<>>]
    /\ UNCHANGED <<config, race, socket, net, inbox>>

\* The server answers a query sent on the connection.
StreamReply(q, u) ==
    /\ att[q][u].pc \in {"pooled", "fresh"}
    /\ \E r \in att[q][u].conn.owed :
          att' = [att EXCEPT ![q][u].conn =
                    [unread |-> Append(@.unread, r), owed |-> @.owed \ {r}]]
    /\ UNCHANGED <<config, race, pool, socket, net, inbox>>

\* The next frame on the connection is taken for the answer, and the
\* connection goes back to the pool before the frame is parsed.
StreamRecv(q, u) ==
    LET conn == att[q][u].conn IN
    /\ att[q][u].pc \in {"pooled", "fresh"}
    /\ conn.unread # <<>>
    /\ Receive(q, u, Head(conn.unread))
    /\ pool' = [pool EXCEPT ![u] = put(@, [conn EXCEPT !.unread = Tail(@)])]
    /\ UNCHANGED <<config, race, socket, net, inbox>>

\* Slip: a connection whose exchange timed out goes back to the pool.
PooledFail_keeps(q, u) ==
    /\ Move(q, u, "pooled", "connect")
    /\ pool' = [pool EXCEPT ![u] = put(@, att[q][u].conn)]
    /\ UNCHANGED <<config, race, socket, net, inbox>>

\* The exchange fails or times out: the connection is dropped and a fresh one
\* is tried.
PooledFail(q, u) ==
    /\ att[q][u].pc = "pooled"
    /\ att' = [att EXCEPT ![q][u] = [Attempt EXCEPT !.pc = "connect"]]
    /\ UNCHANGED <<config, race, pool, socket, net, inbox>>

Connect(q, u) ==
    /\ att[q][u].pc = "connect"
    /\ \/ config[u] = "tcp" /\ att' = [att EXCEPT ![q][u] =
              [@ EXCEPT !.pc = "fresh", !.conn = [NewConn EXCEPT !.owed = {q}]]]
       \/ config[u] = "tls" /\ att' = [att EXCEPT ![q][u].pc = "handshake"]
       \/ Fail(q, u)
    /\ UNCHANGED <<config, race, pool, socket, net, inbox>>

\* connector.connect is awaited without a timer: only the peer ends it.
Handshake(q, u) ==
    /\ att[q][u].pc = "handshake"
    /\ \/ att' = [att EXCEPT ![q][u] =
              [@ EXCEPT !.pc = "fresh", !.conn = [NewConn EXCEPT !.owed = {q}]]]
       \/ Fail(q, u)
    /\ UNCHANGED <<config, race, pool, socket, net, inbox>>

\* Slip: the exchange has no timer and fails only on a frame it cannot use.
FreshFail_untimed(q, u) ==
    /\ att[q][u].pc = "fresh"
    /\ att[q][u].conn.unread # <<>>
    /\ Fail(q, u)
    /\ UNCHANGED <<config, race, pool, socket, net, inbox>>

FreshFail(q, u) ==
    /\ att[q][u].pc = "fresh"
    /\ Fail(q, u)
    /\ UNCHANGED <<config, race, pool, socket, net, inbox>>
-----------------------------------------------------------------------------
(* forward_doh *)

HttpRequest(q, u) ==
    /\ config[u] = "https"
    /\ att[q][u].pc = "start"
    /\ \/ att' = [att EXCEPT ![q][u].pc = "body"]
       \/ Fail(q, u)
    /\ UNCHANGED <<config, race, pool, socket, net, inbox>>

\* The body is collected without a timer: only the peer ends it.
HttpBody(q, u) ==
    /\ att[q][u].pc = "body"
    /\ Receive(q, u, q)
    /\ UNCHANGED <<config, race, pool, socket, net, inbox>>
-----------------------------------------------------------------------------
\* What the attempt does by itself, its timers included.
OwnStep(q, u) ==
    \/ Refused(q, u)
    \/ UdpSend(q, u) \/ UdpNoSocket(q, u) \/ UdpBind(q, u) \/ UdpRecv(q, u) \/ UdpGiveUp(q, u)
    \/ TakePooled(q, u) \/ TakeNone(q, u) \/ StreamRecv(q, u) \/ PooledFail(q, u)
    \/ Connect(q, u) \/ FreshFail(q, u)
    \/ HttpRequest(q, u)

\* What it waits for a peer to do.
PeerStep(q, u) == StreamReply(q, u) \/ Handshake(q, u) \/ HttpBody(q, u)

UpNext ==
    \/ \E q \in Queries : ForwardWin(q) \/ ForwardAllFailed(q)
    \/ \E q \in Queries, u \in Configured : OwnStep(q, u) \/ PeerStep(q, u)
    \/ UdpArrive
    \/ \E u \in Configured : PoolAge(u)
=============================================================================
