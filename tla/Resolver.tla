------------------------------ MODULE Resolver ------------------------------
(***************************************************************************)
(* border-dns-runtime/handler.rs: what the process does with a query that  *)
(* a listener hands it, on top of the upstream client (Upstream) and of    *)
(* the answer cache.  The handlers of different queries run concurrently   *)
(* and meet in the cache, the connection pools and the UDP sockets.        *)
(*                                                                         *)
(* The cache is used for what TtlMap promises, with time left out: a read  *)
(* returns the last message stored under the question or nothing, and an   *)
(* entry may go at any moment.  A message carries the id and the question  *)
(* of the query it replies to, so it is reduced to that query.             *)
(***************************************************************************)
EXTENDS Upstream

CONSTANTS
    Questions,    \* (qtype, domain) pairs
    Overridden,   \* the questions that the hosts table or the block list answers
    Workloads,    \* Workloads[c]: what the queries may ask under configuration c
    NoQuestion,   \* in place of its question: a query without a question
    Garbled,      \* in place of its question: a query that from_wire rejects
    NoId

ASSUME ResolverAssumption ==
    /\ Overridden \subseteq Questions
    /\ NoQuestion \notin Questions /\ Garbled \notin Questions /\ NoQuestion # Garbled
    /\ \A c \in Configs : \A w \in Workloads[c] :
          /\ DOMAIN w \subseteq Queries
          /\ \A q \in DOMAIN w : w[q] \in Questions \cup {NoQuestion, Garbled}
    /\ NoId \notin Queries

VARIABLES
    question,   \* question[q]: what q asks
    cache,      \* cache[d]: the message stored for question d, or NoReply
    reply       \* reply[q]: what the listener is given to send back

vars == <<config, race, att, pool, socket, net, inbox, question, cache, reply>>

\* A reply as the client sees it: its id, the question it is about and where
\* its records come from.
Reply(kind, id, about) == [kind |-> kind, id |-> id, about |-> about]
Pending == Reply("pending", NoId, NoQuestion)
Kinds == {"pending", "formerr", "override", "cache", "upstream", "servfail"}

TypeOK ==
    /\ config \in Configs /\ question \in Workloads[config]
    /\ \A q \in Queries :
          /\ race[q].pc \in {"idle", "racing", "won", "failed"}
          /\ race[q].reply \in Queries \cup {NoReply}
          /\ race[q].pc = "won" <=> race[q].reply # NoReply
    /\ \A q \in Queries, u \in Upstreams :
          /\ att[q][u].pc \in {"none", "start", "bind", "recv_from", "pooled", "connect",
                               "handshake", "fresh", "body", "ok", "err"}
          /\ att[q][u].conn.owed \subseteq Queries
          /\ att[q][u].sock \in Queries \cup {NoSocket}
          /\ att[q][u].pc = "ok" <=> att[q][u].reply # NoReply
    /\ \A u \in Upstreams : Len(pool[u]) <= MaxIdle /\ socket[u] \in Queries \cup {NoSocket}
    /\ cache \in [Questions -> Queries \cup {NoReply}]
    /\ \A q \in Queries : /\ reply[q].kind \in Kinds
                          /\ reply[q].id \in Queries \cup {NoId}
                          /\ reply[q].about \in Questions \cup {NoQuestion}

Init ==
    /\ UpInit
    /\ question \in Workloads[config]
    /\ cache = [d \in Questions |-> NoReply]
    /\ reply = [q \in Queries |-> Pending]

Asked == DOMAIN question

\* The listener has handed over q, and nothing was done with it yet.
New(q) == q \in Asked /\ race[q].pc = "idle" /\ reply[q] = Pending

Answer(q, r) == reply' = [reply EXCEPT ![q] = r]
-----------------------------------------------------------------------------
\* malformed_response has id 0 and no question; a query without a question is
\* answered under its own id.
Malformed(q) ==
    /\ New(q)
    /\ \/ question[q] = Garbled /\ Answer(q, Reply("formerr", NoId, NoQuestion))
       \/ question[q] = NoQuestion /\ Answer(q, Reply("formerr", q, NoQuestion))
    /\ UNCHANGED <<upVars, question, cache>>

WellFormed(q) == question[q] \in Questions

\* The hosts table, then the block list.
Override(q) ==
    /\ New(q) /\ WellFormed(q)
    /\ question[q] \in Overridden
    /\ Answer(q, Reply("override", q, question[q]))
    /\ UNCHANGED <<upVars, question, cache>>

\* Slip: the cached bytes go out with the id they were stored with.
CacheHit_verbatim(q) ==
    /\ New(q) /\ WellFormed(q)
    /\ question[q] \notin Overridden
    /\ cache[question[q]] # NoReply
    /\ Answer(q, Reply("cache", cache[question[q]], question[cache[question[q]]]))
    /\ UNCHANGED <<upVars, question, cache>>

\* wire_with_id puts the query's id in; the rest is the stored message.
CacheHit(q) ==
    /\ New(q) /\ WellFormed(q)
    /\ question[q] \notin Overridden
    /\ cache[question[q]] # NoReply
    /\ Answer(q, Reply("cache", q, question[cache[question[q]]]))
    /\ UNCHANGED <<upVars, question, cache>>

CacheMiss(q) ==
    /\ New(q) /\ WellFormed(q)
    /\ question[q] \notin Overridden
    /\ cache[question[q]] = NoReply
    /\ ForwardBegin(q)
    /\ UNCHANGED <<question, cache, reply>>

\* The upstream message is sent back as it is.  It is cached when it is a
\* NoError answer with records.
Forwarded(q) ==
    /\ race[q].pc = "won" /\ reply[q] = Pending
    /\ Answer(q, Reply("upstream", race[q].reply, question[race[q].reply]))
    /\ \/ cache' = [cache EXCEPT ![question[q]] = race[q].reply]
       \/ UNCHANGED cache
    /\ UNCHANGED <<upVars, question>>

ServFail(q) ==
    /\ race[q].pc = "failed" /\ reply[q] = Pending
    /\ Answer(q, Reply("servfail", q, question[q]))
    /\ UNCHANGED <<upVars, question, cache>>

\* Expiry, eviction or clear.
CacheForget ==
    /\ \E d \in Questions : /\ cache[d] # NoReply
                            /\ cache' = [cache EXCEPT ![d] = NoReply]
    /\ UNCHANGED <<upVars, question, reply>>
-----------------------------------------------------------------------------
Handle(q) ==
    \/ Malformed(q) \/ Override(q)
    \/ CacheHit(q) \/ CacheMiss(q)
    \/ Forwarded(q) \/ ServFail(q)

\* Every handler has answered and every attempt has ended.
Quiet ==
    /\ \A q \in Asked : reply[q] # Pending
    /\ \A q \in Queries, u \in Upstreams : att[q][u].pc \in {"none", "ok", "err"}

Next ==
    \/ \E q \in Queries : Handle(q)
    \/ UpNext /\ UNCHANGED <<question, cache, reply>>
    \/ CacheForget
    \/ Quiet /\ UNCHANGED vars

Spec == Init /\ [][Next]_vars

\* The runtime polls every task that can go on, and a timer that is set goes
\* off.  Nothing is assumed of peers: they need not answer, finish a handshake
\* or end a body, and the network need not deliver.
Fairness ==
    /\ \A q \in Queries : WF_vars(Handle(q))
    /\ \A q \in Queries :
          WF_vars((ForwardWin(q) \/ ForwardAllFailed(q)) /\ UNCHANGED <<question, cache, reply>>)
    /\ \A q \in Queries, u \in Upstreams :
          WF_vars(u \in Configured /\ OwnStep(q, u) /\ UNCHANGED <<question, cache, reply>>)

FairSpec == Spec /\ Fairness
-----------------------------------------------------------------------------
UsesOnly(transports) == \A u \in Configured : config[u] \in transports

\* A reply built from an upstream message or from the cache is about the
\* question the client asked, under the id the client chose, unless some
\* upstream is reached over UDP.  Concurrent queries share pooled connections
\* and the cache, and rivals of a decided race go on using both.
AnswersOwnQuestion ==
    UsesOnly(Transports \ {"udp"}) =>
       \A q \in Queries : reply[q].kind \in {"cache", "upstream"} =>
          reply[q].id = q /\ reply[q].about = question[q]

\* The same, whatever the transports: handle_dns_query returns "the resolved
\* answer" of the query, and forward the "result of forwarding a query".
ReplyMatchesQuery ==
    \A q \in Queries : reply[q].kind = "upstream" =>
       reply[q].id = q /\ reply[q].about = question[q]

\* A connection in a pool has nothing unread and nothing outstanding, so that
\* the next frame on it answers the next query sent on it.  take/put and the
\* failure path of forward_tcp and forward_tls are what keeps it so.
PooledConnectionsAreClean ==
    \A u \in Upstreams : \A i \in DOMAIN pool[u] : pool[u][i].conn = NewConn

\* The waits that have no timer: the TLS handshake of connect_tls and the body
\* that forward_doh collects.
Untimed(q) == \E u \in Configured : att[q][u].pc \in {"handshake", "body"}

\* Every query gets its reply, whatever peers and network do, or one of its
\* attempts is held by a peer in a wait without a timer.
EveryQueryAnswered ==
    \A q \in Queries : []<>(q \in Asked => reply[q] # Pending \/ Untimed(q))
=============================================================================
