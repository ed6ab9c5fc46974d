----------------------------- MODULE MCRouting ------------------------------
(* Routing with one domain of each kind, answers of up to four records and  *)
(* the defaults of the governance thresholds.                                *)
EXTENDS Routing, TLC

\* GovernanceThresholds::default.
MCThresholds ==
    [mixed_freeze |-> 3, mixed_degrade |-> 10, third_party |-> FALSE,
     peers |-> [observations |-> 20, local |-> 5, aligned |-> 2, observers |-> 2,
                mixed |-> 2, hard |-> 0, streak |-> 10],
     alone |-> [observations |-> 50, local |-> 15, mixed |-> 2, hard |-> 0, streak |-> 20],
     review |-> [hard |-> 3, tls |-> 2, opposite |-> 3, failures |-> 5],
     fallback |-> [hours |-> 6, hard |-> 5, opposite |-> 5]]

A(ip, ttl) == [ip |-> ip, ttl |-> ttl]
MCReplies ==
    {[rcode |-> "NoError", answers |-> a] : a \in
        {<<A(NoIp, 2)>>, <<A("private", 1)>>, <<A("cn", 2)>>, <<A("other", 1), A("cn", 2)>>,
         <<A("other", 2), A("other", 1), A("other", 1), A("other", 1)>>, <<A("cn", 3), A("other", 2), A("cn", 1)>>}}
    \cup {[rcode |-> "NxDomain", answers |-> a] : a \in {<<>>, <<A(NoIp, 1)>>}}

Udp == [transport |-> "udp", endpoint |-> "host:port", server_name |-> FALSE]
Quic == [transport |-> "quic", endpoint |-> "host:port", server_name |-> FALSE]
Doh == [transport |-> "https", endpoint |-> "url", server_name |-> FALSE]

Upstreams == [bootstrap : {<<>>, <<Udp>>}, default : {<<>>, <<Doh, Udp>>},
              china : {<<>>, <<Udp>>}, foreign : {<<>>, <<Doh>>, <<Quic>>}]
Listening(l, listen, files) ==
    [k \in Listeners |-> IF k = l THEN [enabled |-> TRUE, listen |-> listen, tls_files |-> files]
                                  ELSE Off]
Blocking(parses) == [enabled |-> TRUE, ipv4_parses |-> TRUE, ipv6_parses |-> parses]

MCConfigs ==
    {[listeners |-> Listening("udp", "addr", FALSE), block |-> Blocking(TRUE), upstreams |-> u] :
        u \in Upstreams}
    \cup {[listeners |-> l, block |-> b, upstreams |-> [g \in Groups |-> <<Udp>>]] :
            l \in {[k \in Listeners |-> Off], Listening("tcp", "text", FALSE),
                   Listening("dot", "addr", FALSE), Listening("dot", "addr", TRUE)},
            b \in {Blocking(TRUE), Blocking(FALSE)}}

MCServed == {c \in MCConfigs : /\ c.listeners = Listening("udp", "addr", FALSE)
                              /\ c.upstreams["bootstrap"] = <<Udp>>
                              /\ \A g \in Groups \ {"bootstrap"} : c.upstreams[g] = <<>>}

Counts(n) == [china : 0 .. n, foreign : 0 .. n]

\* One of each group of statuses that the scores treat alike.
MCInputs ==
    [prior_route : Sides \cup {"unknown"}, local : Counts(2), third_party : Counts(1),
     votes : Counts(1), ip_scope : {"unknown", "mixed"},
     cname_scope : CnameScopes \ {"None", "SameSite", "CdnLike", "ThirdParty"},
     tls : TlsStatuses \ {"CnameMatch", "ProbeFailed", "NotApplicable"},
     confidence : {80}, first_seen : BOOLEAN]
=============================================================================
