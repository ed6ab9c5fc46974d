--------------------------- MODULE RuntimeConfig ----------------------------
(***************************************************************************)
(* border-dns-config: what RuntimeConfig::validate accepts, and the        *)
(* upstreams that a route is given.  The texts of addresses, endpoints and *)
(* paths are the cases that validate tells apart.  Numbers (timeouts, TTLs *)
(* and sizes) are not validated.                                           *)
(***************************************************************************)
EXTENDS Sequences

\* The listeners that need a certificate and a key, and the others.
TlsListeners == {"dot", "doh", "doq"}
Listeners == {"udp", "tcp", "doj"} \cup TlsListeners

\* listen is empty, does not parse or is an address; tls_files: both paths are given.
Listener == [enabled : BOOLEAN, listen : {"", "text", "addr"}, tls_files : BOOLEAN]
Off == [enabled |-> FALSE, listen |-> "", tls_files |-> FALSE]

\* An endpoint is empty, a name without a colon, host:port or a URL.
UpstreamServer ==
    [transport : {"udp", "tcp", "tls", "https", "quic"},
     endpoint : {"", "name", "host:port", "url"}, server_name : BOOLEAN]

Groups == {"bootstrap", "default", "china", "foreign"}

Block == [enabled : BOOLEAN, ipv4_parses : BOOLEAN, ipv6_parses : BOOLEAN]

IsConfig(c) ==
    /\ c.listeners \in [Listeners -> Listener]
    /\ c.block \in Block
    /\ DOMAIN c.upstreams = Groups
    /\ \A g \in Groups : \A k \in DOMAIN c.upstreams[g] : c.upstreams[g][k] \in UpstreamServer

validate_server(s) ==
    CASE s.transport \in {"udp", "tcp"} -> s.endpoint \in {"host:port", "url"}
      [] s.transport = "https" -> s.endpoint = "url"
      [] s.transport \in {"tls", "quic"} -> s.endpoint \in {"host:port", "url"} /\ s.server_name

\* Slip: a configuration with upstreams for some route is enough.
validate_any_group(c) ==
    /\ \E l \in Listeners : c.listeners[l].enabled
    /\ \E g \in Groups : c.upstreams[g] # <<>>
    /\ \A g \in Groups : \A k \in DOMAIN c.upstreams[g] : validate_server(c.upstreams[g][k])

validate(c) ==
    /\ \E l \in Listeners : c.listeners[l].enabled
    /\ \A l \in Listeners : c.listeners[l].enabled =>
          /\ c.listeners[l].listen = "addr"
          /\ l \in TlsListeners => c.listeners[l].tls_files
    /\ c.upstreams["bootstrap"] # <<>> \/ c.upstreams["default"] # <<>>
    /\ \A g \in Groups : \A k \in DOMAIN c.upstreams[g] : validate_server(c.upstreams[g][k])
    /\ c.block.enabled => c.block.ipv4_parses /\ c.block.ipv6_parses

GroupOf(route) ==
    CASE route = "China" -> "china" [] route = "Foreign" -> "foreign" [] OTHER -> "bootstrap"

\* The route's own group, then bootstrap, then default.
for_route(upstreams, route) ==
    IF upstreams[GroupOf(route)] # <<>> THEN upstreams[GroupOf(route)]
    ELSE IF upstreams["bootstrap"] # <<>> THEN upstreams["bootstrap"]
    ELSE upstreams["default"]

\* The group that handle_dns_query, which knows no routes, forwards to.
default_upstreams(upstreams) ==
    IF upstreams["default"] # <<>> THEN upstreams["default"] ELSE upstreams["bootstrap"]
=============================================================================
