----------------------------- MODULE MCResolver -----------------------------
(* Small instances of Resolver for TLC. *)
EXTENDS Resolver, TLC

CONSTANTS q1, q2, q3, u1, u2

Only(transport) == u1 :> transport
Both(first, second) == u1 :> first @@ u2 :> second

Three == q1 :> "a" @@ q2 :> "a" @@ q3 :> "b"
Two == q1 :> "a" @@ q3 :> "b"
Unresolved == q1 :> NoQuestion @@ q2 :> Garbled @@ q3 :> "ads"

\* Three queries over TCP, so that two connections are idle at once and the
\* put of a third finds the pool full; two queries over the rest.
MCWorkloads == (<<>> :> {Three, Unresolved}) @@ (Both("tcp", "quic") :> {Three})
               @@ (Both("tls", "invalid") :> {Two}) @@ (Only("udp") :> {Two})
               @@ (Both("tcp", "https") :> {Two})
MCConfigs == DOMAIN MCWorkloads

\* Two queries over plain UDP.
UdpWorkloads == Only("udp") :> {Two}
UdpConfigs == DOMAIN UdpWorkloads
=============================================================================
