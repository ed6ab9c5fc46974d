------------------------------ MODULE MCServer ------------------------------
(* Small instances of Server for TLC. *)
EXTENDS Server, TLC

CONSTANTS udp, doj, doh, hole

AllKinds == udp :> "socket" @@ doj :> "doj" @@ doh :> "doh" @@ hole :> "blackhole"
OneSocket == udp :> "socket"
=============================================================================
