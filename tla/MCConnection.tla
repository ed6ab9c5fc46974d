---------------------------- MODULE MCConnection ----------------------------
(* Connection with bytes of one bit: prefixes announce 0 to 3 bytes. *)
EXTENDS Connection

\* Queries of different lengths are answered differently, the longest in two ways.
MCExchanges == {<<0, <<0>>>>, <<1, <<1, 0>>>>, <<2, <<>>>>, <<3, <<0, 1, 1>>>>, <<3, <<1>>>>}
=============================================================================
