---------------------------- MODULE MCOverrides -----------------------------
(* Overrides with two letters, two hosts files and rules of two tokens.      *)
EXTENDS Overrides

A == <<"a">>
B == <<"b">>
ABA == <<"a", "b", "a">>

\* "**", a, a* and *b*
Tokens == {Multi, <<A>>, <<A, <<>>>>, <<<<>>, B, <<>>>>}
MCRules == {<<>>} \cup {<<t>> : t \in Tokens} \cup (Tokens \X Tokens)
           \cup {<<<<B>>, <<A>>>>, <<Multi, <<A>>, Multi>>, <<<<A>>, Multi, <<B>>>>, <<<<A, B, <<>>>>, Multi, <<A>>>>}
MCSuffixes == {<<<<A>>, <<B>>>>}

\* a, "**.a" and "a*.a"
MCServingRules == {<<<<A>>>>, <<Multi, <<A>>>>, <<<<A, <<>>>>, <<A>>>>}

Labels == {A, B, ABA}
MCNames == {<<>>} \cup UNION {[1 .. n -> Labels] : n \in 1 .. 3}

Str(name, dot) == [name |-> name, dot |-> dot]
Entry(name, dot, ip) == [domain |-> Str(name, dot), ip |-> ip]
MCInline == <<Entry(<<A>>, FALSE, "v4"), Entry(<<A>>, TRUE, "w4"), Entry(<<B>>, FALSE, "bad")>>
Line(ip, names) == [ip |-> ip, names |-> names]
MCContents == {<<Line("w4", <<Str(<<A>>, FALSE), Str(<<B>>, TRUE)>>)>>,
               <<Line("v6", <<Str(<<A>>, TRUE)>>), Line("bad", <<Str(<<B>>, FALSE)>>)>>}
=============================================================================
