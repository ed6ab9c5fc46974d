---------------------------- MODULE RoutePolicy -----------------------------
(***************************************************************************)
(* The route decision of a query: border-dns-route-policy/lib.rs, the      *)
(* built-in lists of border-dns-domain-knowledge and the address ranges of *)
(* border-dns-geoip.                                                       *)
(*                                                                         *)
(* A name is a model value.  An address is a model value in the sets of    *)
(* the ranges it lies in.  A decision is its execution route: the scores,  *)
(* the confidence and the reasons of a RouteDecision, and with them        *)
(* refine_by_answer_geo and refine_by_cname, which change nothing else,    *)
(* are left out.  In the pipeline they reach the log or nothing.           *)
(***************************************************************************)
EXTENDS Integers, Sequences, FiniteSets

CONSTANTS
    CdnDomains, ChinaDomains, ForeignDomains,      \* the lists; they may overlap
    ReservedIps, PrivateIps, ChinaIps, OtherIps    \* so may the first three ranges

Locations == {"China", "Foreign", "Unknown"}
Routes == {"China", "Foreign", "Bootstrap", "Fallback"}
Ips == ReservedIps \cup PrivateIps \cup ChinaIps \cup OtherIps

\* A record of an answer: its TTL, and its address if it has type A or AAAA.
NoIp == "no address"
Rr == [ip : Ips \cup {NoIp}, ttl : Nat]
-----------------------------------------------------------------------------
\* A DomainSet contains the names put into it, not those below them.
contains(list, d) == d \in list

classify_domain(d) ==
    IF contains(CdnDomains, d) THEN "GlobalCdn"
    ELSE IF contains(ChinaDomains, d) THEN "China"
    ELSE IF contains(ForeignDomains, d) THEN "Foreign"
    ELSE "Unknown"

\* Where the domain does not decide, the location of the resolver does.
LocalRoute(location) == IF location = "Unknown" THEN "Fallback" ELSE location

decide_by_domain_prior(location, d) ==
    IF classify_domain(d) \in {"China", "Foreign"} THEN classify_domain(d)
                                                  ELSE LocalRoute(location)

lookup(ip) ==
    IF ip \in ReservedIps THEN "Reserved"
    ELSE IF ip \in PrivateIps THEN "Private"
    ELSE IF ip \in ChinaIps THEN "Cn" ELSE "Foreign"

CountScope(answers, scope) ==
    Cardinality({k \in DOMAIN answers : answers[k].ip # NoIp /\ lookup(answers[k].ip) = scope})

analyze_answer_geo(answers) ==
    [cn_count |-> CountScope(answers, "Cn"), foreign_count |-> CountScope(answers, "Foreign"),
     private_count |-> CountScope(answers, "Private") + CountScope(answers, "Reserved")]
=============================================================================
