------------------------------ MODULE Scoring -------------------------------
(***************************************************************************)
(* border-dns-route-policy/scoring.rs: score_route_evidence, the function  *)
(* that weighs what is known of a domain and decides where it belongs.     *)
(*                                                                         *)
(* The source computes in f32.  Here a score is a whole number of          *)
(* hundred-thousandths, in which every product of the weights is exact,    *)
(* and what rounding may do to a comparison that is exactly even is a      *)
(* parameter, F32.  runtime_confidence is a percentage.  The fields of one *)
(* route and of the other (local_cn_ip_count, local_foreign_ip_count, ...) *)
(* are functions on Sides.  What only repeats can_promote (action, phase   *)
(* and timing), the notes and the component scores are left out.           *)
(***************************************************************************)
EXTENDS Integers

Sides == {"china", "foreign"}

\* A function on Sides.
BySide(F(_)) == [china |-> F("china"), foreign |-> F("foreign")]

Opposite(side) == IF side = "china" THEN "foreign" ELSE "china"

Weights ==
    [domain_prior |-> 240000, local_ip_geo |-> 140000, third_party_ip_geo |-> 120000,
     cname_provider |-> 90000, cname_global_each_side |-> 25000, peer_route_vote |-> 50000,
     tls_identity_bonus |-> 20000,
     tls_mismatch_percent |-> 65, prior_conflict_percent |-> 70]

One == 100000   \* a score of 1.0

CnameScopes == {"None", "SameSite", "CnProvider", "ForeignProvider", "GlobalCdn", "CdnLike",
                "ThirdParty", "MixedChain", "Unknown"}
TlsStatuses == {"ExactMatch", "CnameMatch", "Mismatch", "ProbeFailed", "NotApplicable", "Unknown"}
TlsMatch == {"ExactMatch", "CnameMatch"}

RouteEvidenceInput ==
    [prior_route : Sides \cup {"unknown"}, local : [Sides -> Nat], third_party : [Sides -> Nat],
     votes : [Sides -> Nat], ip_scope : {"unknown", "mixed"}, cname_scope : CnameScopes,
     tls : TlsStatuses, confidence : 0 .. 100, first_seen : BOOLEAN]

\* What rounding errors make of even comparisons: which of two equal sums comes
\* out larger, whether a difference that meets its threshold comes out below
\* it, and whether half of the last decimal is rounded up.
F32 == [larger : Sides \cup {"none"}, below : BOOLEAN, up : BOOLEAN]
Exact == [larger |-> "none", below |-> FALSE, up |-> TRUE]

Nothing == [china |-> 0, foreign |-> 0]

\* RouteEvidenceInput::default.
DefaultInput ==
    [prior_route |-> "unknown", local |-> Nothing, third_party |-> Nothing, votes |-> Nothing,
     ip_scope |-> "unknown", cname_scope |-> "Unknown", tls |-> "Unknown",
     confidence |-> 0, first_seen |-> FALSE]
-----------------------------------------------------------------------------
(* The scores of both routes *)

Provider(side) == IF side = "china" THEN "CnProvider" ELSE "ForeignProvider"

\* The sum of the components of a side, before TLS.
Aggregate(data) ==
    BySide(LAMBDA side :
        (IF data.prior_route = side THEN Weights.domain_prior ELSE 0)
        + data.local[side] * Weights.local_ip_geo
        + data.third_party[side] * Weights.third_party_ip_geo
        + data.votes[side] * Weights.peer_route_vote
        + (CASE data.cname_scope = Provider(side) -> Weights.cname_provider
             [] data.cname_scope = "GlobalCdn" -> Weights.cname_global_each_side
             [] OTHER -> 0))

Leads(score, side) == score[side] > score[Opposite(side)]

\* The same before the scores are rounded.
LeadsRaw(score, side, f32) ==
    Leads(score, side) \/ (score[side] = score[Opposite(side)] /\ f32.larger = side)

\* A TLS match strengthens the side that leads, a mismatch weakens both.
WithTls(data, score, f32) ==
    BySide(LAMBDA side :
        IF data.tls \in TlsMatch /\ LeadsRaw(score, side, f32)
        THEN score[side] + Weights.tls_identity_bonus
        ELSE IF data.tls = "Mismatch"
        THEN (score[side] * Weights.tls_mismatch_percent) \div 100
        ELSE score[side])

\* Slip: the prior is dampened, not its challenger.
Dampened_prior(data, score, f32) ==
    BySide(LAMBDA side :
        IF ~data.first_seen /\ data.prior_route = side /\ LeadsRaw(score, side, f32)
        THEN (score[side] * Weights.prior_conflict_percent) \div 100
        ELSE score[side])

\* Slip: only a prior for China is protected.
Dampened_china(data, score, f32) ==
    IF data.prior_route = "china" /\ ~data.first_seen /\ LeadsRaw(score, "foreign", f32)
    THEN [score EXCEPT !["foreign"] = (@ * Weights.prior_conflict_percent) \div 100]
    ELSE score

\* What leads against the prior is dampened, except for a first-seen domain.
Dampened(data, score, f32) ==
    BySide(LAMBDA side :
        IF ~data.first_seen /\ data.prior_route = Opposite(side) /\ LeadsRaw(score, side, f32)
        THEN (score[side] * Weights.prior_conflict_percent) \div 100
        ELSE score[side])

\* To four decimals.
round_4(v, f32) == ((v + (IF f32.up THEN 5 ELSE 4)) \div 10) * 10

Scores(data, f32) ==
    LET score == Dampened(data, WithTls(data, Aggregate(data), f32), f32)
    IN  BySide(LAMBDA side : round_4(score[side], f32))

Margin(score) ==
    IF Leads(score, "china") THEN score["china"] - score["foreign"]
                             ELSE score["foreign"] - score["china"]

MaxScore(score) == IF Leads(score, "china") THEN score["china"] ELSE score["foreign"]
-----------------------------------------------------------------------------
(* What follows from them *)

Intent(side) == IF side = "china" THEN "ChinaIntent" ELSE "ForeignIntent"

\* domain_intent takes the difference of the rounded scores, and does not round it.
Below(score, threshold, f32) ==
    Margin(score) < threshold \/ (Margin(score) = threshold /\ f32.below)

domain_intent(data, score, f32) ==
    IF data.cname_scope = "GlobalCdn" /\ Below(score, One, f32) THEN "GlobalIntent"
    ELSE IF data.ip_scope = "mixed" /\ Below(score, One, f32) THEN "MixedIntent"
    ELSE IF MaxScore(score) <= 0 THEN "UnknownIntent"
    ELSE IF Below(score, 75000, f32)
    THEN IF data.prior_route \in Sides THEN Intent(data.prior_route) ELSE "MixedIntent"
    ELSE IF Leads(score, "china") THEN "ChinaIntent" ELSE "ForeignIntent"

Total(count) == count["china"] + count["foreign"]

\* Addresses of both routes, and too little else.
MixedConflict(data, score) ==
    /\ data.ip_scope = "mixed" /\ ~data.first_seen
    /\ Total(data.third_party) = 0 \/ Margin(score) < 2 * One

MixedFirstSeen(data, score) ==
    data.ip_scope = "mixed" /\ data.first_seen /\ Margin(score) < 75000

evidence_strength(data, score) ==
    IF data.tls = "Mismatch" \/ MixedConflict(data, score) THEN "Conflicting"
    ELSE IF MixedFirstSeen(data, score) THEN "Weak"
    ELSE IF data.cname_scope = "MixedChain" THEN "Conflicting"
    ELSE IF MaxScore(score) <= 0 THEN "None"
    ELSE IF data.confidence >= 80 /\ MaxScore(score) >= 3 * One /\ Margin(score) >= One
    THEN "Strong"
    ELSE IF data.confidence >= 55 \/ MaxScore(score) >= 160000 THEN "Moderate"
    ELSE "Weak"

confidence_level(data, strength) ==
    IF strength = "Conflicting" THEN "Conflict"
    ELSE IF data.confidence >= 80 THEN "High"
    ELSE IF data.confidence >= 55 THEN "Medium"
    ELSE IF data.confidence > 0 THEN "Low"
    ELSE "None"

can_promote(data, score, intent, strength) ==
    /\ strength \in {"Moderate", "Strong"}
    /\ intent \in {"ChinaIntent", "ForeignIntent"}
    /\ data.tls # "Mismatch"
    /\ ~MixedConflict(data, score) /\ ~MixedFirstSeen(data, score)

majority_route(count) ==
    IF Leads(count, "china") THEN "china"
    ELSE IF Leads(count, "foreign") THEN "foreign" ELSE "mixed"

reason_code(data) ==
    IF data.tls = "Mismatch" THEN "tls_identity_mismatch"
    ELSE IF data.ip_scope = "mixed" THEN "mixed_geo_conflict"
    ELSE IF data.tls \in TlsMatch THEN "tls_identity_match"
    ELSE IF data.cname_scope \in {"CnProvider", "ForeignProvider", "GlobalCdn"}
    THEN "cname_provider_hint"
    ELSE IF Total(data.third_party) = 0 THEN "speed_tie_break_only"
    ELSE IF majority_route(data.local) = majority_route(data.third_party)
            /\ majority_route(data.local) # "mixed"
    THEN "local_third_party_geo_aligned"
    ELSE "local_third_party_geo_conflict"

route_authority(data) ==
    IF data.prior_route \in Sides THEN "domain_prior"
    ELSE IF Total(data.local) > 0 THEN "local_ip_geo"
    ELSE IF Total(data.third_party) > 0 THEN "third_party_ip_geo"
    ELSE IF data.cname_scope \notin {"None", "Unknown"} THEN "cname"
    ELSE "unknown"

fact_status(promote, strength) ==
    IF promote THEN "Candidate"
    ELSE IF strength = "Conflicting" THEN "Conflicting" ELSE "Observed"

suggested_next_route(intent, promote) ==
    IF promote /\ intent = "ChinaIntent" THEN "china"
    ELSE IF promote /\ intent = "ForeignIntent" THEN "foreign"
    ELSE "prior_route"

score_route_evidence(data, f32) ==
    LET score == Scores(data, f32)
        intent == domain_intent(data, score, f32)
        strength == evidence_strength(data, score)
        promote == can_promote(data, score, intent, strength)
    IN  [domain_intent |-> intent, evidence_strength |-> strength,
         confidence_level |-> confidence_level(data, strength),
         fact_status |-> fact_status(promote, strength), can_promote |-> promote,
         suggested_next_route |-> suggested_next_route(intent, promote),
         reason_code |-> reason_code(data), route_authority |-> route_authority(data),
         score |-> score, score_margin |-> Margin(score)]
-----------------------------------------------------------------------------
(* The two routes exchanged *)

MirrorRoute(route) == IF route \in Sides THEN Opposite(route) ELSE route

Swap(count) == [china |-> count["foreign"], foreign |-> count["china"]]

Mirror(data) ==
    [data EXCEPT !.prior_route = MirrorRoute(@), !.local = Swap(@), !.third_party = Swap(@),
                 !.votes = Swap(@),
                 !.cname_scope = CASE @ = "CnProvider" -> "ForeignProvider"
                                   [] @ = "ForeignProvider" -> "CnProvider"
                                   [] OTHER -> @]

MirrorF32(f32) == [f32 EXCEPT !.larger = MirrorRoute(@)]

MirrorScore(result) ==
    [result EXCEPT !.domain_intent = CASE @ = "ChinaIntent" -> "ForeignIntent"
                                       [] @ = "ForeignIntent" -> "ChinaIntent"
                                       [] OTHER -> @,
                   !.suggested_next_route = MirrorRoute(@), !.score = Swap(@)]
=============================================================================
