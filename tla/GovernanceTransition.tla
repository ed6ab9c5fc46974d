------------------------ MODULE GovernanceTransition ------------------------
(***************************************************************************)
(* border-dns-route-policy/governance_transition.rs: the pure function     *)
(* that decides the next governance phase of a domain from its state, the  *)
(* latest evidence and the thresholds, and the decay of the 24-hour        *)
(* counters of border-dns-facts.                                           *)
(*                                                                         *)
(* Time is in whole hours, the unit of num_hours.  The notes of a result,  *)
(* its freeze_promotion and its remove_state are left out: nothing reads   *)
(* them.                                                                   *)
(***************************************************************************)
EXTENDS Integers

CONSTANTS
    T,             \* GovernanceThresholds
    ClearStreak,   \* the streak that clears a Review (10 in evaluate_review)
    U32,           \* 2^32, the width of the casts to u32
    Never          \* None as a timestamp

Phases == {"New", "Learning", "Suggested", "Stable", "Review", "Fallback"}

\* What the _24h counters count.
Counted == {"mixed", "soft", "hard", "tls", "opposite"}

Thresholds ==
    [mixed_freeze : Nat, mixed_degrade : Nat, third_party : BOOLEAN,
     peers : [observations : Nat, local : Nat, aligned : Nat, observers : Nat,
              mixed : Nat, hard : Nat, streak : Nat],
     alone : [observations : Nat, local : Nat, mixed : Nat, hard : Nat, streak : Nat],
     review : [hard : Nat, tls : Nat, opposite : Nat, failures : Nat],
     fallback : [hours : Nat, hard : Nat, opposite : Nat]]

ASSUME ThresholdAssumption ==
    T \in Thresholds /\ ClearStreak \in Nat /\ U32 \in Nat \ {0} /\ Never \notin Int

\* DomainGovernanceState without names, routes and scores.
State ==
    [phase : Phases, version : Nat \ {0}, observations : Nat,
     local : Nat, aligned : Nat, observers : Nat, streak : Nat, failures : Nat,
     count : [Counted -> Nat], last : [Counted -> Int \cup {Never}],
     last_transition_at : Int]

\* GovernanceTransitionInput without the state, the thresholds and the three
\* fields that no branch looks at.
Evidence == [first_seen : BOOLEAN, can_promote : BOOLEAN, mixed : BOOLEAN,
             tls : BOOLEAN, hard : BOOLEAN, third_party : BOOLEAN]

\* Slip: versions start at zero.
new_state_zero(now) ==
    [phase |-> "New", version |-> 0, observations |-> 0, local |-> 0, aligned |-> 0,
     observers |-> 0, streak |-> 0, failures |-> 0,
     count |-> [k \in Counted |-> 0], last |-> [k \in Counted |-> Never],
     last_transition_at |-> now]

\* Slip: a domain starts out known.
new_state_learning(now) == [new_state_zero(now) EXCEPT !.phase = "Learning", !.version = 1]

new_state(now) ==
    [phase |-> "New", version |-> 1, observations |-> 0, local |-> 0, aligned |-> 0,
     observers |-> 0, streak |-> 0, failures |-> 0,
     count |-> [k \in Counted |-> 0], last |-> [k \in Counted |-> Never],
     last_transition_at |-> now]

\* A counter is reset once its last event is more than 24 hours old.
decay_24h_counters(s, now) ==
    [s EXCEPT !.count = [k \in Counted |->
        IF s.last[k] # Never /\ now - s.last[k] > 24 THEN 0 ELSE s.count[k]]]
-----------------------------------------------------------------------------
\* TransitionReason.
Reasons ==
    {"FirstSeen", "NoChange", "MixedFreeze", "LocalEvidencePromote",
     "ThirdPartyAlignmentPromote", "StablePromotionWithPeers", "StablePromotionLocalOnly",
     "TlsMismatchToReview", "HardConflictToReview", "RouteOppositeToReview",
     "MixedDegradeToReview", "ConsecutiveFailureToReview", "ReviewCleared",
     "ReviewDurationFallback", "ReviewHardConflictFallback", "ReviewRouteOppositeFallback",
     "FallbackExpired", "ManualReset"}

Result(phase, changed, reason) ==
    [new_phase |-> phase, phase_changed |-> changed, reason |-> reason]

no_change(s) == Result(s.phase, FALSE, "NoChange")

\* Some conflict counter has reached its threshold.
Triggered(s) ==
    \/ s.count["tls"] >= T.review.tls
    \/ s.count["hard"] >= T.review.hard
    \/ s.count["opposite"] >= T.review.opposite
    \/ s.count["mixed"] >= T.mixed_degrade
    \/ s.failures >= T.review.failures

\* The first trigger in the order of the code names the reason.
check_review_triggers(s) ==
    Result("Review", TRUE,
        IF s.count["tls"] >= T.review.tls THEN "TlsMismatchToReview"
        ELSE IF s.count["hard"] >= T.review.hard THEN "HardConflictToReview"
        ELSE IF s.count["opposite"] >= T.review.opposite THEN "RouteOppositeToReview"
        ELSE IF s.count["mixed"] >= T.mixed_degrade THEN "MixedDegradeToReview"
        ELSE "ConsecutiveFailureToReview")

Frozen(s) == s.count["mixed"] >= T.mixed_freeze

evaluate_learning(s, e) ==
    IF Frozen(s) THEN Result("Learning", FALSE, "MixedFreeze")
    ELSE IF e.can_promote /\ s.count["hard"] = 0
         THEN Result("Suggested", TRUE, IF e.third_party THEN "ThirdPartyAlignmentPromote"
                                                         ELSE "LocalEvidencePromote")
    ELSE no_change(s)

check_stable_with_third_party(s) ==
    /\ s.observations % U32 >= T.peers.observations
    /\ s.local >= T.peers.local
    /\ s.aligned >= T.peers.aligned
    /\ s.observers >= T.peers.observers
    /\ s.count["hard"] <= T.peers.hard
    /\ s.count["mixed"] <= T.peers.mixed
    /\ s.streak >= T.peers.streak

check_stable_local_only(s) ==
    /\ s.observations % U32 >= T.alone.observations
    /\ s.local >= T.alone.local
    /\ s.count["hard"] <= T.alone.hard
    /\ s.count["mixed"] <= T.alone.mixed
    /\ s.streak >= T.alone.streak

evaluate_suggested(s) ==
    IF T.third_party /\ check_stable_with_third_party(s)
    THEN Result("Stable", TRUE, "StablePromotionWithPeers")
    ELSE IF ~T.third_party /\ check_stable_local_only(s)
    THEN Result("Stable", TRUE, "StablePromotionLocalOnly")
    ELSE IF Frozen(s) THEN Result("Suggested", FALSE, "MixedFreeze")
    ELSE no_change(s)

\* The hours since last_transition_at, cast to u32: a clock that was set back
\* gives a huge number.
review_hours(s, now) == (now - s.last_transition_at) % U32

\* Slip: a cleared domain goes back to where it may have been.
evaluate_review_restores(s, now) ==
    IF review_hours(s, now) >= T.fallback.hours
    THEN Result("Fallback", TRUE, "ReviewDurationFallback")
    ELSE IF s.count["hard"] = 0 /\ ~Frozen(s) /\ s.streak >= ClearStreak
    THEN Result("Suggested", TRUE, "ReviewCleared")
    ELSE no_change(s)

evaluate_review(s, now) ==
    IF review_hours(s, now) >= T.fallback.hours
    THEN Result("Fallback", TRUE, "ReviewDurationFallback")
    ELSE IF s.count["hard"] >= T.fallback.hard
    THEN Result("Fallback", TRUE, "ReviewHardConflictFallback")
    ELSE IF s.count["opposite"] >= T.fallback.opposite
    THEN Result("Fallback", TRUE, "ReviewRouteOppositeFallback")
    ELSE IF s.count["hard"] = 0 /\ ~Frozen(s) /\ s.streak >= ClearStreak
    THEN Result("Learning", TRUE, "ReviewCleared")
    ELSE no_change(s)

evaluate_fallback(s, e) ==
    IF ~e.hard /\ ~e.tls /\ ~e.mixed /\ s.count["hard"] = 0 /\ s.count["tls"] = 0
    THEN Result("Learning", TRUE, "FallbackExpired")
    ELSE no_change(s)

evaluate_phase(s, e, now) ==
    CASE s.phase = "Learning" -> evaluate_learning(s, e)
      [] s.phase = "Suggested" -> evaluate_suggested(s)
      [] s.phase = "Stable" -> no_change(s)
      [] s.phase = "Review" -> evaluate_review(s, now)
      [] s.phase = "Fallback" -> evaluate_fallback(s, e)

\* Slip: the triggers are left to the promoted phases.
evaluate_late_triggers(s, e, now) ==
    IF e.first_seen \/ s.phase = "New"
    THEN Result("Learning", s.phase # "Learning", "FirstSeen")
    ELSE IF s.phase \notin {"Fallback", "Learning"} /\ Triggered(s) THEN check_review_triggers(s)
    ELSE evaluate_phase(s, e, now)

evaluate_governance_transition(s, e, now) ==
    IF e.first_seen \/ s.phase = "New"
    THEN Result("Learning", s.phase # "Learning", "FirstSeen")
    ELSE IF s.phase # "Fallback" /\ Triggered(s) THEN check_review_triggers(s)
    ELSE evaluate_phase(s, e, now)
-----------------------------------------------------------------------------
\* The phase diagram of the module's "hard rules".
Diagram ==
    {<<"New", "Learning">>, <<"Learning", "Suggested">>, <<"Suggested", "Stable">>,
     <<"Review", "Learning">>, <<"Review", "Fallback">>, <<"Fallback", "Learning">>}
    \cup {<<p, "Review">> : p \in {"Learning", "Suggested", "Stable", "Review"}}
=============================================================================
