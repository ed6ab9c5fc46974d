------------------------------ MODULE Routing -------------------------------
(***************************************************************************)
(* Pipeline::resolve of border-dns-pipeline from the route of a query to   *)
(* the answer that is cached and returned (stages 2 to 7; Overrides has    *)
(* the stages before), on the policy, the scores, the governance           *)
(* transition and the validated configuration.                             *)
(*                                                                         *)
(* One query is resolved at a time: what overlapping queries do to the     *)
(* governance store and to the cache is in Governance and RouteCache, and  *)
(* the race of the upstreams in Upstream.  The cache has no limit here.    *)
(* Time is in seconds, and too short for the 24 hours of the transition.   *)
(***************************************************************************)
EXTENDS Scoring, RoutePolicy, RuntimeConfig, GovernanceTransition

CONSTANTS
    Domains,
    Configs,        \* the configurations that may be loaded
    Served,         \* bound: those of them with which queries are made
    Replies,        \* what an upstream may send: a response code and an answer section
    Inputs,         \* the evidence that another caller may have scored
    MinTtl, MaxTtl, EnhancedTtl,
    MaxQueries,     \* bound on the queries
    MaxTime,        \* bound on the clock
    None

Rcodes == {"NoError", "NxDomain"}

ASSUME RoutingAssumption ==
    /\ \A c \in Configs : IsConfig(c)
    /\ \A reply \in Replies : reply.rcode \in Rcodes /\ reply.answers \in Seq(Rr)
    /\ Inputs \subseteq RouteEvidenceInput
    /\ MinTtl \in Nat /\ MaxTtl \in Nat /\ MinTtl <= MaxTtl /\ EnhancedTtl \in Nat
    /\ MaxQueries \in Nat /\ MaxTime \in Nat

\* None is not a configuration that was loaded.
ASSUME AbsenceAssumption ==
    \A c \in Configs, location \in Locations : [runtime |-> c, location |-> location] # None

VARIABLES
    config,     \* the configuration and the location of the resolver, or None
    clock,
    governed,   \* governed[d]: the stored DomainGovernanceState, or None
    cache,      \* cache[<<route, d>>]: an entry, or None
    query,      \* the query under way
    response,   \* the response to the last query, or None
    task,       \* the ObservationTask that was sent for it, or None
    scored,     \* what score_route_evidence was called with for it, or None
    queries,    \* how many queries there were
    learned     \* learned[d]: how many of them an upstream answered

vars == <<config, clock, governed, cache, query, response, task, scored, queries, learned>>

Idle == [domain |-> None]

\* prior_route_str.
PriorOf(route) ==
    CASE route = "China" -> "china" [] route = "Foreign" -> "foreign" [] OTHER -> "unknown"

\* A state that resolve alone has written: every write counts an observation,
\* and nothing counts what was observed.
Unobserved(s) ==
    /\ s \in State /\ s.version = s.observations + 1
    /\ s.count = [k \in Counted |-> 0]
    /\ s.local = 0 /\ s.streak = 0 /\ s.failures = 0

TypeOK ==
    /\ config # None => validate(config.runtime) /\ config.location \in Locations
    /\ \A d \in Domains : governed[d] # None => Unobserved(governed[d])
    /\ \A r \in Routes, d \in Domains :
          cache[<<r, d>>] # None => cache[<<r, d>>].ttl \in MinTtl .. MaxTtl
    /\ query # Idle =>
          /\ query.snap \in State /\ query.route \in Routes \ {"Bootstrap"}
          /\ cache[<<query.route, query.domain>>] = None
    /\ scored # None => scored.data \in RouteEvidenceInput /\ scored.f32 \in F32

Init ==
    /\ config = None
    /\ clock = 0
    /\ governed = [d \in Domains |-> None]
    /\ cache = [key \in Routes \X Domains |-> None]
    /\ query = Idle
    /\ response = None /\ task = None /\ scored = None
    /\ queries = 0
    /\ learned = [d \in Domains |-> 0]
-----------------------------------------------------------------------------
\* load_from_file; a configuration that is not valid is refused.
LoadConfig ==
    /\ config = None /\ scored = None
    /\ \E c \in Configs, location \in Locations :
          /\ validate(c)
          /\ config' = [runtime |-> c, location |-> location]
    /\ UNCHANGED <<clock, governed, cache, query, response, task, scored, queries, learned>>

\* Another caller of score_route_evidence.  It shares nothing with the queries,
\* and is alone: it calls once, and no configuration is loaded then.
ScoreOther ==
    /\ config = None /\ scored = None
    /\ \E data \in Inputs, f32 \in F32 : scored' = [data |-> data, f32 |-> f32]
    /\ UNCHANGED <<config, clock, governed, cache, query, response, task, queries, learned>>

\* A cached answer that may still be served: get_scoped.
Live(entry) == entry # None /\ clock - entry.at < entry.ttl

\* The cache answers.  The state of the domain is created all the same.
Cached ==
    /\ config # None /\ query = Idle
    /\ config.runtime \in Served /\ queries < MaxQueries
    /\ \E d \in Domains :
          LET route == decide_by_domain_prior(config.location, d)
              entry == cache[<<route, d>>]
          IN  /\ Live(entry)
              /\ governed' = [governed EXCEPT ![d] = IF @ = None THEN new_state(0) ELSE @]
              /\ response' = [domain |-> d, source |-> "cache", route |-> route,
                              rcode |-> "NoError", answers |-> entry.answers,
                              age |-> clock - entry.at]
    /\ task' = None /\ scored' = None
    /\ queries' = queries + 1
    /\ UNCHANGED <<config, clock, cache, query, learned>>

\* It does not, and drops what has expired: the query goes to the route's upstreams.
Forward ==
    /\ config # None /\ query = Idle
    /\ config.runtime \in Served /\ queries < MaxQueries
    /\ \E d \in Domains :
          LET route == decide_by_domain_prior(config.location, d)
              key == <<route, d>>
              s == IF governed[d] = None THEN new_state(0) ELSE governed[d]
          IN  /\ ~Live(cache[key])
              /\ cache' = [cache EXCEPT ![key] = None]
              /\ governed' = [governed EXCEPT ![d] = s]
              /\ query' = [domain |-> d, route |-> route, snap |-> s,
                           upstreams |-> for_route(config.runtime.upstreams, route)]
    /\ response' = None /\ task' = None /\ scored' = None
    /\ queries' = queries + 1
    /\ UNCHANGED <<config, clock, learned>>

\* What resolve gives to the scoring engine.
score_input(route, evidence) ==
    [DefaultInput EXCEPT !.prior_route = PriorOf(route),
                         !.local = [china |-> evidence.cn_count,
                                    foreign |-> evidence.foreign_count]]

first_seen(s) == s.observations = 0 /\ s.phase = "New"

\* What resolve gives to the transition: FALSE for what it does not find out.
gov_input(s, score, evidence) ==
    [first_seen |-> first_seen(s), can_promote |-> score.can_promote,
     mixed |-> evidence.cn_count > 0 /\ evidence.foreign_count > 0,
     tls |-> FALSE, hard |-> FALSE, third_party |-> FALSE]

\* Slip: max_ttl_secs is not looked at.
clamp_ttl_low(ttl) == IF ttl < MinTtl THEN MinTtl ELSE ttl

clamp_ttl(ttl) == IF ttl < MinTtl THEN MinTtl ELSE IF ttl > MaxTtl THEN MaxTtl ELSE ttl

MinOf(answers) ==
    LET ttls == {answers[k].ttl : k \in DOMAIN answers}
    IN  CHOOSE t \in ttls : \A u \in ttls : t <= u

\* Slip: the route alone decides.
effective_ttl_route(location, route, answers) ==
    IF route = "China" THEN EnhancedTtl ELSE MinOf(answers)

effective_ttl(location, route, answers) ==
    IF route = "China" /\ location = "China" THEN EnhancedTtl ELSE MinOf(answers)

\* An upstream answered: analyze, score, evaluate, store, observe and cache.
\* The upstream's message is cached and returned as it came: of the selected
\* answers only the number is used, in the log, and of the refined decision
\* nothing is.
Answered(answers, rcode) ==
    LET d == query.domain
        s == query.snap
        route == query.route
        evidence == analyze_answer_geo(answers)
        data == score_input(route, evidence)
        score == score_route_evidence(data, Exact)
        r == evaluate_governance_transition(s, gov_input(s, score, evidence), 0)
        addresses == {answers[k].ip : k \in DOMAIN answers} \ {NoIp}
    IN  /\ query # Idle
        /\ scored' = [data |-> data, f32 |-> Exact]
        /\ governed' = IF r.phase_changed \/ first_seen(s)
                       THEN [governed EXCEPT ![d] =
                               [s EXCEPT !.phase = r.new_phase, !.observations = @ + 1,
                                         !.version = @ + 1]]
                       ELSE governed
        /\ task' = IF evidence.cn_count + evidence.foreign_count > 0
                   THEN [domain |-> d, phase |-> r.new_phase, route |-> data.prior_route,
                         addresses |-> addresses]
                   ELSE None
        /\ cache' = IF rcode = "NoError" /\ answers # <<>>
                    THEN [cache EXCEPT ![<<route, d>>] =
                            [answers |-> answers, at |-> clock,
                             ttl |-> clamp_ttl(effective_ttl(config.location, route, answers))]]
                    ELSE cache
        /\ response' = [domain |-> d, source |-> "upstream", route |-> route, rcode |-> rcode,
                        answers |-> answers, age |-> 0]
        /\ learned' = [learned EXCEPT ![d] = @ + 1]
        /\ query' = Idle
        /\ UNCHANGED <<config, clock, queries>>

\* Every upstream failed: the client gets ServFail, and an observation task is
\* sent.  The governance state is not touched.
Failed ==
    /\ query # Idle
    /\ task' = [domain |-> query.domain, phase |-> query.snap.phase,
                route |-> PriorOf(query.route), addresses |-> {}]
    /\ response' = [domain |-> query.domain, source |-> "failure", route |-> query.route,
                    rcode |-> "ServFail", answers |-> <<>>, age |-> 0]
    /\ query' = Idle
    /\ UNCHANGED <<config, clock, governed, cache, scored, queries, learned>>

Tick ==
    /\ config # None /\ clock < MaxTime
    /\ clock' = clock + 1
    /\ UNCHANGED <<config, governed, cache, query, response, task, scored, queries, learned>>

Next ==
    \/ LoadConfig \/ ScoreOther \/ Cached \/ Forward \/ Failed \/ Tick
    \/ \E reply \in Replies : Answered(reply.answers, reply.rcode)

Spec == Init /\ [][Next]_vars
-----------------------------------------------------------------------------
\* Whatever configuration passes validate, and whichever groups it leaves out,
\* for_route finds upstreams for every route and default_upstreams finds some
\* for the handler, and all of them have passed their own validation.
UpstreamsForEveryRoute ==
    config # None =>
        \A found \in {for_route(config.runtime.upstreams, r) : r \in Routes}
                    \cup {default_upstreams(config.runtime.upstreams)} :
            found # <<>> /\ \A k \in DOMAIN found : validate_server(found[k])

\* The two routes are scored alike: exchanging them in the evidence exchanges
\* them in the result, through every tie-break, bonus and dampening.
ScoresAreSymmetric ==
    scored # None =>
        score_route_evidence(Mirror(scored.data), MirrorF32(scored.f32))
            = MirrorScore(score_route_evidence(scored.data, scored.f32))

\* One more piece of evidence for a side.
More(data, side) ==
    {[data EXCEPT !.local[side] = @ + 1], [data EXCEPT !.third_party[side] = @ + 1],
     [data EXCEPT !.votes[side] = @ + 1]}

\* More evidence for the side that the score intends never turns it to the
\* other side, although it may move the TLS bonus and undo the dampening, and
\* however ties are rounded.
MoreEvidenceNeverFlips ==
    scored # None =>
        \A side \in Sides :
            score_route_evidence(scored.data, scored.f32).domain_intent = Intent(side) =>
                \A data \in More(scored.data, side) :
                    score_route_evidence(data, scored.f32).domain_intent # Intent(Opposite(side))

\* Even without a recorder of observations a promotion takes two answers of
\* upstreams: the first only makes the domain known, and neither cached answers
\* nor failures count.
PromotionTakesTwoAnswers ==
    \A d \in Domains :
        governed[d] # None /\ governed[d].phase = "Suggested" => learned[d] >= 2

\* The cache serves an answer beyond the TTL of its records only as long as
\* min_ttl_secs, or on the China route of a resolver in China.
OutlivesTtlOnlyInChina ==
    response # None /\ response.source = "cache" =>
        \/ response.age < MinTtl \/ response.age < MinOf(response.answers)
        \/ response.route = "China" /\ config.location = "China"

-----------------------------------------------------------------------------
(* What comments and tests of the source say and the code does not keep *)

\* What prior_conflict_multiplier is for: what resolve observes in one answer
\* does not turn the intent of a listed domain against the list.
PriorSurvivesOneAnswer ==
    /\ response # None /\ response.source = "upstream"
    /\ classify_domain(response.domain) \in {"China", "Foreign"}
    => score_route_evidence(scored.data, scored.f32).domain_intent
         # Intent(Opposite(scored.data.prior_route))

\* An answer with addresses of both routes.
Mixed(answers) == CountScope(answers, "Cn") > 0 /\ CountScope(answers, "Foreign") > 0

\* The hard rule of the scoring engine that mixed addresses are conflicting and
\* no route: such an answer promotes no domain.
MixedAnswerNeverPromotes ==
    [][\A d \in Domains :
          governed[d] # None /\ governed[d].phase = "Learning" /\ governed'[d].phase = "Suggested"
              => ~Mixed(response'.answers)]_vars
=============================================================================
