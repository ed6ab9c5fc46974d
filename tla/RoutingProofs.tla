--------------------------- MODULE RoutingProofs ----------------------------
(***************************************************************************)
(* What is true of the resolution pipeline for every configuration, list,  *)
(* address range, reply, threshold and TTL, and of the scores for every    *)
(* evidence and every rounding of an even comparison.                      *)
(***************************************************************************)
EXTENDS Routing, FiniteSetTheorems, WellFoundedInduction, NaturalsInduction, TLAPS

-----------------------------------------------------------------------------
(* Answers *)

LEMMA LeastElement ==
    ASSUME NEW S \in SUBSET Nat, S # {}
    PROVE  \E m \in S : \A n \in S : m <= n
<1> DEFINE R == OpToRel(<, Nat)
<1>1. IsWellFoundedOn(R, Nat)
  BY NatLessThanWellFounded
<1> HIDE DEF R
<1>2. PICK m \in S : \A n \in S : <<n, m>> \notin R
  BY <1>1, WFMin
<1>3. \A n \in S : ~(n < m)
  BY <1>2 DEF R, OpToRel
<1> QED
  BY <1>3

\* The smallest TTL of an answer section.
LEMMA MinOfType ==
    ASSUME NEW answers \in Seq(Rr), answers # <<>>
    PROVE  MinOf(answers) \in Nat
<1> DEFINE ttls == {answers[k].ttl : k \in DOMAIN answers}
<1>1. ttls \in SUBSET Nat /\ ttls # {}
  <2>1. DOMAIN answers = 1 .. Len(answers) /\ Len(answers) \in Nat /\ Len(answers) # 0
    OBVIOUS
  <2>2. \A k \in DOMAIN answers : answers[k].ttl \in Nat
    <3>1. \A k \in DOMAIN answers : answers[k] \in Rr
      BY <2>1
    <3> QED
      BY <3>1 DEF Rr
  <2>3. 1 \in DOMAIN answers
    BY <2>1
  <2>4. answers[1].ttl \in ttls
    BY <2>3
  <2> QED
    BY <2>2, <2>4
<1> HIDE DEF ttls
<1>2. \E t \in ttls : \A u \in ttls : t <= u
  BY <1>1, LeastElement
<1>3. (CHOOSE t \in ttls : \A u \in ttls : t <= u) \in ttls
  BY <1>2
<1>4. MinOf(answers) = CHOOSE t \in ttls : \A u \in ttls : t <= u
  BY DEF MinOf, ttls
<1> QED
  BY <1>1, <1>3, <1>4

LEMMA CountType ==
    ASSUME NEW answers \in Seq(Rr), NEW scope
    PROVE  CountScope(answers, scope) \in Nat
<1> DEFINE S == {k \in DOMAIN answers : answers[k].ip # NoIp /\ lookup(answers[k].ip) = scope}
<1>1. DOMAIN answers = 1 .. Len(answers) /\ Len(answers) \in Nat
  OBVIOUS
<1>2. IsFiniteSet(1 .. Len(answers))
  BY <1>1, FS_Interval
<1>3. S \subseteq 1 .. Len(answers)
  BY <1>1
<1> HIDE DEF S
<1>4. IsFiniteSet(S)
  BY <1>2, <1>3, FS_Subset
<1>5. Cardinality(S) \in Nat
  BY <1>4, FS_CardinalityType
<1> QED
  BY <1>5 DEF CountScope, S

LEMMA EvidenceType ==
    ASSUME NEW answers \in Seq(Rr)
    PROVE  /\ analyze_answer_geo(answers).cn_count \in Nat
           /\ analyze_answer_geo(answers).foreign_count \in Nat
BY CountType DEF analyze_answer_geo
-----------------------------------------------------------------------------
(* Route decisions *)

LEMMA PriorFacts ==
    ASSUME NEW location \in Locations, NEW d
    PROVE  decide_by_domain_prior(location, d) \in Routes \ {"Bootstrap"}
BY DEF decide_by_domain_prior, classify_domain, LocalRoute, Locations, Routes
-----------------------------------------------------------------------------
(* What the scores and the transition are given *)

LEMMA SidesFunction ==
    ASSUME NEW S, NEW a \in S, NEW b \in S
    PROVE  [china |-> a, foreign |-> b] \in [Sides -> S]
BY DEF Sides

LEMMA ScoreInputType ==
    ASSUME NEW route, NEW e, e.cn_count \in Nat, e.foreign_count \in Nat
    PROVE  score_input(route, e) \in RouteEvidenceInput
<1>1. PriorOf(route) \in Sides \cup {"unknown"}
  BY DEF PriorOf, Sides
<1>2. PICK f \in [Sides -> Nat] : f = [china |-> e.cn_count, foreign |-> e.foreign_count]
  BY SidesFunction
<1>3. PICK z \in [Sides -> Nat] : z = Nothing
  BY SidesFunction DEF Nothing
<1>4. PICK p \in Sides \cup {"unknown"} : p = PriorOf(route)
  BY <1>1
<1>5. "Unknown" \in CnameScopes /\ "Unknown" \in TlsStatuses /\ 0 \in 0 .. 100
  BY DEF CnameScopes, TlsStatuses
<1>6. DefaultInput \in RouteEvidenceInput
  BY <1>3, <1>5 DEF DefaultInput, RouteEvidenceInput
<1>7. \A x \in RouteEvidenceInput :
         [x EXCEPT !.prior_route = p, !.local = f] \in RouteEvidenceInput
  BY DEF RouteEvidenceInput
<1> QED
  BY <1>2, <1>4, <1>6, <1>7, Zenon DEF score_input

LEMMA ExactType == Exact \in F32
BY DEF Exact, F32

LEMMA NewStateFacts == Unobserved(new_state(0)) /\ new_state(0).phase = "New"
BY DEF Unobserved, new_state, State, Phases, Counted

\* What the transition makes of a state that nothing was counted in.
LEMMA TransitionFacts ==
    ASSUME NEW s, Unobserved(s), NEW e
    PROVE  LET r == evaluate_governance_transition(s, e, 0)
           IN  /\ r.new_phase \in Phases
               /\ r.new_phase = "Suggested" => s.phase # "New"
<1>r. PICK r : r = evaluate_governance_transition(s, e, 0)
  OBVIOUS
<1> SUFFICES /\ r.new_phase \in Phases
             /\ r.new_phase = "Suggested" => s.phase # "New"
  BY <1>r
<1>0. \A p, c, y : Result(p, c, y).new_phase = p
  BY DEF Result
<1>1. s.phase \in Phases /\ s \in State
  BY DEF Unobserved, State
<1>2. CASE e.first_seen \/ s.phase = "New"
  <2>1. r = Result("Learning", s.phase # "Learning", "FirstSeen")
    BY <1>2, <1>r DEF evaluate_governance_transition
  <2>2. r.new_phase = "Learning"
    BY <1>0, <2>1
  <2> QED
    BY <2>2 DEF Phases
<1>3. CASE ~(e.first_seen \/ s.phase = "New") /\ s.phase # "Fallback" /\ Triggered(s)
  <2>1. r = check_review_triggers(s)
    BY <1>3, <1>r DEF evaluate_governance_transition
  <2>2. r.new_phase = "Review"
    <3>1. \E y : r = Result("Review", TRUE, y)
      BY <2>1 DEF check_review_triggers
    <3> QED
      BY <1>0, <3>1
  <2> QED
    BY <1>3, <2>2 DEF Phases
<1>4. CASE ~(e.first_seen \/ s.phase = "New") /\ ~(s.phase # "Fallback" /\ Triggered(s))
  <2>1. r = evaluate_phase(s, e, 0)
    BY <1>4, <1>r DEF evaluate_governance_transition
  <2>2. no_change(s).new_phase = s.phase
    BY <1>0 DEF no_change
  <2>3. CASE s.phase = "Learning"
    <3>1. r = evaluate_learning(s, e)
      BY <2>1, <2>3 DEF evaluate_phase
    <3>2. r.new_phase \in {"Learning", "Suggested"}
      <4>1. r = no_change(s) \/ \E p \in {"Learning", "Suggested"} : \E c, y : r = Result(p, c, y)
        BY <3>1 DEF evaluate_learning
      <4> QED
        BY <1>0, <2>2, <2>3, <4>1
    <3> QED
      BY <2>3, <3>2 DEF Phases
  <2>4. CASE s.phase = "Suggested"
    <3>1. r = evaluate_suggested(s)
      BY <2>1, <2>4 DEF evaluate_phase
    <3>2. r.new_phase \in {"Suggested", "Stable"}
      <4>1. r = no_change(s) \/ \E p \in {"Suggested", "Stable"} : \E c, y : r = Result(p, c, y)
        BY <3>1 DEF evaluate_suggested
      <4> QED
        BY <1>0, <2>2, <2>4, <4>1
    <3> QED
      BY <2>4, <3>2 DEF Phases
  <2>5. CASE s.phase = "Stable"
    <3>1. r = no_change(s)
      BY <2>1, <2>5 DEF evaluate_phase
    <3> QED
      BY <2>2, <2>5, <3>1 DEF Phases
  <2>6. CASE s.phase = "Review"
    <3>1. r = evaluate_review(s, 0)
      BY <2>1, <2>6 DEF evaluate_phase
    <3>2. r.new_phase \in {"Fallback", "Learning", "Review"}
      <4>1. r = no_change(s) \/ \E p \in {"Fallback", "Learning"} : \E c, y : r = Result(p, c, y)
        BY <3>1 DEF evaluate_review
      <4> QED
        BY <1>0, <2>2, <2>6, <4>1
    <3> QED
      BY <2>6, <3>2 DEF Phases
  <2>7. CASE s.phase = "Fallback"
    <3>1. r = evaluate_fallback(s, e)
      BY <2>1, <2>7 DEF evaluate_phase
    <3>2. r.new_phase \in {"Fallback", "Learning"}
      <4>1. r = no_change(s) \/ \E c, y : r = Result("Learning", c, y)
        BY <3>1 DEF evaluate_fallback
      <4> QED
        BY <1>0, <2>2, <2>7, <4>1
    <3> QED
      BY <2>7, <3>2 DEF Phases
  <2> QED
    BY <1>1, <1>4, <2>3, <2>4, <2>5, <2>6, <2>7 DEF Phases
<1> QED
  BY <1>2, <1>3, <1>4

LEMMA WrittenFacts ==
    ASSUME NEW s, Unobserved(s), NEW p \in Phases
    PROVE  LET w == [s EXCEPT !.phase = p, !.observations = @ + 1, !.version = @ + 1]
           IN  Unobserved(w) /\ w.phase = p
<1> DEFINE w == [s EXCEPT !.phase = p, !.observations = s.observations + 1,
                          !.version = s.version + 1]
<1>1. s.observations + 1 \in Nat /\ s.version + 1 \in Nat \ {0} /\ s \in State
  BY DEF Unobserved, State
<1>2. \A a \in Nat, b \in Nat \ {0} :
         [s EXCEPT !.phase = p, !.observations = a, !.version = b] \in State
  BY <1>1, Zenon DEF State
<1>3. w \in State
  BY <1>1, <1>2
<1>4. /\ w.phase = p /\ w.observations = s.observations + 1 /\ w.version = s.version + 1
      /\ w.count = s.count /\ w.local = s.local /\ w.streak = s.streak /\ w.failures = s.failures
  BY <1>1 DEF State
<1> QED
  BY <1>1, <1>3, <1>4 DEF Unobserved
-----------------------------------------------------------------------------
(* The inductive invariant *)

\* What resolve has made of a domain, after n answers of upstreams.
Kept(s, n) ==
    /\ Unobserved(s)
    /\ s.phase # "New" => n >= 1
    /\ s.phase = "Suggested" => n >= 2

\* A cached answer of a route, and why it may live as long as it does.
Entry(e, r, location) ==
    /\ e.ttl \in MinTtl .. MaxTtl /\ e.at \in Int /\ MinOf(e.answers) \in Int
    /\ e.ttl <= MinTtl \/ e.ttl <= MinOf(e.answers) \/ (r = "China" /\ location = "China")

\* A resolver with a configuration has a valid one; before, it does nothing.
ConfigInv ==
    /\ config # None => \E c \in Configs, l \in Locations :
                            validate(c) /\ config = [runtime |-> c, location |-> l]
    /\ config = None => /\ query = Idle /\ response = None
                        /\ \A r \in Routes, d \in Domains : cache[<<r, d>>] = None
    /\ clock \in Int

StoreInv ==
    /\ DOMAIN governed = Domains /\ learned \in [Domains -> Nat]
    /\ \A d \in Domains : governed[d] # None => Kept(governed[d], learned[d])

CacheInv ==
    /\ DOMAIN cache = Routes \X Domains
    /\ \A r \in Routes, d \in Domains :
          cache[<<r, d>>] # None => Entry(cache[<<r, d>>], r, config.location)

\* The snapshot of a query is as good as the store, and its answer is not cached.
QueryInv ==
    query # Idle =>
        /\ query.domain \in Domains
        /\ Kept(query.snap, learned[query.domain])
        /\ query.route \in Routes \ {"Bootstrap"}
        /\ cache[<<query.route, query.domain>>] = None

ScoredInv == scored # None => scored.data \in RouteEvidenceInput /\ scored.f32 \in F32

RouteInv ==
    /\ ConfigInv /\ StoreInv /\ CacheInv /\ QueryInv /\ ScoredInv
    /\ OutlivesTtlOnlyInChina

LEMMA RouteInit == Init => RouteInv
<1> SUFFICES ASSUME Init PROVE RouteInv
  OBVIOUS
<1>1. ConfigInv
  BY DEF Init, ConfigInv
<1>2. StoreInv
  BY DEF Init, StoreInv
<1>3. CacheInv
  BY DEF Init, CacheInv
<1>4. QueryInv /\ ScoredInv /\ OutlivesTtlOnlyInChina
  BY DEF Init, QueryInv, ScoredInv, OutlivesTtlOnlyInChina
<1> QED
  BY <1>1, <1>2, <1>3, <1>4 DEF RouteInv

\* A configuration, once loaded, is a loaded one.
LEMMA ConfigFacts ==
    ASSUME ConfigInv, config # None
    PROVE  config.location \in Locations /\ validate(config.runtime)
<1>1. PICK c \in Configs, l \in Locations :
         validate(c) /\ config = [runtime |-> c, location |-> l]
  BY DEF ConfigInv
<1>2. config.runtime = c /\ config.location = l
  BY <1>1
<1> QED
  BY <1>1, <1>2

LEMMA KeptFacts ==
    ASSUME NEW s, NEW n \in Nat, Kept(s, n)
    PROVE  Kept(s, n + 1)
BY DEF Kept

LEMMA KeptNew ==
    ASSUME NEW n \in Nat
    PROVE  Kept(new_state(0), n)
BY NewStateFacts DEF Kept

\* A snapshot that the transition moves on, and that is written back.
LEMMA KeptWritten ==
    ASSUME NEW s, NEW n \in Nat, Kept(s, n), NEW e, NEW p,
           p = evaluate_governance_transition(s, e, 0).new_phase
    PROVE  LET w == [s EXCEPT !.phase = p, !.observations = @ + 1, !.version = @ + 1]
           IN  Kept(w, n + 1)
<1> DEFINE w == [s EXCEPT !.phase = p, !.observations = s.observations + 1,
                          !.version = s.version + 1]
<1>1. Unobserved(s) /\ (s.phase # "New" => n >= 1)
  BY DEF Kept
<1>2. p \in Phases /\ (p = "Suggested" => s.phase # "New")
  BY <1>1, TransitionFacts
<1>3. Unobserved(w) /\ w.phase = p
  BY <1>1, <1>2, WrittenFacts
<1> HIDE DEF w
<1>4. Kept(w, n + 1)
  BY <1>1, <1>2, <1>3 DEF Kept
<1> QED
  BY <1>4 DEF w

\* The TTL of an answer that is cached.
LEMMA TtlFacts ==
    ASSUME NEW answers \in Seq(Rr), answers # <<>>, NEW location, NEW r
    PROVE  LET ttl == clamp_ttl(effective_ttl(location, r, answers))
           IN  /\ ttl \in MinTtl .. MaxTtl
               /\ MinOf(answers) \in Int
               /\ ttl <= MinTtl \/ ttl <= MinOf(answers) \/ (r = "China" /\ location = "China")
<1>1. /\ MinTtl \in Nat /\ MaxTtl \in Nat /\ MinTtl <= MaxTtl /\ EnhancedTtl \in Nat
      /\ MinOf(answers) \in Nat
  BY RoutingAssumption, MinOfType
<1>2. CASE r = "China" /\ location = "China"
  <2>1. effective_ttl(location, r, answers) = EnhancedTtl
    BY <1>2 DEF effective_ttl
  <2> QED
    BY <1>1, <1>2, <2>1 DEF clamp_ttl
<1>3. CASE ~(r = "China" /\ location = "China")
  <2>1. effective_ttl(location, r, answers) = MinOf(answers)
    BY <1>3 DEF effective_ttl
  <2> QED
    BY <1>1, <2>1 DEF clamp_ttl
<1> QED
  BY <1>2, <1>3

LEMMA CachedStep == RouteInv /\ Cached => RouteInv'
<1> SUFFICES ASSUME RouteInv, Cached PROVE RouteInv'
  OBVIOUS
<1>0. /\ ConfigInv /\ StoreInv /\ CacheInv /\ QueryInv
      /\ config # None /\ query = Idle /\ config.location \in Locations
  BY ConfigFacts DEF RouteInv, Cached
<1> DEFINE Hit(d, r, e) ==
         /\ r = decide_by_domain_prior(config.location, d) /\ e = cache[<<r, d>>]
         /\ Live(e)
         /\ governed' = [governed EXCEPT ![d] = IF governed[d] = None THEN new_state(0)
                                                                     ELSE governed[d]]
         /\ response' = [domain |-> d, source |-> "cache", route |-> r, rcode |-> "NoError",
                         answers |-> e.answers, age |-> clock - e.at]
<1>h. PICK d \in Domains : \E r, e : Hit(d, r, e)
  BY DEF Cached
<1>1. PICK r, e : Hit(d, r, e)
  BY <1>h
<1>2. UNCHANGED <<config, clock, cache, query, learned>> /\ scored' = None
  BY DEF Cached
<1>3. r \in Routes
  BY <1>0, <1>1, PriorFacts
<1>4. ConfigInv'
  BY <1>0, <1>2 DEF ConfigInv
<1>5. StoreInv'
  <2>1. \A x \in Domains : governed'[x] # None => Kept(governed'[x], learned[x])
    BY <1>0, <1>1, KeptNew DEF StoreInv
  <2>2. DOMAIN governed' = Domains
    BY <1>0, <1>1 DEF StoreInv
  <2> QED
    BY <1>0, <1>2, <2>1, <2>2 DEF StoreInv
<1>6. CacheInv' /\ QueryInv' /\ ScoredInv'
  BY <1>0, <1>2 DEF CacheInv, QueryInv, ScoredInv, Idle
<1>7. OutlivesTtlOnlyInChina'
  <2>1. Entry(e, r, config.location) /\ clock \in Int /\ clock - e.at < e.ttl
    BY <1>0, <1>1, <1>3 DEF CacheInv, ConfigInv, Live
  <2>2. response'.route = r /\ response'.age = clock - e.at /\ response'.answers = e.answers
    BY <1>1
  <2>3. MinTtl \in Nat /\ MaxTtl \in Nat
    BY RoutingAssumption
  <2>4. \/ clock - e.at < MinTtl \/ clock - e.at < MinOf(e.answers)
        \/ r = "China" /\ config.location = "China"
    BY <2>1, <2>3 DEF Entry
  <2>5. MinOf(response.answers)' = MinOf(e.answers)
    BY <2>2 DEF MinOf
  <2> QED
    BY <1>2, <2>2, <2>4, <2>5 DEF OutlivesTtlOnlyInChina
<1> QED
  BY <1>4, <1>5, <1>6, <1>7 DEF RouteInv

LEMMA ForwardStep == RouteInv /\ Forward => RouteInv'
<1> SUFFICES ASSUME RouteInv, Forward PROVE RouteInv'
  OBVIOUS
<1>0. /\ ConfigInv /\ StoreInv /\ CacheInv
      /\ config # None /\ config.location \in Locations
  BY ConfigFacts DEF RouteInv, Forward
<1> DEFINE Miss(d, x, s) ==
         /\ x = decide_by_domain_prior(config.location, d)
         /\ s = IF governed[d] = None THEN new_state(0) ELSE governed[d]
         /\ cache' = [cache EXCEPT ![<<x, d>>] = None]
         /\ governed' = [governed EXCEPT ![d] = s]
         /\ query' = [domain |-> d, route |-> x, snap |-> s,
                      upstreams |-> for_route(config.runtime.upstreams, x)]
<1>m. PICK d \in Domains : \E x, s : Miss(d, x, s)
  BY DEF Forward
<1>1. PICK x, s : Miss(d, x, s)
  BY <1>m
<1>2. UNCHANGED <<config, clock, learned>> /\ response' = None /\ scored' = None
  BY DEF Forward
<1>3. x \in Routes \ {"Bootstrap"}
  BY <1>0, <1>1, PriorFacts
<1>4. Kept(s, learned[d]) /\ learned[d] \in Nat
  BY <1>0, <1>1, KeptNew DEF StoreInv
<1>5. ConfigInv'
  BY <1>0, <1>2 DEF ConfigInv
<1>6. StoreInv'
  BY <1>0, <1>1, <1>2, <1>4 DEF StoreInv
<1>7. CacheInv' /\ cache'[<<x, d>>] = None
  <2>1. DOMAIN cache' = Routes \X Domains /\ <<x, d>> \in Routes \X Domains
    BY <1>0, <1>1, <1>3 DEF CacheInv
  <2>2. \A r \in Routes, y \in Domains :
           cache'[<<r, y>>] = None \/ cache'[<<r, y>>] = cache[<<r, y>>]
    BY <1>0, <1>1 DEF CacheInv
  <2>3. cache'[<<x, d>>] = None
    BY <1>0, <1>1, <2>1 DEF CacheInv
  <2> QED
    BY <1>0, <1>2, <2>1, <2>2, <2>3 DEF CacheInv
<1>8. QueryInv'
  <2>1. query'.domain = d /\ query'.route = x /\ query'.snap = s
    BY <1>1
  <2> QED
    BY <1>2, <1>3, <1>4, <1>7, <2>1 DEF QueryInv
<1>9. ScoredInv' /\ OutlivesTtlOnlyInChina'
  BY <1>2 DEF ScoredInv, OutlivesTtlOnlyInChina
<1> QED
  BY <1>5, <1>6, <1>7, <1>8, <1>9 DEF RouteInv

LEMMA AnsweredStep ==
    ASSUME RouteInv, NEW reply \in Replies, Answered(reply.answers, reply.rcode)
    PROVE  RouteInv'
<1>1. PICK answers \in Seq(Rr) : answers = reply.answers
  BY RoutingAssumption
<1> DEFINE d == query.domain
           s == query.snap
           route == query.route
           evidence == analyze_answer_geo(answers)
           data == score_input(route, evidence)
           score == score_route_evidence(data, Exact)
           input == gov_input(s, score, evidence)
           r == evaluate_governance_transition(s, input, 0)
           written == [s EXCEPT !.phase = r.new_phase, !.observations = @ + 1, !.version = @ + 1]
           entry == [answers |-> answers, at |-> clock,
                     ttl |-> clamp_ttl(effective_ttl(config.location, route, answers))]
<1>2. /\ query # Idle /\ query' = Idle
      /\ scored' = [data |-> data, f32 |-> Exact]
      /\ governed' = governed \/ governed' = [governed EXCEPT ![d] = written]
      /\ cache' = cache \/ (answers # <<>> /\ cache' = [cache EXCEPT ![<<route, d>>] = entry])
      /\ response'.source = "upstream"
      /\ learned' = [learned EXCEPT ![d] = learned[d] + 1]
      /\ UNCHANGED <<config, clock>>
  BY <1>1 DEF Answered
<1>3. /\ ConfigInv /\ StoreInv /\ CacheInv /\ config # None
      /\ d \in Domains /\ Kept(s, learned[d]) /\ learned[d] \in Nat
      /\ route \in Routes
  BY <1>2 DEF RouteInv, QueryInv, ConfigInv, StoreInv
<1>4. evidence.cn_count \in Nat /\ evidence.foreign_count \in Nat
  BY EvidenceType
<1> HIDE DEF evidence
<1>5. data \in RouteEvidenceInput
  BY <1>4, ScoreInputType
<1> HIDE DEF data, score, input, r
<1>6. Kept(written, learned[d] + 1)
  BY <1>3, KeptWritten DEF r
<1> HIDE DEF written
<1>7. ConfigInv'
  BY <1>2, <1>3 DEF ConfigInv
<1>8. StoreInv'
  <2>1. learned' \in [Domains -> Nat] /\ \A x \in Domains :
           learned'[x] = learned[x] \/ (x = d /\ learned'[x] = learned[x] + 1)
    BY <1>2, <1>3 DEF StoreInv
  <2>2. DOMAIN governed' = Domains
    BY <1>2, <1>3 DEF StoreInv
  <2>3. ASSUME NEW x \in Domains, governed'[x] # None PROVE Kept(governed'[x], learned'[x])
    <3>1. learned[x] \in Nat
      BY <1>3 DEF StoreInv
    <3>2. CASE governed'[x] = governed[x]
      <4>1. Kept(governed[x], learned[x])
        BY <1>3, <2>3, <3>2 DEF StoreInv
      <4> QED
        BY <2>1, <3>1, <3>2, <4>1, KeptFacts
    <3>3. CASE governed'[x] # governed[x]
      <4>1. x = d /\ governed'[x] = written
        BY <1>2, <1>3, <3>3 DEF StoreInv
      <4>2. learned'[d] = learned[d] + 1
        BY <1>2, <1>3 DEF StoreInv
      <4> QED
        BY <1>6, <4>1, <4>2
    <3> QED
      BY <3>2, <3>3
  <2> QED
    BY <2>1, <2>2, <2>3 DEF StoreInv
<1>9. CacheInv'
  <2>1. CASE cache' = cache
    BY <1>2, <1>3, <2>1 DEF CacheInv
  <2>2. CASE answers # <<>> /\ cache' = [cache EXCEPT ![<<route, d>>] = entry]
    <3>1. DOMAIN cache' = Routes \X Domains
      BY <1>3, <2>2 DEF CacheInv
    <3>2. Entry(entry, route, config.location)
      <4>1. /\ entry.answers = answers /\ entry.at = clock
            /\ entry.ttl = clamp_ttl(effective_ttl(config.location, route, answers))
        OBVIOUS
      <4> HIDE DEF entry, route
      <4>2. clock \in Int
        BY <1>3 DEF ConfigInv
      <4> QED
        BY <2>2, <4>1, <4>2, TtlFacts DEF Entry
    <3> HIDE DEF entry, route, d
    <3>3. ASSUME NEW q \in Routes, NEW y \in Domains, cache'[<<q, y>>] # None
          PROVE  Entry(cache'[<<q, y>>], q, config.location)
      <4>1. CASE q = route /\ y = d
        <5>1. cache'[<<q, y>>] = entry
          BY <1>3, <2>2, <4>1 DEF CacheInv
        <5> QED
          BY <3>2, <4>1, <5>1
      <4>2. CASE ~(q = route /\ y = d)
        <5>1. <<q, y>> # <<route, d>> /\ <<q, y>> \in Routes \X Domains
          BY <4>2
        <5>2. cache'[<<q, y>>] = cache[<<q, y>>]
          BY <1>3, <2>2, <5>1 DEF CacheInv
        <5> QED
          BY <1>3, <3>3, <5>2 DEF CacheInv
      <4> QED
        BY <4>1, <4>2
    <3> QED
      BY <1>2, <3>1, <3>3 DEF CacheInv
  <2> QED
    BY <1>2, <2>1, <2>2
<1>10. QueryInv'
  BY <1>2 DEF QueryInv, Idle
<1>11. ScoredInv'
  BY <1>2, <1>5, ExactType DEF ScoredInv
<1>12. OutlivesTtlOnlyInChina'
  BY <1>2 DEF OutlivesTtlOnlyInChina
<1> QED
  BY <1>7, <1>8, <1>9, <1>10, <1>11, <1>12 DEF RouteInv

LEMMA RouteStep == RouteInv /\ [Next]_vars => RouteInv'
<1> SUFFICES ASSUME RouteInv, [Next]_vars PROVE RouteInv'
  OBVIOUS
<1>1. CASE LoadConfig
  <2>1. PICK c \in Configs, l \in Locations :
           validate(c) /\ config' = [runtime |-> c, location |-> l]
    BY <1>1 DEF LoadConfig
  <2>2. /\ config = None
        /\ UNCHANGED <<clock, governed, cache, query, response, scored, learned>>
    BY <1>1 DEF LoadConfig
  <2>3. /\ query = Idle /\ response = None /\ clock \in Int
        /\ \A r \in Routes, d \in Domains : cache[<<r, d>>] = None
    BY <2>2 DEF RouteInv, ConfigInv
  <2>4. config' # None
    BY <2>1, AbsenceAssumption
  <2>5. ConfigInv'
    BY <2>1, <2>2, <2>3, <2>4 DEF ConfigInv
  <2>6. StoreInv' /\ ScoredInv' /\ QueryInv'
    BY <2>2 DEF RouteInv, StoreInv, ScoredInv, QueryInv, Idle
  <2>7. CacheInv' /\ OutlivesTtlOnlyInChina'
    BY <2>2, <2>3 DEF RouteInv, CacheInv, OutlivesTtlOnlyInChina
  <2> QED
    BY <2>5, <2>6, <2>7 DEF RouteInv
<1>2. CASE ScoreOther
  <2>1. PICK data \in Inputs, f32 \in F32 : scored' = [data |-> data, f32 |-> f32]
    BY <1>2 DEF ScoreOther
  <2>2. UNCHANGED <<config, clock, governed, cache, query, response, learned>>
    BY <1>2 DEF ScoreOther
  <2>3. ScoredInv'
    BY <2>1, RoutingAssumption DEF ScoredInv
  <2> QED
    BY <2>2, <2>3 DEF RouteInv, ConfigInv, StoreInv, CacheInv, QueryInv, Idle,
                      OutlivesTtlOnlyInChina, MinOf
<1>3. CASE Cached
  BY <1>3, CachedStep
<1>4. CASE Forward
  BY <1>4, ForwardStep
<1>5. CASE \E reply \in Replies : Answered(reply.answers, reply.rcode)
  BY <1>5, AnsweredStep
<1>6. CASE Failed
  <2>1. /\ query # Idle /\ query' = Idle /\ response'.source = "failure"
        /\ UNCHANGED <<config, clock, governed, cache, scored, learned>>
    BY <1>6 DEF Failed
  <2>2. config # None
    BY <2>1 DEF RouteInv, ConfigInv
  <2>3. ConfigInv' /\ QueryInv' /\ OutlivesTtlOnlyInChina'
    BY <2>1, <2>2 DEF RouteInv, ConfigInv, QueryInv, OutlivesTtlOnlyInChina, Idle
  <2> QED
    BY <2>1, <2>3 DEF RouteInv, StoreInv, CacheInv, ScoredInv
<1>7. CASE Tick
  <2>1. /\ config # None /\ clock' = clock + 1
        /\ UNCHANGED <<config, governed, cache, query, response, scored, learned>>
    BY <1>7 DEF Tick
  <2>2. ConfigInv'
    BY <2>1 DEF RouteInv, ConfigInv
  <2> QED
    BY <2>1, <2>2 DEF RouteInv, StoreInv, CacheInv, QueryInv, ScoredInv, Idle,
                      OutlivesTtlOnlyInChina, MinOf
<1>8. CASE UNCHANGED vars
  BY <1>8 DEF vars, RouteInv, ConfigInv, StoreInv, CacheInv, QueryInv, ScoredInv, Idle,
              OutlivesTtlOnlyInChina, MinOf
<1> QED
  BY <1>1, <1>2, <1>3, <1>4, <1>5, <1>6, <1>7, <1>8 DEF Next

LEMMA RouteAlways == Spec => []RouteInv
BY RouteInit, RouteStep, PTL DEF Spec
-----------------------------------------------------------------------------
(* The scores *)

\* What weakens or rounds a sum keeps the order of sums.
LEMMA Scale ==
    /\ \A a, b \in Int : a <= b => (a * 70) \div 100 <= (b * 70) \div 100
    /\ \A a, b \in Int : a <= b => (a * 65) \div 100 <= (b * 65) \div 100
    /\ \A a \in Nat : (a * 70) \div 100 \in Nat /\ (a * 70) \div 100 <= a
    /\ \A a \in Nat : (a * 65) \div 100 \in Nat
    /\ \A a, b \in Nat, c \in Int : a <= b => ((a + c) \div 10) * 10 <= ((b + c) \div 10) * 10
OBVIOUS

\* The sum of a side: what Aggregate computes.
OfSide(data, side) ==
        (IF data.prior_route = side THEN 240000 ELSE 0)
        + data.local[side] * 140000
        + data.third_party[side] * 120000
        + data.votes[side] * 50000
        + (CASE data.cname_scope = Provider(side) -> 90000
             [] data.cname_scope = "GlobalCdn" -> 25000
             [] OTHER -> 0)

LEMMA WeightsAre ==
    /\ Weights.domain_prior = 240000 /\ Weights.local_ip_geo = 140000
    /\ Weights.third_party_ip_geo = 120000 /\ Weights.peer_route_vote = 50000
    /\ Weights.cname_provider = 90000 /\ Weights.cname_global_each_side = 25000
    /\ Weights.tls_identity_bonus = 20000
    /\ Weights.tls_mismatch_percent = 65 /\ Weights.prior_conflict_percent = 70
BY DEF Weights

LEMMA AggregateIs ==
    ASSUME NEW data, NEW side \in Sides
    PROVE  Aggregate(data)[side] = OfSide(data, side)
<1>1. CASE side = "china"
  BY <1>1, WeightsAre DEF Aggregate, BySide, OfSide
<1>2. CASE side = "foreign"
  BY <1>2, WeightsAre DEF Aggregate, BySide, OfSide
<1> QED
  BY <1>1, <1>2 DEF Sides

\* Which of two sums is the larger one, a tie decided by the rounding.
Lead(a, b, tie) == a > b \/ (a = b /\ tie)

\* What the TLS status makes of a sum.
TlsOf(tls, a, lead) ==
    IF tls \in TlsMatch /\ lead THEN a + 20000
    ELSE IF tls = "Mismatch" THEN (a * 65) \div 100 ELSE a

\* What the protection of the prior makes of it.
DampOf(protected, a, lead) == IF protected /\ lead THEN (a * 70) \div 100 ELSE a

LEMMA WithTlsIs ==
    ASSUME NEW data, NEW score, NEW f32, NEW side \in Sides
    PROVE  WithTls(data, score, f32)[side] =
              TlsOf(data.tls, score[side],
                    Lead(score[side], score[Opposite(side)], f32.larger = side))
<1>1. CASE side = "china"
  BY <1>1, WeightsAre DEF WithTls, BySide, TlsOf, Lead, LeadsRaw, Leads
<1>2. CASE side = "foreign"
  BY <1>2, WeightsAre DEF WithTls, BySide, TlsOf, Lead, LeadsRaw, Leads
<1> QED
  BY <1>1, <1>2 DEF Sides

LEMMA DampenedIs ==
    ASSUME NEW data, NEW score, NEW f32, NEW side \in Sides
    PROVE  Dampened(data, score, f32)[side] =
              DampOf(~data.first_seen /\ data.prior_route = Opposite(side), score[side],
                     Lead(score[side], score[Opposite(side)], f32.larger = side))
<1>1. CASE side = "china"
  BY <1>1, WeightsAre DEF Dampened, BySide, DampOf, Lead, LeadsRaw, Leads
<1>2. CASE side = "foreign"
  BY <1>2, WeightsAre DEF Dampened, BySide, DampOf, Lead, LeadsRaw, Leads
<1> QED
  BY <1>1, <1>2 DEF Sides

LEMMA ScoresIs ==
    ASSUME NEW data, NEW f32, NEW side \in Sides
    PROVE  Scores(data, f32)[side] =
             round_4(Dampened(data, WithTls(data, Aggregate(data), f32), f32)[side], f32)
<1>1. CASE side = "china"
  BY <1>1 DEF Scores, BySide
<1>2. CASE side = "foreign"
  BY <1>2 DEF Scores, BySide
<1> QED
  BY <1>1, <1>2 DEF Sides

LEMMA OppositeFacts ==
    ASSUME NEW side \in Sides
    PROVE  Opposite(side) \in Sides /\ Opposite(side) # side /\ Opposite(Opposite(side)) = side
BY DEF Sides, Opposite

LEMMA OfSideType ==
    ASSUME NEW data \in RouteEvidenceInput, NEW side \in Sides
    PROVE  OfSide(data, side) \in Nat
<1>1. data.local[side] \in Nat /\ data.third_party[side] \in Nat /\ data.votes[side] \in Nat
  BY DEF RouteEvidenceInput
<1> DEFINE c == CASE data.cname_scope = Provider(side) -> 90000
             [] data.cname_scope = "GlobalCdn" -> 25000
             [] OTHER -> 0
           p == IF data.prior_route = side THEN 240000 ELSE 0
<1>2. c \in Nat /\ p \in Nat
  OBVIOUS
<1>3. OfSide(data, side) = p + data.local[side] * 140000
        + data.third_party[side] * 120000
        + data.votes[side] * 50000 + c
  BY DEF OfSide
<1> HIDE DEF c, p
<1> QED
  BY <1>1, <1>2, <1>3

\* The score of a side that starts with a against b.
Final(data, f32, side, a, b) ==
    LET x == TlsOf(data.tls, a, Lead(a, b, f32.larger = side))
        y == TlsOf(data.tls, b, Lead(b, a, f32.larger = Opposite(side)))
    IN  round_4(DampOf(~data.first_seen /\ data.prior_route = Opposite(side), x,
                       Lead(x, y, f32.larger = side)), f32)

LEMMA FinalIs ==
    ASSUME NEW data, NEW f32, NEW side \in Sides
    PROVE  Scores(data, f32)[side] =
             Final(data, f32, side, OfSide(data, side), OfSide(data, Opposite(side)))
<1> DEFINE o == Opposite(side)
           w == WithTls(data, Aggregate(data), f32)
<1>1. o \in Sides /\ Opposite(o) = side
  BY OppositeFacts
<1>2. w[side] = TlsOf(data.tls, OfSide(data, side),
                      Lead(OfSide(data, side), OfSide(data, o), f32.larger = side))
  BY <1>1, WithTlsIs, AggregateIs
<1>3. w[o] = TlsOf(data.tls, OfSide(data, o),
                      Lead(OfSide(data, o), OfSide(data, side), f32.larger = o))
  BY <1>1, WithTlsIs, AggregateIs
<1>4. Dampened(data, w, f32)[side] =
         DampOf(~data.first_seen /\ data.prior_route = o, w[side],
                Lead(w[side], w[o], f32.larger = side))
  BY DampenedIs
<1>5. Scores(data, f32)[side] = round_4(Dampened(data, w, f32)[side], f32)
  BY ScoresIs
<1> HIDE DEF w
<1> QED
  BY <1>2, <1>3, <1>4, <1>5 DEF Final

LEMMA TlsType ==
    ASSUME NEW tls, NEW a \in Nat, NEW l
    PROVE  TlsOf(tls, a, l) \in Nat
<1> DEFINE A == (a * 65) \div 100
<1>1. A \in Nat
  BY Scale
<1>2. TlsOf(tls, a, l) = IF tls \in TlsMatch /\ l THEN a + 20000
                         ELSE IF tls = "Mismatch" THEN A ELSE a
  BY DEF TlsOf
<1> HIDE DEF A
<1> QED
  BY <1>1, <1>2

\* More for a side and as much for the other: no less for the side after the
\* TLS status, and no more for the other, although the bonus may move.
LEMMA TlsFacts ==
    ASSUME NEW tls, NEW a \in Nat, NEW b \in Nat, NEW c \in Nat, NEW s, NEW t, a <= c
    PROVE  /\ TlsOf(tls, a, s) \in Nat
           /\ TlsOf(tls, a, Lead(a, b, s)) <= TlsOf(tls, c, Lead(c, b, s))
           /\ TlsOf(tls, b, Lead(b, c, t)) <= TlsOf(tls, b, Lead(b, a, t))
<1> DEFINE A == (a * 65) \div 100
           C == (c * 65) \div 100
           B == (b * 65) \div 100
<1>1. A \in Nat /\ B \in Nat /\ C \in Nat /\ A <= C
  BY Scale
<1> HIDE DEF A, B, C
<1>2. \A l : TlsOf(tls, a, l) = IF tls \in TlsMatch /\ l THEN a + 20000
                                ELSE IF tls = "Mismatch" THEN A ELSE a
  BY DEF A, TlsOf
<1>3. \A l : TlsOf(tls, b, l) = IF tls \in TlsMatch /\ l THEN b + 20000
                                ELSE IF tls = "Mismatch" THEN B ELSE b
  BY DEF B, TlsOf
<1>4. \A l : TlsOf(tls, c, l) = IF tls \in TlsMatch /\ l THEN c + 20000
                                ELSE IF tls = "Mismatch" THEN C ELSE c
  BY DEF C, TlsOf
<1>5. Lead(a, b, s) => Lead(c, b, s)
  BY DEF Lead
<1>6. Lead(b, c, t) => Lead(b, a, t)
  BY DEF Lead
<1>7. TlsOf(tls, a, s) \in Nat
  BY <1>1, <1>2
<1>8. TlsOf(tls, a, Lead(a, b, s)) <= TlsOf(tls, c, Lead(c, b, s))
  BY <1>1, <1>2, <1>4, <1>5 DEF TlsMatch
<1>9. TlsOf(tls, b, Lead(b, c, t)) <= TlsOf(tls, b, Lead(b, a, t))
  BY <1>1, <1>3, <1>6 DEF TlsMatch
<1> QED
  BY <1>7, <1>8, <1>9

LEMMA RoundFacts ==
    ASSUME NEW f32, NEW a \in Nat, NEW b \in Nat
    PROVE  /\ round_4(a, f32) \in Nat
           /\ a <= b => round_4(a, f32) <= round_4(b, f32)
           /\ a - 9 <= round_4(a, f32) /\ round_4(a, f32) <= a + 5
<1> DEFINE c == IF f32.up THEN 5 ELSE 4
<1>1. c \in {4, 5}
  OBVIOUS
<1>2. \A v : round_4(v, f32) = ((v + c) \div 10) * 10
  BY DEF round_4
<1> HIDE DEF c
<1> QED
  BY <1>1, <1>2

\* The dampening of two sums of the same lead keeps their order.
LEMMA DampFacts ==
    ASSUME NEW g, NEW l, NEW a \in Nat, NEW b \in Nat
    PROVE  /\ DampOf(g, a, l) \in Nat /\ DampOf(g, a, l) <= a
           /\ a <= b => DampOf(g, a, l) <= DampOf(g, b, l)
           /\ ~g => DampOf(g, a, l) = a
           /\ ~l => DampOf(g, a, l) = a
           /\ g /\ l => DampOf(g, a, l) = (a * 70) \div 100
<1> DEFINE A == (a * 70) \div 100
           B == (b * 70) \div 100
<1>1. A \in Nat /\ A <= a /\ (a <= b => A <= B)
  BY Scale
<1>2. DampOf(g, a, l) = IF g /\ l THEN A ELSE a
  BY DEF DampOf
<1>3. DampOf(g, b, l) = IF g /\ l THEN B ELSE b
  BY DEF DampOf
<1> HIDE DEF A, B
<1>4. A = (a * 70) \div 100
  BY DEF A
<1> QED
  BY <1>1, <1>2, <1>3, <1>4

\* A lead of three quarters that domain_intent sees.
Far(p, q, f32) == p - q > 75000 \/ (p - q = 75000 /\ ~f32.below)

\* An intent is a lead of three quarters, or the prior where nobody has one.
LEMMA IntentNeeds ==
    ASSUME NEW data, NEW f32, NEW score, NEW side \in Sides, NEW p \in Nat, NEW q \in Nat,
           score[side] = p, score[Opposite(side)] = q,
           domain_intent(data, score, f32) = Intent(side)
    PROVE  Far(p, q, f32) \/ (data.prior_route = side /\ ~Far(q, p, f32))
<1>1. ASSUME Below(score, 75000, f32)
      PROVE  ~Far(p, q, f32) /\ ~Far(q, p, f32)
  <2>1. CASE side = "china"
    BY <1>1, <2>1 DEF Below, Margin, Leads, Far, Opposite
  <2>2. CASE side = "foreign"
    BY <1>1, <2>2 DEF Below, Margin, Leads, Far, Opposite
  <2> QED
    BY <2>1, <2>2 DEF Sides
<1>2. ASSUME ~Below(score, 75000, f32), p > q
      PROVE  Far(p, q, f32)
  <2>1. CASE side = "china"
    BY <1>2, <2>1 DEF Below, Margin, Leads, Far, Opposite
  <2>2. CASE side = "foreign"
    BY <1>2, <2>2 DEF Below, Margin, Leads, Far, Opposite
  <2> QED
    BY <2>1, <2>2 DEF Sides
<1>3. CASE Below(score, 75000, f32)
  <2>1. data.prior_route \in Sides /\ Intent(data.prior_route) = Intent(side)
    BY <1>3 DEF domain_intent, Intent, Sides
  <2> QED
    BY <2>1, <1>1, <1>3 DEF Intent, Sides
<1>4. CASE ~Below(score, 75000, f32)
  <2>1. IF Leads(score, "china") THEN side = "china" ELSE side = "foreign"
    BY <1>4 DEF domain_intent, Intent, Sides
  <2>2. p >= q
    BY <2>1 DEF Leads, Opposite, Sides
  <2>3. p = q => Below(score, 75000, f32)
    <3>1. ASSUME p = q PROVE Margin(score) = 0
      BY <3>1 DEF Margin, Sides, Opposite
    <3> QED
      BY <3>1 DEF Below
  <2> QED
    BY <1>2, <1>4, <2>2, <2>3
<1> QED
  BY <1>3, <1>4

\* Evidence for a side keeps its far lead and never makes one of the other.
LEMMA MoreKeeps ==
    ASSUME NEW data \in RouteEvidenceInput, NEW more \in RouteEvidenceInput, NEW f32 \in F32,
           NEW side \in Sides,
           more.tls = data.tls, more.first_seen = data.first_seen,
           more.prior_route = data.prior_route,
           OfSide(data, side) <= OfSide(more, side),
           OfSide(data, Opposite(side)) = OfSide(more, Opposite(side))
    PROVE  LET o == Opposite(side)
               p == Scores(data, f32)[side]
               q == Scores(data, f32)[o]
               r == Scores(more, f32)[side]
               s == Scores(more, f32)[o]
           IN  /\ p \in Nat /\ q \in Nat /\ r \in Nat /\ s \in Nat
               /\ data.prior_route # o /\ s > r => p <= r /\ s <= q
               /\ data.prior_route = o /\ p > q => p <= r /\ s <= q
<1> DEFINE o == Opposite(side)
<1>0. o \in Sides /\ o # side /\ Opposite(o) = side
  BY OppositeFacts
<1>1. PICK a \in Nat : a = OfSide(data, side)
  BY OfSideType
<1>2. PICK b \in Nat : b = OfSide(data, o) /\ b = OfSide(more, o)
  BY OfSideType, <1>0
<1>3. PICK c \in Nat : c = OfSide(more, side) /\ a <= c
  BY OfSideType, <1>1
<1>4. PICK tls, ts, to, gs, go :
        /\ tls = data.tls /\ ts = (f32.larger = side) /\ to = (f32.larger = o)
        /\ gs = (~data.first_seen /\ data.prior_route = o)
        /\ go = (~data.first_seen /\ data.prior_route = side)
  OBVIOUS
<1>5. PICK x \in Nat, y \in Nat :
        x = TlsOf(tls, a, Lead(a, b, ts)) /\ y = TlsOf(tls, b, Lead(b, a, to))
  BY TlsType, Zenon
<1>6. PICK x2 \in Nat, y2 \in Nat :
        x2 = TlsOf(tls, c, Lead(c, b, ts)) /\ y2 = TlsOf(tls, b, Lead(b, c, to))
  BY TlsType, Zenon
<1>7. x <= x2 /\ y2 <= y
  BY <1>3, <1>5, <1>6, TlsFacts
<1>8. PICK u \in Nat, v \in Nat :
        u = DampOf(gs, x, Lead(x, y, ts)) /\ v = DampOf(go, y, Lead(y, x, to))
  BY DampFacts
<1>9. PICK u2 \in Nat, v2 \in Nat :
        u2 = DampOf(gs, x2, Lead(x2, y2, ts)) /\ v2 = DampOf(go, y2, Lead(y2, x2, to))
  BY DampFacts
<1>10. PICK p \in Nat, q \in Nat : p = round_4(u, f32) /\ q = round_4(v, f32)
  BY RoundFacts
<1>11. PICK r \in Nat, s \in Nat : r = round_4(u2, f32) /\ s = round_4(v2, f32)
  BY RoundFacts
<1>12. Scores(data, f32)[side] = p
  <2>1. Scores(data, f32)[side] = Final(data, f32, side, a, b)
    BY <1>1, <1>2, FinalIs
  <2> QED
    BY <2>1, <1>4, <1>5, <1>8, <1>10 DEF Final
<1>13. Scores(data, f32)[o] = q
  <2>1. Scores(data, f32)[o] = Final(data, f32, o, b, a)
    BY <1>0, <1>1, <1>2, FinalIs
  <2> QED
    BY <2>1, <1>0, <1>4, <1>5, <1>8, <1>10 DEF Final
<1>14. Scores(more, f32)[side] = r
  <2>1. Scores(more, f32)[side] = Final(more, f32, side, c, b)
    BY <1>2, <1>3, FinalIs
  <2> QED
    BY <2>1, <1>4, <1>6, <1>9, <1>11 DEF Final
<1>15. Scores(more, f32)[o] = s
  <2>1. Scores(more, f32)[o] = Final(more, f32, o, b, c)
    BY <1>0, <1>2, <1>3, FinalIs
  <2> QED
    BY <2>1, <1>0, <1>4, <1>6, <1>9, <1>11 DEF Final
<1>16. ASSUME data.prior_route # o, s > r PROVE p <= r /\ s <= q
  <2>0. ~gs
    BY <1>16, <1>4
  <2>1. u = x /\ u2 = x2
    BY <2>0, <1>8, <1>9 DEF DampOf
  <2>2. v2 > u2
    BY <1>11, <1>16, RoundFacts
  <2>9. v2 <= y2
    BY <1>9, DampFacts, Zenon
  <2>3. y2 > x2
    BY <2>1, <2>2, <2>9
  <2>4. Lead(y2, x2, to) = TRUE /\ Lead(y, x, to) = TRUE
    BY <2>3, <1>7 DEF Lead
  <2>5. v2 <= v
    BY <2>4, <1>7, <1>8, <1>9, DampFacts
  <2> QED
    BY <2>1, <2>5, <1>7, <1>10, <1>11, RoundFacts
<1>17. ASSUME data.prior_route = o, p > q PROVE p <= r /\ s <= q
  <2>0. ~go
    BY <1>0, <1>17, <1>4
  <2>1. v = y /\ v2 = y2
    BY <2>0, <1>8, <1>9 DEF DampOf
  <2>2. u > v
    BY <1>10, <1>17, RoundFacts
  <2>9. u <= x
    BY <1>8, DampFacts, Zenon
  <2>3. x > y
    BY <2>1, <2>2, <2>9
  <2>4. Lead(x2, y2, ts) = TRUE /\ Lead(x, y, ts) = TRUE
    BY <2>3, <1>7 DEF Lead
  <2>5. u <= u2
    BY <2>4, <1>7, <1>8, <1>9, DampFacts
  <2> QED
    BY <2>1, <2>5, <1>7, <1>10, <1>11, RoundFacts
<1> QED
  BY <1>12, <1>13, <1>14, <1>15, <1>16, <1>17

\* Where the prior is not for the other side, a far lead of the other after the
\* evidence was one before; where it is, the side had a far lead and keeps it.
LEMMA NeverFlips ==
    ASSUME NEW data \in RouteEvidenceInput, NEW more \in RouteEvidenceInput, NEW f32 \in F32,
           NEW side \in Sides,
           more.tls = data.tls, more.first_seen = data.first_seen,
           more.prior_route = data.prior_route,
           OfSide(data, side) <= OfSide(more, side),
           OfSide(data, Opposite(side)) = OfSide(more, Opposite(side)),
           domain_intent(data, Scores(data, f32), f32) = Intent(side)
    PROVE  domain_intent(more, Scores(more, f32), f32) # Intent(Opposite(side))
<1> DEFINE o == Opposite(side)
<1>0. o \in Sides /\ o # side /\ Opposite(o) = side
  BY OppositeFacts
<1>1. PICK p \in Nat, q \in Nat, r \in Nat, s \in Nat :
        /\ p = Scores(data, f32)[side] /\ q = Scores(data, f32)[o]
        /\ r = Scores(more, f32)[side] /\ s = Scores(more, f32)[o]
        /\ data.prior_route # o /\ s > r => p <= r /\ s <= q
        /\ data.prior_route = o /\ p > q => p <= r /\ s <= q
  BY MoreKeeps
<1>2. Far(p, q, f32) \/ (data.prior_route = side /\ ~Far(q, p, f32))
  <2>1. PICK sc : sc = Scores(data, f32)
    OBVIOUS
  <2>2. sc[side] = p /\ sc[Opposite(side)] = q /\ domain_intent(data, sc, f32) = Intent(side)
    BY <1>1, <2>1
  <2> QED
    BY <2>2, IntentNeeds
<1> SUFFICES ASSUME domain_intent(more, Scores(more, f32), f32) = Intent(o)
             PROVE  FALSE
  OBVIOUS
<1>3. Far(s, r, f32) \/ (data.prior_route = o /\ ~Far(r, s, f32))
  BY <1>0, <1>1, IntentNeeds
<1>4. CASE data.prior_route # o
  <2>1. Far(s, r, f32) /\ s > r
    BY <1>3, <1>4 DEF Far
  <2>2. Far(q, p, f32)
    BY <2>1, <1>1, <1>4 DEF Far
  <2> QED
    BY <2>2, <1>2 DEF Far
<1>5. CASE data.prior_route = o
  <2>1. Far(p, q, f32) /\ p > q
    BY <1>0, <1>2, <1>5 DEF Far
  <2>2. Far(r, s, f32)
    BY <2>1, <1>1, <1>5 DEF Far
  <2> QED
    BY <2>2, <1>3 DEF Far
<1> QED
  BY <1>4, <1>5

\* What a provider hint adds.
Hint(data, side) ==
    CASE data.cname_scope = Provider(side) -> 90000
      [] data.cname_scope = "GlobalCdn" -> 25000
      [] OTHER -> 0

LEMMA HintType ==
    ASSUME NEW data, NEW side
    PROVE  Hint(data, side) \in Nat /\ Hint(data, side) <= 90000
BY DEF Hint

LEMMA HintIs ==
    ASSUME NEW data, NEW side
    PROVE  OfSide(data, side) =
              (IF data.prior_route = side THEN 240000 ELSE 0) + data.local[side] * 140000
              + data.third_party[side] * 120000 + data.votes[side] * 50000 + Hint(data, side)
BY DEF OfSide, Hint

\* A record of evidence in which a side has no less than in another.
AtLeast(data, more, side) ==
    /\ more.tls = data.tls /\ more.first_seen = data.first_seen
    /\ more.prior_route = data.prior_route /\ more.cname_scope = data.cname_scope
    /\ data.local[side] <= more.local[side]
    /\ data.third_party[side] <= more.third_party[side]
    /\ data.votes[side] <= more.votes[side]
    /\ data.local[Opposite(side)] = more.local[Opposite(side)]
    /\ data.third_party[Opposite(side)] = more.third_party[Opposite(side)]
    /\ data.votes[Opposite(side)] = more.votes[Opposite(side)]

LEMMA Grows ==
    ASSUME NEW i \in Nat, NEW j \in Nat, i <= j
    PROVE  /\ i * 140000 \in Nat /\ j * 140000 \in Nat /\ i * 140000 <= j * 140000
           /\ i * 120000 \in Nat /\ j * 120000 \in Nat /\ i * 120000 <= j * 120000
           /\ i * 50000 \in Nat /\ j * 50000 \in Nat /\ i * 50000 <= j * 50000
OBVIOUS

LEMMA Adds ==
    ASSUME NEW p \in Nat, NEW a \in Nat, NEW b \in Nat, NEW c \in Nat,
           NEW d \in Nat, NEW e \in Nat, NEW f \in Nat, NEW h \in Nat,
           a <= d, b <= e, c <= f
    PROVE  p + a + b + c + h <= p + d + e + f + h
OBVIOUS

\* Its sum is no less, and the sum of the other side the same.
LEMMA AtLeastIs ==
    ASSUME NEW data \in RouteEvidenceInput, NEW more \in RouteEvidenceInput,
           NEW side \in Sides, AtLeast(data, more, side)
    PROVE  /\ OfSide(data, side) <= OfSide(more, side)
           /\ OfSide(data, Opposite(side)) = OfSide(more, Opposite(side))
<1> DEFINE o == Opposite(side)
<1>4. \A x \in Sides : Hint(more, x) = Hint(data, x)
  BY DEF Hint, AtLeast
<1>5. /\ data.local[side] \in Nat /\ more.local[side] \in Nat
      /\ data.third_party[side] \in Nat /\ more.third_party[side] \in Nat
      /\ data.votes[side] \in Nat /\ more.votes[side] \in Nat
  BY DEF RouteEvidenceInput
<1>6. OfSide(data, side) <= OfSide(more, side)
  <2>1. PICK h \in Nat, p \in Nat : h = Hint(data, side)
                /\ p = (IF data.prior_route = side THEN 240000 ELSE 0)
    BY HintType, SMT
  <2>2. OfSide(data, side) = p + data.local[side] * 140000
              + data.third_party[side] * 120000 + data.votes[side] * 50000 + h
    BY <2>1, HintIs
  <2>3. OfSide(more, side) = p + more.local[side] * 140000
              + more.third_party[side] * 120000 + more.votes[side] * 50000 + h
    <3>1. Hint(more, side) = h /\ more.prior_route = data.prior_route
      BY <2>1, <1>4 DEF AtLeast
    <3> QED
      BY <2>1, <3>1, HintIs
  <2>4. /\ data.local[side] <= more.local[side]
        /\ data.third_party[side] <= more.third_party[side]
        /\ data.votes[side] <= more.votes[side]
    BY DEF AtLeast
  <2>5. PICK l \in Nat, m \in Nat, n \in Nat :
           l = data.local[side] * 140000 /\ m = data.third_party[side] * 120000
           /\ n = data.votes[side] * 50000
    BY <1>5, Grows
  <2>6. PICK l2 \in Nat, m2 \in Nat, n2 \in Nat :
           l2 = more.local[side] * 140000 /\ m2 = more.third_party[side] * 120000
           /\ n2 = more.votes[side] * 50000
    BY <1>5, Grows
  <2>7. l <= l2 /\ m <= m2 /\ n <= n2
    BY <1>5, <2>4, <2>5, <2>6, Grows
  <2>8. p + l + m + n + h <= p + l2 + m2 + n2 + h
    BY <2>7, Adds
  <2> QED
    BY <2>2, <2>3, <2>5, <2>6, <2>8, SMT
<1>7. OfSide(data, o) = OfSide(more, o)
  <2>1. Hint(more, o) = Hint(data, o)
    BY <1>4, OppositeFacts
  <2>2. /\ more.local[o] = data.local[o] /\ more.third_party[o] = data.third_party[o]
        /\ more.votes[o] = data.votes[o] /\ more.prior_route = data.prior_route
    BY DEF AtLeast
  <2> QED
    BY <2>1, <2>2, HintIs, SMT
<1> QED
  BY <1>6, <1>7

LEMMA Bump ==
    ASSUME NEW count \in [Sides -> Nat], NEW side \in Sides
    PROVE  LET b == [count EXCEPT ![side] = @ + 1]
           IN  /\ b \in [Sides -> Nat] /\ count[side] <= b[side]
               /\ count[Opposite(side)] = b[Opposite(side)]
BY OppositeFacts

LEMMA MoreIs ==
    ASSUME NEW data \in RouteEvidenceInput, NEW side \in Sides, NEW more \in More(data, side)
    PROVE  more \in RouteEvidenceInput /\ AtLeast(data, more, side)
<1>1. /\ data.local \in [Sides -> Nat] /\ data.third_party \in [Sides -> Nat]
      /\ data.votes \in [Sides -> Nat]
  BY DEF RouteEvidenceInput
<1>2. /\ data.local[side] \in Nat /\ data.third_party[side] \in Nat /\ data.votes[side] \in Nat
  BY <1>1
<1>3. DOMAIN data = {"prior_route", "local", "third_party", "votes", "ip_scope", "cname_scope",
                     "tls", "confidence", "first_seen"}
  BY DEF RouteEvidenceInput
<1>4. CASE more = [data EXCEPT !.local[side] = @ + 1]
  <2>1. PICK b : b = [data.local EXCEPT ![side] = @ + 1]
    OBVIOUS
  <2>2. /\ b \in [Sides -> Nat] /\ data.local[side] <= b[side]
        /\ data.local[Opposite(side)] = b[Opposite(side)]
    BY <2>1, <1>1, Bump, Zenon
  <2>3. more = [data EXCEPT !.local = b]
    BY <2>1, <1>4
  <2>4. more \in RouteEvidenceInput
    BY <2>2, <2>3 DEF RouteEvidenceInput
  <2>5. more.local = b /\ \A f \in DOMAIN data \ {"local"} : more[f] = data[f]
    BY <2>3 DEF RouteEvidenceInput
  <2>6. AtLeast(data, more, side)
    BY <2>2, <2>5, <1>1, <1>2, <1>3 DEF AtLeast
  <2> QED
    BY <2>4, <2>6
<1>5. CASE more = [data EXCEPT !.third_party[side] = @ + 1]
  <2>1. PICK b : b = [data.third_party EXCEPT ![side] = @ + 1]
    OBVIOUS
  <2>2. /\ b \in [Sides -> Nat] /\ data.third_party[side] <= b[side]
        /\ data.third_party[Opposite(side)] = b[Opposite(side)]
    BY <2>1, <1>1, Bump, Zenon
  <2>3. more = [data EXCEPT !.third_party = b]
    BY <2>1, <1>5
  <2>4. more \in RouteEvidenceInput
    BY <2>2, <2>3 DEF RouteEvidenceInput
  <2>5. more.third_party = b /\ \A f \in DOMAIN data \ {"third_party"} : more[f] = data[f]
    BY <2>3 DEF RouteEvidenceInput
  <2>6. AtLeast(data, more, side)
    BY <2>2, <2>5, <1>1, <1>2, <1>3 DEF AtLeast
  <2> QED
    BY <2>4, <2>6
<1>6. CASE more = [data EXCEPT !.votes[side] = @ + 1]
  <2>1. PICK b : b = [data.votes EXCEPT ![side] = @ + 1]
    OBVIOUS
  <2>2. /\ b \in [Sides -> Nat] /\ data.votes[side] <= b[side]
        /\ data.votes[Opposite(side)] = b[Opposite(side)]
    BY <2>1, <1>1, Bump, Zenon
  <2>3. more = [data EXCEPT !.votes = b]
    BY <2>1, <1>6
  <2>4. more \in RouteEvidenceInput
    BY <2>2, <2>3 DEF RouteEvidenceInput
  <2>5. more.votes = b /\ \A f \in DOMAIN data \ {"votes"} : more[f] = data[f]
    BY <2>3 DEF RouteEvidenceInput
  <2>6. AtLeast(data, more, side)
    BY <2>2, <2>5, <1>1, <1>2, <1>3 DEF AtLeast
  <2> QED
    BY <2>4, <2>6
<1> QED
  BY <1>4, <1>5, <1>6 DEF More

\* The two routes exchanged, field by field.
LEMMA MirrorIs ==
    ASSUME NEW data \in RouteEvidenceInput
    PROVE  /\ Mirror(data) \in RouteEvidenceInput
           /\ Mirror(data).prior_route = MirrorRoute(data.prior_route)
           /\ Mirror(data).local = Swap(data.local)
           /\ Mirror(data).third_party = Swap(data.third_party)
           /\ Mirror(data).votes = Swap(data.votes)
           /\ Mirror(data).cname_scope =
                 (CASE data.cname_scope = "CnProvider" -> "ForeignProvider"
                    [] data.cname_scope = "ForeignProvider" -> "CnProvider"
                    [] OTHER -> data.cname_scope)
           /\ Mirror(data).ip_scope = data.ip_scope /\ Mirror(data).tls = data.tls
           /\ Mirror(data).confidence = data.confidence
           /\ Mirror(data).first_seen = data.first_seen
<1>1. \A count \in [Sides -> Nat] : Swap(count) \in [Sides -> Nat]
  BY DEF Swap, Sides
<1>2. MirrorRoute(data.prior_route) \in Sides \cup {"unknown"}
  BY DEF RouteEvidenceInput, MirrorRoute, Opposite, Sides
<1>3. PICK c \in CnameScopes : c =
                 (CASE data.cname_scope = "CnProvider" -> "ForeignProvider"
                    [] data.cname_scope = "ForeignProvider" -> "CnProvider"
                    [] OTHER -> data.cname_scope)
  BY DEF RouteEvidenceInput, CnameScopes
<1>4. PICK r \in Sides \cup {"unknown"}, l \in [Sides -> Nat], t \in [Sides -> Nat],
           v \in [Sides -> Nat] :
        /\ r = MirrorRoute(data.prior_route) /\ l = Swap(data.local)
        /\ t = Swap(data.third_party) /\ v = Swap(data.votes)
  BY <1>1, <1>2 DEF RouteEvidenceInput
<1>5. Mirror(data) = [data EXCEPT !.prior_route = r, !.local = l, !.third_party = t,
                                  !.votes = v, !.cname_scope = c]
  BY <1>3, <1>4, Zenon DEF Mirror
<1>6. PICK m : m = Mirror(data)
  OBVIOUS
<1>7. m \in RouteEvidenceInput
  <2>1. m = [prior_route |-> r, local |-> l, third_party |-> t, votes |-> v,
             ip_scope |-> data.ip_scope, cname_scope |-> c, tls |-> data.tls,
             confidence |-> data.confidence, first_seen |-> data.first_seen]
    BY <1>5, <1>6 DEF RouteEvidenceInput
  <2>2. /\ data.ip_scope \in {"unknown", "mixed"} /\ data.tls \in TlsStatuses
        /\ data.confidence \in 0 .. 100 /\ data.first_seen \in BOOLEAN
    BY DEF RouteEvidenceInput
  <2> QED
    BY <2>1, <2>2 DEF RouteEvidenceInput
<1>8. /\ m.prior_route = r /\ m.local = l /\ m.third_party = t /\ m.votes = v
      /\ m.cname_scope = c /\ m.ip_scope = data.ip_scope /\ m.tls = data.tls
      /\ m.confidence = data.confidence /\ m.first_seen = data.first_seen
  BY <1>5, <1>6 DEF RouteEvidenceInput
<1> QED
  BY <1>3, <1>4, <1>6, <1>7, <1>8, Zenon

LEMMA MirrorF32Is ==
    ASSUME NEW f32 \in F32
    PROVE  /\ MirrorF32(f32).larger = MirrorRoute(f32.larger)
           /\ MirrorF32(f32).below = f32.below /\ MirrorF32(f32).up = f32.up
BY DEF F32, MirrorF32

LEMMA SwapIs ==
    ASSUME NEW count, NEW side \in Sides
    PROVE  Swap(count)[side] = count[Opposite(side)]
BY DEF Swap, Sides, Opposite

LEMMA MirrorHint ==
    ASSUME NEW data \in RouteEvidenceInput, NEW side \in Sides
    PROVE  Hint(Mirror(data), side) = Hint(data, Opposite(side))
<1>1. PICK c, d : c = data.cname_scope /\ d = Mirror(data).cname_scope
  OBVIOUS
<1>2. d = (CASE c = "CnProvider" -> "ForeignProvider"
                    [] c = "ForeignProvider" -> "CnProvider"
                    [] OTHER -> c)
  BY <1>1, MirrorIs, SMT
<1>3. (d = Provider(side)) <=> (c = Provider(Opposite(side)))
  BY <1>2, SMT DEF Provider, Sides, Opposite
<1>4. (d = "GlobalCdn") <=> (c = "GlobalCdn")
  BY <1>2, SMT
<1> QED
  BY <1>1, <1>3, <1>4, SMT DEF Hint

\* The sums are exchanged, and with them the scores.
LEMMA MirrorOfSide ==
    ASSUME NEW data \in RouteEvidenceInput, NEW side \in Sides
    PROVE  OfSide(Mirror(data), side) = OfSide(data, Opposite(side))
<1>1. PICK m, o : m = Mirror(data) /\ o = Opposite(side) /\ o \in Sides
  BY OppositeFacts
<1>2. /\ m.local[side] = data.local[o] /\ m.third_party[side] = data.third_party[o]
      /\ m.votes[side] = data.votes[o]
  BY <1>1, MirrorIs, SwapIs, SMT
<1>3. Hint(m, side) = Hint(data, o)
  BY <1>1, MirrorHint, SMT
<1>4. (m.prior_route = side) <=> (data.prior_route = o)
  <2>1. m.prior_route = MirrorRoute(data.prior_route)
    BY <1>1, MirrorIs, SMT
  <2> QED
    BY <2>1, <1>1, SMT DEF MirrorRoute, Sides, Opposite
<1>5. OfSide(m, side) =
              (IF m.prior_route = side THEN 240000 ELSE 0) + m.local[side] * 140000
              + m.third_party[side] * 120000 + m.votes[side] * 50000 + Hint(m, side)
  BY HintIs, SMT
<1>6. OfSide(data, o) =
              (IF data.prior_route = o THEN 240000 ELSE 0) + data.local[o] * 140000
              + data.third_party[o] * 120000 + data.votes[o] * 50000 + Hint(data, o)
  BY HintIs, SMT
<1> QED
  BY <1>1, <1>2, <1>3, <1>4, <1>5, <1>6, SMT

LEMMA MirrorScores ==
    ASSUME NEW data \in RouteEvidenceInput, NEW f32 \in F32, NEW side \in Sides
    PROVE  Scores(Mirror(data), MirrorF32(f32))[side] = Scores(data, f32)[Opposite(side)]
<1>1. PICK m, g, o : /\ m = Mirror(data) /\ g = MirrorF32(f32) /\ o = Opposite(side)
                     /\ o \in Sides /\ o # side /\ Opposite(o) = side
  BY OppositeFacts
<1>2. PICK a, b : a = OfSide(data, side) /\ b = OfSide(data, o)
  OBVIOUS
<1>3. OfSide(m, side) = b /\ OfSide(m, o) = a
  BY <1>1, <1>2, MirrorOfSide, SMT
<1>4. Scores(m, g)[side] = Final(m, g, side, b, a)
  BY <1>1, <1>3, FinalIs, SMT
<1>5. Scores(data, f32)[o] = Final(data, f32, o, b, a)
  BY <1>1, <1>2, FinalIs, SMT
<1>6. /\ (g.larger = side) = (f32.larger = o) /\ (g.larger = o) = (f32.larger = side)
      /\ g.up = f32.up
  <2>1. g.larger = MirrorRoute(f32.larger) /\ g.up = f32.up
    BY <1>1, MirrorF32Is, SMT
  <2> QED
    BY <2>1, <1>1, SMT DEF MirrorRoute, Sides, Opposite
<1>7. (~m.first_seen /\ m.prior_route = o) = (~data.first_seen /\ data.prior_route = side)
  <2>1. m.first_seen = data.first_seen /\ m.prior_route = MirrorRoute(data.prior_route)
    BY <1>1, MirrorIs, SMT
  <2> QED
    BY <2>1, <1>1, SMT DEF MirrorRoute, Sides, Opposite
<1>8. m.tls = data.tls /\ \A v : round_4(v, g) = round_4(v, f32)
  BY <1>1, <1>6, MirrorIs, SMT DEF round_4
<1>9. Final(m, g, side, b, a) = Final(data, f32, o, b, a)
  BY <1>1, <1>6, <1>7, <1>8, SMT DEF Final
<1> QED
  BY <1>1, <1>4, <1>5, <1>9, SMT

LEMMA ScoresType ==
    ASSUME NEW data \in RouteEvidenceInput, NEW f32, NEW side \in Sides
    PROVE  Scores(data, f32)[side] \in Nat
<1>1. PICK a \in Nat, b \in Nat : a = OfSide(data, side) /\ b = OfSide(data, Opposite(side))
  BY OfSideType, OppositeFacts, SMT
<1>2. PICK tls, s, o, d : /\ tls = data.tls /\ s = (f32.larger = side)
                          /\ o = (f32.larger = Opposite(side))
                          /\ d = (~data.first_seen /\ data.prior_route = Opposite(side))
  OBVIOUS
<1>3. PICK x \in Nat, y \in Nat :
        x = TlsOf(tls, a, Lead(a, b, s)) /\ y = TlsOf(tls, b, Lead(b, a, o))
  BY TlsType, SMT
<1>4. PICK u \in Nat : u = DampOf(d, x, Lead(x, y, s))
  BY DampFacts, SMT
<1>5. Scores(data, f32)[side] = round_4(u, f32)
  <2>1. Scores(data, f32)[side] = Final(data, f32, side, a, b)
    BY <1>1, FinalIs, SMT
  <2> QED
    BY <2>1, <1>2, <1>3, <1>4, SMT DEF Final
<1> QED
  BY <1>5, RoundFacts, SMT

\* Scores that are exchanged.
LEMMA SwappedScore ==
    ASSUME NEW s, NEW w, NEW p \in Nat, NEW q \in Nat, NEW f32, NEW g, g.below = f32.below,
           s["china"] = p, s["foreign"] = q, w["china"] = q, w["foreign"] = p
    PROVE  /\ Margin(w) = Margin(s) /\ Margin(s) \in Nat /\ MaxScore(w) = MaxScore(s)
           /\ \A t : Below(w, t, g) = Below(s, t, f32)
           /\ Margin(s) # 0 => (Leads(w, "china") <=> ~Leads(s, "china"))
<1>1. Margin(w) = Margin(s) /\ Margin(s) \in Nat
  BY DEF Margin, Leads, Opposite
<1>2. MaxScore(w) = MaxScore(s)
  BY DEF MaxScore, Leads, Opposite
<1>3. Margin(s) # 0 => (Leads(w, "china") <=> ~Leads(s, "china"))
  BY DEF Margin, Leads, Opposite
<1>4. \A t : Below(w, t, g) = Below(s, t, f32)
  BY <1>1 DEF Below
<1> QED
  BY <1>1, <1>2, <1>3, <1>4

MirrorIntent(intent) == CASE intent = "ChinaIntent" -> "ForeignIntent"
                          [] intent = "ForeignIntent" -> "ChinaIntent"
                          [] OTHER -> intent

\* The intents are exchanged: a margin that is not below the threshold is not 0.
LEMMA MirrorIntentIs ==
    ASSUME NEW data \in RouteEvidenceInput, NEW f32 \in F32
    PROVE  domain_intent(Mirror(data), Scores(Mirror(data), MirrorF32(f32)), MirrorF32(f32))
             = MirrorIntent(domain_intent(data, Scores(data, f32), f32))
<1>1. PICK m, g, s, w : /\ m = Mirror(data) /\ g = MirrorF32(f32)
                        /\ s = Scores(data, f32) /\ w = Scores(m, g)
  OBVIOUS
<1>2. PICK p \in Nat, q \in Nat : /\ s["china"] = p /\ s["foreign"] = q
                                  /\ w["china"] = q /\ w["foreign"] = p
  BY <1>1, ScoresType, MirrorScores, SMT DEF Sides, Opposite
<1>3. g.below = f32.below
  BY <1>1, MirrorF32Is, SMT
<1>4. /\ Margin(w) = Margin(s) /\ MaxScore(w) = MaxScore(s)
      /\ Below(w, One, g) = Below(s, One, f32) /\ Below(w, 75000, g) = Below(s, 75000, f32)
      /\ Margin(s) # 0 => (Leads(w, "china") <=> ~Leads(s, "china"))
  BY <1>2, <1>3, SwappedScore, SMT
<1>5. ~Below(s, 75000, f32) => Margin(s) # 0
  BY SMT DEF Below
<1>6. /\ (m.cname_scope = "GlobalCdn") = (data.cname_scope = "GlobalCdn")
      /\ m.ip_scope = data.ip_scope /\ m.prior_route = MirrorRoute(data.prior_route)
  BY <1>1, MirrorIs, SMT
<1>7. /\ m.prior_route \in Sides <=> data.prior_route \in Sides
      /\ data.prior_route \in Sides => Intent(m.prior_route) = MirrorIntent(Intent(data.prior_route))
  BY <1>6, SMT DEF MirrorRoute, Sides, Opposite, Intent, MirrorIntent
<1>8. domain_intent(m, w, g) = MirrorIntent(domain_intent(data, s, f32))
  <2>1. CASE data.cname_scope = "GlobalCdn" /\ Below(s, One, f32)
    BY <2>1, <1>4, <1>6, SMT DEF domain_intent, MirrorIntent
  <2>2. CASE ~(data.cname_scope = "GlobalCdn" /\ Below(s, One, f32))
             /\ data.ip_scope = "mixed" /\ Below(s, One, f32)
    BY <2>2, <1>4, <1>6, SMT DEF domain_intent, MirrorIntent
  <2>3. CASE ~(data.cname_scope = "GlobalCdn" /\ Below(s, One, f32))
             /\ ~(data.ip_scope = "mixed" /\ Below(s, One, f32))
    <3>1. CASE MaxScore(s) <= 0
      BY <2>3, <3>1, <1>4, <1>6, SMT DEF domain_intent, MirrorIntent
    <3>2. CASE ~(MaxScore(s) <= 0) /\ Below(s, 75000, f32)
      BY <2>3, <3>2, <1>4, <1>6, <1>7, SMT DEF domain_intent, MirrorIntent
    <3>3. CASE ~(MaxScore(s) <= 0) /\ ~Below(s, 75000, f32)
      BY <2>3, <3>3, <1>4, <1>5, <1>6, SMT DEF domain_intent, MirrorIntent
    <3> QED
      BY <3>1, <3>2, <3>3
  <2> QED
    BY <2>1, <2>2, <2>3
<1> QED
  BY <1>1, <1>8

\* What does not tell the two routes apart.
LEMMA MirrorSame ==
    ASSUME NEW data \in RouteEvidenceInput, NEW f32 \in F32
    PROVE  LET m == Mirror(data)
               s == Scores(data, f32)
               w == Scores(m, MirrorF32(f32))
           IN  /\ w = Swap(s) /\ Margin(w) = Margin(s)
               /\ evidence_strength(m, w) = evidence_strength(data, s)
               /\ MixedConflict(m, w) = MixedConflict(data, s)
               /\ MixedFirstSeen(m, w) = MixedFirstSeen(data, s)
               /\ reason_code(m) = reason_code(data)
               /\ route_authority(m) = route_authority(data)
<1>1. PICK m, g, s, w : /\ m = Mirror(data) /\ g = MirrorF32(f32)
                        /\ s = Scores(data, f32) /\ w = Scores(m, g)
  OBVIOUS
<1>2. PICK p \in Nat, q \in Nat : /\ s["china"] = p /\ s["foreign"] = q
                                  /\ w["china"] = q /\ w["foreign"] = p
  BY <1>1, ScoresType, MirrorScores, SMT DEF Sides, Opposite
<1>3. w = Swap(s)
  <2>1. w = [china |-> w["china"], foreign |-> w["foreign"]]
    BY <1>1, SMT DEF Scores, BySide
  <2> QED
    BY <2>1, <1>2, SMT DEF Swap
<1>4. Margin(w) = Margin(s) /\ MaxScore(w) = MaxScore(s)
  <2>1. g.below = f32.below
    BY <1>1, MirrorF32Is, SMT
  <2> QED
    BY <1>2, <2>1, SwappedScore, SMT
<1>5. /\ m.local = Swap(data.local) /\ m.third_party = Swap(data.third_party)
      /\ m.ip_scope = data.ip_scope /\ m.tls = data.tls /\ m.confidence = data.confidence
      /\ m.first_seen = data.first_seen /\ m.prior_route = MirrorRoute(data.prior_route)
  BY <1>1, MirrorIs, SMT
<1>6. /\ (m.cname_scope = "MixedChain") = (data.cname_scope = "MixedChain")
      /\ (m.cname_scope \in {"CnProvider", "ForeignProvider", "GlobalCdn"})
           = (data.cname_scope \in {"CnProvider", "ForeignProvider", "GlobalCdn"})
      /\ (m.cname_scope \notin {"None", "Unknown"}) = (data.cname_scope \notin {"None", "Unknown"})
  <2>1. m.cname_scope = (CASE data.cname_scope = "CnProvider" -> "ForeignProvider"
                    [] data.cname_scope = "ForeignProvider" -> "CnProvider"
                    [] OTHER -> data.cname_scope)
    BY <1>1, MirrorIs, SMT
  <2> QED
    BY <2>1, SMT
<1>7. \A count \in [Sides -> Nat] :
        /\ Total(Swap(count)) = Total(count)
        /\ majority_route(Swap(count)) = MirrorRoute(majority_route(count))
  BY SMT DEF Total, Swap, majority_route, MirrorRoute, Sides, Opposite, Leads
<1>8. /\ data.local \in [Sides -> Nat] /\ data.third_party \in [Sides -> Nat]
  BY SMT DEF RouteEvidenceInput
<1>9. /\ Total(m.local) = Total(data.local) /\ Total(m.third_party) = Total(data.third_party)
      /\ majority_route(m.local) = MirrorRoute(majority_route(data.local))
      /\ majority_route(m.third_party) = MirrorRoute(majority_route(data.third_party))
  BY <1>5, <1>7, <1>8, SMT
<1>10. MixedConflict(m, w) = MixedConflict(data, s)
  BY <1>4, <1>5, <1>9, SMT DEF MixedConflict
<1>11. MixedFirstSeen(m, w) = MixedFirstSeen(data, s)
  BY <1>4, <1>5, SMT DEF MixedFirstSeen
<1>12. evidence_strength(m, w) = evidence_strength(data, s)
  BY <1>4, <1>5, <1>6, <1>10, <1>11, SMT DEF evidence_strength
<1>13. route_authority(m) = route_authority(data)
  <2>1. m.prior_route \in Sides <=> data.prior_route \in Sides
    BY <1>5, SMT DEF MirrorRoute, Sides, Opposite
  <2> QED
    BY <2>1, <1>6, <1>9, SMT DEF route_authority
<1>14. reason_code(m) = reason_code(data)
  <2>1. PICK a, b, c, d : /\ a = majority_route(data.local) /\ b = majority_route(data.third_party)
                          /\ c = majority_route(m.local) /\ d = majority_route(m.third_party)
    OBVIOUS
  <2>2. a \in Sides \cup {"mixed"} /\ b \in Sides \cup {"mixed"}
    BY <2>1, SMT DEF majority_route, Sides
  <2>3. (c = d /\ c # "mixed") = (a = b /\ a # "mixed")
    BY <2>1, <2>2, <1>9, SMT DEF MirrorRoute, Sides, Opposite
  <2> QED
    BY <2>1, <2>3, <1>5, <1>6, <1>9, SMT DEF reason_code
<1> QED
  BY <1>1, <1>3, <1>4, <1>10, <1>11, <1>12, <1>13, <1>14

\* A result of score_route_evidence, by its fields.
Scored(a, b, c, d, e, f, g, h, i, j) ==
    [domain_intent |-> a, evidence_strength |-> b, confidence_level |-> c, fact_status |-> d,
     can_promote |-> e, suggested_next_route |-> f, reason_code |-> g, route_authority |-> h,
     score |-> i, score_margin |-> j]

LEMMA MirrorScoreIs ==
    ASSUME NEW a, NEW b, NEW c, NEW d, NEW e, NEW f, NEW g, NEW h, NEW i, NEW j
    PROVE  MirrorScore(Scored(a, b, c, d, e, f, g, h, i, j))
             = Scored(MirrorIntent(a), b, c, d, e, MirrorRoute(f), g, h, Swap(i), j)
<1>1. PICK r : r = Scored(a, b, c, d, e, f, g, h, i, j)
  OBVIOUS
<1>2. r.domain_intent = a /\ r.suggested_next_route = f /\ r.score = i
  BY <1>1, SMT DEF Scored
<1>3. MirrorScore(r) = [r EXCEPT !.domain_intent = MirrorIntent(r.domain_intent),
                                 !.suggested_next_route = MirrorRoute(r.suggested_next_route),
                                 !.score = Swap(r.score)]
  BY Zenon DEF MirrorScore, MirrorIntent
<1>4. PICK x, y, z : x = MirrorIntent(a) /\ y = MirrorRoute(f) /\ z = Swap(i)
  OBVIOUS
<1>5. MirrorScore(r) = [r EXCEPT !.domain_intent = x, !.suggested_next_route = y, !.score = z]
  BY <1>2, <1>3, <1>4, Zenon
<1>6. [r EXCEPT !.domain_intent = x, !.suggested_next_route = y, !.score = z]
        = Scored(x, b, c, d, e, y, g, h, z, j)
  <2>1. [r EXCEPT !.domain_intent = x] = Scored(x, b, c, d, e, f, g, h, i, j)
    BY <1>1, SMT DEF Scored
  <2>2. [Scored(x, b, c, d, e, f, g, h, i, j) EXCEPT !.suggested_next_route = y]
          = Scored(x, b, c, d, e, y, g, h, i, j)
    BY SMT DEF Scored
  <2>3. [Scored(x, b, c, d, e, y, g, h, i, j) EXCEPT !.score = z]
          = Scored(x, b, c, d, e, y, g, h, z, j)
    BY SMT DEF Scored
  <2>4. [r EXCEPT !.domain_intent = x, !.suggested_next_route = y, !.score = z]
          = [[[r EXCEPT !.domain_intent = x] EXCEPT !.suggested_next_route = y] EXCEPT !.score = z]
    BY Zenon
  <2> QED
    BY <2>1, <2>2, <2>3, <2>4, Zenon
<1> QED
  BY <1>1, <1>4, <1>5, <1>6, Zenon

\* The whole result is exchanged.
LEMMA Symmetric ==
    ASSUME NEW data \in RouteEvidenceInput, NEW f32 \in F32
    PROVE  score_route_evidence(Mirror(data), MirrorF32(f32))
             = MirrorScore(score_route_evidence(data, f32))
<1>1. PICK m, g, s, w : /\ m = Mirror(data) /\ g = MirrorF32(f32)
                        /\ s = Scores(data, f32) /\ w = Scores(m, g)
  OBVIOUS
<1>2. PICK i, j, k, l : /\ i = domain_intent(data, s, f32) /\ j = domain_intent(m, w, g)
                        /\ k = evidence_strength(data, s) /\ l = evidence_strength(m, w)
  OBVIOUS
<1>3. PICK a, b : a = can_promote(data, s, i, k) /\ b = can_promote(m, w, j, l)
  OBVIOUS
<1>4. /\ w = Swap(s) /\ Margin(w) = Margin(s) /\ l = k
      /\ MixedConflict(m, w) = MixedConflict(data, s)
      /\ MixedFirstSeen(m, w) = MixedFirstSeen(data, s)
      /\ reason_code(m) = reason_code(data)
      /\ route_authority(m) = route_authority(data)
  BY <1>1, <1>2, MirrorSame, Zenon
<1>5. j = MirrorIntent(i)
  BY <1>1, <1>2, MirrorIntentIs, Zenon
<1>6. m.tls = data.tls /\ m.confidence = data.confidence
  BY <1>1, MirrorIs, Zenon
<1>7. b = a
  BY <1>3, <1>4, <1>5, <1>6, SMT DEF can_promote, MirrorIntent
<1>8. confidence_level(m, l) = confidence_level(data, k) /\ fact_status(b, l) = fact_status(a, k)
  BY <1>4, <1>6, <1>7, SMT DEF confidence_level
<1>9. suggested_next_route(j, b) = MirrorRoute(suggested_next_route(i, a))
  BY <1>3, <1>5, <1>7, SMT DEF suggested_next_route, MirrorIntent, MirrorRoute, Sides, Opposite
<1>10. score_route_evidence(m, g) =
         Scored(j, l, confidence_level(m, l), fact_status(b, l), b, suggested_next_route(j, b),
                reason_code(m), route_authority(m), w, Margin(w))
  BY <1>1, <1>2, <1>3, Zenon DEF score_route_evidence, Scored
<1>11. score_route_evidence(data, f32) =
         Scored(i, k, confidence_level(data, k), fact_status(a, k), a, suggested_next_route(i, a),
                reason_code(data), route_authority(data), s, Margin(s))
  BY <1>1, <1>2, <1>3, Zenon DEF score_route_evidence, Scored
<1>12. MirrorScore(score_route_evidence(data, f32)) =
         Scored(MirrorIntent(i), k, confidence_level(data, k), fact_status(a, k), a,
                MirrorRoute(suggested_next_route(i, a)), reason_code(data), route_authority(data),
                Swap(s), Margin(s))
  BY <1>11, MirrorScoreIs, SMT
<1>13. score_route_evidence(m, g) =
         Scored(MirrorIntent(i), k, confidence_level(data, k), fact_status(a, k), a,
                MirrorRoute(suggested_next_route(i, a)), reason_code(data), route_authority(data),
                Swap(s), Margin(s))
  BY <1>4, <1>5, <1>7, <1>8, <1>9, <1>10
<1> QED
  BY <1>1, <1>12, <1>13

LEMMA ScoredIntent ==
    ASSUME NEW data, NEW f32
    PROVE  score_route_evidence(data, f32).domain_intent
             = domain_intent(data, Scores(data, f32), f32)
BY DEF score_route_evidence
-----------------------------------------------------------------------------
(* What holds of every behaviour *)

\* For every configuration, reply and threshold, resolve keeps its state in its
\* type; what it stores of a domain was counted by nobody, and what it caches
\* has a TTL between the two limits.
THEOREM RoutingTypeCorrect == Spec => []TypeOK
<1>1. RouteInv => TypeOK
  <2> SUFFICES ASSUME RouteInv PROVE TypeOK
    OBVIOUS
  <2>1. config # None => validate(config.runtime) /\ config.location \in Locations
    BY ConfigFacts DEF RouteInv
  <2>2. \A d \in Domains : governed[d] # None => Unobserved(governed[d])
    BY DEF RouteInv, StoreInv, Kept
  <2>3. \A r \in Routes, d \in Domains :
           cache[<<r, d>>] # None => cache[<<r, d>>].ttl \in MinTtl .. MaxTtl
    BY DEF RouteInv, CacheInv, Entry
  <2>4. query # Idle =>
           /\ query.snap \in State /\ query.route \in Routes \ {"Bootstrap"}
           /\ cache[<<query.route, query.domain>>] = None
    BY DEF RouteInv, QueryInv, Kept, Unobserved
  <2>5. scored # None => scored.data \in RouteEvidenceInput /\ scored.f32 \in F32
    BY DEF RouteInv, ScoredInv
  <2> QED
    BY <2>1, <2>2, <2>3, <2>4, <2>5 DEF TypeOK
<1> QED
  BY <1>1, RouteAlways, PTL

\* For every set of configurations, each that validate accepts has upstreams,
\* all valid, for every route and for the handler.
THEOREM UpstreamsForEveryRouteHolds == Spec => []UpstreamsForEveryRoute
<1>1. ASSUME NEW c, validate(c), NEW r \in Routes
      PROVE  LET found == for_route(c.upstreams, r)
             IN  found # <<>> /\ \A k \in DOMAIN found : validate_server(found[k])
  <2>1. GroupOf(r) \in Groups /\ {"bootstrap", "default"} \subseteq Groups
    BY DEF GroupOf, Groups
  <2> QED
    BY <1>1, <2>1 DEF for_route, validate
<1>2. ASSUME NEW c, validate(c)
      PROVE  LET found == default_upstreams(c.upstreams)
             IN  found # <<>> /\ \A k \in DOMAIN found : validate_server(found[k])
  BY <1>2 DEF default_upstreams, validate, Groups
<1>3. RouteInv => UpstreamsForEveryRoute
  BY <1>1, <1>2, ConfigFacts DEF RouteInv, UpstreamsForEveryRoute
<1> QED
  BY <1>3, RouteAlways, PTL

\* For every reply and threshold, a domain is suggested only after two answers
\* of upstreams, whatever the cache and failures did in between.
THEOREM PromotionTakesTwoAnswersHolds == Spec => []PromotionTakesTwoAnswers
<1>1. RouteInv => PromotionTakesTwoAnswers
  BY DEF RouteInv, StoreInv, Kept, PromotionTakesTwoAnswers
<1> QED
  BY <1>1, RouteAlways, PTL

\* For all TTLs and limits, the cache serves beyond the TTL of the records only
\* as long as min_ttl_secs, or in China.
THEOREM OutlivesTtlOnlyInChinaHolds == Spec => []OutlivesTtlOnlyInChina
<1>1. RouteInv => OutlivesTtlOnlyInChina
  BY DEF RouteInv
<1> QED
  BY <1>1, RouteAlways, PTL

\* For every evidence and rounding, exchanging the two routes exchanges them in
\* the result of score_route_evidence and changes nothing else in it.
THEOREM ScoresAreSymmetricHolds == Spec => []ScoresAreSymmetric
<1>1. RouteInv => ScoresAreSymmetric
  BY Symmetric DEF RouteInv, ScoredInv, ScoresAreSymmetric
<1> QED
  BY <1>1, RouteAlways, PTL

\* For every evidence and rounding, more evidence for the side that is intended
\* does not turn the intent to the other.
THEOREM MoreEvidenceNeverFlipsHolds == Spec => []MoreEvidenceNeverFlips
<1>1. ASSUME NEW data \in RouteEvidenceInput, NEW f32 \in F32, NEW side \in Sides,
             NEW more \in More(data, side),
             score_route_evidence(data, f32).domain_intent = Intent(side)
      PROVE  score_route_evidence(more, f32).domain_intent # Intent(Opposite(side))
  <2>1. more \in RouteEvidenceInput /\ AtLeast(data, more, side)
    BY MoreIs
  <2>2. more.tls = data.tls /\ more.first_seen = data.first_seen
        /\ more.prior_route = data.prior_route
    BY <2>1 DEF AtLeast
  <2>3. /\ OfSide(data, side) <= OfSide(more, side)
        /\ OfSide(data, Opposite(side)) = OfSide(more, Opposite(side))
    BY <2>1, AtLeastIs
  <2>4. domain_intent(data, Scores(data, f32), f32) = Intent(side)
    BY <1>1, ScoredIntent
  <2>5. domain_intent(more, Scores(more, f32), f32) # Intent(Opposite(side))
    BY <2>1, <2>2, <2>3, <2>4, NeverFlips
  <2> QED
    BY <2>5, ScoredIntent
<1>2. RouteInv => MoreEvidenceNeverFlips
  BY <1>1 DEF RouteInv, ScoredInv, MoreEvidenceNeverFlips
<1> QED
  BY <1>2, RouteAlways, PTL
=============================================================================
