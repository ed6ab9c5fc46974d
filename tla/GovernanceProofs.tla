-------------------------- MODULE GovernanceProofs --------------------------
(***************************************************************************)
(* What is true of governance for every choice of thresholds, tasks,       *)
(* domains and clock: decisions follow the phase diagram, promotions are   *)
(* clean, and the facts cover the phases in the store.                     *)
(***************************************************************************)
EXTENDS Governance, TLAPS

\* The branches of evaluate_governance_transition, one at a time: where each
\* leads, from which phase, and what it relies on.  The lemmas below read off
\* this list.
LEMMA EvaluateCases ==
    ASSUME NEW s \in State, NEW e \in Evidence, NEW h \in Int
    PROVE  LET r == evaluate_governance_transition(s, e, h) IN
           \/ /\ e.first_seen \/ s.phase = "New"
              /\ r = Result("Learning", s.phase # "Learning", "FirstSeen")
           \/ /\ s.phase \notin {"New", "Fallback"} /\ Triggered(s)
              /\ \E y \in Reasons : r = Result("Review", TRUE, y)
           \/ /\ s.phase # "New" /\ r = no_change(s)
           \/ /\ s.phase \in {"Learning", "Suggested"}
              /\ r = Result(s.phase, FALSE, "MixedFreeze")
           \/ /\ s.phase = "Learning" /\ ~Triggered(s)
              /\ \E y \in Reasons : r = Result("Suggested", TRUE, y)
           \/ /\ s.phase = "Suggested" /\ ~Triggered(s)
              /\ \E y \in Reasons : r = Result("Stable", TRUE, y)
           \/ /\ s.phase = "Review" /\ ~Triggered(s)
              /\ r = Result("Learning", TRUE, "ReviewCleared")
           \/ /\ s.phase = "Review"
              /\ r = Result("Fallback", TRUE, "ReviewDurationFallback")
           \/ /\ s.phase = "Review" /\ ~Triggered(s) /\ s.count["hard"] >= T.fallback.hard
              /\ r = Result("Fallback", TRUE, "ReviewHardConflictFallback")
           \/ /\ s.phase = "Review" /\ ~Triggered(s) /\ s.count["opposite"] >= T.fallback.opposite
              /\ r = Result("Fallback", TRUE, "ReviewRouteOppositeFallback")
           \/ /\ s.phase = "Fallback"
              /\ r = Result("Learning", TRUE, "FallbackExpired")
<1> DEFINE r == evaluate_governance_transition(s, e, h)
<1>1. CASE e.first_seen \/ s.phase = "New"
  BY <1>1 DEF evaluate_governance_transition
<1>2. CASE ~(e.first_seen \/ s.phase = "New") /\ s.phase # "Fallback" /\ Triggered(s)
  <2>1. r = check_review_triggers(s)
    BY <1>2 DEF evaluate_governance_transition
  <2> QED
    BY <1>2, <2>1 DEF check_review_triggers, Result, Reasons
<1>3. CASE ~(e.first_seen \/ s.phase = "New") /\ ~(s.phase # "Fallback" /\ Triggered(s))
  <2>1. r = evaluate_phase(s, e, h)
    BY <1>3 DEF evaluate_governance_transition
  <2>2. s.phase \in Phases
    BY DEF State
  <2>3. CASE s.phase = "Learning"
    <3>1. r = evaluate_learning(s, e)
      BY <2>1, <2>3 DEF evaluate_phase
    <3> QED
      BY <1>3, <2>3, <3>1 DEF evaluate_learning, Result, Reasons
  <2>4. CASE s.phase = "Suggested"
    <3>1. r = evaluate_suggested(s)
      BY <2>1, <2>4 DEF evaluate_phase
    <3> QED
      BY <1>3, <2>4, <3>1 DEF evaluate_suggested, Result, Reasons
  <2>5. CASE s.phase = "Stable"
    BY <1>3, <2>1, <2>5 DEF evaluate_phase
  <2>6. CASE s.phase = "Review"
    <3>1. r = evaluate_review(s, h)
      BY <2>1, <2>6 DEF evaluate_phase
    <3> QED
      BY <1>3, <2>6, <3>1 DEF evaluate_review
  <2>7. CASE s.phase = "Fallback"
    <3>1. r = evaluate_fallback(s, e)
      BY <2>1, <2>7 DEF evaluate_phase
    <3> QED
      BY <1>3, <2>7, <3>1 DEF evaluate_fallback
  <2> QED
    BY <1>3, <2>2, <2>3, <2>4, <2>5, <2>6, <2>7 DEF Phases
<1> QED
  BY <1>1, <1>2, <1>3

LEMMA EvaluateType ==
    ASSUME NEW s \in State, NEW e \in Evidence, NEW h \in Int
    PROVE  evaluate_governance_transition(s, e, h) \in Decision
<1>1. s.phase \in Phases
  BY DEF State
<1>2. \A p \in Phases, c \in BOOLEAN, y \in Reasons : Result(p, c, y) \in Decision
  BY DEF Result, Decision
<1>3. {"Learning", "Suggested", "Stable", "Review", "Fallback"} \subseteq Phases
  BY DEF Phases
<1>4. {"FirstSeen", "NoChange", "MixedFreeze", "ReviewCleared", "ReviewDurationFallback",
       "ReviewHardConflictFallback", "ReviewRouteOppositeFallback", "FallbackExpired"}
      \subseteq Reasons
  BY DEF Reasons
<1> QED
  BY <1>1, <1>2, <1>3, <1>4, EvaluateCases DEF no_change

-----------------------------------------------------------------------------
\* The states that the operations build are states.
LEMMA NewStateType ==
    ASSUME NEW h \in Int
    PROVE  new_state(h) \in State
BY DEF new_state, State, Phases, Counted

LEMMA DecayType ==
    ASSUME NEW s \in State, NEW h \in Int
    PROVE  LET n == decay_24h_counters(s, h) IN
           n \in State /\ [n EXCEPT !.version = n.version + 1] \in State
<1> DEFINE n == decay_24h_counters(s, h)
<1>1. n \in State
  BY DEF decay_24h_counters, State
<1>2. [n EXCEPT !.version = n.version + 1] \in State
  BY <1>1 DEF State
<1> QED
  BY <1>1, <1>2

LEMMA WrittenType ==
    ASSUME NEW s \in State, NEW p \in Phases
    PROVE  [s EXCEPT !.phase = p, !.observations = s.observations + 1,
                     !.version = s.version + 1] \in State
<1>1. s.observations + 1 \in Nat /\ s.version + 1 \in Nat \ {0}
  BY DEF State
<1>2. \A a \in Nat, b \in Nat \ {0} :
         [s EXCEPT !.phase = p, !.observations = a, !.version = b] \in State
  BY Zenon DEF State
<1> QED
  BY <1>1, <1>2

LEMMA ObserveType ==
    ASSUME NEW s \in State, NEW k \in Recorded, now \in Int
    PROVE  Observe(s, k) \in State
<1>1. s.observations + 1 \in Nat /\ s.version + 1 \in Nat \ {0}
      /\ s.local \in Nat /\ s.local + 1 \in Nat /\ s.aligned \in Nat /\ s.aligned + 1 \in Nat
      /\ s.observers \in Nat /\ s.observers + 1 \in Nat
      /\ s.streak + 1 \in Nat /\ s.failures + 1 \in Nat /\ 0 \in Nat
  BY DEF State
<1>2. [j \in Counted |-> IF j = k THEN s.count[j] + 1 ELSE s.count[j]] \in [Counted -> Nat]
  BY DEF State
<1>3. [j \in Counted |-> IF j = k THEN now ELSE s.last[j]] \in [Counted -> Int \cup {Never}]
  BY DEF State
<1> QED
  BY <1>1, <1>2, <1>3 DEF Observe, State
-----------------------------------------------------------------------------
LEMMA TypeInit ==
    Init => TypeOK
<1> SUFFICES ASSUME Init PROVE TypeOK
  OBVIOUS
<1>1. NoDecision \in Decision
  BY DEF NoDecision, Result, Decision, Phases, Reasons
<1>2. IdleTask \in Task
  BY <1>1 DEF IdleTask, Task
<1>3. worker \in Worker
  BY DEF Init, Worker
<1> QED
  BY <1>2, <1>3, GovernanceAssumption DEF Init, TypeOK, Known, IdleTask

\* What is true of the parts of a well-typed task.
LEMMA TaskFacts ==
    ASSUME TypeOK, NEW t \in Tasks
    PROVE  /\ task[t] \in Task
           /\ task[t].pc # "idle" => task[t].domain \in Domains
           /\ task[t].pc \in {"await", "write"} => task[t].snap \in State
           /\ task[t].decision \in Decision
           /\ task[t].decision.new_phase \in Phases
<1>1. task[t] \in Task
  BY DEF TypeOK
<1>2. task[t].decision \in Decision
  BY <1>1 DEF Task
<1> QED
  BY <1>1, <1>2 DEF TypeOK, Task, Decision

LEMMA IdleFacts ==
    IdleTask \in Task /\ IdleTask.pc = "idle" /\ NoDecision \in Decision
<1>1. NoDecision \in Decision
  BY DEF NoDecision, Result, Decision, Phases, Reasons
<1> QED
  BY <1>1 DEF IdleTask, Task

\* The evidence that the pipeline hands to the transition.
LEMMA EvidenceType ==
    ASSUME NEW s \in State, NEW a \in BOOLEAN, NEW b \in BOOLEAN
    PROVE  [first_seen |-> first_seen(s), can_promote |-> a, mixed |-> b,
            tls |-> FALSE, hard |-> FALSE, third_party |-> FALSE] \in Evidence
BY DEF Evidence, first_seen

\* What Evaluate does to its task, in terms of the snapshot s it decides on.
LEMMA EvaluateStep ==
    ASSUME TypeOK, NEW t \in Tasks, Evaluate(t)
    PROVE  /\ UNCHANGED <<store, now, worker, announced>>
           /\ task[t].snap \in State
           /\ \/ task' = [task EXCEPT ![t] = IdleTask]
              \/ \E e \in Evidence :
                    LET s == task[t].snap
                        r == evaluate_governance_transition(s, e, now)
                    IN  /\ e.first_seen = first_seen(s)
                        /\ r.phase_changed \/ first_seen(s)
                        /\ r \in Decision
                        /\ task' = [task EXCEPT ![t] = [task[t] EXCEPT !.pc = "write",
                                                                     !.decision = r]]
<1> DEFINE s == task[t].snap
           E(a, b) == [first_seen |-> first_seen(s), can_promote |-> a, mixed |-> b,
                       tls |-> FALSE, hard |-> FALSE, third_party |-> FALSE]
           r(a, b) == evaluate_governance_transition(s, E(a, b), now)
<1>1. s \in State /\ now \in Int
  BY TaskFacts DEF Evaluate, TypeOK
<1>2. PICK a \in BOOLEAN, b \in BOOLEAN :
         task' = [task EXCEPT ![t] = IF r(a, b).phase_changed \/ first_seen(s)
                                     THEN [task[t] EXCEPT !.pc = "write", !.decision = r(a, b)]
                                     ELSE IdleTask]
  BY DEF Evaluate
<1>3. E(a, b) \in Evidence /\ E(a, b).first_seen = first_seen(s)
  <2>1. PICK z \in State : z = s
    BY <1>1
  <2> QED
    BY <2>1, EvidenceType
<1>4. r(a, b) \in Decision
  <2>1. PICK z \in State, h \in Int, e \in Evidence : z = s /\ h = now /\ e = E(a, b)
    BY <1>1, <1>3
  <2> QED
    BY <2>1, EvaluateType
<1>5. CASE r(a, b).phase_changed \/ first_seen(s)
  <2>1. task' = [task EXCEPT ![t] = [task[t] EXCEPT !.pc = "write", !.decision = r(a, b)]]
    BY <1>2, <1>5
  <2> HIDE DEF E
  <2> QED
    BY <1>1, <1>3, <1>4, <1>5, <2>1 DEF Evaluate
<1>6. CASE ~(r(a, b).phase_changed \/ first_seen(s))
  BY <1>1, <1>2, <1>6 DEF Evaluate
<1> QED
  BY <1>5, <1>6
-----------------------------------------------------------------------------
LEMMA TypeStep ==
    TypeOK /\ [Next]_vars => TypeOK'
<1> SUFFICES ASSUME TypeOK, [Next]_vars PROVE TypeOK'
  OBVIOUS
<1> USE GovernanceAssumption
<1>1. ASSUME NEW t \in Tasks, Snapshot(t) PROVE TypeOK'
  <2>1. PICK d \in Domains, s \in State :
           /\ store' = [store EXCEPT ![d] = s]
           /\ task' = [task EXCEPT ![t] =
                        [pc |-> "await", domain |-> d, snap |-> s, decision |-> NoDecision]]
    <3>1. PICK h \in Int : h = now
      BY DEF TypeOK
    <3>2. new_state(now) \in State
      BY <3>1, NewStateType
    <3>3. \A d \in Domains : (IF d \in Known THEN store[d] ELSE new_state(now)) \in State
      BY <3>2 DEF Known, TypeOK
    <3> QED
      BY <1>1, <3>3 DEF Snapshot
  <2>2. task'[t] \in Task
    BY <2>1, IdleFacts DEF Task, TypeOK
  <2>3. task' \in [Tasks -> Task] /\ task'[t].snap = s /\ task'[t].domain = d
    BY <2>1, <2>2 DEF TypeOK
  <2> QED
    BY <1>1, <2>1, <2>3 DEF Snapshot, TypeOK, Known
<1>2. ASSUME NEW t \in Tasks, task' = [task EXCEPT ![t] = IdleTask],
             UNCHANGED <<store, now, worker>>, announced' \in [Domains -> SUBSET Phases]
      PROVE TypeOK'
  BY <1>2, IdleFacts DEF TypeOK, Known
<1>3. ASSUME NEW t \in Tasks, NoEvidence(t) PROVE TypeOK'
  BY <1>2, <1>3 DEF NoEvidence, TypeOK
<1>4. ASSUME NEW t \in Tasks, Evaluate(t) PROVE TypeOK'
  <2>1. CASE task' = [task EXCEPT ![t] = IdleTask]
    BY <1>2, <1>4, <2>1, EvaluateStep DEF TypeOK
  <2>2. CASE \E r \in Decision :
                task' = [task EXCEPT ![t] = [task[t] EXCEPT !.pc = "write", !.decision = r]]
    <3>1. PICK r \in Decision :
             task' = [task EXCEPT ![t] = [task[t] EXCEPT !.pc = "write", !.decision = r]]
      BY <2>2
    <3>2. task[t] \in Task /\ task[t].pc = "await"
      BY <1>4, TaskFacts DEF Evaluate
    <3>3. [task[t] EXCEPT !.pc = "write", !.decision = r] \in Task
      BY <3>2 DEF Task
    <3>4. UNCHANGED <<store, now, worker, announced>>
      BY <1>4, EvaluateStep
    <3>5. task' \in [Tasks -> Task]
      BY <3>1, <3>3 DEF TypeOK
    <3>6. /\ task'[t].domain = task[t].domain /\ task'[t].snap = task[t].snap
          /\ \A u \in Tasks \ {t} : task'[u] = task[u]
      BY <3>1, <3>2 DEF TypeOK, Task
    <3> HIDE <3>1
    <3> QED
      BY <3>2, <3>4, <3>5, <3>6 DEF TypeOK, Known
  <2> QED
    BY <1>4, <2>1, <2>2, EvaluateStep
<1>5. ASSUME NEW t \in Tasks, Write(t) PROVE TypeOK'
  <2> DEFINE s == task[t].snap
             n == [s EXCEPT !.phase = task[t].decision.new_phase,
                            !.observations = s.observations + 1, !.version = s.version + 1]
  <2>1. s \in State /\ task[t].domain \in Domains /\ task[t].decision.new_phase \in Phases
    BY <1>5, TaskFacts DEF Write
  <2>2. n \in State
    <3>1. PICK z \in State, p \in Phases : z = s /\ p = task[t].decision.new_phase
      BY <2>1
    <3> QED
      BY <3>1, WrittenType
  <2>3. store' \in [Domains -> State \cup {None}]
    BY <1>5, <2>1, <2>2 DEF Write, TypeOK
  <2>4. [task[t] EXCEPT !.pc = "send", !.snap = None] \in Task
    BY <1>5, TaskFacts DEF Task
  <2>5. task' = [task EXCEPT ![t] = [task[t] EXCEPT !.pc = "send", !.snap = None]]
    BY <1>5 DEF Write, TypeOK
  <2> QED
    BY <1>5, <2>1, <2>3, <2>4, <2>5 DEF Write, TypeOK, Known, Task
<1>6. ASSUME NEW t \in Tasks, Send(t) PROVE TypeOK'
  <2>1. announced' \in [Domains -> SUBSET Phases]
    BY <1>6, TaskFacts DEF Send, TypeOK
  <2> QED
    BY <1>2, <1>6, <2>1 DEF Send
<1>7. CASE WorkerTick
  BY <1>7 DEF WorkerTick, TypeOK, Worker, Known
<1>8. CASE WorkerDecay
  <2>1. PICK d \in worker.todo :
           LET s == store[d]
               n == decay_24h_counters(s, worker.at)
           IN  \/ worker' = [worker EXCEPT !.pc = "write", !.todo = @ \ {d}, !.domain = d,
                                           !.new = [n EXCEPT !.version = n.version + 1]]
               \/ worker' = [worker EXCEPT !.todo = @ \ {d}]
    BY <1>8 DEF WorkerDecay
  <2>2. worker \in Worker /\ worker.at \in Int /\ d \in Domains /\ store[d] \in State
    BY <1>8, <2>1 DEF WorkerDecay, TypeOK, Worker, Known
  <2>3. PICK n \in State :
           \/ worker' = [worker EXCEPT !.pc = "write", !.todo = @ \ {d}, !.domain = d, !.new = n]
           \/ worker' = [worker EXCEPT !.todo = @ \ {d}]
    <3>1. PICK z \in State, h \in Int : z = store[d] /\ h = worker.at
      BY <2>2
    <3> QED
      BY <2>1, <3>1, DecayType
  <2>4. /\ worker' \in Worker /\ worker'.at = worker.at /\ worker'.todo \subseteq worker.todo
        /\ worker'.pc = "write" => worker'.domain # None /\ worker'.new # None
    <3>1. worker.pc = "decay" /\ worker.todo \ {d} \in SUBSET Domains
      BY <1>8, <2>2 DEF WorkerDecay, Worker
    <3>2. CASE worker' = [worker EXCEPT !.todo = @ \ {d}]
      BY <2>2, <3>1, <3>2 DEF Worker
    <3>3. CASE worker' = [worker EXCEPT !.pc = "write", !.todo = @ \ {d}, !.domain = d, !.new = n]
      <4>1. worker' = [pc |-> "write", at |-> worker.at, todo |-> worker.todo \ {d},
                       domain |-> d, new |-> n]
        BY <2>2, <3>3 DEF Worker
      <4> QED
        BY <2>2, <3>1, <4>1 DEF Worker
    <3> QED
      BY <2>3, <3>2, <3>3
  <2> QED
    BY <1>8, <2>2, <2>4 DEF WorkerDecay, TypeOK, Known
<1>9. CASE WorkerWrite
  BY <1>9 DEF WorkerWrite, TypeOK, Known, Worker
<1>10. CASE WorkerSleep
  BY <1>10 DEF WorkerSleep, TypeOK, Known, Worker
<1>11. ASSUME NEW d \in Domains, NEW k \in Recorded, Record(d, k) PROVE TypeOK'
  <2>1. store[d] \in State
    BY <1>11 DEF Record, Known, TypeOK
  <2>2. Observe(store[d], k) \in State
    <3>1. PICK z \in State : z = store[d]
      BY <2>1
    <3> QED
      BY <3>1, ObserveType DEF TypeOK
  <2> QED
    BY <1>11, <2>2 DEF Record, TypeOK, Known
<1>12. CASE Tick
  BY <1>12 DEF Tick, TypeOK, Known
<1>13. CASE UNCHANGED vars
  BY <1>13 DEF vars, TypeOK, Known
<1> QED
  BY <1>1, <1>3, <1>4, <1>5, <1>6, <1>7, <1>8, <1>9, <1>10, <1>11, <1>12, <1>13
     DEF Next, Resolve, Maintain

\* The store, the tasks and the maintenance worker keep their types, through
\* every interleaving of their reads and writes.
THEOREM GovernanceTypeCorrect == Spec => []TypeOK
<1> QED
  BY TypeInit, TypeStep, PTL DEF Spec
-----------------------------------------------------------------------------
(* Decisions.  A task that is about to write holds a decision that was taken *)
(* on the snapshot it still has, whatever has become of the store since.     *)

\* What the two invariants say of a decision r on a snapshot s.
Justified(s, r) ==
    /\ <<s.phase, r.new_phase>> \in Diagram
    /\ \/ r.new_phase \in {"Suggested", "Stable"}
       \/ s.phase = "Review" /\ r.new_phase = "Learning"
       => ~Triggered(s)

DecisionsJustified ==
    \A t \in Tasks : Decided(t) => Justified(task[t].snap, task[t].decision)

LEMMA EvaluateJustified ==
    ASSUME NEW s \in State, NEW e \in Evidence, NEW h \in Int,
           e.first_seen = first_seen(s),
           evaluate_governance_transition(s, e, h).phase_changed \/ first_seen(s)
    PROVE  Justified(s, evaluate_governance_transition(s, e, h))
<1> DEFINE r == evaluate_governance_transition(s, e, h)
<1>2. s.phase \in Phases /\ (first_seen(s) => s.phase = "New")
  BY DEF State, first_seen
<1>3. \/ s.phase = "New" /\ r.new_phase = "Learning"
      \/ s.phase \in {"Learning", "Suggested", "Stable", "Review"} /\ r.new_phase = "Review"
      \/ s.phase = "Learning" /\ ~Triggered(s) /\ r.new_phase = "Suggested"
      \/ s.phase = "Suggested" /\ ~Triggered(s) /\ r.new_phase = "Stable"
      \/ s.phase = "Review" /\ ~Triggered(s) /\ r.new_phase = "Learning"
      \/ s.phase = "Review" /\ r.new_phase = "Fallback"
      \/ s.phase = "Fallback" /\ r.new_phase = "Learning"
  <2> HIDE DEF r
  <2> QED
    BY <1>2, EvaluateCases DEF r, Result, no_change, Phases
<1> HIDE DEF r
<1>5. <<s.phase, r.new_phase>> \in Diagram
  BY <1>3 DEF Diagram
<1>6. \/ r.new_phase \in {"Suggested", "Stable"}
      \/ s.phase = "Review" /\ r.new_phase = "Learning"
      => ~Triggered(s)
  BY <1>3
<1> QED
  BY <1>5, <1>6 DEF Justified, r

LEMMA JustifiedStep ==
    TypeOK /\ DecisionsJustified /\ [Next]_vars => DecisionsJustified'
<1> SUFFICES ASSUME TypeOK, DecisionsJustified, [Next]_vars,
                    NEW u \in Tasks, task'[u].pc = "write"
             PROVE  Justified(task'[u].snap, task'[u].decision)
  BY DEF DecisionsJustified, Decided, Justified, Triggered
<1>0. task'[u] = task[u] => Justified(task'[u].snap, task'[u].decision)
  BY DEF DecisionsJustified, Decided
<1>1. ASSUME NEW t \in Tasks, Evaluate(t)
      PROVE  Justified(task'[u].snap, task'[u].decision)
  <2>1. CASE task' = [task EXCEPT ![t] = IdleTask]
    BY <1>0, <2>1, IdleFacts DEF TypeOK
  <2>2. CASE task' # [task EXCEPT ![t] = IdleTask]
    <3>1. PICK e \in Evidence :
             LET s == task[t].snap
                 r == evaluate_governance_transition(s, e, now)
             IN  /\ e.first_seen = first_seen(s)
                 /\ r.phase_changed \/ first_seen(s)
                 /\ task' = [task EXCEPT ![t] = [task[t] EXCEPT !.pc = "write", !.decision = r]]
      BY <1>1, <2>2, EvaluateStep
    <3>2. PICK s \in State, h \in Int : s = task[t].snap /\ h = now
      BY <1>1, EvaluateStep DEF TypeOK
    <3>3. Justified(s, evaluate_governance_transition(s, e, h))
      BY <3>1, <3>2, EvaluateJustified
    <3>4. u = t => /\ task'[u].snap = s
                   /\ task'[u].decision = evaluate_governance_transition(s, e, h)
      BY <3>1, <3>2 DEF TypeOK, Task
    <3>5. u # t => task'[u] = task[u]
      BY <3>1 DEF TypeOK
    <3> QED
      BY <1>0, <3>3, <3>4, <3>5
  <2> QED
    BY <2>1, <2>2
<1>2. ASSUME NEW t \in Tasks, Snapshot(t) \/ NoEvidence(t) \/ Write(t) \/ Send(t)
      PROVE  task'[u] = task[u]
  <2>1. \E v : v.pc # "write" /\ task' = [task EXCEPT ![t] = v]
    <3>1. CASE Snapshot(t)
      BY <3>1 DEF Snapshot
    <3>2. CASE NoEvidence(t) \/ Send(t)
      BY <3>2, IdleFacts DEF NoEvidence, Send
    <3>3. CASE Write(t)
      <4>1. task' = [task EXCEPT ![t] = [task[t] EXCEPT !.pc = "send", !.snap = None]]
        BY <3>3 DEF Write, TypeOK
      <4>2. [task[t] EXCEPT !.pc = "send", !.snap = None].pc = "send"
        BY TaskFacts DEF Task
      <4> QED
        BY <4>1, <4>2
    <3> QED
      BY <1>2, <3>1, <3>2, <3>3
  <2> QED
    BY <2>1 DEF TypeOK
<1>3. ASSUME UNCHANGED task
      PROVE  task'[u] = task[u]
  BY <1>3
<1>4. \/ \E t \in Tasks : Evaluate(t)
      \/ \E t \in Tasks : Snapshot(t) \/ NoEvidence(t) \/ Write(t) \/ Send(t)
      \/ UNCHANGED task
  BY DEF Next, Resolve, Maintain, WorkerTick, WorkerDecay, WorkerWrite, WorkerSleep,
         Record, Tick, vars
<1> QED
  BY <1>0, <1>1, <1>2, <1>3, <1>4

LEMMA DecisionsAlwaysJustified == Spec => []DecisionsJustified
<1>1. Init => DecisionsJustified
  BY DEF Init, DecisionsJustified, Decided, IdleTask
<1> QED
  BY <1>1, JustifiedStep, GovernanceTypeCorrect, PTL DEF Spec

\* For all thresholds, and however the snapshot was overtaken in the store: a
\* decision that a resolve task is about to force into the store is an arrow of
\* the phase diagram.
THEOREM DecisionsFollowDiagramHolds == Spec => []DecisionsFollowDiagram
<1>1. DecisionsJustified => DecisionsFollowDiagram
  BY DEF DecisionsJustified, Justified, DecisionsFollowDiagram
<1> QED
  BY <1>1, DecisionsAlwaysJustified, PTL

\* For all thresholds: evaluate_governance_transition promotes a domain, or
\* clears it of a review, only on a snapshot without a review trigger.
THEOREM PromotionsAreCleanHolds == Spec => []PromotionsAreClean
<1>1. DecisionsJustified => PromotionsAreClean
  BY DEF DecisionsJustified, Justified, PromotionsAreClean
<1> QED
  BY <1>1, DecisionsAlwaysJustified, PTL
-----------------------------------------------------------------------------
(* Facts.  Stale states are written back by tasks and by the worker, so the  *)
(* invariant covers the phases in their hands too.                           *)

\* A fact with phase p for domain d was sent, or is about to be.
CoveredBy(d, p, facts, tasks) ==
    \/ p \in {"New"} \cup facts[d]
    \/ \E t \in Tasks : /\ tasks[t].pc = "send" /\ tasks[t].domain = d
                        /\ tasks[t].decision.new_phase = p

Covered(d, p) == CoveredBy(d, p, announced, task)
CoveredNext(d, p) == CoveredBy(d, p, announced', task')

PhasesCovered ==
    /\ \A d \in Known : Covered(d, store[d].phase)
    /\ \A t \in Tasks : task[t].pc \in {"await", "write"} =>
          Covered(task[t].domain, task[t].snap.phase)
    /\ worker.pc = "write" => Covered(worker.domain, worker.new.phase)

\* A task leaves "send" only by sending.
LEMMA CoverageLasts ==
    ASSUME TypeOK, [Next]_vars, NEW d \in Domains, NEW p \in Phases, Covered(d, p)
    PROVE  CoveredNext(d, p)
<1>1. ASSUME NEW t \in Tasks, Send(t) PROVE CoveredNext(d, p)
  <2>1. task[t].domain \in Domains
    BY <1>1, TaskFacts DEF Send
  <2>2. /\ announced[d] \subseteq announced'[d]
        /\ task[t].domain = d => task[t].decision.new_phase \in announced'[d]
    BY <1>1, <2>1 DEF Send, TypeOK
  <2>3. \A u \in Tasks \ {t} : task'[u] = task[u]
    BY <1>1 DEF Send, TypeOK
  <2> QED
    BY <2>2, <2>3 DEF CoveredNext, CoveredBy, Covered
<1>2. ASSUME NEW t \in Tasks, task[t].pc # "send", NEW v, task' = [task EXCEPT ![t] = v],
             UNCHANGED announced
      PROVE  CoveredNext(d, p)
  BY <1>2 DEF CoveredNext, CoveredBy, Covered, TypeOK
<1>3. ASSUME NEW t \in Tasks, Snapshot(t) PROVE CoveredNext(d, p)
  BY <1>2, <1>3 DEF Snapshot
<1>4. ASSUME NEW t \in Tasks, NoEvidence(t) PROVE CoveredNext(d, p)
  BY <1>2, <1>4 DEF NoEvidence
<1>5. ASSUME NEW t \in Tasks, Evaluate(t) PROVE CoveredNext(d, p)
  BY <1>2, <1>5, EvaluateStep DEF Evaluate
<1>6. ASSUME NEW t \in Tasks, Write(t) PROVE CoveredNext(d, p)
  <2>1. task' = [task EXCEPT ![t] = [task[t] EXCEPT !.pc = "send", !.snap = None]]
    BY <1>6 DEF Write, TypeOK
  <2> QED
    BY <1>2, <1>6, <2>1 DEF Write
<1>7. CASE UNCHANGED <<task, announced>>
  BY <1>7 DEF CoveredNext, CoveredBy, Covered
<1>8. \/ \E t \in Tasks : Resolve(t)
      \/ UNCHANGED <<task, announced>>
  BY DEF Next, Maintain, WorkerTick, WorkerDecay, WorkerWrite, WorkerSleep, Record, Tick, vars
<1> QED
  BY <1>1, <1>3, <1>4, <1>5, <1>6, <1>7, <1>8 DEF Resolve

LEMMA CoveredStep ==
    TypeOK /\ PhasesCovered /\ [Next]_vars => PhasesCovered'
<1> SUFFICES ASSUME TypeOK, PhasesCovered, [Next]_vars PROVE PhasesCovered'
  OBVIOUS
<1> USE GovernanceAssumption
<1>0. TypeOK'
  BY TypeStep
<1>1. \A d \in Domains, p \in Phases : Covered(d, p) => CoveredNext(d, p)
  BY CoverageLasts
<1>2. \A d \in Domains : store[d] # None => store[d].phase \in Phases /\ Covered(d, store[d].phase)
  BY DEF TypeOK, State, PhasesCovered, Known
<1>3. \A t \in Tasks : task[t].pc \in {"await", "write"} =>
         /\ task[t].domain \in Domains /\ task[t].snap.phase \in Phases
         /\ Covered(task[t].domain, task[t].snap.phase)
  BY TaskFacts DEF State, PhasesCovered
<1>4. worker.pc = "write" => /\ worker.domain \in Domains /\ worker.new.phase \in Phases
                             /\ Covered(worker.domain, worker.new.phase)
  BY DEF TypeOK, Worker, State, PhasesCovered
<1> DEFINE StoreOK == \A d \in Domains : store'[d] # None => CoveredNext(d, store'[d].phase)
           TaskOK == \A t \in Tasks : task'[t].pc \in {"await", "write"} =>
                        CoveredNext(task'[t].domain, task'[t].snap.phase)
           WorkerOK == worker'.pc = "write" => CoveredNext(worker'.domain, worker'.new.phase)
<1>5. UNCHANGED store => StoreOK
  BY <1>1, <1>2
<1>6. UNCHANGED task => TaskOK
  BY <1>1, <1>3
<1>7. UNCHANGED worker => WorkerOK
  BY <1>1, <1>4
<1>8. StoreOK /\ TaskOK /\ WorkerOK => PhasesCovered'
  BY DEF PhasesCovered, Known, CoveredNext, Covered
<1>9. ASSUME NEW t \in Tasks, NEW v, task' = [task EXCEPT ![t] = v],
             v.pc \in {"await", "write"} => CoveredNext(v.domain, v.snap.phase)
      PROVE  TaskOK
  BY <1>1, <1>3, <1>9 DEF TypeOK
<1>10. ASSUME NEW t \in Tasks, Snapshot(t) PROVE PhasesCovered'
  <2>1. PICK d, s :
           /\ d \in Domains
           /\ s = IF d \in Known THEN store[d] ELSE new_state(now)
           /\ store' = [store EXCEPT ![d] = s]
           /\ task' = [task EXCEPT ![t] =
                        [pc |-> "await", domain |-> d, snap |-> s, decision |-> NoDecision]]
    BY <1>10 DEF Snapshot
  <2>2. CoveredNext(d, s.phase)
    <3>1. CASE d \in Known
      BY <1>1, <1>2, <2>1, <3>1 DEF Known
    <3>2. CASE d \notin Known
      BY <2>1, <3>2 DEF CoveredNext, CoveredBy, Covered, new_state
    <3> QED
      BY <3>1, <3>2
  <2>3. StoreOK
    BY <1>1, <1>2, <2>1, <2>2 DEF TypeOK
  <2>4. TaskOK
    BY <1>9, <2>1, <2>2
  <2> QED
    BY <1>7, <1>8, <1>10, <2>3, <2>4 DEF Snapshot
<1>11. ASSUME NEW t \in Tasks, NoEvidence(t) \/ Send(t) PROVE PhasesCovered'
  <2>1. TaskOK
    BY <1>9, <1>11, IdleFacts DEF NoEvidence, Send
  <2> QED
    BY <1>5, <1>7, <1>8, <1>11, <2>1 DEF NoEvidence, Send
<1>12. ASSUME NEW t \in Tasks, Evaluate(t) PROVE PhasesCovered'
  <2>1. CASE task' = [task EXCEPT ![t] = IdleTask]
    BY <1>9, <2>1, IdleFacts, <1>12, <1>5, <1>7, <1>8 DEF Evaluate
  <2>2. CASE \E r : task' = [task EXCEPT ![t] = [task[t] EXCEPT !.pc = "write", !.decision = r]]
    <3>1. PICK v : /\ task' = [task EXCEPT ![t] = v]
                   /\ v.domain = task[t].domain /\ v.snap = task[t].snap
      <4>1. PICK r : task' = [task EXCEPT ![t] = [task[t] EXCEPT !.pc = "write", !.decision = r]]
        BY <2>2
      <4>2. task[t] \in Task
        BY TaskFacts
      <4> DEFINE v == [task[t] EXCEPT !.pc = "write", !.decision = r]
      <4>3. v.domain = task[t].domain /\ v.snap = task[t].snap
        BY <4>2 DEF Task
      <4> QED
        BY <4>1, <4>3
    <3>2. TaskOK
      BY <1>1, <1>3, <1>9, <1>12, <3>1 DEF Evaluate
    <3> QED
      BY <1>5, <1>7, <1>8, <1>12, <3>2 DEF Evaluate
  <2> QED
    BY <1>12, <2>1, <2>2, EvaluateStep
<1>13. ASSUME NEW t \in Tasks, Write(t) PROVE PhasesCovered'
  <2> DEFINE s == task[t].snap
             p == task[t].decision.new_phase
             n == [s EXCEPT !.phase = p, !.observations = s.observations + 1,
                            !.version = s.version + 1]
             v == [task[t] EXCEPT !.pc = "send", !.snap = None]
  <2>1. s \in State /\ task[t].domain \in Domains
    BY <1>13, TaskFacts DEF Write
  <2>2. task' = [task EXCEPT ![t] = v] /\ store' = [store EXCEPT ![task[t].domain] = n]
    BY <1>13 DEF Write, TypeOK
  <2>3. v.pc = "send" /\ v.domain = task[t].domain /\ v.decision = task[t].decision
    BY TaskFacts DEF Task
  <2>4. n.phase = p
    BY <2>1 DEF State
  <2> HIDE DEF n, v
  <2>5. CoveredNext(task[t].domain, p)
    BY <2>2, <2>3 DEF CoveredNext, CoveredBy, Covered, TypeOK
  <2>6. StoreOK
    BY <1>1, <1>2, <2>1, <2>2, <2>4, <2>5 DEF TypeOK
  <2>7. TaskOK
    BY <1>9, <2>2, <2>3
  <2> QED
    BY <1>7, <1>8, <1>13, <2>6, <2>7 DEF Write
<1>14. CASE WorkerTick \/ WorkerSleep
  <2>1. worker'.pc # "write"
    <3>1. CASE WorkerTick
      BY <3>1 DEF WorkerTick
    <3>2. CASE WorkerSleep
      BY <3>2 DEF WorkerSleep, TypeOK, Worker
    <3> QED
      BY <1>14, <3>1, <3>2
  <2> QED
    BY <1>5, <1>6, <1>8, <1>14, <2>1 DEF WorkerTick, WorkerSleep
<1>15. CASE WorkerDecay
  <2>1. PICK d \in worker.todo :
           LET n == decay_24h_counters(store[d], worker.at)
           IN  \/ worker' = [worker EXCEPT !.pc = "write", !.todo = @ \ {d}, !.domain = d,
                                           !.new = [n EXCEPT !.version = n.version + 1]]
               \/ worker' = [worker EXCEPT !.todo = @ \ {d}]
    BY <1>15 DEF WorkerDecay
  <2>2. d \in Known /\ d \in Domains /\ store[d] \in State /\ worker \in Worker
    BY <2>1 DEF TypeOK, Known
  <2>3. CoveredNext(d, store[d].phase)
    BY <1>1, <1>2, <2>2 DEF Known
  <2>4. PICK m : /\ m.phase = store[d].phase
                 /\ \/ worker' = [worker EXCEPT !.pc = "write", !.todo = @ \ {d}, !.domain = d,
                                                !.new = m]
                    \/ worker' = [worker EXCEPT !.todo = @ \ {d}]
    BY <2>1, <2>2 DEF decay_24h_counters, State
  <2>5. worker'.pc = "write" => worker'.domain = d /\ worker'.new = m
    BY <1>15, <2>2, <2>4 DEF Worker, WorkerDecay
  <2>6. WorkerOK
    BY <2>3, <2>4, <2>5
  <2> QED
    BY <1>5, <1>6, <1>8, <1>15, <2>6 DEF WorkerDecay
<1>16. CASE WorkerWrite
  <2>1. worker'.pc # "write" /\ store' = [store EXCEPT ![worker.domain] = worker.new]
    BY <1>16 DEF WorkerWrite, TypeOK, Worker
  <2>2. StoreOK
    BY <1>1, <1>2, <1>4, <1>16, <2>1 DEF WorkerWrite, TypeOK
  <2> QED
    BY <1>6, <1>8, <1>16, <2>1, <2>2 DEF WorkerWrite
<1>17. ASSUME NEW d \in Domains, NEW k \in Recorded, Record(d, k) PROVE PhasesCovered'
  <2>1. store[d] # None /\ store[d] \in State
    BY <1>17 DEF Record, Known, TypeOK
  <2>2. PICK o : o.phase = store[d].phase /\ store' = [store EXCEPT ![d] = o]
    BY <1>17, <2>1 DEF Record, Observe, State
  <2>3. StoreOK
    BY <1>1, <1>2, <2>1, <2>2 DEF TypeOK
  <2> QED
    BY <1>6, <1>7, <1>8, <1>17, <2>3 DEF Record
<1>18. CASE Tick \/ UNCHANGED vars
  BY <1>5, <1>6, <1>7, <1>8, <1>18 DEF Tick, vars
<1> QED
  BY <1>10, <1>11, <1>12, <1>13, <1>14, <1>15, <1>16, <1>17, <1>18 DEF Next, Resolve, Maintain

\* Whatever stale states the tasks and the worker write back, the phase of every
\* stored state has its fact: sent already, or in the hands of a task.
THEOREM FactForEveryPhaseHolds == Spec => []FactForEveryPhase
<1>1. Init => PhasesCovered
  BY DEF Init, PhasesCovered, Known, IdleTask
<1>2. PhasesCovered => FactForEveryPhase
  BY DEF PhasesCovered, CoveredBy, Covered, FactForEveryPhase
<1> QED
  BY <1>1, <1>2, CoveredStep, GovernanceTypeCorrect, PTL DEF Spec
=============================================================================
