----------------------------- MODULE Governance -----------------------------
(***************************************************************************)
(* The governance of domains: the resolve tasks of border-dns-pipeline,    *)
(* the store of border-dns-facts and the maintenance worker of             *)
(* border-dns-runtime.                                                     *)
(*                                                                         *)
(* A resolve task takes a snapshot of the state of its domain before it    *)
(* awaits the upstream, decides on that snapshot afterwards, and replaces  *)
(* the stored state without looking at it.  The maintenance worker reads   *)
(* and replaces each state too.  The recorder of observations, which would *)
(* count evidence, is not in the repository: it stands for a user of the   *)
(* store's versioned update, and its read and update are one step.         *)
(***************************************************************************)
EXTENDS GovernanceTransition

CONSTANTS
    Tasks,        \* resolve tasks in flight
    Domains,
    Hours,        \* the times the clock may show
    Start,        \* the time when the process starts
    ClockSteps,   \* how it may move: pairs of Hours, forward or set back
    Recorded,     \* what the recorder may count: Counted, "clean" or "failure"
    MaxVersion,   \* bound on the versions that are written
    RecordLimit,  \* bound on the versions that the recorder looks at
    TaskLimit,    \* TaskLimit[t]: bound on the versions that t looks at
    None

ASSUME GovernanceAssumption ==
    /\ Hours \subseteq Int /\ Start \in Hours /\ ClockSteps \subseteq Hours \X Hours
    /\ Recorded \subseteq Counted \cup {"clean", "failure"}
    /\ MaxVersion \in Nat /\ RecordLimit \in Nat /\ TaskLimit \in [Tasks -> Nat]
    /\ None \notin State /\ None \notin Int /\ None \notin Domains

VARIABLES
    store,       \* store[d]: the state of d, or None
    now,         \* Utc::now()
    task,        \* task[t]: a resolve task
    worker,      \* the maintenance worker
    announced    \* announced[d]: the new_phases of the facts sent for d

vars == <<store, now, task, worker, announced>>

Decision == [new_phase : Phases, phase_changed : BOOLEAN, reason : Reasons]
NoDecision == Result("New", FALSE, "NoChange")

\* A task's domain, the snapshot it took of it and what it decided.
Task == [pc : {"idle", "await", "write", "send"}, domain : Domains \cup {None},
         snap : State \cup {None}, decision : Decision]
Worker == [pc : {"sleep", "decay", "write"}, at : Int \cup {None}, todo : SUBSET Domains,
           domain : Domains \cup {None}, new : State \cup {None}]

IdleTask == [pc |-> "idle", domain |-> None, snap |-> None, decision |-> NoDecision]

Known == {d \in Domains : store[d] # None}

TypeOK ==
    /\ store \in [Domains -> State \cup {None}]
    /\ now \in Int
    /\ task \in [Tasks -> Task]
    /\ worker \in Worker
    /\ announced \in [Domains -> SUBSET Phases]
    /\ \A t \in Tasks :
          /\ task[t].pc # "idle" => task[t].domain # None
          /\ task[t].pc \in {"await", "write"} => task[t].snap # None
    /\ worker.pc # "sleep" => worker.at \in Int
    /\ worker.todo \subseteq Known
    /\ worker.pc = "write" => worker.domain # None /\ worker.new # None

Init ==
    /\ store = [d \in Domains |-> None]
    /\ now = Start
    /\ task = [t \in Tasks |-> IdleTask]
    /\ worker = [pc |-> "sleep", at |-> None, todo |-> {}, domain |-> None, new |-> None]
    /\ announced = [d \in Domains |-> {}]
-----------------------------------------------------------------------------
(* The pipeline's resolve *)

\* get_or_create.
Snapshot(t) ==
    /\ task[t].pc = "idle"
    /\ \E d \in Domains :
          LET s == IF d \in Known THEN store[d] ELSE new_state(now) IN
          /\ s.version <= TaskLimit[t]
          /\ store' = [store EXCEPT ![d] = s]
          /\ task' = [task EXCEPT ![t] =
                        [pc |-> "await", domain |-> d, snap |-> s, decision |-> NoDecision]]
    /\ UNCHANGED <<now, worker, announced>>

\* The cache answers, or every upstream fails: the state is left alone.
NoEvidence(t) ==
    /\ task[t].pc = "await"
    /\ task' = [task EXCEPT ![t] = IdleTask]
    /\ UNCHANGED <<store, now, worker, announced>>

first_seen(s) == s.observations = 0 /\ s.phase = "New"

\* The upstream answered: the transition is evaluated on the snapshot.  The
\* pipeline passes FALSE for what it does not find out.
Evaluate(t) ==
    LET s == task[t].snap IN
    /\ task[t].pc = "await"
    /\ s.version < MaxVersion
    /\ \E can_promote, mixed \in BOOLEAN :
          LET e == [first_seen |-> first_seen(s), can_promote |-> can_promote, mixed |-> mixed,
                    tls |-> FALSE, hard |-> FALSE, third_party |-> FALSE]
              r == evaluate_governance_transition(s, e, now)
          IN  task' = [task EXCEPT ![t] =
                         IF r.phase_changed \/ first_seen(s)
                         THEN [task[t] EXCEPT !.pc = "write", !.decision = r]
                         ELSE IdleTask]
    /\ UNCHANGED <<store, now, worker, announced>>

\* force_update with the snapshot, its phase and its counters moved on.
Write(t) ==
    LET s == task[t].snap IN
    /\ task[t].pc = "write"
    /\ store' = [store EXCEPT ![task[t].domain] =
                   [s EXCEPT !.phase = task[t].decision.new_phase,
                             !.observations = s.observations + 1,
                             !.version = s.version + 1]]
    /\ task' = [task EXCEPT ![t].pc = "send", ![t].snap = None]
    /\ UNCHANGED <<now, worker, announced>>

\* Slip: only promotions are announced.
Send_promotions(t) ==
    /\ task[t].pc = "send"
    /\ announced' = [announced EXCEPT ![task[t].domain] =
                        @ \cup ({task[t].decision.new_phase} \ {"Review"})]
    /\ task' = [task EXCEPT ![t] = IdleTask]
    /\ UNCHANGED <<store, now, worker>>

\* The fact goes to the fact writer.
Send(t) ==
    /\ task[t].pc = "send"
    /\ announced' = [announced EXCEPT ![task[t].domain] = @ \cup {task[t].decision.new_phase}]
    /\ task' = [task EXCEPT ![t] = IdleTask]
    /\ UNCHANGED <<store, now, worker>>
-----------------------------------------------------------------------------
(* spawn_governance_maintenance *)

\* A tick: the time and the domains are read once.
WorkerTick ==
    /\ worker.pc = "sleep"
    /\ worker' = [pc |-> "decay", at |-> now, todo |-> Known, domain |-> None, new |-> None]
    /\ UNCHANGED <<store, now, task, announced>>

\* The state of one domain is read and decayed.  The result is kept only when
\* the mixed or the hard counter changed.
WorkerDecay ==
    /\ worker.pc = "decay"
    /\ \E d \in worker.todo :
          LET s == store[d]
              n == decay_24h_counters(s, worker.at)
          IN  worker' = IF n.count["mixed"] # s.count["mixed"] \/ n.count["hard"] # s.count["hard"]
                        THEN [worker EXCEPT !.pc = "write", !.todo = @ \ {d}, !.domain = d,
                                            !.new = [n EXCEPT !.version = n.version + 1]]
                        ELSE [worker EXCEPT !.todo = @ \ {d}]
    /\ UNCHANGED <<store, now, task, announced>>

WorkerWrite ==
    /\ worker.pc = "write"
    /\ worker.new.version <= MaxVersion
    /\ store' = [store EXCEPT ![worker.domain] = worker.new]
    /\ worker' = [worker EXCEPT !.pc = "decay", !.domain = None, !.new = None]
    /\ UNCHANGED <<now, task, announced>>

WorkerSleep ==
    /\ worker.pc = "decay" /\ worker.todo = {}
    /\ worker' = [worker EXCEPT !.pc = "sleep", !.at = None]
    /\ UNCHANGED <<store, now, task, announced>>
-----------------------------------------------------------------------------
(* The recorder: external *)

\* One observation more, of kind k.
Observe(s, k) ==
    [s EXCEPT !.observations = @ + 1, !.version = @ + 1,
              !.local = IF k = "clean" THEN @ + 1 ELSE @,
              !.aligned = IF k = "clean" THEN @ + 1 ELSE @,
              !.observers = IF k = "clean" THEN @ + 1 ELSE @,
              !.streak = IF k = "clean" THEN @ + 1 ELSE 0,
              !.failures = IF k = "failure" THEN @ + 1 ELSE 0,
              !.count = [j \in Counted |-> IF j = k THEN @[j] + 1 ELSE @[j]],
              !.last = [j \in Counted |-> IF j = k THEN now ELSE @[j]]]

\* A read and the successful GovernanceStateStore::update of that version.
Record(d, k) ==
    /\ d \in Known
    /\ store[d].version <= RecordLimit
    /\ store' = [store EXCEPT ![d] = Observe(@, k)]
    /\ UNCHANGED <<now, task, worker, announced>>
-----------------------------------------------------------------------------
\* The clock goes on, or is set back.
Tick ==
    /\ \E h \in Hours : <<now, h>> \in ClockSteps /\ now' = h
    /\ UNCHANGED <<store, task, worker, announced>>

Resolve(t) == Snapshot(t) \/ NoEvidence(t) \/ Evaluate(t) \/ Write(t) \/ Send(t)
Maintain == WorkerTick \/ WorkerDecay \/ WorkerWrite \/ WorkerSleep

Next ==
    \/ \E t \in Tasks : Resolve(t)
    \/ Maintain
    \/ \E d \in Domains, k \in Recorded : Record(d, k)
    \/ Tick

Spec == Init /\ [][Next]_vars
-----------------------------------------------------------------------------
Decided(t) == task[t].pc = "write"

\* Every decision a task acts on is an arrow of the phase diagram, from the
\* phase in its snapshot.
DecisionsFollowDiagram ==
    \A t \in Tasks : Decided(t) => <<task[t].snap.phase, task[t].decision.new_phase>> \in Diagram

\* A domain is promoted, or cleared of a review, only on a snapshot in which no
\* review trigger holds: the triggers come before the rules of the phase.
PromotionsAreClean ==
    \A t \in Tasks :
       /\ Decided(t)
       /\ \/ task[t].decision.new_phase \in {"Suggested", "Stable"}
          \/ task[t].snap.phase = "Review" /\ task[t].decision.new_phase = "Learning"
       => ~Triggered(task[t].snap)

\* The phase in the store, once it is not New, is in a fact that was sent or
\* that a task is about to send, whatever stale states were written back.
FactForEveryPhase ==
    \A d \in Known :
       \/ store[d].phase \in {"New"} \cup announced[d]
       \/ \E t \in Tasks : /\ task[t].pc = "send" /\ task[t].domain = d
                           /\ task[t].decision.new_phase = store[d].phase

-----------------------------------------------------------------------------
(* What comments of the source say and the code does not keep *)

\* "Monotonically increasing version for optimistic concurrency control."
VersionMonotonic ==
    [][\A d \in Known : store'[d].version >= store[d].version]_vars

\* "Review -> Fallback when review duration or conflicts exceed limits": a task that
\* decides about a domain under Review, with as many hard conflicts as lead to
\* Fallback, decides for Fallback.  (The triggers of a Review are looked at first
\* and keep such a domain in Review.)
SevereConflictsFallBack ==
    \A t \in Tasks :
       Decided(t) /\ task[t].snap.phase = "Review" /\ task[t].snap.count["hard"] >= T.fallback.hard
       => task[t].decision.new_phase = "Fallback"

\* last_transition_at is "When the governance phase last changed": the write that
\* changes the phase of a domain that was known before the query moves it to the
\* time of the write.  (No code writes it after the state is created.)
TransitionTimeRecorded ==
    [][\A d \in Known : store[d].phase \notin {"New", store'[d].phase} =>
          store'[d].last_transition_at = now]_vars

\* "Maximum hours in Review before forced Fallback": a task finds the duration of a
\* Review exceeded only when so many hours lie between last_transition_at and now.
\* (A clock that was set back gives a negative number of hours, cast to u32.)
DurationFallbackIsDue ==
    [][\A t \in Tasks :
          /\ task[t].pc = "await" /\ task'[t].pc = "write"
          /\ task'[t].decision.reason = "ReviewDurationFallback"
          => now - task[t].snap.last_transition_at >= T.fallback.hours]_vars
=============================================================================
