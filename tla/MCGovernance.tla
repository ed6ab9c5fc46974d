---------------------------- MODULE MCGovernance ----------------------------
(* Small instances of Governance for TLC. *)
EXTENDS Governance, TLC

\* The order of the defaults, with small counts: one conflict or failure brings a
\* Review, and Fallback asks for more conflicts than Review does.  The hours of a
\* Review are the default, and so is the window of the counters.
MCThresholds ==
    [mixed_freeze |-> 1, mixed_degrade |-> 2, third_party |-> FALSE,
     peers |-> [observations |-> 2, local |-> 1, aligned |-> 1, observers |-> 1,
                mixed |-> 1, hard |-> 0, streak |-> 1],
     alone |-> [observations |-> 2, local |-> 1, mixed |-> 1, hard |-> 0, streak |-> 1],
     review |-> [hard |-> 1, tls |-> 1, opposite |-> 1, failures |-> 1],
     fallback |-> [hours |-> 6, hard |-> 2, opposite |-> 2]]

\* A clock that goes on beyond a Review and the window, or is set back.
MCClockSteps == {<<0, 25>>, <<25, 0>>}

CONSTANTS t1, t2

\* One task follows a domain through its phases.  The other one starts with it,
\* and may hold its snapshot for as long as it takes.
MCTaskLimit == t1 :> MaxVersion @@ t2 :> 1
=============================================================================
