------------------------------- MODULE Server -------------------------------
(***************************************************************************)
(* border-dns-runtime/server.rs and the run function of its lib.rs: the    *)
(* listener tasks, their rebind loop, and the shutdown signal.             *)
(*                                                                         *)
(* The signal is tokio's Notify.  notify_waiters reaches the Notified      *)
(* futures that exist at that moment and stores nothing for later ones.    *)
(* A select! creates such a future and drops it when another branch wins;  *)
(* between two select!s a listener has none.  All the select!s but the     *)
(* blackhole's are biased: a poll looks at the signal first, and at the    *)
(* other branch after it.  A signal that comes between the two looks is    *)
(* lost when the other branch wins, and wakes the task up otherwise.       *)
(***************************************************************************)
EXTENDS Integers

CONSTANTS
    Listeners,    \* the tasks that run spawns
    Kind,         \* Kind[l]: what l runs
    MinBackoff,   \* MIN_REBIND_BACKOFF, in seconds
    MaxBackoff    \* MAX_REBIND_BACKOFF

\* "socket" is run_udp, run_tcp or run_dot, which accept in a loop of their
\* own; "doj" hands its listener to axum::serve; "doh" has its own server and
\* no signal; "blackhole" is the HTTP acceptor for blocked names.
Kinds == {"socket", "doj", "doh", "blackhole"}

ASSUME ServerAssumption ==
    /\ Kind \in [Listeners -> Kinds]
    /\ MinBackoff \in Nat \ {0} /\ MaxBackoff \in Nat /\ MinBackoff <= MaxBackoff

VARIABLES
    pc,        \* pc[l]: where the task of listener l is
    backoff,   \* backoff[l]: the local of rebind_loop
    woken,     \* woken[l]: l's current Notified future was notified
    looked,    \* looked[l]: the last poll of l's select! found no signal
    signal,    \* "none", then "sent": ctrl_c is awaited once
    process    \* "running" until run returns

vars == <<pc, backoff, woken, looked, signal, process>>

\* The tasks that retry, and the tasks whose handles run awaits.
Rebinding == {l \in Listeners : Kind[l] \in {"socket", "doj"}}
Awaited == {l \in Listeners : Kind[l] # "blackhole"}

\* A listener has a Notified future at these steps: the select! over bind_fn,
\* the one in the server loop, and the one over the sleep.
Waiting == {"bind", "serve", "backoff"}
Ended == {"stopped", "failed"}
Steps == {"config", "loop", "dispatch", "closing"} \cup Waiting \cup Ended

TypeOK ==
    /\ pc \in [Listeners -> Steps]
    /\ backoff \in [Listeners -> MinBackoff .. MaxBackoff]
    /\ woken \in [Listeners -> BOOLEAN]
    /\ looked \in [Listeners -> BOOLEAN]
    /\ signal \in {"none", "sent"}
    /\ process \in {"running", "stopped"}

Init ==
    /\ pc = [l \in Listeners |-> "config"]
    /\ backoff = [l \in Listeners |-> MinBackoff]
    /\ woken = [l \in Listeners |-> FALSE]
    /\ looked = [l \in Listeners |-> FALSE]
    /\ signal = "none"
    /\ process = "running"

\* l moves on.  The Notified future of the step it leaves is dropped, and with
\* it a notification that was not looked at.
Go(l, from, to) ==
    /\ pc[l] = from
    /\ pc' = [pc EXCEPT ![l] = to]
    /\ woken' = [woken EXCEPT ![l] = FALSE]
    /\ looked' = [looked EXCEPT ![l] = FALSE]

Biased(l) == l \in Rebinding /\ pc[l] \in Waiting

\* A poll of a biased select! looks at the signal and goes on.
Look(l) ==
    /\ Biased(l) /\ ~woken[l] /\ ~looked[l]
    /\ looked' = [looked EXCEPT ![l] = TRUE]
    /\ UNCHANGED <<pc, backoff, woken, signal, process>>

\* The signal makes the runtime poll again.  A bind does not wait for that.
Wake(l) ==
    /\ Biased(l) /\ woken[l] /\ looked[l] /\ pc[l] # "bind"
    /\ looked' = [looked EXCEPT ![l] = FALSE]
    /\ UNCHANGED <<pc, backoff, woken, signal, process>>

\* The signal is there when a poll begins.
SeesSignal(l) == woken[l] /\ ~looked[l]
-----------------------------------------------------------------------------
\* The address and the TLS files are read before the loop.  The blackhole
\* binds here, once; DoH goes straight to its server.
Start(l) ==
    /\ \/ Go(l, "config", "failed")
       \/ Kind[l] \in {"doh", "blackhole"} /\ Go(l, "config", "serve")
       \/ l \in Rebinding /\ Go(l, "config", "loop")
    /\ UNCHANGED <<backoff, signal, process>>

\* The first select! of rebind_loop creates its Notified future ...
BindSelect(l) ==
    /\ Go(l, "loop", "bind")
    /\ UNCHANGED <<backoff, signal, process>>

\* Slip: a failed bind ends the listener.
BindFail_exits(l) ==
    /\ looked[l]
    /\ Go(l, "bind", "stopped")
    /\ UNCHANGED <<backoff, signal, process>>

\* ... a poll looks at it, and then binds, which does not wait.
BindFail(l) ==
    /\ looked[l]
    /\ Go(l, "bind", "closing")
    /\ UNCHANGED <<backoff, signal, process>>

\* Slip: the backoff is kept.
BindOk_keeps(l) ==
    /\ looked[l]
    /\ Go(l, "bind", "serve")
    /\ UNCHANGED <<backoff, signal, process>>

BindOk(l) ==
    /\ looked[l]
    /\ Go(l, "bind", "serve")
    /\ backoff' = [backoff EXCEPT ![l] = MinBackoff]
    /\ UNCHANGED <<signal, process>>

BindShutdown(l) ==
    /\ SeesSignal(l)
    /\ Go(l, "bind", "stopped")
    /\ UNCHANGED <<backoff, signal, process>>

\* Slip: the select! of the server loop is not biased.
Accept_unbiased(l) ==
    /\ Kind[l] \in {"socket", "blackhole"}
    /\ Go(l, "serve", "dispatch")
    /\ UNCHANGED <<backoff, signal, process>>

\* A datagram or a connection arrives.  The unbiased select! of the blackhole
\* may take it although the signal is there too.
Accept(l) ==
    /\ Kind[l] \in {"socket", "blackhole"}
    /\ looked[l] \/ Kind[l] = "blackhole"
    /\ Go(l, "serve", "dispatch")
    /\ UNCHANGED <<backoff, signal, process>>

\* Its handler is spawned and the loop comes back to its select!.
Dispatch(l) ==
    /\ Go(l, "dispatch", "serve")
    /\ UNCHANGED <<backoff, signal, process>>

\* The socket fails.  A blackhole only logs it.
ServeError(l) ==
    /\ \/ looked[l] /\ l \in Rebinding /\ Go(l, "serve", "closing")
       \/ Kind[l] = "doh" /\ Go(l, "serve", "failed")
       \/ Kind[l] = "blackhole" /\ Go(l, "serve", "dispatch")
    /\ UNCHANGED <<backoff, signal, process>>

\* The server loop returns Ok(()), which rebind_loop takes for a clean exit to
\* be followed by a new bind.
ServeShutdown(l) ==
    /\ SeesSignal(l)
    /\ \/ l \in Rebinding /\ Go(l, "serve", "closing")
       \/ Kind[l] = "blackhole" /\ Go(l, "serve", "stopped")
    /\ UNCHANGED <<backoff, signal, process>>

\* The second select! of rebind_loop.
BackoffSelect(l) ==
    /\ Go(l, "closing", "backoff")
    /\ UNCHANGED <<backoff, signal, process>>

\* Slip: the limit is not applied.
BackoffEnd_unlimited(l) ==
    /\ looked[l]
    /\ Go(l, "backoff", "loop")
    /\ backoff' = [backoff EXCEPT ![l] = 2 * @]
    /\ UNCHANGED <<signal, process>>

\* Slip: the wait is followed by another wait.
BackoffEnd_waits(l) ==
    /\ looked[l]
    /\ Go(l, "backoff", "closing")
    /\ UNCHANGED <<backoff, signal, process>>

BackoffEnd(l) ==
    /\ looked[l]
    /\ Go(l, "backoff", "loop")
    /\ backoff' = [backoff EXCEPT ![l] = IF 2 * @ < MaxBackoff THEN 2 * @ ELSE MaxBackoff]
    /\ UNCHANGED <<signal, process>>

BackoffShutdown(l) ==
    /\ SeesSignal(l)
    /\ Go(l, "backoff", "stopped")
    /\ UNCHANGED <<backoff, signal, process>>
-----------------------------------------------------------------------------
\* Ctrl+C: the task that awaits it calls notify_waiters and ends.
CtrlC ==
    /\ signal = "none"
    /\ signal' = "sent"
    /\ woken' = [l \in Listeners |-> woken[l] \/ (pc[l] \in Waiting /\ Kind[l] # "doh")]
    /\ UNCHANGED <<pc, backoff, looked, process>>

\* run returns once every handle has been awaited; the other tasks end with it.
RunReturns ==
    /\ process = "running"
    /\ \A l \in Awaited : pc[l] \in Ended
    /\ process' = "stopped"
    /\ UNCHANGED <<pc, backoff, woken, looked, signal>>
-----------------------------------------------------------------------------
\* What a listener does without anything coming in.
Proceed(l) ==
    \/ Start(l) \/ Look(l) \/ Wake(l)
    \/ BindSelect(l) \/ BindOk(l) \/ BindFail(l) \/ BindShutdown(l)
    \/ Dispatch(l) \/ ServeShutdown(l)
    \/ BackoffSelect(l) \/ BackoffEnd(l) \/ BackoffShutdown(l)

Running(A) == process = "running" /\ A

Next ==
    \/ \E l \in Listeners : Running(Proceed(l) \/ Accept(l) \/ ServeError(l))
    \/ Running(CtrlC)
    \/ RunReturns
    \/ process = "stopped" /\ UNCHANGED vars

Spec == Init /\ [][Next]_vars

\* The runtime polls every task that can go on, and timers go off.  Nothing
\* has to arrive, no socket has to fail, and nobody has to press Ctrl+C.
Fairness == (\A l \in Listeners : WF_vars(Running(Proceed(l)))) /\ WF_vars(RunReturns)

FairSpec == Spec /\ Fairness
-----------------------------------------------------------------------------
\* "retries bind ... instead of silently exiting": past its configuration, a
\* listener of rebind_loop ends only after Ctrl+C, however often its socket
\* fails.
StopsOnlyOnSignal ==
    \A l \in Rebinding : pc[l] = "stopped" => signal = "sent"

\* Whatever failures preceded it, a bound socket that is lost is rebound after
\* the shortest wait: the backoff that bind failures built up is gone.
BoundSocketHasShortestBackoff ==
    \A l \in Rebinding : pc[l] \in {"serve", "dispatch"} => backoff[l] = MinBackoff

\* A lost socket or a failed bind is followed by another bind, or by the end
\* of the task.
RetriesBind ==
    \A l \in Rebinding : pc[l] = "closing" ~> pc[l] \in {"bind", "stopped"}

\* A listener that finds the signal when it polls leaves its server loop or
\* ends: the signal is not given up for a datagram that arrived before it.
NotifiedListenerYields ==
    \A l \in Rebinding : SeesSignal(l) ~> pc[l] \in {"closing", "stopped"}

\* "Graceful shutdown: all server loops use tokio::select! against the shared
\* Notify so Ctrl+C terminates the process promptly": when every awaited
\* listener finds the signal in a poll, the process ends.
CtrlCTerminates == (\A l \in Awaited : SeesSignal(l)) ~> process = "stopped"
=============================================================================
