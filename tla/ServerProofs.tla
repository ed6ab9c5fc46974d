---------------------------- MODULE ServerProofs ----------------------------
(***************************************************************************)
(* The listeners, for any set of them and any backoff limits.              *)
(***************************************************************************)
EXTENDS Server, TLAPS

\* Type correctness of the listeners: whatever binds, sockets and signals do,
\* rebind_loop keeps its backoff between its two limits.
THEOREM ServerTypeCorrect == Spec => []TypeOK
<1> USE ServerAssumption DEF TypeOK
<1>1. Init => TypeOK
  BY DEF Init, Steps
<1>2. TypeOK /\ [Next]_vars => TypeOK'
  <2> SUFFICES ASSUME TypeOK, [Next]_vars PROVE TypeOK'
    OBVIOUS
  <2> USE DEF Steps, Waiting, Ended, Go
  <2>1. ASSUME NEW l \in Listeners, Proceed(l) PROVE TypeOK'
    <3>1. CASE Start(l)
      BY <3>1 DEF Start
    <3>2. CASE Look(l) \/ Wake(l)
      BY <3>2 DEF Look, Wake
    <3>3. CASE BindSelect(l) \/ BindFail(l) \/ BindShutdown(l)
      BY <3>3 DEF BindSelect, BindFail, BindShutdown
    <3>4. CASE BindOk(l)
      BY <3>4 DEF BindOk
    <3>5. CASE Dispatch(l) \/ ServeShutdown(l)
      BY <3>5 DEF Dispatch, ServeShutdown
    <3>6. CASE BackoffSelect(l) \/ BackoffShutdown(l)
      BY <3>6 DEF BackoffSelect, BackoffShutdown
    <3>7. CASE BackoffEnd(l)
      BY <3>7 DEF BackoffEnd
    <3> QED
      BY <2>1, <3>1, <3>2, <3>3, <3>4, <3>5, <3>6, <3>7 DEF Proceed
  <2>2. ASSUME NEW l \in Listeners, Accept(l) \/ ServeError(l) PROVE TypeOK'
    BY <2>2 DEF Accept, ServeError
  <2>3. CASE CtrlC
    BY <2>3 DEF CtrlC
  <2>4. CASE RunReturns
    BY <2>4 DEF RunReturns
  <2>5. CASE UNCHANGED vars
    BY <2>5 DEF vars
  <2> QED
    BY <2>1, <2>2, <2>3, <2>4, <2>5 DEF Next, Running
<1> QED
  BY <1>1, <1>2, PTL DEF Spec
-----------------------------------------------------------------------------
(***************************************************************************)
(* StopsOnlyOnSignal is not inductive: a listener stops because its        *)
(* Notified future was notified, so a notification must come from Ctrl+C.  *)
(***************************************************************************)
WokenBySignal == \A l \in Listeners : woken[l] => signal = "sent"

ServerInv == WokenBySignal /\ StopsOnlyOnSignal /\ BoundSocketHasShortestBackoff

LEMMA ServerInvStep == TypeOK /\ ServerInv /\ [Next]_vars => ServerInv'
<1> SUFFICES ASSUME TypeOK, ServerInv, [Next]_vars PROVE ServerInv'
  OBVIOUS
<1> USE ServerAssumption
    DEF TypeOK, ServerInv, WokenBySignal, StopsOnlyOnSignal, BoundSocketHasShortestBackoff,
        Rebinding, Go
<1>1. ASSUME NEW l \in Listeners, Proceed(l) PROVE ServerInv'
  <2>1. CASE Start(l)
    BY <2>1 DEF Start
  <2>2. CASE Look(l) \/ Wake(l)
    BY <2>2 DEF Look, Wake
  <2>3. CASE BindSelect(l) \/ BindFail(l)
    BY <2>3 DEF BindSelect, BindFail
  <2>4. CASE BindOk(l)
    BY <2>4 DEF BindOk
  <2>5. CASE BindShutdown(l) \/ BackoffShutdown(l)
    BY <2>5 DEF BindShutdown, BackoffShutdown, SeesSignal
  <2>6. CASE Dispatch(l)
    BY <2>6 DEF Dispatch
  <2>7. CASE ServeShutdown(l)
    BY <2>7 DEF ServeShutdown, SeesSignal
  <2>8. CASE BackoffSelect(l)
    BY <2>8 DEF BackoffSelect
  <2>9. CASE BackoffEnd(l)
    BY <2>9 DEF BackoffEnd
  <2> QED
    BY <1>1, <2>1, <2>2, <2>3, <2>4, <2>5, <2>6, <2>7, <2>8, <2>9 DEF Proceed
<1>2. ASSUME NEW l \in Listeners, Accept(l) PROVE ServerInv'
  BY <1>2 DEF Accept
<1>3. ASSUME NEW l \in Listeners, ServeError(l) PROVE ServerInv'
  BY <1>3 DEF ServeError
<1>4. CASE CtrlC
  BY <1>4 DEF CtrlC
<1>5. CASE RunReturns
  BY <1>5 DEF RunReturns
<1>6. CASE UNCHANGED vars
  BY <1>6 DEF vars
<1> QED
  BY <1>1, <1>2, <1>3, <1>4, <1>5, <1>6 DEF Next, Running

LEMMA ServerInvariant == Spec => []ServerInv
<1>1. Init => ServerInv
  BY DEF Init, ServerInv, WokenBySignal, StopsOnlyOnSignal, BoundSocketHasShortestBackoff,
         Rebinding
<1> QED
  BY <1>1, ServerInvStep, ServerTypeCorrect, PTL DEF Spec

\* "retries bind instead of silently exiting": a listener of rebind_loop that
\* got past its configuration ends only after Ctrl+C.
THEOREM StopsOnlyOnSignalHolds == Spec => []StopsOnlyOnSignal
<1>1. ServerInv => StopsOnlyOnSignal
  BY DEF ServerInv
<1> QED
  BY <1>1, ServerInvariant, PTL

\* rebind_loop forgets its backoff when a bind succeeds: a bound socket has the
\* shortest wait before it, whatever failures there were.
THEOREM ShortestBackoffHolds == Spec => []BoundSocketHasShortestBackoff
<1>1. ServerInv => BoundSocketHasShortestBackoff
  BY DEF ServerInv
<1> QED
  BY <1>1, ServerInvariant, PTL
=============================================================================
