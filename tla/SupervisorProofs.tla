--------------------------- MODULE SupervisorProofs ---------------------------
(***************************************************************************)
(* Proofs about Supervisor, for any number of clients and of cycles.       *)
(***************************************************************************)
EXTENDS Supervisor, TLAPS

\* The fields hold the last cycle or none; every other cycle that was ever
\* started has exited and been cancelled, and a live one can be cancelled.
FieldsInv ==
    /\ logDone \in {0, cycles}
    /\ logStop \in {0, logDone}
    /\ \A k \in Cycle :
        /\ k > cycles => stream[k] = "unborn"
        /\ k <= cycles => stream[k] # "unborn"
        /\ k <= cycles /\ k # logDone => k \in cancelled /\ stream[k] = "exited"
        /\ k = logDone /\ k \notin cancelled => logStop = k

\* A stopper only ever holds a cycle that was started.
HeldInv ==
    /\ \A c \in Client : waiting[c] <= cycles
    /\ \A k \in watchdogs : k <= cycles

IInv ==
    /\ TypeOK
    /\ FieldsInv
    /\ HeldInv

\* A new supervisor satisfies the invariant.
LEMMA InitInv == Init => IInv
BY MaxCyclesAssumption DEF Init, IInv, TypeOK, FieldsInv, HeldInv, Cycle

\* The invariant is inductive.
LEMMA StepInv ==
  ASSUME IInv, [Next]_vars
  PROVE  IInv'
<1> USE MaxCyclesAssumption DEF IInv, Cycle
<1>a. CancelHeld \subseteq Cycle
  BY DEF CancelHeld, TypeOK
<1>b. \A c \in Client : waiting[c] # 0 => waiting[c] \in Cycle
  BY DEF TypeOK
<1>1. CASE UNCHANGED vars
  BY <1>1 DEF vars, TypeOK, FieldsInv, HeldInv
<1>2. CASE Start
  <2>1. TypeOK'
    BY <1>2 DEF Start, Reusable, ReleasePrevious, CancelHeld, Done, TypeOK, HeldInv
  <2>2. FieldsInv'
    BY <1>2 DEF Start, Reusable, ReleasePrevious, CancelHeld, Done, TypeOK, FieldsInv,
       HeldInv
  <2>3. HeldInv'
    BY <1>2 DEF Start, Reusable, ReleasePrevious, CancelHeld, Done, TypeOK, HeldInv
  <2> QED
    BY <2>1, <2>2, <2>3
<1>3. CASE Cancel
  <2>1. TypeOK'
    BY <1>3, <1>a DEF Cancel, TypeOK
  <2>2. FieldsInv'
    BY <1>3 DEF Cancel, CancelHeld, TypeOK, FieldsInv, HeldInv
  <2>3. HeldInv'
    BY <1>3 DEF Cancel, HeldInv
  <2> QED
    BY <2>1, <2>2, <2>3
<1>4. ASSUME NEW c \in Client, BeginWait(c) PROVE IInv'
  <2>1. TypeOK'
    BY <1>4 DEF BeginWait, TypeOK, HeldInv
  <2>2. FieldsInv'
    BY <1>4 DEF BeginWait, TypeOK, FieldsInv, HeldInv
  <2>3. HeldInv'
    BY <1>4 DEF BeginWait, TypeOK, FieldsInv, HeldInv
  <2> QED
    BY <2>1, <2>2, <2>3
<1>5. ASSUME NEW c \in Client, WaitDrained(c) PROVE IInv'
  <2>1. TypeOK'
    <3>1. logDone' \in 0 .. MaxCycles /\ logStop' \in 0 .. MaxCycles
      BY <1>5 DEF WaitDrained, ClearCycleState, TypeOK
    <3>2. cancelled' \subseteq Cycle
      BY <1>5, <1>a DEF WaitDrained, ClearCycleState, TypeOK
    <3> QED
      BY <1>5, <3>1, <3>2 DEF WaitDrained, TypeOK
  <2>2. FieldsInv'
    BY <1>5 DEF WaitDrained, ClearCycleState, CancelHeld, Done, TypeOK, FieldsInv, HeldInv
  <2>3. HeldInv'
    BY <1>5 DEF WaitDrained, ClearCycleState, CancelHeld, Done, TypeOK, HeldInv
  <2> QED
    BY <2>1, <2>2, <2>3
<1>6. ASSUME NEW c \in Client, WaitTimesOut(c) PROVE IInv'
  <2>1. TypeOK'
    <3>1. watchdogs' \subseteq Cycle
      BY <1>6, <1>b DEF WaitTimesOut, TypeOK
    <3>2. waiting' \in [Client -> 0 .. MaxCycles]
      BY <1>6 DEF WaitTimesOut, TypeOK
    <3> QED
      BY <1>6, <3>1, <3>2 DEF WaitTimesOut, TypeOK
  <2>2. FieldsInv'
    BY <1>6 DEF WaitTimesOut, TypeOK, FieldsInv, HeldInv
  <2>3. HeldInv'
    BY <1>6 DEF WaitTimesOut, TypeOK, HeldInv
  <2> QED
    BY <2>1, <2>2, <2>3
<1>7. ASSUME NEW k \in Cycle, Watchdog(k) PROVE IInv'
  <2>1. TypeOK'
    <3>1. logDone' \in 0 .. MaxCycles /\ logStop' \in 0 .. MaxCycles
      BY <1>7 DEF Watchdog, ClearCycleState, TypeOK
    <3>2. cancelled' \subseteq Cycle
      BY <1>7, <1>a DEF Watchdog, ClearCycleState, TypeOK
    <3> QED
      BY <1>7, <3>1, <3>2 DEF Watchdog, TypeOK
  <2>2. FieldsInv'
    BY <1>7 DEF Watchdog, ClearCycleState, CancelHeld, Done, TypeOK, FieldsInv, HeldInv
  <2>3. HeldInv'
    BY <1>7 DEF Watchdog, ClearCycleState, CancelHeld, Done, TypeOK, HeldInv
  <2> QED
    BY <2>1, <2>2, <2>3
<1>8. ASSUME NEW k \in Cycle, Terminate(k) PROVE IInv'
  <2>1. TypeOK'
    BY <1>8 DEF Terminate, TypeOK, HeldInv
  <2>2. FieldsInv'
    BY <1>8 DEF Terminate, TypeOK, FieldsInv, HeldInv
  <2>3. HeldInv'
    BY <1>8 DEF Terminate, TypeOK, HeldInv
  <2> QED
    BY <2>1, <2>2, <2>3
<1>9. ASSUME NEW k \in Cycle, Goroutine(k) PROVE IInv'
  <2>1. TypeOK'
    BY <1>9 DEF Goroutine, OpenSucceeds, OpenFails, ReadFails, ReadEOF, PauseElapses,
       PauseCancelled, StreamStep, TypeOK, HeldInv
  <2>2. FieldsInv'
    BY <1>9 DEF Goroutine, OpenSucceeds, OpenFails, ReadFails, ReadEOF, PauseElapses,
       PauseCancelled, StreamStep, TypeOK, FieldsInv, HeldInv
  <2>3. HeldInv'
    BY <1>9 DEF Goroutine, OpenSucceeds, OpenFails, ReadFails, ReadEOF, PauseElapses,
       PauseCancelled, StreamStep, TypeOK, HeldInv
  <2> QED
    BY <2>1, <2>2, <2>3
<1> QED
  BY <1>1, <1>2, <1>3, <1>4, <1>5, <1>6, <1>7, <1>8, <1>9 DEF Next

\* Every behaviour keeps the invariant.
THEOREM Invariance == Spec => []IInv
<1>1. Init => IInv
  BY InitInv
<1>2. IInv /\ [Next]_vars => IInv'
  BY StepInv
<1> QED
  BY <1>1, <1>2, PTL DEF Spec

\* Every variable keeps its type.
THEOREM TypeCorrect == Spec => []TypeOK
<1>1. IInv => TypeOK
  BY DEF IInv
<1> QED
  BY <1>1, Invariance, PTL

\* Two streaming goroutines never live at once.
THEOREM OneLive == Spec => []AtMostOneLive
<1>1. IInv => AtMostOneLive
  BY DEF IInv, FieldsInv, AtMostOneLive, Live, Cycle, TypeOK
<1> QED
  BY <1>1, Invariance, PTL

\* A live goroutine is held, and can be cancelled or already is.
THEOREM NeverOrphaned == Spec => []NoOrphan
<1>1. IInv => NoOrphan
  BY DEF IInv, FieldsInv, NoOrphan, Live, Cycle, TypeOK
<1> QED
  BY <1>1, Invariance, PTL

\* The context of every cycle the supervisor has let go of is cancelled.
THEOREM ContextsReleased == Spec => []NoContextLeak
<1>1. IInv => NoContextLeak
  BY MaxCyclesAssumption DEF IInv, FieldsInv, NoContextLeak, Cycle, TypeOK
<1> QED
  BY <1>1, Invariance, PTL

\* A channel is let go of only once it is closed.
THEOREM ClearedOnlyAfterExit == Spec => ClearedAfterExit
<1>1. [Next]_vars => [logDone # 0 /\ logDone' # logDone => Done(logDone)]_vars
  BY DEF Next, vars, Start, Reusable, Cancel, BeginWait, WaitDrained, WaitTimesOut,
     Watchdog,
     Terminate, Goroutine, OpenSucceeds, OpenFails, ReadFails, ReadEOF, PauseElapses,
     PauseCancelled, StreamStep, ClearCycleState
<1> QED
  BY <1>1, PTL DEF Spec, ClearedAfterExit
=============================================================================
