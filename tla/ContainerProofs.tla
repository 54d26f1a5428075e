---------------------------- MODULE ContainerProofs ----------------------------
(***************************************************************************)
(* Proofs about ContainerService, for any number of containers.  What was  *)
(* proved of the supervisor for any clients is taken over as it stands:    *)
(* the service is one of them.                                             *)
(***************************************************************************)
EXTENDS ContainerService, TLAPS

SP == INSTANCE SupervisorProofs WITH Client <- {Service}, MaxCycles <- MaxContainers

-----------------------------------------------------------------------------
\* The supervisor inside the service behaves as a supervisor.

\* A new service has a new supervisor.
LEMMA InitMaps == Init => SP!Init
BY DEF Init, Sup!Init, SP!Init, Sup!Cycle, SP!Cycle

\* What the service does to its supervisor is what a client may do.
LEMMA StepMaps ==
  ASSUME TypeOK, [Next]_vars
  PROVE  [SP!Next]_(SP!vars)
<1> USE DEF Sup!Cycle, SP!Cycle
<1>1. UNCHANGED supervisor => UNCHANGED SP!vars
  BY DEF supervisor, SP!vars
<1>2. Sup!Start => SP!Next
  BY DEF SP!Next, Sup!Start, SP!Start, Sup!Reusable, SP!Reusable, Sup!ReleasePrevious,
     SP!ReleasePrevious, Sup!CancelHeld, SP!CancelHeld, Sup!Done, SP!Done
<1>3. Sup!Cancel => SP!Next
  BY DEF SP!Next, Sup!Cancel, SP!Cancel, Sup!CancelHeld, SP!CancelHeld
<1>4. Sup!BeginWait(Service) => SP!Next
  BY DEF SP!Next, Sup!BeginWait, SP!BeginWait
<1>5. Sup!WaitDrained(Service) => SP!Next
  BY DEF SP!Next, Sup!WaitDrained, SP!WaitDrained, Sup!ClearCycleState,
     SP!ClearCycleState, Sup!CancelHeld, SP!CancelHeld, Sup!Done, SP!Done
<1>6. Sup!WaitTimesOut(Service) => SP!Next
  BY DEF SP!Next, Sup!WaitTimesOut, SP!WaitTimesOut
<1>7. ASSUME NEW k \in Container PROVE Sup!Watchdog(k) => SP!Next
  BY DEF Container, SP!Next, Sup!Watchdog, SP!Watchdog, Sup!ClearCycleState,
     SP!ClearCycleState, Sup!CancelHeld, SP!CancelHeld, Sup!Done, SP!Done
<1>8. ASSUME NEW k \in Container PROVE Sup!Goroutine(k) => SP!Next
  BY DEF Container, SP!Next, Sup!Goroutine, SP!Goroutine, Sup!OpenSucceeds,
     SP!OpenSucceeds, Sup!OpenFails, SP!OpenFails, Sup!ReadFails, SP!ReadFails,
     Sup!ReadEOF, SP!ReadEOF, Sup!PauseElapses, SP!PauseElapses, Sup!PauseCancelled,
     SP!PauseCancelled, Sup!StreamStep, SP!StreamStep
<1>9. ASSUME NEW k \in 1 .. cycles PROVE Sup!Terminate(k) => SP!Next
  <2>1. k \in SP!Cycle
    BY ServiceAssumptions DEF TypeOK, Sup!TypeOK
  <2> QED
    BY <2>1 DEF SP!Next, Sup!Terminate, SP!Terminate
<1> QED
  BY <1>1, <1>2, <1>3, <1>4, <1>5, <1>6, <1>7, <1>8, <1>9 DEF Next, vars, ServiceStep,
     BeginStart, BeginStop, RunFails, RunSucceeds, StreamStarts, NoStream, StartSucceeds,
     InspectFails, Cancel, CancelStream, Terminate, LogEnds, CyclesOf, TerminateFails,
     CleanupFails, BeginWait, Forget, WaitEnds, ContainerExits, Streaming

-----------------------------------------------------------------------------
\* The strengthening.

\* The service has its container from its creation until it is forgotten, and
\* Docker has it too until it is terminated.
HandleInv ==
    /\ pc \in {"out", "run"} => container = 0
    /\ pc \in {"stream", "inspect", "started", "cancel", "terminate"} => container \in up
    /\ pc \in {"wait", "waiting"} => up \subseteq reported \cup dropped
    /\ up \subseteq {container} \cup reported \cup dropped

\* From Cancel to the next Start no stream is left that is not cancelled, and
\* from Wait on none that nobody waits for.
DrainInv ==
    /\ pc # "waiting" => waiting[Service] = 0
    /\ \A k \in 1 .. cycles : Sup!Live(k) =>
        /\ pc \in {"terminate", "wait", "waiting", "out", "run", "stream"} => k \in cancelled
        /\ pc \in {"out", "run", "stream"} => k \in watchdogs
        /\ pc = "waiting" => k \in watchdogs \/ waiting[Service] = k

IInv ==
    /\ TypeOK
    /\ SP!IInv
    /\ HandleInv
    /\ StreamIsOwn
    /\ DrainInv

\* The initial state satisfies the invariant.
LEMMA InitInv == Init => IInv
<1> SUFFICES ASSUME Init PROVE IInv
  OBVIOUS
<1>1. SP!IInv
  BY InitMaps, SP!InitInv, ServiceAssumptions
<1>2. TypeOK
  BY ServiceAssumptions DEF Init, TypeOK, Container, Sup!Init, Sup!TypeOK, Sup!Cycle
<1>3. HandleInv /\ StreamIsOwn /\ DrainInv
  BY DEF Init, Sup!Init, HandleInv, StreamIsOwn, DrainInv, Sup!Live
<1> QED
  BY <1>1, <1>2, <1>3 DEF IInv

\* The supervisor's part is preserved.
LEMMA SupervisorStep ==
  ASSUME IInv, [Next]_vars
  PROVE  SP!IInv' /\ Sup!TypeOK'
<1>1. SP!IInv'
  BY StepMaps, SP!StepInv, ServiceAssumptions DEF IInv
<1>2. Sup!TypeOK'
  BY <1>1 DEF SP!IInv, SP!TypeOK, Sup!TypeOK, SP!Cycle, Sup!Cycle
<1> QED
  BY <1>1, <1>2

\* The types and the handle are preserved.
LEMMA HandleStep ==
  ASSUME IInv, [Next]_vars
  PROVE  TypeOK' /\ HandleInv'
<1> USE ServiceAssumptions DEF IInv, TypeOK, HandleInv, GoTo
<1>0. Sup!TypeOK'
  BY SupervisorStep
<1>1. CASE UNCHANGED vars
  BY <1>0, <1>1 DEF vars, service
<1>2. CASE BeginStart
  BY <1>0, <1>2 DEF BeginStart
<1>3. CASE BeginStop
  BY <1>0, <1>3 DEF BeginStop
<1>4. CASE RunFails
  BY <1>0, <1>4 DEF RunFails
<1>5. CASE RunSucceeds
  BY <1>0, <1>5 DEF RunSucceeds, NewContainer
<1>6. CASE StreamStarts
  <2>1. container \in 0 .. MaxContainers
    OBVIOUS
  <2>2. streamed' \in [Container -> 0 .. MaxContainers]
    BY <1>6, <2>1 DEF StreamStarts
  <2>3. UNCHANGED <<via, container, ran, up, reported, dropped>> /\ pc = "stream" /\ pc' = "inspect"
    BY <1>6 DEF StreamStarts
  <2> QED
    BY <1>0, <2>2, <2>3
<1>7. CASE NoStream
  BY <1>0, <1>7 DEF NoStream
<1>8. CASE StartSucceeds
  BY <1>0, <1>8 DEF StartSucceeds
<1>9. CASE InspectFails
  BY <1>0, <1>9 DEF InspectFails, FailCleanly
<1>10. CASE Cancel
  BY <1>0, <1>10 DEF Cancel
<1>11. CASE Terminate
  BY <1>0, <1>11 DEF Terminate
<1>12. CASE TerminateFails
  BY <1>0, <1>12 DEF TerminateFails
<1>17. CASE CleanupFails
  BY <1>0, <1>17 DEF CleanupFails
<1>13. CASE BeginWait
  BY <1>0, <1>13 DEF BeginWait
<1>14. CASE Forget
  BY <1>0, <1>14 DEF Forget
<1>15. CASE ContainerExits
  BY <1>0, <1>15 DEF ContainerExits, service
<1>16. ASSUME NEW k \in Container, Streaming(k) PROVE TypeOK' /\ HandleInv'
  BY <1>0, <1>16 DEF Streaming, service
<1> QED
  BY <1>1, <1>2, <1>3, <1>4, <1>5, <1>6, <1>7, <1>8, <1>9, <1>10, <1>11, <1>12, <1>13,
     <1>14, <1>15, <1>16, <1>17 DEF Next, ServiceStep

\* What the supervisor's invariant says of a live goroutine.
LEMMA LiveHeld ==
  ASSUME SP!IInv, NEW k \in 1 .. cycles, Sup!Live(k)
  PROVE  /\ logDone = k
         /\ k \in cancelled \/ logStop = k
         /\ k \in SP!Cycle
BY ServiceAssumptions DEF SP!IInv, SP!FieldsInv, SP!TypeOK, SP!Cycle, Sup!Live

\* The streams are preserved.
LEMMA StreamStep ==
  ASSUME IInv, [Next]_vars
  PROVE  StreamIsOwn' /\ DrainInv'
<1> USE ServiceAssumptions DEF IInv, StreamIsOwn, DrainInv, GoTo
<1>a. ASSUME NEW k \in 1 .. cycles, Sup!Live(k)
      PROVE  logDone = k /\ (k \in cancelled \/ logStop = k) /\ k \in SP!Cycle
  BY <1>a, LiveHeld
<1>b. waiting[Service] \in 0 .. MaxContainers /\ logDone \in 0 .. MaxContainers
      /\ cycles \in 0 .. MaxContainers
  BY DEF TypeOK, Sup!TypeOK
<1>1. CASE UNCHANGED vars
  BY <1>1 DEF vars, service, supervisor, Sup!Live
<1>2. CASE BeginStart
  <2>1. pc = "out"
    BY <1>2 DEF BeginStart, HandleInv, TypeOK
  <2> QED
    BY <1>2, <2>1 DEF BeginStart, supervisor, Sup!Live
<1>3. CASE BeginStop
  BY <1>3 DEF BeginStop, supervisor, Sup!Live
<1>4. CASE RunFails
  BY <1>4 DEF RunFails, supervisor, Sup!Live
<1>5. CASE RunSucceeds
  BY <1>5 DEF RunSucceeds, supervisor, Sup!Live
<1>6. CASE StreamStarts
  <2>1. ASSUME NEW k \in 1 .. cycles PROVE ~Sup!Live(k)
    BY <1>6, <1>a, <2>1 DEF StreamStarts, Sup!Start, Sup!Reusable, Sup!Done, Sup!Live
  <2>2. /\ cycles' = cycles + 1
        /\ cycles' \in Container
        /\ streamed' = [streamed EXCEPT ![cycles'] = container]
        /\ stream' = [stream EXCEPT ![cycles'] = "opening"]
        /\ pc' = "inspect"
        /\ UNCHANGED <<container, waiting>>
        /\ waiting[Service] = 0
        /\ container # 0
    BY <1>6, <1>b DEF StreamStarts, Sup!Start, HandleInv, TypeOK, Container
  <2>3. streamed \in [Container -> 0 .. MaxContainers]
        /\ stream \in [Container -> {"unborn", "opening", "reading", "pausing", "exited"}]
    BY DEF TypeOK, Sup!TypeOK, Sup!Cycle, Container
  <2>4. 1 .. cycles' = 1 .. cycles \cup {cycles'}
    BY <2>2, <1>b
  <2>5. ASSUME NEW k \in 1 .. cycles PROVE ~Sup!Live(k)'
    BY <2>1, <2>2, <2>3, <2>5, <1>b DEF Sup!Live, Container
  <2>6. streamed'[cycles'] = container'
    BY <2>2, <2>3
  <2>7. ASSUME NEW k \in 1 .. cycles' , Sup!Live(k)'
        PROVE  container' # 0 /\ streamed'[k] = container'
    BY <2>2, <2>4, <2>5, <2>6, <2>7
  <2> QED
    BY <2>2, <2>7
<1>7. CASE NoStream
  BY <1>7 DEF NoStream, supervisor, Sup!Live
<1>8. CASE StartSucceeds
  BY <1>8 DEF StartSucceeds, supervisor, Sup!Live
<1>9. CASE InspectFails
  BY <1>9 DEF InspectFails, FailCleanly, supervisor, Sup!Live
<1>10. CASE Cancel
  BY <1>10, <1>a DEF Cancel, CancelStream, Sup!Cancel, Sup!CancelHeld, supervisor, Sup!Live
<1>11. CASE Terminate
  BY <1>11 DEF Terminate, LogEnds, CyclesOf, Sup!Terminate, supervisor, Sup!Live
<1>12. CASE TerminateFails
  BY <1>12 DEF TerminateFails, supervisor, Sup!Live
<1>17. CASE CleanupFails
  BY <1>17 DEF CleanupFails, supervisor, Sup!Live
<1>13. CASE BeginWait
  BY <1>13, <1>a, <1>b DEF BeginWait, Sup!BeginWait, supervisor, Sup!Live, TypeOK,
     Sup!TypeOK
<1>14. CASE Forget
  <2> DEFINE held == waiting[Service]
  <2>1. /\ UNCHANGED <<cycles, stream>>
        /\ waiting'[Service] = 0
        /\ watchdogs \subseteq watchdogs'
        /\ cancelled \subseteq cancelled'
        /\ held # 0 /\ Sup!Live(held) => held \in watchdogs'
    <3>1. waiting \in [{Service} -> 0 .. MaxContainers]
      BY DEF TypeOK, Sup!TypeOK
    <3>2. CASE held = 0
      BY <1>14, <3>2 DEF Forget, WaitEnds, supervisor
    <3>3. CASE held # 0 /\ Sup!WaitDrained(Service)
      BY <3>1, <3>3 DEF Sup!WaitDrained, Sup!Live, Sup!Done, Sup!ClearCycleState,
         Sup!CancelHeld
    <3>4. CASE held # 0 /\ Sup!WaitTimesOut(Service)
      BY <3>1, <3>4 DEF Sup!WaitTimesOut
    <3> QED
      BY <1>14, <3>2, <3>3, <3>4 DEF Forget, WaitEnds
  <2>2. pc = "waiting" /\ pc' = "out" /\ container' = 0 /\ UNCHANGED streamed
    BY <1>14 DEF Forget
  <2> QED
    BY <2>1, <2>2 DEF Sup!Live
<1>15. CASE ContainerExits
  BY <1>15 DEF ContainerExits, service, Sup!Terminate, Sup!Live
<1>16. ASSUME NEW k \in Container, Streaming(k) PROVE StreamIsOwn' /\ DrainInv'
  <2>1. CASE Sup!Goroutine(k)
    <3>1. /\ UNCHANGED <<cycles, cancelled, watchdogs, waiting>>
          /\ \A j \in 1 .. cycles : Sup!Live(j)' => Sup!Live(j)
      <4>1. stream \in [Container ->
                          {"unborn", "opening", "reading", "pausing", "exited"}]
        BY DEF TypeOK, Sup!TypeOK, Sup!Cycle, Container
      <4> QED
        BY <1>b, <2>1, <4>1 DEF Container, Sup!Goroutine, Sup!OpenSucceeds,
           Sup!OpenFails, Sup!ReadFails,
           Sup!ReadEOF, Sup!PauseElapses, Sup!PauseCancelled, Sup!StreamStep, Sup!Live
    <3> QED
      BY <1>16, <3>1 DEF Streaming, service
  <2>2. CASE Sup!Watchdog(k)
    <3>1. /\ UNCHANGED <<cycles, stream, waiting>>
          /\ watchdogs' = watchdogs \ {k}
          /\ cancelled \subseteq cancelled'
          /\ ~Sup!Live(k)
      BY <2>2 DEF Sup!Watchdog, Sup!ClearCycleState, Sup!CancelHeld, Sup!Done, Sup!Live
    <3> QED
      BY <1>16, <3>1 DEF Streaming, service, Sup!Live
  <2> QED
    BY <1>16, <2>1, <2>2 DEF Streaming
<1> QED
  BY <1>1, <1>2, <1>3, <1>4, <1>5, <1>6, <1>7, <1>8, <1>9, <1>10, <1>11, <1>12, <1>13,
     <1>14, <1>15, <1>16, <1>17 DEF Next, ServiceStep

\* The invariant is inductive.
LEMMA StepInv ==
  ASSUME IInv, [Next]_vars
  PROVE  IInv'
<1>1. SP!IInv'
  BY SupervisorStep
<1>2. TypeOK' /\ HandleInv'
  BY HandleStep
<1>3. StreamIsOwn' /\ DrainInv'
  BY StreamStep
<1> QED
  BY <1>1, <1>2, <1>3 DEF IInv

-----------------------------------------------------------------------------
\* Every behaviour keeps the invariant.
THEOREM Invariance == Spec => []IInv
<1>1. Init => IInv
  BY InitInv
<1>2. IInv /\ [Next]_vars => IInv'
  BY StepInv
<1> QED
  BY <1>1, <1>2, PTL DEF Spec

\* The service drives its supervisor by the supervisor's rules, so that all
\* that is proved of a supervisor holds of this one.
THEOREM DrivesSupervisor == Spec => SP!Spec
<1>1. Init => SP!Init
  BY InitMaps
<1>2. IInv /\ [Next]_vars => [SP!Next]_(SP!vars)
  BY StepMaps DEF IInv
<1> QED
  BY <1>1, <1>2, Invariance, PTL DEF Spec, SP!Spec

\* Every variable keeps its type.
THEOREM TypeCorrect == Spec => []TypeOK
<1>1. IInv => TypeOK
  BY DEF IInv
<1> QED
  BY <1>1, Invariance, PTL

\* No container is left behind that Docker did not refuse to remove.
THEOREM LeavesOnlyByFailure == Spec => []LeftOnlyByFailure
<1>1. IInv => LeftOnlyByFailure
  BY DEF IInv, TypeOK, HandleInv, LeftOnlyByFailure
<1> QED
  BY <1>1, Invariance, PTL

\* A stream that is not cancelled is that of the container at hand.
THEOREM StreamsOwnContainer == Spec => []StreamIsOwn
<1>1. IInv => StreamIsOwn
  BY DEF IInv
<1> QED
  BY <1>1, Invariance, PTL

\* A stopped service has no goroutine but those it warned of.
THEOREM QuietAfterStop == Spec => []QuietWhenStopped
<1>1. IInv => QuietWhenStopped
  BY DEF IInv, DrainInv, QuietWhenStopped
<1> QED
  BY <1>1, Invariance, PTL

\* The log of a container that is gone is never opened.
THEOREM NeverReopened == Spec => NoReopen
<1>1. IInv /\ [Next]_vars =>
        [\A k \in 1 .. cycles :
            stream[k] = "opening" /\ stream'[k] = "reading" => streamed[k] \in up]_vars
  <2> SUFFICES ASSUME IInv, [Next]_vars, NEW k \in 1 .. cycles,
                      stream[k] = "opening", stream'[k] = "reading"
               PROVE  streamed[k] \in up
    OBVIOUS
  <2>1. stream \in [Container ->
                      {"unborn", "opening", "reading", "pausing", "exited"}]
        /\ k \in Container
    BY ServiceAssumptions DEF IInv, TypeOK, Sup!TypeOK, Sup!Cycle, Container
  <2>2. k \notin cancelled
    <3>1. [SP!Next]_(SP!vars)
      BY StepMaps DEF IInv
    <3>2. UNCHANGED stream \/ SP!Start \/ \E j \in SP!Cycle : SP!Goroutine(j)
      BY <3>1 DEF SP!Next, SP!vars, SP!Cancel, SP!BeginWait, SP!WaitDrained,
         SP!WaitTimesOut, SP!Watchdog, SP!Terminate
    <3>3. ~UNCHANGED stream /\ ~SP!Start
      BY <2>1 DEF SP!Start
    <3>4. PICK j \in SP!Cycle : SP!Goroutine(j)
      BY <3>2, <3>3
    <3>5. j = k
      BY <2>1, <3>4 DEF SP!Goroutine, SP!OpenSucceeds, SP!OpenFails, SP!ReadFails,
         SP!ReadEOF, SP!PauseElapses, SP!PauseCancelled, SP!StreamStep
    <3> QED
      BY <2>1, <3>4, <3>5 DEF SP!Goroutine, SP!OpenSucceeds, SP!OpenFails, SP!ReadFails,
         SP!ReadEOF, SP!PauseElapses, SP!PauseCancelled, SP!StreamStep
  <2>3. Sup!Live(k)
    BY DEF Sup!Live
  <2>4. streamed[k] = container /\ pc \in {"inspect", "started", "cancel"}
    BY <2>2, <2>3 DEF IInv, TypeOK, StreamIsOwn, DrainInv, HandleInv
  <2> QED
    BY <2>4 DEF IInv, HandleInv
<1> QED
  BY <1>1, Invariance, PTL DEF Spec, NoReopen
=============================================================================
