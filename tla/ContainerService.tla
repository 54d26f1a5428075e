--------------------------- MODULE ContainerService ---------------------------
(***************************************************************************)
(* A service that runs one Docker container: Postgres and WireMock, which  *)
(* differ in the options of their container alone.  The module composes    *)
(* the service's Start and Stop with the Supervisor of its container's     *)
(* log, which it drives in the order the code prescribes.                  *)
(*                                                                         *)
(* The service is called by one goroutine at a time, as an Env does; what  *)
(* runs beside it are the goroutines of the supervisor, some of them left  *)
(* from containers before, and Docker.  Containers are numbered in the     *)
(* order of their creation and 0 is nil.                                   *)
(***************************************************************************)
EXTENDS Naturals

CONSTANTS
    MayHang,        \* the cycles whose goroutine may be stuck for ever
    MaxContainers   \* bound: how many containers are run

ASSUME ServiceAssumptions ==
    /\ MayHang \subseteq Nat
    /\ MaxContainers \in Nat

VARIABLES
    pc,          \* where the call in progress is; between calls, "started" if
                 \* the last one was a Start that succeeded, else "out"
    via,         \* whose steps those are: "start" or "stop"
    container,   \* t.container
    ran,         \* how many containers were run
    up,          \* the containers Docker has
    reported,    \* the containers for which Stop returned an error
    dropped,     \* the containers a failed Start could not remove, silently
    streamed,    \* streamed[k]: the container whose log cycle k streams
    cycles, logDone, logStop, cancelled, stream, terminated, waiting, watchdogs

\* The service is the one client of its supervisor.
Service == "service"

Sup == INSTANCE Supervisor WITH Client <- {Service}, MaxCycles <- MaxContainers

Container == 1 .. MaxContainers

service    == <<pc, via, container, ran, up, reported, dropped, streamed>>
supervisor == <<cycles, logDone, logStop, cancelled, stream, terminated, waiting,
                watchdogs>>
vars       == <<service, supervisor>>

Init ==
    /\ pc = "out"
    /\ via = "start"
    /\ container = 0
    /\ ran = 0
    /\ up = {}
    /\ reported = {}
    /\ dropped = {}
    /\ streamed = [k \in Container |-> 0]
    /\ Sup!Init

GoTo(from, to) == pc = from /\ pc' = to

-----------------------------------------------------------------------------
\* Start.

\* Start is refused while there is a container.
BeginStart ==
    /\ pc \in {"out", "started"}
    /\ container = 0
    /\ pc' = "run"
    /\ via' = "start"
    /\ UNCHANGED <<container, ran, up, reported, dropped, streamed, supervisor>>

RunFails ==
    /\ GoTo("run", "out")
    /\ UNCHANGED <<via, container, ran, up, reported, dropped, streamed, supervisor>>

\* Mutant: the handle is not the one of the container that was run.
OtherContainer == ran + 2
NewContainer   == ran + 1

RunSucceeds ==
    /\ ran < MaxContainers
    /\ GoTo("run", "stream")
    /\ ran' = ran + 1
    /\ container' = NewContainer
    /\ up' = up \cup {ran'}
    /\ UNCHANGED <<via, reported, dropped, streamed, supervisor>>

StreamStarts ==
    /\ GoTo("stream", "inspect")
    /\ Sup!Start
    /\ streamed' = [streamed EXCEPT ![cycles'] = container]
    /\ UNCHANGED <<via, container, ran, up, reported, dropped>>

\* No log is wanted, or a goroutine that an earlier Wait gave up on is still
\* there and the supervisor refuses.
NoStream ==
    /\ GoTo("stream", "inspect")
    /\ UNCHANGED <<via, container, ran, up, reported, dropped, streamed, supervisor>>

\* Host and MappedPort.
StartSucceeds ==
    /\ GoTo("inspect", "started")
    /\ UNCHANGED <<via, container, ran, up, reported, dropped, streamed, supervisor>>

\* Mutant: there is no deferred cleanup.
FailWithout == pc' = "out"
FailCleanly == pc' = "cancel"

InspectFails ==
    /\ pc = "inspect"
    /\ FailCleanly
    /\ UNCHANGED <<via, container, ran, up, reported, dropped, streamed, supervisor>>

-----------------------------------------------------------------------------
\* Stop, and the cleanup of a Start that failed: Cancel, Terminate, Wait.

\* Stop does nothing when there is no container.
BeginStop ==
    /\ pc \in {"out", "started"}
    /\ container # 0
    /\ pc' = "cancel"
    /\ via' = "stop"
    /\ UNCHANGED <<container, ran, up, reported, dropped, streamed, supervisor>>

\* Mutant: Cancel is left to the end of Wait.
CancelLater == UNCHANGED supervisor
CancelStream == IF logStop = 0 THEN UNCHANGED supervisor ELSE Sup!Cancel

Cancel ==
    /\ GoTo("cancel", "terminate")
    /\ CancelStream
    /\ UNCHANGED <<via, container, ran, up, reported, dropped, streamed>>

\* The log of a container that is gone comes to its end.
CyclesOf(n) == {k \in 1 .. cycles : streamed[k] = n}
LogEnds(n) ==
    IF CyclesOf(n) \subseteq terminated
    THEN UNCHANGED supervisor
    ELSE \E k \in CyclesOf(n) : Sup!Terminate(k)

Terminate ==
    /\ GoTo("terminate", "wait")
    /\ up' = up \ {container}
    /\ LogEnds(container)
    /\ UNCHANGED <<via, container, ran, reported, dropped, streamed>>

\* Terminate fails, as it does when the context of Stop is done: Stop will
\* return the error.
TerminateFails ==
    /\ via = "stop"
    /\ GoTo("terminate", "wait")
    /\ reported' = reported \cup {container}
    /\ UNCHANGED <<via, container, ran, up, dropped, streamed, supervisor>>

\* The cleanup of a failed Start has a context of its own, but Docker may
\* refuse all the same: the error is dropped.
CleanupFails ==
    /\ via = "start"
    /\ GoTo("terminate", "wait")
    /\ dropped' = dropped \cup {container}
    /\ UNCHANGED <<via, container, ran, up, reported, streamed, supervisor>>

\* Wait takes the supervisor's channel ...
BeginWait ==
    /\ GoTo("wait", "waiting")
    /\ IF logDone = 0 THEN UNCHANGED supervisor ELSE Sup!BeginWait(Service)
    /\ UNCHANGED <<via, container, ran, up, reported, dropped, streamed>>

\* Mutant: the service waits without a deadline.
WaitForever ==
    IF waiting[Service] = 0 THEN UNCHANGED supervisor ELSE Sup!WaitDrained(Service)

\* ... and the service forgets its container once it is closed, or StopWait
\* is over.
WaitEnds ==
    IF waiting[Service] = 0
    THEN UNCHANGED supervisor
    ELSE Sup!WaitDrained(Service) \/ Sup!WaitTimesOut(Service)

Forget ==
    /\ GoTo("waiting", "out")
    /\ WaitEnds
    /\ container' = 0
    /\ UNCHANGED <<via, ran, up, reported, dropped, streamed>>

-----------------------------------------------------------------------------
\* What goes on beside the service.

\* The container exits by itself; Docker keeps it until it is terminated.
ContainerExits ==
    /\ \E k \in 1 .. cycles : streamed[k] \in up /\ Sup!Terminate(k)
    /\ UNCHANGED service

Streaming(k) == (Sup!Goroutine(k) \/ Sup!Watchdog(k)) /\ UNCHANGED service

ServiceStep ==
    \/ RunFails \/ RunSucceeds \/ StreamStarts \/ NoStream
    \/ StartSucceeds \/ InspectFails
    \/ Cancel \/ Terminate \/ TerminateFails \/ CleanupFails \/ BeginWait \/ Forget

Next ==
    \/ BeginStart \/ BeginStop
    \/ ServiceStep
    \/ ContainerExits
    \/ \E k \in Container : Streaming(k)

Spec == Init /\ [][Next]_vars

\* Docker answers the service, goroutines are scheduled, and a read ends when
\* the container is gone, but for those that may hang.  Nobody is obliged to
\* start or stop the service.
Fairness ==
    /\ WF_vars(ServiceStep)
    /\ \A k \in Container \ MayHang :
        /\ WF_vars((Sup!OpenSucceeds(k) \/ Sup!OpenFails(k)) /\ UNCHANGED service)
        /\ WF_vars(/\ k \in terminated
                   /\ Sup!ReadFails(k) \/ Sup!ReadEOF(k)
                   /\ UNCHANGED service)
        /\ WF_vars((Sup!PauseElapses(k) \/ Sup!PauseCancelled(k)) /\ UNCHANGED service)
        /\ WF_vars(Sup!Watchdog(k) /\ UNCHANGED service)

FairSpec == Spec /\ Fairness

-----------------------------------------------------------------------------
\* Properties.

\* Every variable has its type.
TypeOK ==
    /\ pc \in {"out", "started", "run", "stream", "inspect", "cancel", "terminate",
              "wait", "waiting"}
    /\ via \in {"start", "stop"}
    /\ container \in 0 .. ran
    /\ ran \in 0 .. MaxContainers
    /\ up \subseteq 1 .. ran
    /\ reported \subseteq 1 .. ran
    /\ dropped \subseteq 1 .. ran
    /\ streamed \in [Container -> 0 .. MaxContainers]
    /\ Sup!TypeOK

\* A container is left behind only when Docker refused to remove it, however a
\* Start failed and whenever Wait gave up: in a Stop, which then returns an
\* error, or in the cleanup of a failed Start, which says nothing of it.
LeftOnlyByFailure ==
    /\ up \subseteq {container} \cup reported \cup dropped
    /\ pc = "out" => up \subseteq reported \cup dropped

\* A stream that has not been cancelled is the stream of the container the
\* service has now, even when an old goroutine outlives its own container.
StreamIsOwn ==
    \A k \in 1 .. cycles :
        Sup!Live(k) /\ k \notin cancelled => container # 0 /\ streamed[k] = container

\* When Stop has returned, so has the streaming goroutine, unless Wait has
\* given it up with a warning.
QuietWhenStopped ==
    pc = "out" =>
        \A k \in 1 .. cycles : Sup!Live(k) => k \in watchdogs

\* The log of a container that was terminated is never opened again: the
\* reason why Cancel comes before Terminate.
NoReopen ==
    [][\A k \in 1 .. cycles :
        stream[k] = "opening" /\ stream'[k] = "reading" => streamed[k] \in up]_vars

\* Start and Stop return, even if the streaming goroutine never does.
CallsReturn == pc \notin {"out", "started"} ~> pc \in {"out", "started"}
=============================================================================
