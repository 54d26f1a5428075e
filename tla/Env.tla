--------------------------------- MODULE Env ---------------------------------
(***************************************************************************)
(* The testrig engine (env.go): an Env that brings registered services up, *)
(* track by track and stage by stage, and tears them down again.           *)
(*                                                                         *)
(* A caller is a goroutine of the program that owns the Env.  It runs at   *)
(* most one call of Start or Stop at a time.  Start runs one goroutine per *)
(* track and, within it, one per service of the current stage; Stop the    *)
(* same, from the last stage to the first.  The critical sections of e.mu  *)
(* are the atomic steps; everything between two of them interleaves.       *)
(*                                                                         *)
(* A service started by a call is an entry <<caller, service>>, so that    *)
(* two runs of the same service are never confused.  Calls that the code   *)
(* refuses without touching the state (Start on an Env that is not idle or *)
(* has duplicate names, Stop on an Env that has nothing to stop) are       *)
(* stutters, except in the middle of a Start that rolls back.              *)
(***************************************************************************)
EXTENDS Naturals

CONSTANTS
    Service,          \* the registered services
    Track,            \* the tracks: one per With or WithStages call
    TrackOf,          \* [Service -> Track]
    StageOf,          \* [Service -> Nat], the stage within the track
    NameOf,           \* the display name of each service
    Key,              \* the property keys
    Publishes,        \* [Service -> SUBSET Key]
    None,             \* no service
    NumHooks,         \* the number of lifecycle hooks
    Caller,           \* the goroutines that may call Start and Stop
    Blocking,         \* services whose Start may wait for the end of its context
    StopDuringStart   \* may a client call Stop while a Start is in progress?

ASSUME ShapeAssumption ==
    /\ TrackOf \in [Service -> Track]
    /\ StageOf \in [Service -> Nat]
    /\ Publishes \in [Service -> SUBSET Key]
    /\ Blocking \subseteq Service
ASSUME HooksAssumption == NumHooks \in Nat
ASSUME ModeAssumption == StopDuringStart \in BOOLEAN

Entry == Caller \X Service
ASSUME NoneAssumption == None \notin Entry

VARIABLES
    state,        \* e.state
    alloc,        \* e.properties and e.started are allocated
    properties,   \* e.properties: the entry that published each key, or None
    started,      \* e.started: the entries recorded in the current run
    pc,           \* where each caller is in Start or Stop, or "dead"
    gor,          \* gor[c][s]: the goroutine that starts s for c's Start
    hook,         \* how many hooks the caller's hook loop has run
    snapshot,     \* the property snapshot that loop hands to them
    cancelled,    \* whether the context given to the caller's Start is done
    todo,         \* stopper's copy of started: entries not yet stopped
    busy,         \* entries whose Stop is running for this stopper
    up            \* the services themselves: Start succeeded, not stopped

vars == <<state, alloc, properties, started, pc, gor, hook, snapshot,
          cancelled, todo, busy, up>>

-----------------------------------------------------------------------------
\* Stages.

SameStage(s) == {p \in Service : TrackOf[p] = TrackOf[s] /\ StageOf[p] = StageOf[s]}
Earlier(s)   == {p \in Service : TrackOf[p] = TrackOf[s] /\ StageOf[p] < StageOf[s]}
Later(s)     == {p \in Service : TrackOf[p] = TrackOf[s] /\ StageOf[p] > StageOf[s]}

UniqueNames == \A s, t \in Service : NameOf[s] = NameOf[t] => s = t

NoProperties == [k \in Key |-> None]
NoGoroutines == [s \in Service |-> "idle"]

\* The goroutine of s has returned to its stage's errgroup.
GoroutineDone(c, s) == gor[c][s] \in {"recorded", "failed"}

\* runTrack returns an error once a stage with a failure has drained, and
\* nil once every stage has succeeded.
TrackAborted(c, t) ==
    \E s \in Service :
        /\ TrackOf[s] = t
        /\ gor[c][s] = "failed"
        /\ \A p \in SameStage(s) : GoroutineDone(c, p)
TrackSucceeded(c, t) ==
    \A s \in Service : TrackOf[s] = t => gor[c][s] = "recorded"
TrackDone(c, t) == TrackAborted(c, t) \/ TrackSucceeded(c, t)

\* Mutant: plain goroutines instead of error groups.
OnlyCallerCtx(c, s) == cancelled[c]

\* The context s.Start was given is done: the caller's is, or a sibling of
\* the stage failed, or a whole track did.
StartCtxDone(c, s) ==
    \/ cancelled[c]
    \/ \E p \in SameStage(s) : gor[c][p] = "failed"
    \/ \E t \in Track : TrackAborted(c, t)

\* beginStart accepts.
StartableWhileStopping == state \in {"idle", "stopping"}      \* mutant
Startable == state = "idle" /\ UniqueNames

\* runTrack has reached the stage of s.
StageReachedAtOnce(c, s) == TRUE                              \* mutant
StageReached(c, s) == \A p \in Earlier(s) : gor[c][p] = "recorded"

\* e.properties and e.started with the result of s.Start.
Published(c, s) ==
    [k \in Key |-> IF k \in Publishes[s] THEN <<c, s>> ELSE properties[k]]
NotRecorded(c, s) == started                                  \* mutant
Recorded(c, s) == started \cup {<<c, s>>}

\* What g.Wait waits for.
TracksDone(c) == \A t \in Track : TrackDone(c, t)
TracksOk(c)   == \A t \in Track : TrackSucceeded(c, t)

\* The hook loops.
OneHookTooMany(c) == hook[c] <= NumHooks                      \* mutant
MoreHooks(c) == hook[c] < NumHooks
SameHook(c) == hook                                           \* mutant
NextHook(c) == [hook EXCEPT ![c] = @ + 1]

\* beginStop accepts.
StoppableAgain == state # "idle"                              \* mutant
Stoppable == state \in {"running", "starting"}

\* Every later stage of e's track has drained.
StopTurnAtOnce(c, e) == TRUE                                  \* mutant
StopTurn(c, e) == \A f \in todo[c] \cup busy[c] : f[2] \notin Later(e[2])

\* What the error groups of stopTracks wait for.
AllStopsBegun(c) == todo[c] = {}                              \* mutant
AllStopped(c) == todo[c] = {} /\ busy[c] = {}

\* finishStop drops the maps.
Released == FALSE

StartInProgress == \E c \in Caller : pc[c] \in {"tracks", "afterStart", "rollback"}

Init ==
    /\ state = "idle"
    /\ alloc = FALSE
    /\ properties = NoProperties
    /\ started = {}
    /\ pc = [c \in Caller |-> "out"]
    /\ gor = [c \in Caller |-> NoGoroutines]
    /\ hook = [c \in Caller |-> 0]
    /\ snapshot = [c \in Caller |-> NoProperties]
    /\ cancelled = [c \in Caller |-> FALSE]
    /\ todo = [c \in Caller |-> {}]
    /\ busy = [c \in Caller |-> {}]
    /\ up = {}

-----------------------------------------------------------------------------
\* Start.

BeginStart(c) ==
    /\ pc[c] = "out"
    /\ Startable
    /\ state' = "starting"
    /\ alloc' = TRUE
    /\ properties' = NoProperties
    /\ started' = {}
    /\ pc' = [pc EXCEPT ![c] = "tracks"]
    /\ UNCHANGED <<gor, hook, snapshot, cancelled, todo, busy, up>>

\* The client's own doing: the context it passed to Start ends.
CancelCtx(c) ==
    /\ pc[c] = "tracks"
    /\ ~cancelled[c]
    /\ cancelled' = [cancelled EXCEPT ![c] = TRUE]
    /\ UNCHANGED <<state, alloc, properties, started, pc, gor, hook, snapshot,
                   todo, busy, up>>

LaunchService(c, s) ==
    /\ pc[c] = "tracks"
    /\ gor[c][s] = "idle"
    /\ StageReached(c, s)
    /\ gor' = [gor EXCEPT ![c][s] = "starting"]
    /\ UNCHANGED <<state, alloc, properties, started, pc, hook, snapshot,
                   cancelled, todo, busy, up>>

\* svc.Start returns without error; the result is not yet recorded.
StartReturns(c, s) ==
    /\ gor[c][s] = "starting"
    /\ gor' = [gor EXCEPT ![c][s] = "ok"]
    /\ up' = up \cup {<<c, s>>}
    /\ UNCHANGED <<state, alloc, properties, started, pc, hook, snapshot,
                   cancelled, todo, busy>>

StartFails(c, s) ==
    /\ gor[c][s] = "starting"
    /\ gor' = [gor EXCEPT ![c][s] = "failed"]
    /\ UNCHANGED <<state, alloc, properties, started, pc, hook, snapshot,
                   cancelled, todo, busy, up>>

\* The critical section that publishes the properties and records s.
RecordStarted(c, s) ==
    /\ gor[c][s] = "ok"
    /\ alloc
    /\ properties' = Published(c, s)
    /\ started' = Recorded(c, s)
    /\ gor' = [gor EXCEPT ![c][s] = "recorded"]
    /\ UNCHANGED <<state, alloc, pc, hook, snapshot, cancelled, todo, busy, up>>

\* The same section on the nil map and slice that finishStop leaves behind:
\* a panic in a goroutine ends the process and all that runs in it.
RecordPanics(c, s) ==
    /\ gor[c][s] = "ok"
    /\ ~alloc
    /\ pc' = [d \in Caller |-> "dead"]
    /\ gor' = [d \in Caller |-> NoGoroutines]
    /\ hook' = [d \in Caller |-> 0]
    /\ snapshot' = [d \in Caller |-> NoProperties]
    /\ cancelled' = [d \in Caller |-> FALSE]
    /\ todo' = [d \in Caller |-> {}]
    /\ busy' = [d \in Caller |-> {}]
    /\ UNCHANGED <<state, alloc, properties, started, up>>

\* g.Wait returns nil; the env is declared running whatever its state was.
TracksSucceeded(c) ==
    /\ pc[c] = "tracks"
    /\ TracksOk(c)
    /\ state' = "running"
    /\ snapshot' = [snapshot EXCEPT ![c] = properties]
    /\ pc' = [pc EXCEPT ![c] = "afterStart"]
    /\ gor' = [gor EXCEPT ![c] = NoGoroutines]
    /\ UNCHANGED <<alloc, properties, started, hook, cancelled, todo, busy, up>>

TracksFailed(c) ==
    /\ pc[c] = "tracks"
    /\ TracksDone(c)
    /\ \E t \in Track : TrackAborted(c, t)
    /\ pc' = [pc EXCEPT ![c] = "rollback"]
    /\ gor' = [gor EXCEPT ![c] = NoGoroutines]
    /\ cancelled' = [cancelled EXCEPT ![c] = FALSE]
    /\ UNCHANGED <<state, alloc, properties, started, hook, snapshot, todo,
                   busy, up>>

AfterStartHook(c) ==
    /\ pc[c] = "afterStart"
    /\ MoreHooks(c)
    /\ hook' = NextHook(c)
    /\ UNCHANGED <<state, alloc, properties, started, pc, gor, snapshot,
                   cancelled, todo, busy, up>>

\* The first hook error ends the loop, and Start rolls back.
AfterStartHookFails(c) ==
    /\ pc[c] = "afterStart"
    /\ MoreHooks(c)
    /\ pc' = [pc EXCEPT ![c] = "rollback"]
    /\ hook' = [hook EXCEPT ![c] = 0]
    /\ snapshot' = [snapshot EXCEPT ![c] = NoProperties]
    /\ cancelled' = [cancelled EXCEPT ![c] = FALSE]
    /\ UNCHANGED <<state, alloc, properties, started, gor, todo, busy, up>>

ReturnStart(c) ==
    /\ pc[c] = "afterStart"
    /\ hook[c] = NumHooks
    /\ pc' = [pc EXCEPT ![c] = "out"]
    /\ hook' = [hook EXCEPT ![c] = 0]
    /\ snapshot' = [snapshot EXCEPT ![c] = NoProperties]
    /\ cancelled' = [cancelled EXCEPT ![c] = FALSE]
    /\ UNCHANGED <<state, alloc, properties, started, gor, todo, busy, up>>

-----------------------------------------------------------------------------
\* Stop, called by a client or by the rollback of a failed Start.

\* beginStop succeeds: the stopper owns a copy of what is recorded so far.
BeginStop(c) ==
    /\ Stoppable
    /\ state' = "stopping"
    /\ todo' = [todo EXCEPT ![c] = started]
    /\ pc' = [pc EXCEPT ![c] = "stopping"]
    /\ UNCHANGED <<alloc, properties, started, gor, hook, snapshot, cancelled,
                   busy, up>>

ClientStop(c) ==
    /\ pc[c] = "out"
    /\ StopDuringStart \/ ~StartInProgress
    /\ BeginStop(c)

Rollback(c) == pc[c] = "rollback" /\ BeginStop(c)

\* A rollback that finds the env already stopping or idle just returns.
RollbackIsNoop(c) ==
    /\ pc[c] = "rollback"
    /\ ~Stoppable
    /\ pc' = [pc EXCEPT ![c] = "out"]
    /\ UNCHANGED <<state, alloc, properties, started, gor, hook, snapshot,
                   cancelled, todo, busy, up>>

\* The goroutine of the entry's stage calls svc.Stop: every later stage of
\* the track has drained.
StopService(c, e) ==
    /\ pc[c] = "stopping"
    /\ e \in todo[c]
    /\ StopTurn(c, e)
    /\ todo' = [todo EXCEPT ![c] = @ \ {e}]
    /\ busy' = [busy EXCEPT ![c] = @ \cup {e}]
    /\ UNCHANGED <<state, alloc, properties, started, pc, gor, hook, snapshot,
                   cancelled, up>>

\* svc.Stop returns.  An error is only joined to the others: the teardown
\* goes on alike, so the two outcomes are one step.
StopReturns(c, e) ==
    /\ e \in busy[c]
    /\ busy' = [busy EXCEPT ![c] = @ \ {e}]
    /\ up' = up \ {e}
    /\ UNCHANGED <<state, alloc, properties, started, pc, gor, hook, snapshot,
                   cancelled, todo>>

\* stopTracks returns; the AfterStop hooks get a snapshot of their own.
StopsDone(c) ==
    /\ pc[c] = "stopping"
    /\ AllStopped(c)
    /\ pc' = [pc EXCEPT ![c] = "afterStop"]
    /\ snapshot' = [snapshot EXCEPT ![c] = properties]
    /\ UNCHANGED <<state, alloc, properties, started, gor, hook, cancelled,
                   todo, busy, up>>

\* Every hook runs, whatever the ones before it returned.
AfterStopHook(c) ==
    /\ pc[c] = "afterStop"
    /\ MoreHooks(c)
    /\ hook' = NextHook(c)
    /\ UNCHANGED <<state, alloc, properties, started, pc, gor, snapshot,
                   cancelled, todo, busy, up>>

FinishStop(c) ==
    /\ pc[c] = "afterStop"
    /\ hook[c] = NumHooks
    /\ state' = "idle"
    /\ alloc' = Released
    /\ properties' = NoProperties
    /\ started' = {}
    /\ pc' = [pc EXCEPT ![c] = "out"]
    /\ hook' = [hook EXCEPT ![c] = 0]
    /\ snapshot' = [snapshot EXCEPT ![c] = NoProperties]
    /\ UNCHANGED <<gor, cancelled, todo, busy, up>>

-----------------------------------------------------------------------------
\* The goroutine that runs s for c's Start.
ServiceStep(c, s) ==
    \/ LaunchService(c, s)
    \/ StartReturns(c, s)
    \/ StartFails(c, s)
    \/ RecordStarted(c, s)
    \/ RecordPanics(c, s)

\* The goroutine of caller c, once it is inside a call.
CallStep(c) ==
    \/ TracksSucceeded(c)
    \/ TracksFailed(c)
    \/ AfterStartHook(c)
    \/ AfterStartHookFails(c)
    \/ ReturnStart(c)
    \/ Rollback(c)
    \/ RollbackIsNoop(c)
    \/ StopsDone(c)
    \/ AfterStopHook(c)
    \/ FinishStop(c)

\* The goroutine that stops one entry for stopper c.
TeardownStep(c, e) == StopService(c, e) \/ StopReturns(c, e)

\* What a client does of its own accord, and need never do.
ClientStep(c) == BeginStart(c) \/ CancelCtx(c) \/ ClientStop(c)

Next ==
    \E c \in Caller :
        \/ ClientStep(c)
        \/ CallStep(c)
        \/ \E s \in Service : ServiceStep(c, s)
        \/ \E e \in Entry : TeardownStep(c, e)

Spec == Init /\ [][Next]_vars

\* What the goroutine of s cannot put off for ever: its own steps, and those
\* of s.Start, which if s is Blocking may wait until its context is done.
ServiceProgress(c, s) ==
    /\ gor[c][s] = "starting" /\ s \in Blocking => StartCtxDone(c, s)
    /\ ServiceStep(c, s)

\* Goroutines are scheduled, and the services and hooks they call return, a
\* Blocking service once its context is done.
Fairness ==
    \A c \in Caller :
        /\ WF_vars(CallStep(c))
        /\ \A s \in Service : WF_vars(ServiceProgress(c, s))
        /\ \A e \in Entry : WF_vars(TeardownStep(c, e))

FairSpec == Spec /\ Fairness
-----------------------------------------------------------------------------
\* Properties.

EntryOrNone == Entry \cup {None}

\* Every variable has its type.
TypeOK ==
    /\ state \in {"idle", "starting", "running", "stopping"}
    /\ alloc \in BOOLEAN
    /\ properties \in [Key -> EntryOrNone]
    /\ started \subseteq Entry
    /\ pc \in [Caller -> {"out", "tracks", "afterStart", "rollback",
                          "stopping", "afterStop", "dead"}]
    /\ gor \in [Caller -> [Service ->
                  {"idle", "starting", "ok", "recorded", "failed"}]]
    /\ hook \in [Caller -> 0 .. NumHooks]
    /\ snapshot \in [Caller -> [Key -> EntryOrNone]]
    /\ cancelled \in [Caller -> BOOLEAN]
    /\ todo \in [Caller -> SUBSET Entry]
    /\ busy \in [Caller -> SUBSET Entry]
    /\ up \subseteq Entry

\* The invariant env.go states of its own fields: properties is allocated
\* iff the env is not idle.
AllocatedIffNotIdle == alloc <=> state # "idle"

\* An env that is idle, and so may be started again or thrown away, has
\* left no service up: not after a Stop, nor after a Start that failed in
\* any stage of any track or in a hook.
NoLeak == state = "idle" => up = {}

\* A service that is up or being started stands on every service of the
\* earlier stages of its track, while starting, running and stopping alike.
DependenciesUp ==
    \A c \in Caller, s \in Service :
        <<c, s>> \in up \/ gor[c][s] = "starting" =>
            \A p \in Earlier(s) : <<c, p>> \in up

\* While s.Start runs it can read every property that earlier stages of its
\* track published, and reads them from this run, not from one before.
DependenciesVisible ==
    \A c \in Caller, s \in Service :
        gor[c][s] = "starting" =>
            \A p \in Earlier(s) : \A k \in Publishes[p] :
                properties[k] \in {<<c, q>> : q \in Service}

\* A service finds what it depends on, itself and its properties, however the
\* tracks and the failures of a Start, a rollback and a Stop interleave.
Dependencies == DependenciesUp /\ DependenciesVisible

\* A running env is complete: every service is up, started by one and the
\* same call, with every key published; and the AfterStart hooks see just
\* what the env holds while they run.
RunningIsComplete ==
    /\ state = "running" =>
        \E c \in Caller :
            /\ started = {<<c, s>> : s \in Service}
            /\ up = started
            /\ \A s \in Service : \A k \in Publishes[s] : properties[k] \in started
    /\ \A c \in Caller :
        pc[c] = "afterStart" => state = "running" /\ snapshot[c] = properties

\* Stop is called once for each service, and only for one whose Start
\* returned without error: nothing is in the hands of two stoppers, or
\* handed out when it is already down.
StopsOnlyStarted ==
    \A c \in Caller :
        /\ todo[c] \cup busy[c] \subseteq up
        /\ todo[c] \cap busy[c] = {}
        /\ \A d \in Caller \ {c} :
            (todo[c] \cup busy[c]) \cap (todo[d] \cup busy[d]) = {}

\* A teardown has the env for itself: no other caller is inside Start or
\* another teardown, so that finishStop never pulls the maps from under it.
TeardownIsExclusive ==
    \A c, d \in Caller :
        pc[c] \in {"stopping", "afterStop"} /\ c # d =>
            pc[d] \notin {"tracks", "afterStart", "stopping", "afterStop"}

\* An AfterStop hook runs once every service is down, and still sees every
\* property of the run it follows.
AfterStopSeesRun ==
    \A c \in Caller :
        pc[c] = "afterStop" =>
            /\ up = {}
            /\ \A e \in started : \A k \in Publishes[e[2]] : snapshot[c][k] \in started

\* Hooks run between the two: those after Start in an env that is complete,
\* those after Stop in one that is all down and has its properties still.
HooksSeeRun == RunningIsComplete /\ AfterStopSeesRun

\* A Stop that overlaps the hooks or the rollback of another caller's Start
\* does no harm, nor do two Stops: an env is left with services up, a service
\* is stopped twice, or a goroutine panics, only after some stopper has been
\* at work while the tracks of a Start were still being brought up.
Crossed ==
    \E c, d \in Caller :
        c # d /\ pc[c] \in {"stopping", "afterStop"} /\ pc[d] = "tracks"
Harmless == NoLeak /\ StopsOnlyStarted /\ \A c \in Caller : pc[c] # "dead"
OverlapIsSafe == []~Crossed => []Harmless

\* Every Start and every Stop returns, unless the process dies or a Start
\* waits for a service that takes its time.
CallsReturn ==
    \A c \in Caller :
        pc[c] # "out" ~>
            \/ pc[c] \in {"out", "dead"}
            \/ \E s \in Blocking : gor[c][s] = "starting"

\* A Start whose context ends, or one of whose services fails, returns even
\* when other services would wait for ever: the error groups cancel them, and
\* the rollback that follows ends.
FailFast ==
    \A c \in Caller :
        /\ cancelled[c] ~> pc[c] = "out"
        /\ (\E s \in Service : gor[c][s] = "failed") ~> pc[c] = "out"

\* The same of an env that no caller is working on, however the calls that
\* made it idle overlapped.
NothingLeftBehind == state = "idle" /\ (\A c \in Caller : pc[c] = "out") => up = {}

\* The process never panics on the maps that Stop takes away.
NoPanic == \A c \in Caller : pc[c] # "dead"

\* The engine implements the abstract life cycle.
UpServices == {s \in Service : \E c \in Caller : <<c, s>> \in up}

Abstract == INSTANCE Lifecycle WITH phase <- state, up <- UpServices

ImplementsLifecycle == Abstract!FairSpec
=============================================================================
