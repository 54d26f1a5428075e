------------------------------ MODULE Teardown ------------------------------
(***************************************************************************)
(* An Env together with the container services it stops, seen from the     *)
(* contexts their Stop is given.                                           *)
(*                                                                         *)
(* stopTracks runs one goroutine for each track in an error group, and     *)
(* stopTrack one for each service of a stage in an error group below it.   *)
(* The first error of a group cancels the context of all that runs in it,  *)
(* and a container whose Terminate is given such a context may stay, while *)
(* the service forgets it.  This module says which failures can reach      *)
(* which services, and what the caller of Stop hears of it.                *)
(*                                                                         *)
(* Env has the order of everything within a Start, ContainerService the    *)
(* log stream of a container; neither matters here.  A Start that succeeds *)
(* is one step, and so is the part of Stop before Terminate.               *)
(***************************************************************************)
EXTENDS Naturals

CONSTANTS
    Service,     \* the services registered with the env
    Track,       \* its tracks
    TrackOf,     \* the track of a service
    StageOf,     \* its stage within the track, from 1
    Height,      \* how many stages a track has
    Container,   \* the services that run a container
    Faulty,      \* the services whose Stop may fail with a context that is live
    CtxMayEnd,   \* whether the context of a client's Stop may be over
    MaxRounds    \* bound: how often the env is started

ASSUME TeardownAssumptions ==
    /\ TrackOf \in [Service -> Track]
    /\ Height \in [Track -> Nat]
    /\ StageOf \in [Service -> Nat \ {0}]
    /\ \A s \in Service : StageOf[s] <= Height[TrackOf[s]]
    /\ Container \subseteq Service
    /\ Faulty \subseteq Service
    /\ CtxMayEnd \in BOOLEAN
    /\ MaxRounds \in Nat

VARIABLES
    state,     \* Env.state
    round,     \* how many Starts there were
    handle,    \* handle[s]: the round whose Start of s is not stopped yet, or 0
    docker,    \* the containers Docker has, <<s, n>> being that of s in round n
    ctx,       \* the context of Stop: "background", "live" or "over"
    stage,     \* stage[t]: the stage stopTrack is at, 0 once it has returned
    stop,      \* stop[s]: the call of s.Stop in this teardown
    errored    \* the rounds whose Stop returned an error

vars == <<state, round, handle, docker, ctx, stage, stop, errored>>

Earlier(s) == {p \in Service : TrackOf[p] = TrackOf[s] /\ StageOf[p] < StageOf[s]}

SameStage(r, s) == TrackOf[r] = TrackOf[s] /\ StageOf[r] = StageOf[s]

Init ==
    /\ state = "idle"
    /\ round = 0
    /\ handle = [s \in Service |-> 0]
    /\ docker = {}
    /\ ctx = "background"
    /\ stage = [t \in Track |-> 0]
    /\ stop = [s \in Service |-> "none"]
    /\ errored = {}

-----------------------------------------------------------------------------
\* Start.

BeginStart ==
    /\ state = "idle"
    /\ round < MaxRounds
    /\ state' = "starting"
    /\ round' = round + 1
    /\ UNCHANGED <<handle, docker, ctx, stage, stop, errored>>

\* A service is started once its earlier stages are; a container service
\* refuses to while it holds a container.
StartService(s) ==
    /\ state = "starting"
    /\ handle[s] = 0
    /\ \A p \in Earlier(s) : handle[p] # 0
    /\ handle' = [handle EXCEPT ![s] = round]
    /\ docker' = docker \cup ({s} \cap Container) \X {round}
    /\ UNCHANGED <<state, round, ctx, stage, stop, errored>>

StartSucceeds ==
    /\ state = "starting"
    /\ \A s \in Service : handle[s] # 0
    /\ state' = "running"
    /\ UNCHANGED <<round, handle, docker, ctx, stage, stop, errored>>

-----------------------------------------------------------------------------
\* Stop.

BeginStop(c) ==
    /\ state' = "stopping"
    /\ ctx' = c
    /\ stage' = Height
    /\ UNCHANGED <<round, handle, docker, stop, errored>>

\* A service or a hook has failed: Start calls Stop with a context of its own.
Rollback   == state \in {"starting", "running"} /\ BeginStop("background")
ClientStop == state = "running" /\ BeginStop("live")

CtxEnds ==
    /\ CtxMayEnd
    /\ ctx = "live"
    /\ ctx' = "over"
    /\ UNCHANGED <<state, round, handle, docker, stage, stop, errored>>

\* The services whose Stop has returned an error to its group.
Failed == {s \in Service : handle[s] = 0 /\ stop[s] \in {"failed", "cut"}}

\* Mutant: stopTrack returns the error of the stage it stopped last.
FailedFirst(t) == \E s \in Failed : TrackOf[s] = t /\ StageOf[s] = 1
\* stopTrack joins the errors of its stages.
FailedIn(t)    == \E s \in Failed : TrackOf[s] = t

TrackFailed(t) == stage[t] = 0 /\ FailedIn(t)
GroupCtxDone   == ctx = "over" \/ \E t \in Track : TrackFailed(t)

\* Mutant: the groups of a track's stages share one context.
TrackCtxDone(s) == GroupCtxDone \/ \E r \in Failed : TrackOf[r] = TrackOf[s]
\* Each stage has a group below the one of the tracks.
StageCtxDone(s) == GroupCtxDone \/ \E r \in Failed : SameStage(r, s)

\* Mutant: stages are stopped without waiting for the later ones.
StageTurnAtOnce(s) == TRUE
StageTurn(s)       == stage[TrackOf[s]] = StageOf[s]

CallStop(s) ==
    /\ state = "stopping"
    /\ StageTurn(s)
    /\ handle[s] # 0
    /\ stop[s] = "none"
    /\ stop' = [stop EXCEPT ![s] = "called"]
    /\ UNCHANGED <<state, round, handle, docker, ctx, stage, errored>>

Terminates(s) ==
    /\ stop[s] = "called"
    /\ stop' = [stop EXCEPT ![s] = "clean"]
    /\ docker' = docker \ {<<s, handle[s]>>}
    /\ UNCHANGED <<state, round, handle, ctx, stage, errored>>

TerminateFails(s) ==
    /\ stop[s] = "called"
    /\ \/ s \in Faulty /\ stop' = [stop EXCEPT ![s] = "failed"]
       \/ StageCtxDone(s) /\ stop' = [stop EXCEPT ![s] = "cut"]
    /\ UNCHANGED <<state, round, handle, docker, ctx, stage, errored>>

\* Whatever became of Terminate, the service forgets its container.
StopReturns(s) ==
    /\ stop[s] \in {"clean", "failed", "cut"}
    /\ handle[s] # 0
    /\ handle' = [handle EXCEPT ![s] = 0]
    /\ UNCHANGED <<state, round, docker, ctx, stage, stop, errored>>

StageDone(t) ==
    /\ state = "stopping"
    /\ stage[t] # 0
    /\ \A s \in Service :
        TrackOf[s] = t /\ StageOf[s] = stage[t] => handle[s] = 0
    /\ stage' = [stage EXCEPT ![t] = @ - 1]
    /\ UNCHANGED <<state, round, handle, docker, ctx, stop, errored>>

\* stopTracks returns the error of one failed track, and Stop passes it on.
FinishStop ==
    /\ state = "stopping"
    /\ \A t \in Track : stage[t] = 0
    /\ state' = "idle"
    /\ errored' = IF \E t \in Track : TrackFailed(t) THEN errored \cup {round} ELSE errored
    /\ ctx' = "background"
    /\ stop' = [s \in Service |-> "none"]
    /\ UNCHANGED <<round, handle, docker, stage>>

-----------------------------------------------------------------------------
StopService(s) == CallStop(s) \/ Terminates(s) \/ TerminateFails(s) \/ StopReturns(s)

Next ==
    \/ BeginStart
    \/ \E s \in Service : StartService(s)
    \/ StartSucceeds
    \/ Rollback \/ ClientStop \/ CtxEnds
    \/ \E s \in Service : StopService(s)
    \/ \E t \in Track : StageDone(t)
    \/ FinishStop

Spec == Init /\ [][Next]_vars

\* The goroutines of a Stop run, and Docker answers.
Fairness ==
    /\ \A s \in Service : WF_vars(StopService(s))
    /\ \A t \in Track : WF_vars(StageDone(t))
    /\ WF_vars(FinishStop)

FairSpec == Spec /\ Fairness

-----------------------------------------------------------------------------
\* Properties.

\* Every variable has its type.
TypeOK ==
    /\ state \in {"idle", "starting", "running", "stopping"}
    /\ round \in 0 .. MaxRounds
    /\ handle \in [Service -> 0 .. round]
    /\ docker \subseteq Container \X (1 .. round)
    /\ ctx \in {"background", "live", "over"}
    /\ stage \in [Track -> Nat]
    /\ \A t \in Track : stage[t] <= Height[t]
    /\ stop \in [Service -> {"none", "called", "clean", "failed", "cut"}]
    /\ errored \subseteq 1 .. round

\* A container is never left behind in silence: if its service has forgotten
\* it, the Stop of its round returns an error, whatever stage of whatever
\* track the failure was in.
LeftMeansError ==
    \A c \in docker :
        \/ handle[c[1]] = c[2]
        \/ c[2] \in errored
        \/ state = "stopping" /\ c[2] = round /\ c[1] \in Failed

\* A failure reaches its own stage and other tracks, never the earlier stages
\* of its own track: if a Stop was cut short by its context, then the client's
\* context ended, or a service failed by itself beside it or in another track.
CutsAreContained ==
    \A s \in Service : stop[s] = "cut" =>
        \/ ctx = "over"
        \/ \E r \in Service \ {s} :
            stop[r] = "failed" /\ (SameStage(r, s) \/ TrackOf[r] # TrackOf[s])

\* Stop tears down every service: a container stays only if its own removal
\* fails.
HealthyAreReleased ==
    state = "idle" => \A c \in docker : c[1] \in Faulty

\* Seen from the calls of Start and Stop, the env goes through its abstract
\* life cycle, and every teardown is carried through.
Abstract == INSTANCE Lifecycle WITH phase <- state, up <- {s \in Service : handle[s] # 0}

ImplementsLifecycle == Abstract!FairSpec
=============================================================================
