--------------------------- MODULE TeardownProofs ---------------------------
(***************************************************************************)
(* Proofs about Teardown, for any services, stages and tracks, whichever   *)
(* of them fail and whenever the client's context ends.                    *)
(***************************************************************************)
EXTENDS Teardown, TLAPS

\* How the handles, the calls of Stop and the stages go together.
Shape ==
    /\ state # "idle" => round # 0
    /\ state = "idle" => \A s \in Service : handle[s] = 0
    /\ state # "stopping" =>
        /\ \A s \in Service : stop[s] = "none"
        /\ \A t \in Track : stage[t] = 0
    /\ \A s \in Service :
        /\ handle[s] # 0 => handle[s] = round
        /\ handle[s] # 0 /\ state = "stopping" => StageOf[s] <= stage[TrackOf[s]]
        /\ handle[s] # 0 /\ stop[s] # "none" => stage[TrackOf[s]] = StageOf[s]
        /\ stop[s] = "called" => handle[s] # 0
        /\ handle[s] # 0 /\ stop[s] = "clean" => <<s, handle[s]>> \notin docker

\* Where a cut comes from in the end: a failure of another track reaches s
\* only once that track is done.
CutsHaveRoots ==
    \A s \in Service : stop[s] = "cut" =>
        \/ ctx = "over"
        \/ \E r \in Service \ {s} :
            /\ stop[r] = "failed"
            /\ \/ SameStage(r, s)
               \/ TrackOf[r] # TrackOf[s] /\ stage[TrackOf[r]] = 0

IInv == TypeOK /\ Shape /\ LeftMeansError /\ CutsHaveRoots

LEMMA Initially == Init => IInv
<1> SUFFICES ASSUME Init PROVE IInv
  OBVIOUS
<1>1. TypeOK
  BY TeardownAssumptions DEF Init, TypeOK
<1>2. Shape /\ LeftMeansError /\ CutsHaveRoots
  BY DEF Init, Shape, LeftMeansError, CutsHaveRoots
<1> QED
  BY <1>1, <1>2 DEF IInv

\* Once every track is through its stages, no service is left to be stopped.
LEMMA AllAreDown ==
  ASSUME IInv, FinishStop
  PROVE  \A s \in Service : handle[s] = 0
<1> SUFFICES ASSUME NEW s \in Service PROVE handle[s] = 0
  OBVIOUS
<1>1. TrackOf[s] \in Track /\ StageOf[s] \in Nat \ {0}
  BY TeardownAssumptions
<1>2. state = "stopping" /\ stage[TrackOf[s]] = 0
  BY <1>1 DEF FinishStop
<1>3. handle[s] # 0 => StageOf[s] <= stage[TrackOf[s]]
  BY <1>2 DEF IInv, Shape
<1> QED
  BY <1>1, <1>2, <1>3

-----------------------------------------------------------------------------
\* Every step keeps the types.
LEMMA TypeStep == ASSUME IInv, [Next]_vars PROVE TypeOK'
<1> USE TeardownAssumptions DEF IInv, TypeOK
<1>1. CASE UNCHANGED vars
  BY <1>1 DEF vars
<1>2. CASE BeginStart
  BY <1>2 DEF BeginStart
<1>3. ASSUME NEW s \in Service, StartService(s) PROVE TypeOK'
  BY <1>3 DEF StartService, Shape
<1>4. CASE StartSucceeds
  BY <1>4 DEF StartSucceeds
<1>5. CASE Rollback \/ ClientStop
  <2>1. /\ state' = "stopping"
        /\ ctx' \in {"background", "live"}
        /\ stage' = Height
        /\ UNCHANGED <<round, handle, docker, stop, errored>>
    BY <1>5 DEF Rollback, ClientStop, BeginStop
  <2> QED
    BY <2>1
<1>6. CASE CtxEnds
  BY <1>6 DEF CtxEnds
<1>7. ASSUME NEW s \in Service, StopService(s) PROVE TypeOK'
  <2>1. CASE CallStop(s) \/ TerminateFails(s)
    BY <2>1 DEF CallStop, TerminateFails
  <2>2. CASE Terminates(s)
    BY <2>2 DEF Terminates
  <2>3. CASE StopReturns(s)
    BY <2>3 DEF StopReturns
  <2> QED
    BY <1>7, <2>1, <2>2, <2>3 DEF StopService
<1>8. ASSUME NEW t \in Track, StageDone(t) PROVE TypeOK'
  BY <1>8 DEF StageDone
<1>9. CASE FinishStop
  <2>1. round # 0
    BY <1>9 DEF FinishStop, Shape
  <2> QED
    BY <1>9, <2>1 DEF FinishStop
<1> QED
  BY <1>1, <1>2, <1>3, <1>4, <1>5, <1>6, <1>7, <1>8, <1>9 DEF Next

\* Every step keeps handles, calls and stages together.
LEMMA ShapeStep == ASSUME IInv, [Next]_vars PROVE Shape'
<1> USE TeardownAssumptions DEF IInv, TypeOK, Shape
<1>1. CASE UNCHANGED vars
  BY <1>1 DEF vars
<1>2. CASE BeginStart
  BY <1>2 DEF BeginStart
<1>3. ASSUME NEW s \in Service, StartService(s) PROVE Shape'
  BY <1>3 DEF StartService
<1>4. CASE StartSucceeds
  BY <1>4 DEF StartSucceeds
<1>5. CASE Rollback \/ ClientStop
  BY <1>5 DEF Rollback, ClientStop, BeginStop
<1>6. CASE CtxEnds
  BY <1>6 DEF CtxEnds
<1>7. ASSUME NEW s \in Service, StopService(s) PROVE Shape'
  <2>1. CASE CallStop(s)
    BY <2>1 DEF CallStop, StageTurn
  <2>2. CASE TerminateFails(s)
    BY <2>2 DEF TerminateFails
  <2>3. CASE Terminates(s)
    BY <2>3 DEF Terminates
  <2>4. CASE StopReturns(s)
    BY <2>4 DEF StopReturns
  <2> QED
    BY <1>7, <2>1, <2>2, <2>3, <2>4 DEF StopService
<1>8. ASSUME NEW t \in Track, StageDone(t) PROVE Shape'
  BY <1>8 DEF StageDone
<1>9. CASE FinishStop
  <2>1. \A s \in Service : handle[s] = 0
    BY <1>9, AllAreDown
  <2> QED
    BY <1>9, <2>1 DEF FinishStop
<1> QED
  BY <1>1, <1>2, <1>3, <1>4, <1>5, <1>6, <1>7, <1>8, <1>9 DEF Next

\* Every step leaves a container with its service, or with an error.
LEMMA LeftStep == ASSUME IInv, [Next]_vars PROVE LeftMeansError'
<1> USE TeardownAssumptions DEF IInv, TypeOK, Shape, LeftMeansError, Failed
<1>1. CASE UNCHANGED vars
  BY <1>1 DEF vars
<1>2. CASE BeginStart
  BY <1>2 DEF BeginStart
<1>3. ASSUME NEW s \in Service, StartService(s) PROVE LeftMeansError'
  BY <1>3 DEF StartService
<1>4. CASE StartSucceeds
  BY <1>4 DEF StartSucceeds
<1>5. CASE Rollback \/ ClientStop
  BY <1>5 DEF Rollback, ClientStop, BeginStop
<1>6. CASE CtxEnds
  BY <1>6 DEF CtxEnds
<1>7. ASSUME NEW s \in Service, StopService(s) PROVE LeftMeansError'
  <2>1. CASE CallStop(s)
    BY <2>1 DEF CallStop
  <2>2. CASE TerminateFails(s)
    BY <2>2 DEF TerminateFails
  <2>3. CASE Terminates(s)
    BY <2>3 DEF Terminates
  <2>4. CASE StopReturns(s)
    BY <2>4 DEF StopReturns
  <2> QED
    BY <1>7, <2>1, <2>2, <2>3, <2>4 DEF StopService
<1>8. ASSUME NEW t \in Track, StageDone(t) PROVE LeftMeansError'
  BY <1>8 DEF StageDone
<1>9. CASE FinishStop
  <2>1. \A s \in Service : handle[s] = 0
    BY <1>9, AllAreDown
  <2>2. ASSUME NEW c \in docker, c[2] \notin errored
        PROVE  c[2] = round /\ round \in errored'
    <3>1. c[1] \in Service /\ c[2] # 0
      OBVIOUS
    <3>2. c[2] = round /\ c[1] \in Failed
      BY <2>1, <2>2, <3>1
    <3>3. TrackFailed(TrackOf[c[1]]) /\ TrackOf[c[1]] \in Track
      BY <1>9, <3>1, <3>2 DEF FinishStop, TrackFailed, FailedIn
    <3> QED
      BY <1>9, <3>2, <3>3 DEF FinishStop
  <2> QED
    BY <1>9, <2>1, <2>2 DEF FinishStop
<1> QED
  BY <1>1, <1>2, <1>3, <1>4, <1>5, <1>6, <1>7, <1>8, <1>9 DEF Next

\* Every step keeps a cut below its root.
LEMMA CutStep == ASSUME IInv, [Next]_vars PROVE CutsHaveRoots'
<1> USE TeardownAssumptions DEF IInv, TypeOK, Shape, CutsHaveRoots, SameStage
<1>1. CASE UNCHANGED vars
  BY <1>1 DEF vars
<1>2. CASE BeginStart \/ StartSucceeds \/ CtxEnds \/ Rollback \/ ClientStop \/ FinishStop
  BY <1>2 DEF BeginStart, StartSucceeds, CtxEnds, Rollback, ClientStop, BeginStop, FinishStop
<1>3. ASSUME NEW s \in Service, StartService(s) \/ StopReturns(s) \/ CallStop(s) \/ Terminates(s)
      PROVE  CutsHaveRoots'
  BY <1>3 DEF StartService, StopReturns, CallStop, Terminates
<1>4. ASSUME NEW t \in Track, StageDone(t) PROVE CutsHaveRoots'
  BY <1>4 DEF StageDone
<1>5. ASSUME NEW s \in Service, TerminateFails(s) PROVE CutsHaveRoots'
  <2>1. stage[TrackOf[s]] # 0
    <3>1. stop[s] = "called"
      BY <1>5 DEF TerminateFails
    <3>2. handle[s] # 0 /\ stop[s] # "none"
      BY <3>1
    <3>3. stage[TrackOf[s]] = StageOf[s] /\ StageOf[s] \in Nat \ {0}
      BY <3>2
    <3> QED
      BY <3>3
  <2>2. ASSUME StageCtxDone(s), ctx # "over"
        PROVE  \E r \in Service \ {s} :
                 /\ stop[r] = "failed"
                 /\ \/ SameStage(r, s)
                    \/ TrackOf[r] # TrackOf[s] /\ stage[TrackOf[r]] = 0
    <3>0. ASSUME NEW t \in Track, TrackFailed(t)
          PROVE  \E r \in Failed : TrackOf[r] # TrackOf[s] /\ stage[TrackOf[r]] = 0
      BY <2>1, <3>0 DEF TrackFailed, FailedIn
    <3> HIDE DEF TypeOK, Shape, CutsHaveRoots, SameStage
    <3>1. PICK r \in Failed : SameStage(r, s) \/ (TrackOf[r] # TrackOf[s] /\ stage[TrackOf[r]] = 0)
      BY <2>2, <3>0 DEF StageCtxDone, GroupCtxDone
    <3>2. r # s
      BY <1>5 DEF TerminateFails, Failed
    <3>3. CASE stop[r] = "failed"
      BY <3>1, <3>2, <3>3 DEF Failed
    <3>4. CASE stop[r] = "cut"
      <4>1. PICK q \in Service :
              /\ stop[q] = "failed"
              /\ \/ SameStage(q, r)
                 \/ TrackOf[q] # TrackOf[r] /\ stage[TrackOf[q]] = 0
        BY <2>2, <3>4 DEF Failed, CutsHaveRoots
      <4>2. q # s
        BY <1>5, <4>1 DEF TerminateFails
      <4>3. SameStage(q, s) \/ (TrackOf[q] # TrackOf[s] /\ stage[TrackOf[q]] = 0)
        BY <2>1, <3>1, <4>1 DEF SameStage
      <4> QED
        BY <4>1, <4>2, <4>3
    <3> QED
      BY <3>3, <3>4 DEF Failed
  <2> QED
    BY <1>5, <2>2 DEF TerminateFails
<1> QED
  BY <1>1, <1>2, <1>3, <1>4, <1>5 DEF Next, StopService

LEMMA Invariance == Spec => []IInv
<1>1. IInv /\ [Next]_vars => IInv'
  BY TypeStep, ShapeStep, LeftStep, CutStep DEF IInv
<1> QED
  BY Initially, <1>1, PTL DEF Spec

-----------------------------------------------------------------------------
\* Every variable keeps its type; a stage is never above the top of its track.
THEOREM TypeCorrect == Spec => []TypeOK
<1>1. IInv => TypeOK
  BY DEF IInv
<1> QED
  BY <1>1, Invariance, PTL

\* A container that Docker still has is in its service's hands, or the Stop of
\* its round returned an error or is about to, however the failures of stages
\* and tracks were joined.
THEOREM NothingLeftInSilence == Spec => []LeftMeansError
<1>1. IInv => LeftMeansError
  BY DEF IInv
<1> QED
  BY <1>1, Invariance, PTL

\* No Stop is cut short by a failure in a later stage of its own track.
THEOREM CutsStayContained == Spec => []CutsAreContained
<1>1. IInv => CutsAreContained
  BY DEF IInv, CutsHaveRoots, CutsAreContained
<1> QED
  BY <1>1, Invariance, PTL

-----------------------------------------------------------------------------
\* What may fail by itself, and what a failure can reach: the services of its
\* stage and of the other tracks.
Exposed(s) ==
    \/ s \in Faulty
    \/ \E r \in Faulty \ {s} : SameStage(r, s) \/ TrackOf[r] # TrackOf[s]

\* A container whose service has forgotten it was exposed.
LeftWereExposed ==
    /\ ctx # "over"
    /\ \A s \in Service : stop[s] = "failed" => s \in Faulty
    /\ \A c \in docker : handle[c[1]] = c[2] \/ Exposed(c[1])

LEMMA ExposedStep ==
  ASSUME ~CtxMayEnd, IInv, LeftWereExposed, [Next]_vars
  PROVE  LeftWereExposed'
<1> USE DEF LeftWereExposed, IInv, TypeOK
<1>1. CASE UNCHANGED vars
  BY <1>1 DEF vars
<1>2. CASE BeginStart \/ StartSucceeds \/ CtxEnds \/ Rollback \/ ClientStop \/ FinishStop
  BY <1>2 DEF BeginStart, StartSucceeds, CtxEnds, Rollback, ClientStop, BeginStop, FinishStop
<1>3. ASSUME NEW s \in Service, StartService(s) PROVE LeftWereExposed'
  <2>1. /\ handle[s] = 0 /\ handle' = [handle EXCEPT ![s] = round]
        /\ docker' = docker \cup ({s} \cap Container) \X {round}
        /\ UNCHANGED <<ctx, stop>>
    BY <1>3 DEF StartService
  <2>2. ASSUME NEW c \in docker, handle[c[1]] = c[2] PROVE c[1] # s
    BY <2>1, <2>2
  <2> QED
    BY <2>1, <2>2
<1>4. ASSUME NEW s \in Service, CallStop(s) \/ Terminates(s) \/ TerminateFails(s)
      PROVE  LeftWereExposed'
  BY <1>4 DEF CallStop, Terminates, TerminateFails
<1>5. ASSUME NEW s \in Service, StopReturns(s) PROVE LeftWereExposed'
  <2>1. /\ stop[s] \in {"clean", "failed", "cut"} /\ handle[s] # 0
        /\ handle' = [handle EXCEPT ![s] = 0]
        /\ UNCHANGED <<docker, ctx, stop>>
    BY <1>5 DEF StopReturns
  <2>2. CASE stop[s] = "clean"
    <3>1. <<s, handle[s]>> \notin docker
      BY <2>1, <2>2 DEF Shape
    <3>2. ASSUME NEW c \in docker, handle[c[1]] = c[2] PROVE c[1] # s
      BY <3>1, <3>2
    <3> QED
      BY <2>1, <3>2
  <2>3. CASE stop[s] # "clean"
    <3>1. Exposed(s)
      <4>1. CASE stop[s] = "failed"
        BY <4>1 DEF Exposed
      <4>2. CASE stop[s] = "cut"
        <5>1. PICK r \in Service \ {s} :
                stop[r] = "failed" /\ (SameStage(r, s) \/ TrackOf[r] # TrackOf[s])
          BY <4>2 DEF CutsHaveRoots
        <5> QED
          BY <5>1 DEF Exposed
      <4> QED
        BY <2>1, <2>3, <4>1, <4>2
    <3>2. ASSUME NEW c \in docker PROVE handle'[c[1]] = c[2] \/ Exposed(c[1])
      BY <2>1, <3>1
    <3> QED
      BY <2>1, <3>2
  <2> QED
    BY <2>2, <2>3
<1>6. ASSUME NEW t \in Track, StageDone(t) PROVE LeftWereExposed'
  BY <1>6 DEF StageDone
<1> QED
  BY <1>1, <1>2, <1>3, <1>4, <1>5, <1>6 DEF Next, StopService

\* What is left of the promise in the comment on Stop: while no client's context
\* ends, whatever services fail and whatever else they cut short, an idle env
\* has left no container but of a service that may fail itself, or that has
\* such a service beside it in its stage or in another track.  A failure above
\* or below it in its own track never costs a container.
THEOREM ShelteredAreReleased ==
  ASSUME ~CtxMayEnd
  PROVE  Spec => [](state = "idle" =>
                      \A c \in docker :
                         \/ c[1] \in Faulty
                         \/ \E r \in Faulty \ {c[1]} :
                                SameStage(r, c[1]) \/ TrackOf[r] # TrackOf[c[1]])
<1>1. Init => LeftWereExposed
  BY DEF Init, LeftWereExposed
<1>2. IInv /\ LeftWereExposed /\ [Next]_vars => LeftWereExposed'
  BY ExposedStep
<1>3. IInv /\ LeftWereExposed =>
        (state = "idle" =>
           \A c \in docker :
              \/ c[1] \in Faulty
              \/ \E r \in Faulty \ {c[1]} : SameStage(r, c[1]) \/ TrackOf[r] # TrackOf[c[1]])
  <2> SUFFICES ASSUME IInv, LeftWereExposed, state = "idle", NEW c \in docker
               PROVE  Exposed(c[1])
    BY DEF Exposed
  <2>1. c[1] \in Service /\ c[2] # 0
    BY TeardownAssumptions DEF IInv, TypeOK
  <2>2. handle[c[1]] = 0
    BY <2>1 DEF IInv, Shape
  <2> QED
    BY <2>1, <2>2 DEF LeftWereExposed
<1> QED
  BY <1>1, <1>2, <1>3, Invariance, PTL DEF Spec

-----------------------------------------------------------------------------
\* Refinement.

\* A new env is a new abstract env, and every step is one of the abstract life
\* cycle or none: nothing that goes wrong in a teardown leaves it unfinished
\* or out of order.
LEMMA StepRefines ==
  ASSUME IInv, [Next]_vars
  PROVE  [Abstract!Next]_(Abstract!vars)
<1> USE TeardownAssumptions DEF IInv, TypeOK, Shape, Abstract!Next, Abstract!vars
<1> DEFINE up == {s \in Service : handle[s] # 0}
<1>1. CASE UNCHANGED vars
  BY <1>1 DEF vars
<1>2. CASE BeginStart
  BY <1>2 DEF BeginStart, Abstract!Begin
<1>3. ASSUME NEW s \in Service, StartService(s) PROVE Abstract!Next
  <2>1. up' = up \cup {s} /\ s \notin up
    BY <1>3 DEF StartService
  <2>2. Abstract!Earlier(s) \subseteq up
    BY <1>3 DEF StartService, Abstract!Earlier, Earlier
  <2>3. Abstract!BringUp(s)
    BY <1>3, <2>1, <2>2 DEF StartService, Abstract!BringUp
  <2> QED
    BY <2>3
<1>4. CASE StartSucceeds
  BY <1>4 DEF StartSucceeds, Abstract!Ready
<1>5. CASE Rollback \/ ClientStop
  BY <1>5 DEF Rollback, ClientStop, BeginStop, Abstract!TearDown
<1>6. CASE CtxEnds
  BY <1>6 DEF CtxEnds
<1>7. ASSUME NEW s \in Service, StopReturns(s) PROVE Abstract!Next
  <2>1. up' = up \ {s} /\ s \in up
    BY <1>7 DEF StopReturns
  <2>2. state = "stopping" /\ stage[TrackOf[s]] = StageOf[s]
    BY <1>7 DEF StopReturns
  <2>3. ASSUME NEW p \in Service, TrackOf[p] = TrackOf[s], StageOf[p] > StageOf[s]
        PROVE  handle[p] = 0
    <3>1. StageOf[p] \in Nat /\ StageOf[s] \in Nat /\ stage[TrackOf[p]] = StageOf[s]
      BY <2>2, <2>3
    <3>2. handle[p] # 0 => StageOf[p] <= stage[TrackOf[p]]
      BY <2>2
    <3> HIDE DEF IInv, TypeOK, Shape
    <3> QED
      BY <2>3, <3>1, <3>2
  <2>4. Abstract!Later(s) \cap up = {}
    BY <2>3 DEF Abstract!Later
  <2>5. Abstract!TakeDown(s)
    BY <1>7, <2>1, <2>2, <2>4 DEF StopReturns, Abstract!TakeDown
  <2> QED
    BY <2>5
<1>8. ASSUME NEW s \in Service, CallStop(s) \/ Terminates(s) \/ TerminateFails(s)
      PROVE  UNCHANGED Abstract!vars
  BY <1>8 DEF CallStop, Terminates, TerminateFails
<1>9. ASSUME NEW t \in Track, StageDone(t) PROVE UNCHANGED Abstract!vars
  BY <1>9 DEF StageDone
<1>10. CASE FinishStop
  <2>1. \A s \in Service : handle[s] = 0
    BY <1>10, AllAreDown
  <2> QED
    BY <1>10, <2>1 DEF FinishStop, Abstract!Done
<1> QED
  BY <1>1, <1>2, <1>3, <1>4, <1>5, <1>6, <1>7, <1>8, <1>9, <1>10 DEF Next, StopService

\* The teardown implements the safety part of the abstract life cycle.
THEOREM Refinement == Spec => Abstract!Spec
<1>1. Init => Abstract!Init
  BY DEF Init, Abstract!Init
<1>2. IInv /\ [Next]_vars => [Abstract!Next]_(Abstract!vars)
  BY StepRefines
<1> QED
  BY <1>1, <1>2, Invariance, PTL DEF Spec, Abstract!Spec

\* Every step of the abstract life cycle keeps its promise.
LEMMA PromiseStep ==
  ASSUME Abstract!Promise, [Abstract!Next]_(Abstract!vars)
  PROVE  Abstract!Promise'
<1> DEFINE up == {s \in Service : handle[s] # 0}
           Kept == /\ up \subseteq Service
                   /\ state = "idle" => up = {}
                   /\ state = "running" => up = Service
                   /\ \A s \in up : Abstract!Earlier(s) \subseteq up
<1>1. Kept /\ (Kept' => Abstract!Promise')
  BY DEF Abstract!Promise, Abstract!Earlier
<1>2. ASSUME NEW s \in Service, Abstract!BringUp(s) PROVE Kept'
  <2>1. up' = up \cup {s} /\ state' = state /\ state = "starting" /\ Abstract!Earlier(s) \subseteq up
    BY <1>2 DEF Abstract!BringUp
  <2> HIDE DEF up
  <2> QED
    BY <1>1, <2>1 DEF Abstract!Earlier
<1>3. ASSUME NEW s \in Service, Abstract!TakeDown(s) PROVE Kept'
  <2>1. up' = up \ {s} /\ state' = state /\ state = "stopping" /\ Abstract!Later(s) \cap up = {}
    BY <1>3 DEF Abstract!TakeDown
  <2>2. ASSUME NEW p \in up, p # s PROVE s \notin Abstract!Earlier(p)
    BY <1>1, <2>1, <2>2 DEF Abstract!Earlier, Abstract!Later
  <2> HIDE DEF up
  <2> QED
    BY <1>1, <2>1, <2>2 DEF Abstract!Earlier
<1>4. CASE Abstract!Begin \/ Abstract!Ready \/ Abstract!TearDown \/ Abstract!Done
  <2>1. /\ up' = up
        /\ state' = "idle" => up = {}
        /\ state' = "running" => up = Service
    BY <1>4 DEF Abstract!Begin, Abstract!Ready, Abstract!TearDown, Abstract!Done
  <2> HIDE DEF up
  <2> QED
    BY <1>1, <2>1 DEF Abstract!Earlier
<1>5. CASE UNCHANGED Abstract!vars
  <2>1. up' = up /\ state' = state
    BY <1>5 DEF Abstract!vars
  <2> HIDE DEF up
  <2> QED
    BY <1>1, <2>1 DEF Abstract!Earlier
<1> QED
  BY <1>1, <1>2, <1>3, <1>4, <1>5 DEF Abstract!Next

\* What the abstract life cycle promises holds of a teardown, whatever fails in
\* it: services are stopped only once nothing stands on them, and the env is
\* not idle again before every Stop has returned.
THEOREM PromiseKept == Spec => []Abstract!Promise
<1>1. Abstract!Init => Abstract!Promise
  BY DEF Abstract!Init, Abstract!Promise
<1>2. Abstract!Spec => []Abstract!Promise
  BY <1>1, PromiseStep, PTL DEF Abstract!Spec
<1> QED
  BY <1>2, Refinement, PTL
=============================================================================
