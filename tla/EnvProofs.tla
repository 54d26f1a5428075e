------------------------------ MODULE EnvProofs ------------------------------
(***************************************************************************)
(* Proofs about Env, for any services, tracks, hooks and callers.  Most    *)
(* are for clients that never call Stop while a Start is in progress       *)
(* (~StopDuringStart); what holds for all clients is said to.              *)
(***************************************************************************)
EXTENDS Env, TLAPS

\* At most one caller is inside a call that the code did not refuse, and
\* the state of the env tells how far it is.
ControlInv ==
    /\ \A c, d \in Caller : pc[c] # "out" /\ pc[d] # "out" => c = d
    /\ \A c \in Caller :
        /\ pc[c] = "tracks" => state = "starting"
        /\ pc[c] = "afterStart" => state = "running"
        /\ pc[c] = "rollback" => state \in {"starting", "running"}
        /\ pc[c] \in {"stopping", "afterStop"} => state = "stopping"
    /\ state \in {"starting", "stopping"} => \E c \in Caller : pc[c] # "out"
    /\ alloc <=> state # "idle"
    /\ NoPanic

\* Goroutines live within the track phase, stopper's work within the stop
\* phase, and a stage begins only when the ones before it are recorded.
LocalInv ==
    \A c \in Caller :
        /\ pc[c] # "tracks" => gor[c] = NoGoroutines
        /\ pc[c] # "stopping" => todo[c] = {} /\ busy[c] = {}
        /\ \A s \in Service : gor[c][s] # "idle" =>
            \A p \in Earlier(s) : gor[c][p] = "recorded"
        /\ todo[c] \cap busy[c] = {}

\* What is up, in every phase.
UpInv ==
    /\ \A d, f \in Caller : \A s, t \in Service :
        <<d, s>> \in up /\ <<f, t>> \in up => d = f
    /\ state = "idle" => up = {}
    /\ state = "running" =>
        /\ up = started
        /\ \E c \in Caller : started = {<<c, s>> : s \in Service}
    /\ \A c \in Caller :
        /\ pc[c] = "tracks" =>
            \A d \in Caller, s \in Service :
                /\ <<d, s>> \in up <=> d = c /\ gor[c][s] \in {"ok", "recorded"}
                /\ <<d, s>> \in started <=> d = c /\ gor[c][s] = "recorded"
        /\ pc[c] = "rollback" => up = started
        /\ pc[c] = "stopping" => up = todo[c] \cup busy[c]
        /\ pc[c] = "afterStop" => up = {}

\* What is published, and what a hook loop is told of it.
PropsInv ==
    /\ \A e \in started : \A k \in Publishes[e[2]] : properties[k] \in started
    /\ \A c \in Caller :
        pc[c] \in {"afterStart", "afterStop"} => snapshot[c] = properties

\* Each stopper drains the stages of a track in reverse: nothing of an earlier
\* stage is in its hands while something of a later one is.
StopOrder ==
    \A c \in Caller : \A e \in busy[c], f \in todo[c] \cup busy[c] :
        f[2] \notin Later(e[2])

IInv ==
    /\ TypeOK
    /\ ControlInv
    /\ LocalInv
    /\ UpInv
    /\ StopOrder
    /\ DependenciesUp
    /\ PropsInv

\* Sets of entries are equal when they hold the same pairs.
LEMMA SameEntries ==
  ASSUME NEW A \in SUBSET Entry, NEW B \in SUBSET Entry,
         \A d \in Caller, s \in Service : <<d, s>> \in A <=> <<d, s>> \in B
  PROVE  A = B
BY DEF Entry

\* Once every runTrack has returned, no service is started but unrecorded.
LEMMA DrainedTrack ==
  ASSUME LocalInv, NEW c \in Caller, \A t \in Track : TrackDone(c, t)
  PROVE  \A s \in Service : gor[c][s] # "ok"
<1> SUFFICES ASSUME NEW s \in Service, gor[c][s] = "ok" PROVE FALSE
  OBVIOUS
<1>1. TrackAborted(c, TrackOf[s])
  BY ShapeAssumption DEF TrackDone, TrackSucceeded
<1>2. PICK f \in Service : /\ TrackOf[f] = TrackOf[s]
                           /\ gor[c][f] = "failed"
                           /\ \A p \in SameStage(f) : GoroutineDone(c, p)
  BY <1>1 DEF TrackAborted
<1>3. CASE StageOf[f] = StageOf[s]
  BY <1>2, <1>3 DEF SameStage, GoroutineDone
<1>4. CASE StageOf[f] < StageOf[s]
  BY <1>2, <1>4 DEF Earlier, LocalInv
<1>5. CASE StageOf[s] < StageOf[f]
  BY <1>2, <1>5 DEF Earlier, LocalInv
<1> QED
  BY <1>3, <1>4, <1>5, ShapeAssumption

\* Every step keeps the types, whatever calls overlap.
LEMMA TypeOKStep ==
  ASSUME TypeOK, [Next]_vars
  PROVE  TypeOK'
<1> USE DEF TypeOK, EntryOrNone, NoProperties, NoGoroutines, Entry
<1>1. CASE UNCHANGED vars
  BY <1>1 DEF vars
<1>2. ASSUME NEW c \in Caller, BeginStart(c) PROVE TypeOK'
  BY <1>2 DEF BeginStart, Startable
<1>3. ASSUME NEW c \in Caller, CancelCtx(c) PROVE TypeOK'
  BY <1>3 DEF CancelCtx
<1>4. ASSUME NEW c \in Caller, ClientStop(c) PROVE TypeOK'
  BY <1>4 DEF ClientStop, BeginStop, Stoppable
<1>5. ASSUME NEW c \in Caller, TracksSucceeded(c) PROVE TypeOK'
  BY <1>5 DEF TracksSucceeded, TracksOk
<1>6. ASSUME NEW c \in Caller, TracksFailed(c) PROVE TypeOK'
  BY <1>6 DEF TracksFailed, TracksDone
<1>7. ASSUME NEW c \in Caller, AfterStartHook(c) PROVE TypeOK'
  BY <1>7, HooksAssumption DEF AfterStartHook, MoreHooks, NextHook
<1>8. ASSUME NEW c \in Caller, AfterStartHookFails(c) PROVE TypeOK'
  BY <1>8, HooksAssumption DEF AfterStartHookFails, MoreHooks
<1>9. ASSUME NEW c \in Caller, ReturnStart(c) PROVE TypeOK'
  BY <1>9, HooksAssumption DEF ReturnStart
<1>10. ASSUME NEW c \in Caller, Rollback(c) PROVE TypeOK'
  BY <1>10 DEF Rollback, BeginStop, Stoppable
<1>11. ASSUME NEW c \in Caller, RollbackIsNoop(c) PROVE TypeOK'
  BY <1>11 DEF RollbackIsNoop, Stoppable
<1>12. ASSUME NEW c \in Caller, StopsDone(c) PROVE TypeOK'
  BY <1>12 DEF StopsDone, AllStopped
<1>13. ASSUME NEW c \in Caller, AfterStopHook(c) PROVE TypeOK'
  BY <1>13, HooksAssumption DEF AfterStopHook, MoreHooks, NextHook
<1>14. ASSUME NEW c \in Caller, FinishStop(c) PROVE TypeOK'
  <2>1. hook' \in [Caller -> 0 .. NumHooks]
    BY <1>14, HooksAssumption DEF FinishStop, TypeOK, Released
  <2>2. properties' \in [Key -> EntryOrNone] /\ snapshot' \in [Caller -> [Key -> EntryOrNone]]
    BY <1>14 DEF FinishStop, TypeOK, EntryOrNone, NoProperties, Released
  <2> QED
    BY <1>14, <2>1, <2>2 DEF FinishStop, TypeOK, Released
<1>15. ASSUME NEW c \in Caller, NEW s \in Service, LaunchService(c, s) PROVE TypeOK'
  BY <1>15 DEF LaunchService, StageReached
<1>16. ASSUME NEW c \in Caller, NEW s \in Service, StartReturns(c, s) PROVE TypeOK'
  BY <1>16 DEF StartReturns
<1>17. ASSUME NEW c \in Caller, NEW s \in Service, StartFails(c, s) PROVE TypeOK'
  BY <1>17 DEF StartFails
<1>18. ASSUME NEW c \in Caller, NEW s \in Service, RecordStarted(c, s) PROVE TypeOK'
  BY <1>18 DEF RecordStarted, Published, Recorded
<1>19. ASSUME NEW c \in Caller, NEW s \in Service, RecordPanics(c, s) PROVE TypeOK'
  BY <1>19, HooksAssumption DEF RecordPanics
<1>20. ASSUME NEW c \in Caller, NEW e \in Entry, StopService(c, e) PROVE TypeOK'
  BY <1>20 DEF StopService, StopTurn
<1>21. ASSUME NEW c \in Caller, NEW e \in Entry, StopReturns(c, e) PROVE TypeOK'
  BY <1>21 DEF StopReturns
<1> QED
  BY <1>1, <1>2, <1>3, <1>4, <1>5, <1>6, <1>7, <1>8, <1>9, <1>10, <1>11,
     <1>12, <1>13, <1>14, <1>15, <1>16, <1>17, <1>18, <1>19, <1>20, <1>21
  DEF Next, ClientStep, CallStep, ServiceStep, TeardownStep

\* Every step keeps the callers apart and in step with the state.
LEMMA ControlStep ==
  ASSUME IInv, ~StopDuringStart, [Next]_vars
  PROVE  ControlInv'
<1> USE DEF IInv, TypeOK, ControlInv, NoPanic, StartInProgress
<1>1. CASE UNCHANGED vars
  BY <1>1 DEF vars
<1>2. ASSUME NEW c \in Caller, BeginStart(c) PROVE ControlInv'
  BY <1>2 DEF BeginStart, Startable
<1>3. ASSUME NEW c \in Caller, CancelCtx(c) PROVE ControlInv'
  BY <1>3 DEF CancelCtx
<1>4. ASSUME NEW c \in Caller, ClientStop(c) PROVE ControlInv'
  BY <1>4 DEF ClientStop, BeginStop, Stoppable
<1>5. ASSUME NEW c \in Caller, TracksSucceeded(c) PROVE ControlInv'
  BY <1>5 DEF TracksSucceeded, TracksOk
<1>6. ASSUME NEW c \in Caller, TracksFailed(c) PROVE ControlInv'
  BY <1>6 DEF TracksFailed, TracksDone
<1>7. ASSUME NEW c \in Caller, AfterStartHook(c) PROVE ControlInv'
  BY <1>7 DEF AfterStartHook, MoreHooks, NextHook
<1>8. ASSUME NEW c \in Caller, AfterStartHookFails(c) PROVE ControlInv'
  BY <1>8 DEF AfterStartHookFails, MoreHooks
<1>9. ASSUME NEW c \in Caller, ReturnStart(c) PROVE ControlInv'
  BY <1>9 DEF ReturnStart
<1>10. ASSUME NEW c \in Caller, Rollback(c) PROVE ControlInv'
  BY <1>10 DEF Rollback, BeginStop, Stoppable
<1>11. ASSUME NEW c \in Caller, RollbackIsNoop(c) PROVE ControlInv'
  BY <1>11 DEF RollbackIsNoop, Stoppable
<1>12. ASSUME NEW c \in Caller, StopsDone(c) PROVE ControlInv'
  BY <1>12 DEF StopsDone, AllStopped
<1>13. ASSUME NEW c \in Caller, AfterStopHook(c) PROVE ControlInv'
  BY <1>13 DEF AfterStopHook, MoreHooks, NextHook
<1>14. ASSUME NEW c \in Caller, FinishStop(c) PROVE ControlInv'
  BY <1>14 DEF FinishStop, Released
<1>15. ASSUME NEW c \in Caller, NEW s \in Service, LaunchService(c, s) PROVE ControlInv'
  BY <1>15 DEF LaunchService, StageReached
<1>16. ASSUME NEW c \in Caller, NEW s \in Service, StartReturns(c, s) PROVE ControlInv'
  BY <1>16 DEF StartReturns
<1>17. ASSUME NEW c \in Caller, NEW s \in Service, StartFails(c, s) PROVE ControlInv'
  BY <1>17 DEF StartFails
<1>18. ASSUME NEW c \in Caller, NEW s \in Service, RecordStarted(c, s) PROVE ControlInv'
  BY <1>18 DEF RecordStarted, Published, Recorded
<1>19. ASSUME NEW c \in Caller, NEW s \in Service, RecordPanics(c, s) PROVE ControlInv'
  BY <1>19 DEF RecordPanics, LocalInv, NoGoroutines
<1>20. ASSUME NEW c \in Caller, NEW e \in Entry, StopService(c, e) PROVE ControlInv'
  BY <1>20 DEF StopService, StopTurn
<1>21. ASSUME NEW c \in Caller, NEW e \in Entry, StopReturns(c, e) PROVE ControlInv'
  BY <1>21 DEF StopReturns
<1> QED
  BY <1>1, <1>2, <1>3, <1>4, <1>5, <1>6, <1>7, <1>8, <1>9, <1>10, <1>11,
     <1>12, <1>13, <1>14, <1>15, <1>16, <1>17, <1>18, <1>19, <1>20, <1>21
  DEF Next, ClientStep, CallStep, ServiceStep, TeardownStep

\* A Stop that begins has nothing in its hands but what is recorded.
LEMMA BeginStopLocal ==
  ASSUME TypeOK, LocalInv, NEW c \in Caller, BeginStop(c), pc[c] \in {"out", "rollback"}
  PROVE  LocalInv'
<1>1. /\ pc' = [pc EXCEPT ![c] = "stopping"]
      /\ todo' = [todo EXCEPT ![c] = started]
      /\ gor' = gor /\ busy' = busy
  BY DEF BeginStop
<1>2. /\ pc \in [Caller -> {"out", "tracks", "afterStart", "rollback",
                          "stopping", "afterStop", "dead"}]
      /\ todo \in [Caller -> SUBSET Entry]
  BY DEF TypeOK
<1>3. busy[c] = {} /\ gor[c] = NoGoroutines
  BY DEF LocalInv
<1>4. ASSUME NEW d \in Caller
      PROVE  /\ pc'[d] # "tracks" => gor[d] = NoGoroutines
             /\ pc'[d] # "stopping" => todo'[d] = {} /\ busy[d] = {}
             /\ \A s \in Service : gor[d][s] # "idle" =>
                   \A p \in Earlier(s) : gor[d][p] = "recorded"
             /\ todo'[d] \cap busy[d] = {}
  <2>1. CASE d = c
    BY <1>1, <1>2, <1>3, <2>1 DEF LocalInv
  <2>2. CASE d # c
    BY <1>1, <1>2, <2>2 DEF LocalInv
  <2> QED
    BY <2>1, <2>2
<1> QED
  BY <1>1, <1>4 DEF LocalInv, Earlier

\* Every step keeps goroutines and stoppers within their phase, whatever calls
\* overlap.
LEMMA LocalStep ==
  ASSUME TypeOK, LocalInv, [Next]_vars
  PROVE  LocalInv'
<1> USE DEF TypeOK, LocalInv, NoGoroutines
<1>1. CASE UNCHANGED vars
  BY <1>1 DEF vars
<1>2. ASSUME NEW c \in Caller, BeginStart(c) PROVE LocalInv'
  BY <1>2 DEF BeginStart, Startable
<1>3. ASSUME NEW c \in Caller, CancelCtx(c) PROVE LocalInv'
  BY <1>3 DEF CancelCtx
<1>4. ASSUME NEW c \in Caller, ClientStop(c) PROVE LocalInv'
  BY <1>4, BeginStopLocal DEF ClientStop
<1>5. ASSUME NEW c \in Caller, TracksSucceeded(c) PROVE LocalInv'
  BY <1>5 DEF TracksSucceeded, TracksOk
<1>6. ASSUME NEW c \in Caller, TracksFailed(c) PROVE LocalInv'
  BY <1>6 DEF TracksFailed, TracksDone
<1>7. ASSUME NEW c \in Caller, AfterStartHook(c) PROVE LocalInv'
  BY <1>7 DEF AfterStartHook, MoreHooks, NextHook
<1>8. ASSUME NEW c \in Caller, AfterStartHookFails(c) PROVE LocalInv'
  BY <1>8 DEF AfterStartHookFails, MoreHooks
<1>9. ASSUME NEW c \in Caller, ReturnStart(c) PROVE LocalInv'
  BY <1>9 DEF ReturnStart
<1>10. ASSUME NEW c \in Caller, Rollback(c) PROVE LocalInv'
  BY <1>10, BeginStopLocal DEF Rollback
<1>11. ASSUME NEW c \in Caller, RollbackIsNoop(c) PROVE LocalInv'
  BY <1>11 DEF RollbackIsNoop, Stoppable
<1>12. ASSUME NEW c \in Caller, StopsDone(c) PROVE LocalInv'
  BY <1>12 DEF StopsDone, AllStopped
<1>13. ASSUME NEW c \in Caller, AfterStopHook(c) PROVE LocalInv'
  BY <1>13 DEF AfterStopHook, MoreHooks, NextHook
<1>14. ASSUME NEW c \in Caller, FinishStop(c) PROVE LocalInv'
  BY <1>14 DEF FinishStop, Released
<1>15. ASSUME NEW c \in Caller, NEW s \in Service, LaunchService(c, s) PROVE LocalInv'
  BY <1>15, ShapeAssumption DEF LaunchService, Earlier, StageReached
<1>16. ASSUME NEW c \in Caller, NEW s \in Service, StartReturns(c, s) PROVE LocalInv'
  BY <1>16 DEF StartReturns
<1>17. ASSUME NEW c \in Caller, NEW s \in Service, StartFails(c, s) PROVE LocalInv'
  BY <1>17 DEF StartFails
<1>18. ASSUME NEW c \in Caller, NEW s \in Service, RecordStarted(c, s) PROVE LocalInv'
  BY <1>18, ShapeAssumption DEF RecordStarted, Earlier, Published, Recorded
<1>19. ASSUME NEW c \in Caller, NEW s \in Service, RecordPanics(c, s) PROVE LocalInv'
  BY <1>19 DEF RecordPanics
<1>20. ASSUME NEW c \in Caller, NEW e \in Entry, StopService(c, e) PROVE LocalInv'
  BY <1>20 DEF StopService, StopTurn
<1>21. ASSUME NEW c \in Caller, NEW e \in Entry, StopReturns(c, e) PROVE LocalInv'
  BY <1>21 DEF StopReturns
<1> QED
  BY <1>1, <1>2, <1>3, <1>4, <1>5, <1>6, <1>7, <1>8, <1>9, <1>10, <1>11,
     <1>12, <1>13, <1>14, <1>15, <1>16, <1>17, <1>18, <1>19, <1>20, <1>21
  DEF Next, ClientStep, CallStep, ServiceStep, TeardownStep

\* Every step keeps the account of what is up.
LEMMA UpStep ==
  ASSUME IInv, ~StopDuringStart, [Next]_vars
  PROVE  UpInv'
<1>a. \A c \in Caller : (\A t \in Track : TrackDone(c, t))
          => \A s \in Service : gor[c][s] # "ok"
  BY DrainedTrack DEF IInv
<1> USE DEF IInv, TypeOK, LocalInv, ControlInv, UpInv, NoPanic, NoGoroutines,
   StartInProgress, Entry
<1>1. CASE UNCHANGED vars
  BY <1>1 DEF vars
<1>2. ASSUME NEW c \in Caller, BeginStart(c) PROVE UpInv'
  BY <1>2 DEF BeginStart, Startable
<1>3. ASSUME NEW c \in Caller, CancelCtx(c) PROVE UpInv'
  BY <1>3 DEF CancelCtx
<1>4. ASSUME NEW c \in Caller, ClientStop(c) PROVE UpInv'
  BY <1>4 DEF ClientStop, BeginStop, Stoppable
<1>5. ASSUME NEW c \in Caller, TracksSucceeded(c) PROVE UpInv'
  <2>1. \A s \in Service : gor[c][s] = "recorded"
    BY <1>5, ShapeAssumption DEF TracksSucceeded, TrackSucceeded, TracksOk
  <2>2. up = {<<c, s>> : s \in Service} /\ started = {<<c, s>> : s \in Service}
    BY <1>5, <2>1 DEF TracksSucceeded, Entry, TracksOk
  <2>3. \A d \in Caller : pc[d] # "out" => d = c
    BY <1>5 DEF TracksSucceeded, TracksOk
  <2> QED
    BY <1>5, <2>2, <2>3 DEF TracksSucceeded, TracksOk
<1>6. ASSUME NEW c \in Caller, TracksFailed(c) PROVE UpInv'
  <2>1. \A s \in Service : gor[c][s] # "ok"
    BY <1>6, <1>a DEF TracksFailed, TracksDone
  <2>2. up = started
    <3>1. pc[c] = "tracks"
      BY <1>6 DEF TracksFailed, TracksDone
    <3>2. ASSUME NEW d \in Caller, NEW s \in Service
          PROVE  <<d, s>> \in up <=> <<d, s>> \in started
      <4>1. <<d, s>> \in up <=> d = c /\ gor[c][s] \in {"ok", "recorded"}
        BY <3>1
      <4>2. <<d, s>> \in started <=> d = c /\ gor[c][s] = "recorded"
        BY <3>1
      <4> QED
        BY <2>1, <4>1, <4>2
    <3>3. up \in SUBSET Entry /\ started \in SUBSET Entry
      OBVIOUS
    <3> QED
      BY ONLY <3>2, <3>3, SameEntries
  <2>3. \A d \in Caller : pc[d] # "out" => d = c
    BY <1>6 DEF TracksFailed, TracksDone
  <2> QED
    BY <1>6, <2>2, <2>3 DEF TracksFailed, TracksDone
<1>7. ASSUME NEW c \in Caller, AfterStartHook(c) PROVE UpInv'
  BY <1>7 DEF AfterStartHook, MoreHooks, NextHook
<1>8. ASSUME NEW c \in Caller, AfterStartHookFails(c) PROVE UpInv'
  BY <1>8 DEF AfterStartHookFails, MoreHooks
<1>9. ASSUME NEW c \in Caller, ReturnStart(c) PROVE UpInv'
  BY <1>9 DEF ReturnStart
<1>10. ASSUME NEW c \in Caller, Rollback(c) PROVE UpInv'
  BY <1>10 DEF Rollback, BeginStop, Stoppable
<1>11. ASSUME NEW c \in Caller, RollbackIsNoop(c) PROVE UpInv'
  BY <1>11 DEF RollbackIsNoop, Stoppable
<1>12. ASSUME NEW c \in Caller, StopsDone(c) PROVE UpInv'
  <2>1. up = {}
    BY <1>12 DEF StopsDone, AllStopped
  <2>2. \A d \in Caller : pc[d] # "out" => d = c
    BY <1>12 DEF StopsDone, AllStopped
  <2> QED
    BY <1>12, <2>1, <2>2 DEF StopsDone, AllStopped
<1>13. ASSUME NEW c \in Caller, AfterStopHook(c) PROVE UpInv'
  BY <1>13 DEF AfterStopHook, MoreHooks, NextHook
<1>14. ASSUME NEW c \in Caller, FinishStop(c) PROVE UpInv'
  BY <1>14 DEF FinishStop, Released
<1>15. ASSUME NEW c \in Caller, NEW s \in Service, LaunchService(c, s) PROVE UpInv'
  BY <1>15 DEF LaunchService, StageReached
<1>16. ASSUME NEW c \in Caller, NEW s \in Service, StartReturns(c, s) PROVE UpInv'
  BY <1>16 DEF StartReturns
<1>17. ASSUME NEW c \in Caller, NEW s \in Service, StartFails(c, s) PROVE UpInv'
  BY <1>17 DEF StartFails
<1>18. ASSUME NEW c \in Caller, NEW s \in Service, RecordStarted(c, s) PROVE UpInv'
  BY <1>18 DEF RecordStarted, Published, Recorded
<1>19. ASSUME NEW c \in Caller, NEW s \in Service, RecordPanics(c, s) PROVE UpInv'
  BY <1>19 DEF RecordPanics
<1>20. ASSUME NEW c \in Caller, NEW e \in Entry, StopService(c, e) PROVE UpInv'
  BY <1>20 DEF StopService, StopTurn
<1>21. ASSUME NEW c \in Caller, NEW e \in Entry, StopReturns(c, e) PROVE UpInv'
  BY <1>21 DEF StopReturns
<1> QED
  BY <1>1, <1>2, <1>3, <1>4, <1>5, <1>6, <1>7, <1>8, <1>9, <1>10, <1>11,
     <1>12, <1>13, <1>14, <1>15, <1>16, <1>17, <1>18, <1>19, <1>20, <1>21
  DEF Next, ClientStep, CallStep, ServiceStep, TeardownStep

\* Every step keeps the reverse order of the teardown, whatever calls overlap.
LEMMA StopOrderStep ==
  ASSUME TypeOK, LocalInv, StopOrder, [Next]_vars
  PROVE  StopOrder'
<1> USE DEF TypeOK, StopOrder, LocalInv
<1>1. CASE UNCHANGED vars
  BY <1>1 DEF vars
<1>2. ASSUME NEW c \in Caller, BeginStart(c) PROVE StopOrder'
  BY <1>2 DEF BeginStart, Startable
<1>3. ASSUME NEW c \in Caller, CancelCtx(c) PROVE StopOrder'
  BY <1>3 DEF CancelCtx
<1>4. ASSUME NEW c \in Caller, ClientStop(c) PROVE StopOrder'
  BY <1>4 DEF ClientStop, BeginStop, Stoppable
<1>5. ASSUME NEW c \in Caller, TracksSucceeded(c) PROVE StopOrder'
  BY <1>5 DEF TracksSucceeded, TracksOk
<1>6. ASSUME NEW c \in Caller, TracksFailed(c) PROVE StopOrder'
  BY <1>6 DEF TracksFailed, TracksDone
<1>7. ASSUME NEW c \in Caller, AfterStartHook(c) PROVE StopOrder'
  BY <1>7 DEF AfterStartHook, MoreHooks, NextHook
<1>8. ASSUME NEW c \in Caller, AfterStartHookFails(c) PROVE StopOrder'
  BY <1>8 DEF AfterStartHookFails, MoreHooks
<1>9. ASSUME NEW c \in Caller, ReturnStart(c) PROVE StopOrder'
  BY <1>9 DEF ReturnStart
<1>10. ASSUME NEW c \in Caller, Rollback(c) PROVE StopOrder'
  BY <1>10 DEF Rollback, BeginStop, Stoppable
<1>11. ASSUME NEW c \in Caller, RollbackIsNoop(c) PROVE StopOrder'
  BY <1>11 DEF RollbackIsNoop, Stoppable
<1>12. ASSUME NEW c \in Caller, StopsDone(c) PROVE StopOrder'
  BY <1>12 DEF StopsDone, AllStopped
<1>13. ASSUME NEW c \in Caller, AfterStopHook(c) PROVE StopOrder'
  BY <1>13 DEF AfterStopHook, MoreHooks, NextHook
<1>14. ASSUME NEW c \in Caller, FinishStop(c) PROVE StopOrder'
  BY <1>14 DEF FinishStop, Released
<1>15. ASSUME NEW c \in Caller, NEW s \in Service, LaunchService(c, s) PROVE StopOrder'
  BY <1>15 DEF LaunchService, StageReached
<1>16. ASSUME NEW c \in Caller, NEW s \in Service, StartReturns(c, s) PROVE StopOrder'
  BY <1>16 DEF StartReturns
<1>17. ASSUME NEW c \in Caller, NEW s \in Service, StartFails(c, s) PROVE StopOrder'
  BY <1>17 DEF StartFails
<1>18. ASSUME NEW c \in Caller, NEW s \in Service, RecordStarted(c, s) PROVE StopOrder'
  BY <1>18 DEF RecordStarted, Published, Recorded
<1>19. ASSUME NEW c \in Caller, NEW s \in Service, RecordPanics(c, s) PROVE StopOrder'
  BY <1>19 DEF RecordPanics
<1>20. ASSUME NEW c \in Caller, NEW e \in Entry, StopService(c, e) PROVE StopOrder'
  BY <1>20, ShapeAssumption DEF StopService, Later, Entry, StopTurn
<1>21. ASSUME NEW c \in Caller, NEW e \in Entry, StopReturns(c, e) PROVE StopOrder'
  BY <1>21 DEF StopReturns
<1> QED
  BY <1>1, <1>2, <1>3, <1>4, <1>5, <1>6, <1>7, <1>8, <1>9, <1>10, <1>11,
     <1>12, <1>13, <1>14, <1>15, <1>16, <1>17, <1>18, <1>19, <1>20, <1>21
  DEF Next, ClientStep, CallStep, ServiceStep, TeardownStep

\* Every step keeps services standing on their earlier stages.
LEMMA DependenciesStep ==
  ASSUME IInv, ~StopDuringStart, [Next]_vars
  PROVE  DependenciesUp'
<1> USE DEF IInv, TypeOK, DependenciesUp, ControlInv, LocalInv, UpInv, NoGoroutines,
   StartInProgress
<1>1. CASE UNCHANGED vars
  BY <1>1 DEF vars
<1>2. ASSUME NEW c \in Caller, BeginStart(c) PROVE DependenciesUp'
  BY <1>2 DEF BeginStart, Startable
<1>3. ASSUME NEW c \in Caller, CancelCtx(c) PROVE DependenciesUp'
  BY <1>3 DEF CancelCtx
<1>4. ASSUME NEW c \in Caller, ClientStop(c) PROVE DependenciesUp'
  BY <1>4 DEF ClientStop, BeginStop, Stoppable
<1>5. ASSUME NEW c \in Caller, TracksSucceeded(c) PROVE DependenciesUp'
  BY <1>5 DEF TracksSucceeded, TracksOk
<1>6. ASSUME NEW c \in Caller, TracksFailed(c) PROVE DependenciesUp'
  BY <1>6 DEF TracksFailed, TracksDone
<1>7. ASSUME NEW c \in Caller, AfterStartHook(c) PROVE DependenciesUp'
  BY <1>7 DEF AfterStartHook, MoreHooks, NextHook
<1>8. ASSUME NEW c \in Caller, AfterStartHookFails(c) PROVE DependenciesUp'
  BY <1>8 DEF AfterStartHookFails, MoreHooks
<1>9. ASSUME NEW c \in Caller, ReturnStart(c) PROVE DependenciesUp'
  BY <1>9 DEF ReturnStart
<1>10. ASSUME NEW c \in Caller, Rollback(c) PROVE DependenciesUp'
  BY <1>10 DEF Rollback, BeginStop, Stoppable
<1>11. ASSUME NEW c \in Caller, RollbackIsNoop(c) PROVE DependenciesUp'
  BY <1>11 DEF RollbackIsNoop, Stoppable
<1>12. ASSUME NEW c \in Caller, StopsDone(c) PROVE DependenciesUp'
  BY <1>12 DEF StopsDone, AllStopped
<1>13. ASSUME NEW c \in Caller, AfterStopHook(c) PROVE DependenciesUp'
  BY <1>13 DEF AfterStopHook, MoreHooks, NextHook
<1>14. ASSUME NEW c \in Caller, FinishStop(c) PROVE DependenciesUp'
  BY <1>14 DEF FinishStop, Released
<1>15. ASSUME NEW c \in Caller, NEW s \in Service, LaunchService(c, s) PROVE DependenciesUp'
  <2>1. pc[c] = "tracks" /\ pc'[c] = "tracks"
    BY <1>15 DEF LaunchService, NoGoroutines, StageReached
  <2>2. \A p \in Earlier(s) : <<c, p>> \in up
    BY <1>15, <2>1 DEF LaunchService, Earlier, StageReached
  <2> QED
    BY <1>15, <2>1, <2>2 DEF LaunchService, DependenciesUp, StageReached
<1>16. ASSUME NEW c \in Caller, NEW s \in Service, StartReturns(c, s) PROVE DependenciesUp'
  <2>1. pc[c] = "tracks" /\ pc'[c] = "tracks"
    BY <1>16 DEF StartReturns, NoGoroutines
  <2>2. \A p \in Earlier(s) : <<c, p>> \in up
    BY <1>16, <2>1 DEF StartReturns, Earlier
  <2> QED
    BY <1>16, <2>1, <2>2 DEF StartReturns, DependenciesUp
<1>17. ASSUME NEW c \in Caller, NEW s \in Service, StartFails(c, s) PROVE DependenciesUp'
  BY <1>17 DEF StartFails
<1>18. ASSUME NEW c \in Caller, NEW s \in Service, RecordStarted(c, s) PROVE DependenciesUp'
  BY <1>18 DEF RecordStarted, Published, Recorded
<1>19. ASSUME NEW c \in Caller, NEW s \in Service, RecordPanics(c, s) PROVE DependenciesUp'
  BY <1>19 DEF RecordPanics
<1>20. ASSUME NEW c \in Caller, NEW e \in Entry, StopService(c, e) PROVE DependenciesUp'
  BY <1>20 DEF StopService, StopTurn
<1>21. ASSUME NEW c \in Caller, NEW e \in Entry, StopReturns(c, e) PROVE DependenciesUp'
  <2>1. pc[c] = "stopping" /\ up = todo[c] \cup busy[c]
    BY <1>21 DEF StopReturns, LocalInv, UpInv
  <2>2. \A d \in Caller : gor[d] = NoGoroutines
    BY <2>1 DEF ControlInv, LocalInv
  <2>3. ASSUME NEW d \in Caller, NEW t \in Service, <<d, t>> \in up',
               NEW p \in Earlier(t)
        PROVE  <<d, p>> \in up'
    <3>1. <<d, t>> \in up /\ <<d, p>> \in up
      BY <1>21, <2>3 DEF StopReturns, DependenciesUp
    <3>2. t \in Later(p)
      BY <2>3 DEF Earlier, Later
    <3>3. e # <<d, p>>
      BY <1>21, <2>1, <3>1, <3>2 DEF StopReturns, StopOrder
    <3> QED
      BY <1>21, <3>1, <3>3 DEF StopReturns
  <2> QED
    BY <1>21, <2>2, <2>3 DEF StopReturns, DependenciesUp, NoGoroutines
<1> QED
  BY <1>1, <1>2, <1>3, <1>4, <1>5, <1>6, <1>7, <1>8, <1>9, <1>10, <1>11,
     <1>12, <1>13, <1>14, <1>15, <1>16, <1>17, <1>18, <1>19, <1>20, <1>21
  DEF Next, ClientStep, CallStep, ServiceStep, TeardownStep

\* Every step keeps the properties of what is recorded.
LEMMA PropsStep ==
  ASSUME IInv, ~StopDuringStart, [Next]_vars
  PROVE  PropsInv'
<1> USE DEF IInv, TypeOK, PropsInv, ControlInv, LocalInv, NoGoroutines, StartInProgress
<1>1. CASE UNCHANGED vars
  BY <1>1 DEF vars
<1>2. ASSUME NEW c \in Caller, BeginStart(c) PROVE PropsInv'
  BY <1>2 DEF BeginStart, Startable
<1>3. ASSUME NEW c \in Caller, CancelCtx(c) PROVE PropsInv'
  BY <1>3 DEF CancelCtx
<1>4. ASSUME NEW c \in Caller, ClientStop(c) PROVE PropsInv'
  BY <1>4 DEF ClientStop, BeginStop, Stoppable
<1>5. ASSUME NEW c \in Caller, TracksSucceeded(c) PROVE PropsInv'
  BY <1>5 DEF TracksSucceeded, TracksOk
<1>6. ASSUME NEW c \in Caller, TracksFailed(c) PROVE PropsInv'
  BY <1>6 DEF TracksFailed, TracksDone
<1>7. ASSUME NEW c \in Caller, AfterStartHook(c) PROVE PropsInv'
  BY <1>7 DEF AfterStartHook, MoreHooks, NextHook
<1>8. ASSUME NEW c \in Caller, AfterStartHookFails(c) PROVE PropsInv'
  BY <1>8 DEF AfterStartHookFails, MoreHooks
<1>9. ASSUME NEW c \in Caller, ReturnStart(c) PROVE PropsInv'
  BY <1>9 DEF ReturnStart
<1>10. ASSUME NEW c \in Caller, Rollback(c) PROVE PropsInv'
  BY <1>10 DEF Rollback, BeginStop, Stoppable
<1>11. ASSUME NEW c \in Caller, RollbackIsNoop(c) PROVE PropsInv'
  BY <1>11 DEF RollbackIsNoop, Stoppable
<1>12. ASSUME NEW c \in Caller, StopsDone(c) PROVE PropsInv'
  BY <1>12 DEF StopsDone, AllStopped
<1>13. ASSUME NEW c \in Caller, AfterStopHook(c) PROVE PropsInv'
  BY <1>13 DEF AfterStopHook, MoreHooks, NextHook
<1>14. ASSUME NEW c \in Caller, FinishStop(c) PROVE PropsInv'
  BY ZenonT(30), <1>14 DEF FinishStop, Released
<1>15. ASSUME NEW c \in Caller, NEW s \in Service, LaunchService(c, s) PROVE PropsInv'
  BY <1>15 DEF LaunchService, StageReached
<1>16. ASSUME NEW c \in Caller, NEW s \in Service, StartReturns(c, s) PROVE PropsInv'
  BY <1>16 DEF StartReturns
<1>17. ASSUME NEW c \in Caller, NEW s \in Service, StartFails(c, s) PROVE PropsInv'
  BY <1>17 DEF StartFails
<1>18. ASSUME NEW c \in Caller, NEW s \in Service, RecordStarted(c, s) PROVE PropsInv'
  BY <1>18, ShapeAssumption DEF RecordStarted, Entry, Published, Recorded
<1>19. ASSUME NEW c \in Caller, NEW s \in Service, RecordPanics(c, s) PROVE PropsInv'
  BY <1>19 DEF RecordPanics
<1>20. ASSUME NEW c \in Caller, NEW e \in Entry, StopService(c, e) PROVE PropsInv'
  BY <1>20 DEF StopService, StopTurn
<1>21. ASSUME NEW c \in Caller, NEW e \in Entry, StopReturns(c, e) PROVE PropsInv'
  BY <1>21 DEF StopReturns
<1> QED
  BY <1>1, <1>2, <1>3, <1>4, <1>5, <1>6, <1>7, <1>8, <1>9, <1>10, <1>11,
     <1>12, <1>13, <1>14, <1>15, <1>16, <1>17, <1>18, <1>19, <1>20, <1>21
  DEF Next, ClientStep, CallStep, ServiceStep, TeardownStep

-----------------------------------------------------------------------------
\* The inductive invariant and what follows from it.

\* A new env satisfies the invariant.
LEMMA InitInv == Init => IInv
<1> SUFFICES ASSUME Init PROVE IInv
  OBVIOUS
<1> USE DEF Init
<1>1. TypeOK
  <2>1. hook \in [Caller -> 0 .. NumHooks]
    BY HooksAssumption
  <2>2. gor \in [Caller -> [Service -> {"idle", "starting", "ok", "recorded", "failed"}]]
    BY DEF NoGoroutines
  <2>3. /\ properties \in [Key -> EntryOrNone]
        /\ snapshot \in [Caller -> [Key -> EntryOrNone]]
    BY DEF EntryOrNone, NoProperties
  <2> QED
    BY <2>1, <2>2, <2>3 DEF TypeOK
<1>2. ControlInv /\ LocalInv /\ UpInv /\ PropsInv
  BY DEF ControlInv, LocalInv, UpInv, PropsInv, NoPanic, NoGoroutines
<1>3. StopOrder /\ DependenciesUp
  BY DEF StopOrder, DependenciesUp, NoGoroutines
<1> QED
  BY <1>1, <1>2, <1>3 DEF IInv

\* The invariant is inductive.
LEMMA StepInv ==
  ASSUME IInv, ~StopDuringStart, [Next]_vars
  PROVE  IInv'
BY TypeOKStep, ControlStep, LocalStep, UpStep, StopOrderStep, DependenciesStep,
   PropsStep DEF IInv

\* Clients that do not overlap Stop with Start keep the engine in IInv.
THEOREM Invariance == ASSUME ~StopDuringStart PROVE Spec => []IInv
<1>1. Init => IInv
  BY InitInv
<1>2. IInv /\ [Next]_vars => IInv'
  BY StepInv
<1> QED
  BY <1>1, <1>2, PTL DEF Spec

\* The invariant implies the safety properties of Env.
LEMMA InvSafety ==
  ASSUME IInv
  PROVE  /\ AllocatedIffNotIdle /\ NoLeak /\ DependenciesVisible
         /\ RunningIsComplete /\ StopsOnlyStarted /\ TeardownIsExclusive
         /\ AfterStopSeesRun /\ NoPanic
<1> USE DEF IInv
<1>1. AllocatedIffNotIdle /\ NoLeak /\ NoPanic
  BY DEF ControlInv, UpInv, AllocatedIffNotIdle, NoLeak
<1>2. DependenciesVisible
  <2> SUFFICES ASSUME NEW c \in Caller, NEW s \in Service, gor[c][s] = "starting",
                      NEW p \in Earlier(s), NEW k \in Publishes[p]
               PROVE  properties[k] \in {<<c, q>> : q \in Service}
    BY DEF DependenciesVisible
  <2>1. pc[c] = "tracks" /\ gor[c][p] = "recorded" /\ p \in Service
    BY DEF LocalInv, NoGoroutines, Earlier
  <2>2. <<c, p>> \in started /\ started \subseteq Caller \X Service
    BY <2>1 DEF UpInv, TypeOK, Entry
  <2>3. properties[k] \in started
    BY <2>2 DEF PropsInv
  <2> QED
    BY <2>1, <2>2, <2>3 DEF UpInv
<1>3. RunningIsComplete
  <2>1. ASSUME state = "running"
        PROVE  \E c \in Caller :
                  /\ started = {<<c, s>> : s \in Service}
                  /\ up = started
                  /\ \A s \in Service : \A k \in Publishes[s] : properties[k] \in started
    <3>1. PICK c \in Caller : started = {<<c, s>> : s \in Service}
      BY <2>1 DEF UpInv
    <3>2. \A s \in Service : <<c, s>> \in started /\ <<c, s>>[2] = s
      BY <3>1
    <3>3. \A s \in Service : \A k \in Publishes[s] : properties[k] \in started
      BY <3>2 DEF PropsInv
    <3> QED
      BY <2>1, <3>1, <3>3 DEF UpInv
  <2> QED
    BY <2>1 DEF RunningIsComplete, ControlInv, PropsInv
<1>4. StopsOnlyStarted
  BY DEF StopsOnlyStarted, ControlInv, LocalInv, UpInv, TypeOK
<1>5. TeardownIsExclusive
  BY DEF TeardownIsExclusive, ControlInv
<1>6. AfterStopSeesRun
  BY DEF AfterStopSeesRun, UpInv, PropsInv
<1> QED
  BY <1>1, <1>2, <1>3, <1>4, <1>5, <1>6

\* The maps of the env are allocated exactly while it is not idle.
THEOREM AllocationCorrect == ASSUME ~StopDuringStart PROVE Spec => []AllocatedIffNotIdle
BY InvSafety, Invariance, PTL

\* No Stop and no failed Start leaves a service up behind an idle env.
THEOREM NeverLeaks == ASSUME ~StopDuringStart PROVE Spec => []NoLeak
BY InvSafety, Invariance, PTL

\* A service is up or starting only on top of its earlier stages.
THEOREM StagesRespected == ASSUME ~StopDuringStart PROVE Spec => []DependenciesUp
<1>1. IInv => DependenciesUp
  BY DEF IInv
<1> QED
  BY <1>1, Invariance, PTL

\* A service that starts reads what its earlier stages published this run.
THEOREM PropertiesVisible == ASSUME ~StopDuringStart PROVE Spec => []DependenciesVisible
BY InvSafety, Invariance, PTL

\* A running env has every service up and every key published.
THEOREM RunningComplete == ASSUME ~StopDuringStart PROVE Spec => []RunningIsComplete
BY InvSafety, Invariance, PTL

\* Stop is called once for each started service and for no other.
THEOREM StopsCorrect == ASSUME ~StopDuringStart PROVE Spec => []StopsOnlyStarted
BY InvSafety, Invariance, PTL

\* Nobody else is inside the env during a teardown.
THEOREM TeardownExclusive == ASSUME ~StopDuringStart PROVE Spec => []TeardownIsExclusive
BY InvSafety, Invariance, PTL

\* AfterStop hooks find everything down and the run's properties intact.
THEOREM AfterStopCorrect == ASSUME ~StopDuringStart PROVE Spec => []AfterStopSeesRun
BY InvSafety, Invariance, PTL

\* No goroutine ever writes to the maps a Stop has taken away.
THEOREM NeverPanics == ASSUME ~StopDuringStart PROVE Spec => []NoPanic
BY InvSafety, Invariance, PTL

\* A service finds what it depends on, itself and its properties.
THEOREM DependenciesHold == ASSUME ~StopDuringStart PROVE Spec => []Dependencies
BY StagesRespected, PropertiesVisible, PTL DEF Dependencies

\* Hooks find the env complete after Start, and all down after Stop.
THEOREM HooksCorrect == ASSUME ~StopDuringStart PROVE Spec => []HooksSeeRun
BY RunningComplete, AfterStopCorrect, PTL DEF HooksSeeRun

-----------------------------------------------------------------------------
\* What holds even when Stop overlaps a Start.

\* Every variable keeps its type.
THEOREM TypeCorrect == Spec => []TypeOK
<1>1. Init => TypeOK
  BY InitInv DEF IInv
<1>2. TypeOK /\ [Next]_vars => TypeOK'
  BY TypeOKStep
<1> QED
  BY <1>1, <1>2, PTL DEF Spec

\* Calls may overlap, but no stopper has met a Start that brings its tracks up:
\* the caller that does either has the services for itself, and a Start in
\* its hooks or about to roll back left only recorded services up.
OverlapInv ==
    /\ TypeOK
    /\ LocalInv
    /\ NoPanic
    /\ alloc <=> state # "idle"
    /\ \A c, d \in Caller :
        /\ pc[c] \in {"tracks", "stopping", "afterStop"}
        /\ pc[d] \in {"tracks", "stopping", "afterStop"}
        => c = d
    /\ state = "idle" => up = {}
    /\ state \in {"starting", "running"} /\ (\A c \in Caller : pc[c] # "tracks")
        => up = started
    /\ \A c \in Caller :
        /\ pc[c] = "tracks" =>
            /\ state = "starting"
            /\ \A d \in Caller, s \in Service :
                /\ <<d, s>> \in up <=> d = c /\ gor[c][s] \in {"ok", "recorded"}
                /\ <<d, s>> \in started <=> d = c /\ gor[c][s] = "recorded"
        /\ pc[c] = "stopping" => state = "stopping" /\ up = todo[c] \cup busy[c]
        /\ pc[c] = "afterStop" => state = "stopping" /\ up = {}

\* A Stop that begins takes over all that is up, unless it crosses a Start.
LEMMA BeginStopOverlap ==
  ASSUME OverlapInv, NEW c \in Caller, BeginStop(c), pc[c] \in {"out", "rollback"},
         ~Crossed'
  PROVE  OverlapInv'
<1>1. /\ state \in {"running", "starting"} /\ state' = "stopping"
      /\ pc' = [pc EXCEPT ![c] = "stopping"]
      /\ todo' = [todo EXCEPT ![c] = started]
      /\ UNCHANGED <<alloc, properties, started, gor, hook, snapshot, cancelled, busy, up>>
  BY DEF BeginStop, Stoppable
<1>2. /\ pc \in [Caller -> {"out", "tracks", "afterStart", "rollback",
                          "stopping", "afterStop", "dead"}]
      /\ todo \in [Caller -> SUBSET Entry]
  BY DEF OverlapInv, TypeOK
<1>3. \A d \in Caller : pc[d] \notin {"tracks", "stopping", "afterStop"}
  BY <1>1, <1>2 DEF OverlapInv, Crossed
<1>4. up = started /\ busy[c] = {}
  BY <1>1, <1>3 DEF OverlapInv, LocalInv
<1>5. TypeOK'
  BY <1>1 DEF OverlapInv, TypeOK
<1>6. LocalInv'
  BY BeginStopLocal DEF OverlapInv
<1> QED
  BY <1>1, <1>2, <1>3, <1>4, <1>5, <1>6 DEF OverlapInv, NoPanic

\* Every step that crosses nothing keeps the account.
LEMMA OverlapStep ==
  ASSUME OverlapInv, ~Crossed', [Next]_vars
  PROVE  OverlapInv'
<1>t. TypeOK' /\ LocalInv'
  BY TypeOKStep, LocalStep DEF OverlapInv
<1>a. \A c \in Caller : (\A t \in Track : TrackDone(c, t))
          => \A s \in Service : gor[c][s] # "ok"
  BY DrainedTrack DEF OverlapInv
<1> USE <1>t DEF OverlapInv, TypeOK, LocalInv, NoPanic, NoGoroutines, Entry
<1>1. CASE UNCHANGED vars
  BY <1>1 DEF vars
<1>2. ASSUME NEW c \in Caller, BeginStart(c) PROVE OverlapInv'
  BY <1>2 DEF BeginStart, Startable
<1>3. ASSUME NEW c \in Caller, CancelCtx(c) PROVE OverlapInv'
  BY <1>3 DEF CancelCtx
<1>4. ASSUME NEW c \in Caller, ClientStop(c) PROVE OverlapInv'
  BY <1>4, BeginStopOverlap DEF ClientStop
<1>5. ASSUME NEW c \in Caller, TracksSucceeded(c) PROVE OverlapInv'
  <2>1. \A s \in Service : gor[c][s] = "recorded"
    BY <1>5, ShapeAssumption DEF TracksSucceeded, TrackSucceeded, TracksOk
  <2>2. up = {<<c, s>> : s \in Service} /\ started = {<<c, s>> : s \in Service}
    BY <1>5, <2>1 DEF TracksSucceeded, Entry, TracksOk
  <2> QED
    BY <1>5, <2>2 DEF TracksSucceeded, TracksOk
<1>6. ASSUME NEW c \in Caller, TracksFailed(c) PROVE OverlapInv'
  <2>1. \A s \in Service : gor[c][s] # "ok"
    BY <1>6, <1>a DEF TracksFailed, TracksDone
  <2>2. up = started
    <3>1. pc[c] = "tracks"
      BY <1>6 DEF TracksFailed, TracksDone
    <3>2. ASSUME NEW d \in Caller, NEW s \in Service
          PROVE  <<d, s>> \in up <=> <<d, s>> \in started
      <4>1. <<d, s>> \in up <=> d = c /\ gor[c][s] \in {"ok", "recorded"}
        BY <3>1
      <4>2. <<d, s>> \in started <=> d = c /\ gor[c][s] = "recorded"
        BY <3>1
      <4> QED
        BY <2>1, <4>1, <4>2
    <3>3. up \in SUBSET Entry /\ started \in SUBSET Entry
      OBVIOUS
    <3> QED
      BY ONLY <3>2, <3>3, SameEntries
  <2> QED
    BY <1>6, <2>2 DEF TracksFailed, TracksDone
<1>7. ASSUME NEW c \in Caller, AfterStartHook(c) PROVE OverlapInv'
  BY <1>7 DEF AfterStartHook, MoreHooks, NextHook
<1>8. ASSUME NEW c \in Caller, AfterStartHookFails(c) PROVE OverlapInv'
  BY <1>8 DEF AfterStartHookFails, MoreHooks
<1>9. ASSUME NEW c \in Caller, ReturnStart(c) PROVE OverlapInv'
  BY <1>9 DEF ReturnStart
<1>10. ASSUME NEW c \in Caller, Rollback(c) PROVE OverlapInv'
  BY <1>10, BeginStopOverlap DEF Rollback
<1>11. ASSUME NEW c \in Caller, RollbackIsNoop(c) PROVE OverlapInv'
  BY <1>11 DEF RollbackIsNoop, Stoppable
<1>12. ASSUME NEW c \in Caller, StopsDone(c) PROVE OverlapInv'
  BY <1>12 DEF StopsDone, AllStopped
<1>13. ASSUME NEW c \in Caller, AfterStopHook(c) PROVE OverlapInv'
  BY <1>13 DEF AfterStopHook, MoreHooks, NextHook
<1>14. ASSUME NEW c \in Caller, FinishStop(c) PROVE OverlapInv'
  BY <1>14 DEF FinishStop, Released
<1>15. ASSUME NEW c \in Caller, NEW s \in Service, LaunchService(c, s) PROVE OverlapInv'
  BY <1>15 DEF LaunchService, StageReached
<1>16. ASSUME NEW c \in Caller, NEW s \in Service, StartReturns(c, s) PROVE OverlapInv'
  BY <1>16 DEF StartReturns
<1>17. ASSUME NEW c \in Caller, NEW s \in Service, StartFails(c, s) PROVE OverlapInv'
  BY <1>17 DEF StartFails
<1>18. ASSUME NEW c \in Caller, NEW s \in Service, RecordStarted(c, s) PROVE OverlapInv'
  <2>1. /\ gor' = [gor EXCEPT ![c][s] = "recorded"] /\ gor[c][s] = "ok"
        /\ started' = started \cup {<<c, s>>}
        /\ UNCHANGED <<state, alloc, pc, todo, busy, up>>
    BY <1>18 DEF RecordStarted, Recorded
  <2>2. pc[c] = "tracks" /\ state = "starting"
    BY <2>1
  <2>3. \A d \in Caller : pc[d] \in {"tracks", "stopping", "afterStop"} => d = c
    BY <2>2
  <2>4. \A t \in Service : gor'[c][t] = IF t = s THEN "recorded" ELSE gor[c][t]
    BY <2>1
  <2>5. ASSUME NEW d \in Caller, NEW t \in Service
        PROVE  /\ <<d, t>> \in up' <=> d = c /\ gor'[c][t] \in {"ok", "recorded"}
               /\ <<d, t>> \in started' <=> d = c /\ gor'[c][t] = "recorded"
    <3>1. /\ <<d, t>> \in up <=> d = c /\ gor[c][t] \in {"ok", "recorded"}
          /\ <<d, t>> \in started <=> d = c /\ gor[c][t] = "recorded"
      BY <2>2
    <3>2. <<d, t>> = <<c, s>> <=> d = c /\ t = s
      OBVIOUS
    <3> QED
      BY <2>1, <2>4, <3>1, <3>2
  <2> QED
    BY <1>t, <2>1, <2>2, <2>3, <2>5
<1>19. ASSUME NEW c \in Caller, NEW s \in Service, RecordPanics(c, s) PROVE OverlapInv'
  BY <1>19 DEF RecordPanics
<1>20. ASSUME NEW c \in Caller, NEW e \in Entry, StopService(c, e) PROVE OverlapInv'
  BY <1>20 DEF StopService, StopTurn
<1>21. ASSUME NEW c \in Caller, NEW e \in Entry, StopReturns(c, e) PROVE OverlapInv'
  BY <1>21 DEF StopReturns
<1> QED
  BY <1>1, <1>2, <1>3, <1>4, <1>5, <1>6, <1>7, <1>8, <1>9, <1>10, <1>11,
     <1>12, <1>13, <1>14, <1>15, <1>16, <1>17, <1>18, <1>19, <1>20, <1>21
  DEF Next, ClientStep, CallStep, ServiceStep, TeardownStep

\* Whatever else overlaps, nothing is left up, stopped twice or made to panic
\* before a stopper is at work while a Start brings its tracks up.
THEOREM OverlapHarmless == Spec => OverlapIsSafe
<1>1. Init => OverlapInv
  <2>1. ASSUME Init PROVE TypeOK /\ LocalInv
    BY <2>1, InitInv DEF IInv
  <2> QED
    BY <2>1 DEF Init, OverlapInv, NoPanic
<1>2. OverlapInv /\ (~Crossed)' /\ [Next]_vars => OverlapInv'
  BY OverlapStep
<1>3. OverlapInv => Harmless
  BY DEF OverlapInv, Harmless, NoLeak, StopsOnlyStarted, NoPanic, LocalInv, TypeOK
<1> QED
  BY <1>1, <1>2, <1>3, PTL DEF Spec, OverlapIsSafe

-----------------------------------------------------------------------------
\* Refinement.

\* A new env is a new abstract env.
LEMMA InitRefines == Init => Abstract!Init
BY DEF Init, Abstract!Init, UpServices

\* Every step is a step of the abstract life cycle, or none.
LEMMA StepRefines ==
  ASSUME IInv, ~StopDuringStart, [Next]_vars
  PROVE  [Abstract!Next]_(Abstract!vars)
<1> USE DEF IInv
<1>1. CASE UNCHANGED vars
  BY <1>1 DEF vars, Abstract!vars, UpServices
<1>2. ASSUME NEW c \in Caller, BeginStart(c) PROVE Abstract!Next
  BY <1>2 DEF BeginStart, Startable, Abstract!Next, Abstract!Begin, UpServices
<1>3. ASSUME NEW c \in Caller, ClientStop(c) \/ Rollback(c) PROVE Abstract!Next
  BY <1>3 DEF ClientStop, Rollback, BeginStop, Abstract!Next, Abstract!TearDown,
     UpServices, Stoppable
<1>4. ASSUME NEW c \in Caller, TracksSucceeded(c) PROVE Abstract!Next
  <2>1. \A s \in Service : gor[c][s] = "recorded"
    BY <1>4, ShapeAssumption DEF TracksSucceeded, TrackSucceeded, TracksOk
  <2>2. \A s \in Service : <<c, s>> \in up
    BY <1>4, <2>1 DEF TracksSucceeded, UpInv, TracksOk
  <2>3. UpServices = Service /\ UpServices' = UpServices
    BY <1>4, <2>2 DEF TracksSucceeded, UpServices, TracksOk
  <2>4. state = "starting"
    BY <1>4 DEF TracksSucceeded, ControlInv, TracksOk
  <2> QED
    BY <1>4, <2>3, <2>4 DEF TracksSucceeded, Abstract!Next, Abstract!Ready, TracksOk
<1>5. ASSUME NEW c \in Caller, FinishStop(c) PROVE Abstract!Next
  BY <1>5 DEF FinishStop, Abstract!Next, Abstract!Done, UpServices, UpInv, ControlInv,
     Released
<1>6. ASSUME NEW c \in Caller, NEW s \in Service, StartReturns(c, s) PROVE Abstract!Next
  <2>1. pc[c] = "tracks" /\ state = "starting"
    BY <1>6 DEF StartReturns, LocalInv, ControlInv, NoGoroutines
  <2>2. \A d \in Caller : <<d, s>> \notin up
    BY <1>6, <2>1 DEF StartReturns, UpInv
  <2>3. Abstract!Earlier(s) \subseteq UpServices
    BY <1>6 DEF StartReturns, LocalInv, UpServices, Abstract!Earlier, Earlier, UpInv,
       NoGoroutines
  <2>4. UpServices' = UpServices \cup {s}
    BY <1>6 DEF StartReturns, UpServices
  <2> QED
    BY <1>6, <2>1, <2>2, <2>3, <2>4
    DEF StartReturns, Abstract!Next, Abstract!BringUp, UpServices
<1>7. ASSUME NEW c \in Caller, NEW e \in Entry, StopReturns(c, e) PROVE Abstract!Next
  <2>1. PICK d \in Caller, s \in Service : e = <<d, s>>
    BY DEF Entry
  <2>2. pc[c] = "stopping" /\ state = "stopping" /\ up = todo[c] \cup busy[c]
    BY <1>7 DEF StopReturns, LocalInv, ControlInv, UpInv
  <2>3. \A t \in Later(s) : \A f \in Caller : <<f, t>> \notin up
    BY <1>7, <2>1, <2>2 DEF StopReturns, StopOrder
  <2>4. UpServices' = UpServices \ {s}
    BY ZenonT(30), <1>7, <2>1, <2>2 DEF StopReturns, UpServices, UpInv
  <2>5. s \in UpServices
    BY <1>7, <2>1, <2>2 DEF StopReturns, UpServices
  <2>6. Abstract!Later(s) \cap UpServices = {}
    BY <2>3 DEF Abstract!Later, Later, UpServices
  <2> QED
    BY <1>7, <2>2, <2>4, <2>5, <2>6 DEF StopReturns, Abstract!Next, Abstract!TakeDown,
       UpServices
<1>8. ASSUME NEW c \in Caller,
             \/ CancelCtx(c) \/ TracksFailed(c) \/ AfterStartHook(c)
             \/ AfterStartHookFails(c) \/ ReturnStart(c) \/ RollbackIsNoop(c)
             \/ StopsDone(c) \/ AfterStopHook(c)
             \/ \E s \in Service : LaunchService(c, s) \/ StartFails(c, s)
                                     \/ RecordStarted(c, s)
             \/ \E e \in Entry : StopService(c, e)
      PROVE  UNCHANGED Abstract!vars
  BY <1>8 DEF CancelCtx, TracksFailed, AfterStartHook, AfterStartHookFails, ReturnStart,
     RollbackIsNoop, StopsDone, AfterStopHook, LaunchService, StartFails, RecordStarted,
     StopService, Abstract!vars, UpServices, StageReached, Published, Recorded,
     TracksDone, MoreHooks, NextHook, Stoppable, StopTurn, AllStopped
<1>9. ASSUME NEW c \in Caller, NEW s \in Service, RecordPanics(c, s) PROVE FALSE
  BY <1>9 DEF RecordPanics, ControlInv, LocalInv, NoGoroutines
<1> QED
  BY <1>1, <1>2, <1>3, <1>4, <1>5, <1>6, <1>7, <1>8, <1>9
  DEF Next, ClientStep, CallStep, ServiceStep, TeardownStep

\* The engine implements the safety part of the abstract life cycle.
THEOREM Refinement == ASSUME ~StopDuringStart PROVE Spec => Abstract!Spec
<1>1. Init => Abstract!Init
  BY InitRefines
<1>2. IInv /\ [Next]_vars => [Abstract!Next]_(Abstract!vars)
  BY StepRefines
<1> QED
  BY <1>1, <1>2, Invariance, PTL DEF Spec, Abstract!Spec

=============================================================================
