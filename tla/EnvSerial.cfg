SPECIFICATION FairSpec
CONSTANTS
    svc_a = svc_a
    svc_b = svc_b
    svc_c = svc_c
    svc_d = svc_d
    track_1 = track_1
    track_2 = track_2
    key_1 = key_1
    key_2 = key_2
    key_3 = key_3
    None = None
    Service <- MCService
    Track <- MCTrack
    TrackOf <- MCTrackOf
    StageOf <- MCStageOf
    NameOf <- MCNameOf
    Key <- MCKey
    Publishes <- MCPublishes
    NumHooks = 2
    Caller = {c1, c2}
    Blocking <- MCBlocking
    StopDuringStart = FALSE
INVARIANTS
    TypeOK
    Dependencies
    HooksSeeRun
    StopsOnlyStarted
    NoPanic
PROPERTIES
    CallsReturn
    FailFast
    ImplementsLifecycle
