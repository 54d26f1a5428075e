SPECIFICATION Spec
CONSTANTS
    svc_a = svc_a
    svc_b = svc_b
    svc_c = svc_c
    svc_d = svc_d
    track_1 = track_1
    track_2 = track_2
    key_1 = key_1
    key_2 = key_2
    key_3 = key_3
    None = None
    Service <- SmallService
    Track <- SmallTrack
    TrackOf <- SmallTrackOf
    StageOf <- SmallStageOf
    NameOf <- SmallNameOf
    Key <- SmallKey
    Publishes <- SmallPublishes
    NumHooks = 1
    Caller = {c1, c2}
    Blocking = {}
    StopDuringStart = TRUE
CHECK_DEADLOCK FALSE
INVARIANTS
    NothingLeftBehind
