SPECIFICATION Spec
CONSTANTS
    pg = pg
    mock = mock
    dep = dep
    custom = custom
    track_1 = track_1
    track_2 = track_2
    Service <- MCService
    Track <- MCTrack
    TrackOf <- MCTrackOf
    StageOf <- MCStageOf
    Height <- MCHeight
    Container <- MCContainer
    Faulty = {mock}
    CtxMayEnd = FALSE
    MaxRounds = 2
CHECK_DEADLOCK FALSE
INVARIANTS
    HealthyAreReleased
