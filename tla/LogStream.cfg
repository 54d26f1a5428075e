SPECIFICATION FairSpec
CONSTANTS
    Streams = {"stdout", "stderr"}
    Writes <- MCWrites
    MaxLine = 2
    BaseBackoff = 3
    MaxBackoff = 8
    Behind = 1
    Ahead = 1
    SameInstant = 1
    MaxLog = 3
    MaxReopens = 2
INVARIANTS
    TypeOK
    LinesMatchBytes
    RepeatsBounded
    MissedOnlyBetween
    BackoffMatchesIdling
PROPERTIES
    ImplementsSupervisor
CHECK_DEADLOCK FALSE
