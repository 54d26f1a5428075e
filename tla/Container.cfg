SPECIFICATION FairSpec
CONSTANTS
    MayHang = {2}
    MaxContainers = 3
CHECK_DEADLOCK FALSE
INVARIANTS
    TypeOK
    LeftOnlyByFailure
    StreamIsOwn
PROPERTIES
    CallsReturn
