SPECIFICATION FairSpec
CONSTANTS
    Client = {c1, c2}
    MaxCycles = 3
CHECK_DEADLOCK FALSE
INVARIANTS
    AtMostOneLive
    NoOrphan
    NoContextLeak
PROPERTIES
    DrainsAfterTerminate
