SPECIFICATION FairSpec
CONSTANTS
    Request = {r1}
    Rounds = 3
    LateTests = 3
CHECK_DEADLOCK FALSE
PROPERTIES
    FailsOnlyIfLate
    TestsEnd
