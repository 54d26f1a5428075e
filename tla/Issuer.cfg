SPECIFICATION FairSpec
CONSTANTS
    Request = {r1, r2}
    CodeTTL = 1
    RefreshTTL = 1
    Second = 1
    ShutdownMayEnd = FALSE
    MaxRuns = 2
    MaxCodes = 1
    MaxTokens = 2
    MaxTime = 2
CHECK_DEADLOCK FALSE
INVARIANTS
    TypeOK
    OneBearer
    GrantsStayInRun
    StoredTokensVerify
PROPERTIES
    SpentStaysSpent
    CodeSurvivesMismatch
    EverythingEnds
