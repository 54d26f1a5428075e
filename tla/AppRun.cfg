SPECIFICATION FairSpec
CONSTANTS
    User = {alice, bob}
    Key = {k1}
    Request = {r1}
    Unlucky = {2}
    MaxSaves = 2
    MaxAnswer = 1
CHECK_DEADLOCK FALSE
INVARIANTS
    RowsAreOwn
    HandlersAreServed
PROPERTIES
    NoStaleOverwrite
    RunReturns
    AcceptedIsStored
