SPECIFICATION Spec
CONSTANTS
    User = {alice}
    Key = {k1}
    Request = {r1}
    Unlucky = {}
    MaxSaves = 1
    MaxAnswer = 1
CHECK_DEADLOCK FALSE
INVARIANT
    EnvTakenDown
