CONSTANTS
    r1 = r1
    r2 = r2
    r3 = r3
    Requests = {r1, r2}
    Args <- StringArgs
    Key <- StringKey
    TTL = 1
    Width = 32
    MaxTime = 0
    MaxBack = 0
SPECIFICATION Spec
INVARIANT OwnResult
CHECK_DEADLOCK FALSE
