CONSTANTS
    r1 = r1
    r2 = r2
    r3 = r3
    Requests = {r1, r2, r3}
    Args <- IntArgs
    Key <- IntKey
    TTL = 1
    Width = 32
    MaxTime = 3
    MaxBack = 1
SYMMETRY Symmetry
SPECIFICATION Spec
INVARIANTS HitIsFresh WholeEntries OwnResult
CHECK_DEADLOCK FALSE
