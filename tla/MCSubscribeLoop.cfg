SPECIFICATION Spec
CONSTANTS
    Channels = {a, b, c, d}
    MaxSubscriptions = 2
    MaxList = 4
INVARIANTS
    LoopAgrees
    RefusedOnlyWhenFull
CHECK_DEADLOCK FALSE
