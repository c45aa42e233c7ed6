SPECIFICATION SourceSpec
CONSTANTS
    Sources = {t1, t2}
    RingSize = 2
    Undecodable = {2}
    Big = {3}
    MaxWrites = 5
    MaxClones = 2
INVARIANTS
    SourceTypeOK
    NoSilentGap
    HeldServerLives
PROPERTY DropStops
CHECK_DEADLOCK FALSE
