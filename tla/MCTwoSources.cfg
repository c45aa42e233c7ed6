SPECIFICATION SourceSpec
CONSTANTS
    Sources = {t1, t2}
    RingSize = 1
    Undecodable = {}
    Big = {}
    MaxWrites = 1
    MaxClones = 2
PROPERTY AllSourcesStop
CHECK_DEADLOCK FALSE
