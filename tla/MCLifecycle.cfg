SPECIFICATION MCSpec
CONSTANTS
    Conns = {c1, c2, c3}
    Publishers = {p1}
    Channels = {x}
    Oversized = {}
    Forbidden = {x}
    Frames <- MCFrames
    Requests <- MCRequests
    MayRead <- MCMayRead
    SendQueue = 1
    MaxSubscriptions = 1
    MaxConnections = 2
    MaxConsecutiveDrops = 1
    MaxVersion = 1
    NoConn = NoConn
    NoFrame = NoFrame
    MaxFrames = 1
    MaxList = 1
SYMMETRY ConnSymmetry
INVARIANTS
    PlacesConserved
    SessionRegistered
    NothingUnauthorised
CHECK_DEADLOCK FALSE
