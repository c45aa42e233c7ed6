SPECIFICATION MCSpec
CONSTANTS
    Conns = {c1}
    Publishers = {p1}
    Channels = {x, y}
    Oversized = {}
    Forbidden = {}
    Frames <- MCFrames
    Requests <- MCRequests
    MayRead <- MCMayRead
    SendQueue = 2
    MaxSubscriptions = 1
    MaxConnections = 1
    MaxConsecutiveDrops = 2
    MaxVersion = 2
    NoConn = NoConn
    NoFrame = NoFrame
    MaxFrames = 3
    MaxList = 1
SYMMETRY ChannelSymmetry
INVARIANTS
    ServerTypeOK
    NoGap
PROPERTY EnqueueHonest
CHECK_DEADLOCK FALSE
