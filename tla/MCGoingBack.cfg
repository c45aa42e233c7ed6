SPECIFICATION MCSpec
CONSTANTS
    Conns = {c1}
    Publishers = {p1}
    Channels = {x}
    Oversized = {}
    Forbidden = {}
    Frames <- MCFrames
    Requests <- MCRequests
    MayRead <- MCMayRead
    SendQueue = 3
    MaxSubscriptions = 1
    MaxConnections = 1
    MaxConsecutiveDrops = 2
    MaxVersion = 2
    NoConn = NoConn
    NoFrame = NoFrame
    MaxFrames = 4
    MaxList = 1
INVARIANT NoGoingBack
CHECK_DEADLOCK FALSE
