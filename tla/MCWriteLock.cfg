SPECIFICATION MCFairSpec
CONSTANTS
    Conns = {c1}
    Publishers = {p1, p2}
    Channels = {x}
    Oversized = {}
    Forbidden = {}
    Frames <- MCFrames
    Requests <- MCRequests
    MayRead <- MCMayRead
    SendQueue = 1
    MaxSubscriptions = 1
    MaxConnections = 1
    MaxConsecutiveDrops = 1
    MaxVersion = 1
    NoConn = NoConn
    NoFrame = NoFrame
    MaxFrames = 1
    MaxList = 1
PROPERTIES
    PlaceReturned
    HandlerReturns
    OverflowNoticed
    PublisherNeverBlocks
CHECK_DEADLOCK FALSE
