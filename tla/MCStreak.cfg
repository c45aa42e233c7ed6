SPECIFICATION MCSpec
CONSTANTS
    Conns = {c1}
    Publishers = {p1}
    Channels = {x}
    Frames = {f}
    Requests <- MCRequests
    SendQueue = 1
    MaxSubscriptions = 1
    NoConn = NoConn
    MaxFrames = 3
INVARIANT DroppedIsStreak
CHECK_DEADLOCK FALSE
