SPECIFICATION MCSpec
CONSTANTS
    Conns = {c1, c2}
    Publishers = {p1, p2}
    Channels = {x, y}
    Frames = {f}
    Requests <- MCRequests
    SendQueue = 1
    MaxSubscriptions = 1
    NoConn = NoConn
    MaxFrames = 1
SYMMETRY Symmetry
INVARIANTS
    TypeOK
    IndexInStep
    RecipientsPinned
    ActiveExact
    SubscriptionLimit
PROPERTY ImplementsFanout
CHECK_DEADLOCK FALSE
