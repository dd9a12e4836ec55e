SPECIFICATION FairSpec
CONSTANTS
    p1 = p1
    p2 = p2
    Peers <- MCOnePeer
    Capacity = 2
    MaxDevices = 2
    MaxArrivals = 4
    MaxCalls = 2
    MaxDepth = 2
INVARIANTS
    TypeOK
    AcceptedAccounted
PROPERTIES
    FifoSpec
    QueueDrains
CHECK_DEADLOCK FALSE
