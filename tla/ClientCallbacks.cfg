SPECIFICATION FairSpec
CONSTANTS
    k1 = k1
    k2 = k2
    Keys = {k1}
    PartitionOf <- MCPartitionOf
    NoPartition = NoPartition
    NotCached = NotCached
    IdSpace = 2
    PidSpace = 4
    CovHandlerSet = TRUE
    Lifetime = 2
    MaxCalls = 3
    MaxSubscriptions = 1
    MaxVersion = 0
    MaxNotifications = 1
    MaxDepth = 3
    MaxSessions = 2
INVARIANTS
    OwnUnlessLapped
PROPERTIES
    CallsEnd
CHECK_DEADLOCK FALSE
