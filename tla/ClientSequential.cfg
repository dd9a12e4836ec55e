SPECIFICATION OneRequestSpec
CONSTANTS
    k1 = k1
    k2 = k2
    Keys = {k1}
    PartitionOf <- MCPartitionOf
    NoPartition = NoPartition
    NotCached = NotCached
    IdSpace = 2
    PidSpace = 4
    CovHandlerSet = FALSE
    Lifetime = 2
    MaxCalls = 3
    MaxSubscriptions = 1
    MaxVersion = 2
    MaxNotifications = 0
    MaxDepth = 1
    MaxSessions = 1
INVARIANTS
    TypeOK
    AnswerIsOwn
    TimeoutMeansUnanswered
    CacheNotBehind
CHECK_DEADLOCK FALSE
