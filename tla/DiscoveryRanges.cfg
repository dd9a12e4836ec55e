SPECIFICATION FairSpec
CONSTANTS
    d1 = d1
    d2 = d2
    Devices <- MCDevices
    Ranges <- MCRanges
    Ignored <- MCNone
    NoRange = NoRange
    IsClient = TRUE
    Capacity = 2
    MaxCalls = 2
    MaxSocket = 1
    MaxAddress = 2
    MaxDepth = 3
INVARIANTS
    TypeOK
    CacheReflectsDiscovery
PROPERTIES
    WhoIsEnds
    RouteBackOnlyFromCache
CHECK_DEADLOCK FALSE
