SPECIFICATION FairSpec
CONSTANTS
    w1 = w1
    w2 = w2
    k1 = k1
    k2 = k2
    k3 = k3
    state = state
    object = object
    Workers <- MCWorkers
    Keys = {k1}
    PartOf <- MCPartOf
    MaxEntries <- MCMaxEntries
    Ttl <- MCTtl
    ReadPartitions <- MCReadPartitions
    Parts <- MCParts
    NoKey = NoKey
    Lengths = {1}
    L1MaxBytes = 9
    L2MaxBytes = 9
    Slots = 3
    FirstPart = state
    Robust = FALSE
    L2MayFail = FALSE
    MaxVersion = 0
    MaxTime = 0
    MaxCrashes = 1
    MaxCalls = 2
    Options = {}
    Configuring = {}
    Created = TRUE
PROPERTIES
    AccessEnds
CHECK_DEADLOCK FALSE
