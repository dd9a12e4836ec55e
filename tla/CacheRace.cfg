SPECIFICATION Spec
CONSTANTS
    w1 = w1
    w2 = w2
    k1 = k1
    k2 = k2
    k3 = k3
    state = state
    object = object
    Workers <- MCWorkers
    Keys = {k1}
    PartOf <- MCPartOf
    MaxEntries <- MCMaxEntries
    Ttl <- MCTtl
    ReadPartitions <- MCReadPartitions
    Parts <- MCParts
    NoKey = NoKey
    Lengths = {1}
    L1MaxBytes = 9
    L2MaxBytes = 9
    Slots = 3
    FirstPart = state
    Robust = FALSE
    L2MayFail = FALSE
    MaxVersion = 1
    MaxTime = 3
    MaxCrashes = 0
    MaxCalls = 3
    Options = {}
    Configuring = {}
    Created = TRUE
INVARIANTS
    WriteInvalidates
CHECK_DEADLOCK FALSE
