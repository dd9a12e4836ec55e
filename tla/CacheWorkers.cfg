SPECIFICATION Spec
CONSTANTS
    w1 = w1
    w2 = w2
    k1 = k1
    k2 = k2
    k3 = k3
    state = state
    object = object
    Workers <- MCWorkers
    Keys = {k1,k2,k3}
    PartOf <- MCPartOf
    MaxEntries <- MCMaxEntries
    Ttl <- MCTtl
    ReadPartitions <- MCReadPartitions
    Parts <- MCParts
    NoKey = NoKey
    Lengths = {1,2}
    L1MaxBytes = 2
    L2MaxBytes = 2
    Slots = 2
    FirstPart = state
    Robust = TRUE
    L2MayFail = TRUE
    MaxVersion = 1
    MaxTime = 2
    MaxCrashes = 1
    MaxCalls = 2
    Options = {}
    Configuring = {}
    Created = TRUE
SYMMETRY Symmetry
INVARIANTS
    TypeOK
    OneSlotPerKey
    L1Bounded
PROPERTIES
    MemorySpec
CHECK_DEADLOCK FALSE
