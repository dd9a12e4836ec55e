SPECIFICATION FairSpec
CONSTANTS
    w1 = w1
    w2 = w2
    k1 = k1
    k2 = k2
    k3 = k3
    state = state
    object = object
    Workers <- MCWorkers
    Keys = {k3}
    PartOf <- MCPartOf
    MaxEntries <- MCMaxEntries
    Ttl <- MCTtl
    ReadPartitions <- MCOnePartition
    Parts = {object}
    NoKey = NoKey
    Lengths = {1}
    L1MaxBytes = 2
    L2MaxBytes = 2
    Slots = 3
    FirstPart = object
    Robust = TRUE
    L2MayFail = FALSE
    MaxVersion = 0
    MaxTime = 4
    MaxCrashes = 1
    MaxCalls = 3
    Options = {"on", "off", "lmdb", "none", "shm", "path", "invalid"}
    Configuring = {w1}
    Created = FALSE
INVARIANTS
    AgeBounded
    SegmentReady
    EnabledHasL1
PROPERTIES
    AccessEnds
CHECK_DEADLOCK FALSE
