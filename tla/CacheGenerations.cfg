SPECIFICATION Spec
CONSTANTS
    w1 = w1
    w2 = w2
    w3 = w3
    h1 = h1
    h2 = h2
    k1 = k1
    k2 = k2
    Workers = {w1, w2, w3}
    Hosts = {h1, h2}
    HostOf <- MCHostOf
    Keys = {k1, k2}
    NoKey = NoKey
    Interval = 1
    MaxVersion = 1
    MaxTime = 1
    MaxOps = 2
    MaxFaults = 1
SYMMETRY Symmetry
INVARIANTS
    TypeOK
    FreshWithinInterval
    HostSeesWrite
CHECK_DEADLOCK FALSE
