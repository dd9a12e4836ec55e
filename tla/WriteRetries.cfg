SPECIFICATION Spec
CONSTANTS
    c1 = c1
    c2 = c2
    ip1 = ip1
    ip2 = ip2
    v1 = v1
    Clients <- MCClients
    Ips <- MCIps
    IpOf <- MCOwnAddress
    Payloads <- MCPayloads
    IdSpace = 2
    Slots = 2
    Window = 2
    Life = 1
    FreshIds = TRUE
    MaxWrites = 3
    MaxRuns = 4
    MaxTime = 2
    MaxDepth = 2
    MaxRestarts = 1
    MaxDuplicates = 1
SYMMETRY MCSymmetry
INVARIANTS
    TypeOK
    RepeatOnlyAfterWindow
    AckMeansExecuted
CHECK_DEADLOCK FALSE
