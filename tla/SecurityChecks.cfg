SPECIFICATION Spec
CONSTANTS
    a = a
    b = b
    Ips <- MCIps
    Configs <- MCConfigs
    Unit = 2
    MaxTime = 3
    MaxPackets = 4
INVARIANTS
    TypeOK
    SourceTable
    GlobalRateBound
    SourceRateBound
    FloodIsBlocked
PROPERTIES
    BlockHolds
    BlockJustified
CHECK_DEADLOCK FALSE
