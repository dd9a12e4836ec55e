SPECIFICATION FairSpec
CONSTANTS
    dev = dev
    o1 = o1
    Objects = {o1}
    Device = dev
    Requests <- AllRequests
    ApduEntries = 2
    MaxArrivals = 3
    MaxDepth = 3
    MaxChanges = 2
INVARIANTS
    TypeOK
    AckCoversRequest
    ReadsAnswered
PROPERTIES
    ServiceSpec
    RequestsServed
CHECK_DEADLOCK FALSE
