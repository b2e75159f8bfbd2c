SPECIFICATION FairSpec
CONSTANTS
    Req = {"r1", "r2", "r3"}
    MaxNew <- ThreeTwoNegative
    Peaks <- Workloads
    NumPages = 4
    MaxRunning = 2
    Modes = {"baseline", "batched", "paged"}
    MaxChunks = 2
    MaxFailures = 2
INVARIANTS
    NoRequestLost
    OneListEach
    StreamOrder
    InFlightBounded
    QueueInArrivalOrder
PROPERTIES
    EveryRequestAnswered
    StopEnds
    TokenStreamSpec
CHECK_DEADLOCK FALSE
