SPECIFICATION FairSpec
CONSTANTS
    Req = {"r1", "r2", "r3"}
    MaxNew <- TwoThenOne
    Streaming = {"r1"}
    Workers = 2
    StuckSets <- SomeStuck
INVARIANTS
    ResponseComplete
    GetsCanReturn
PROPERTIES
    EveryClientServed
    ThreadsReturn
    ShutdownCompletes
CHECK_DEADLOCK FALSE
