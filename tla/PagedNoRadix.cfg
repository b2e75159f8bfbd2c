SPECIFICATION KvSpec
CONSTANTS
    Req = {"r1", "r2", "r3", "r4"}
    Token = {"a", "b", "c"}
    NumPages = 5
    PageSize = 2
    ChunkSize = 0
    DirectFlash = TRUE
    Prompt <- NestedPrompt
    MaxNew <- OneShort
    Gen <- OneStops
    StopTokens = {"c"}
    MaxRunning = 3
    RadixEnabled = FALSE
    StepsFail = TRUE
INVARIANTS
    SingleOwner
    ReservationSuffices
    OwnKV
PROPERTIES
    PagePoolSpec
