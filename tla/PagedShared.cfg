SPECIFICATION KvSpec
CONSTANTS
    Req = {"r1", "r2", "r3", "r4"}
    Token = {"a", "b", "c"}
    NumPages = 6
    PageSize = 2
    ChunkSize = 1
    DirectFlash = FALSE
    Prompt <- ForkPrompt
    MaxNew <- ForkMaxNew
    Gen <- ForkGen
    StopTokens = {"c"}
    MaxRunning = 2
    RadixEnabled = TRUE
    StepsFail = TRUE
INVARIANTS
    LockConservation
    BorrowedPagesPinned
    TreeWellFormed
    CachedCountExact
    TableCoversTokens
    KvLenExact
PROPERTIES
    OnlyNegativeRaises
    EvictKeepsPromise
    OnlyEvictionForgets
CHECK_DEADLOCK FALSE
