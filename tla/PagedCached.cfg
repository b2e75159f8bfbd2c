SPECIFICATION KvSpec
CONSTANTS
    Req = {"r1", "r2", "r3", "r4"}
    Token = {"a", "b", "c", "r1", "r2", "r3", "r4"}
    NumPages = 6
    PageSize = 2
    ChunkSize = 0
    DirectFlash = TRUE
    Prompt <- PagePrompt
    MaxNew <- OddMaxNew
    Gen <- OwnGen
    StopTokens = {}
    MaxRunning = 2
    RadixEnabled = TRUE
    StepsFail = FALSE
INVARIANTS
    SingleOwner
    CachedKV
PROPERTIES
    PagePoolSpec
    CachedPagesImmutable
