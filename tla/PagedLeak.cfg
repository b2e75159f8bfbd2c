SPECIFICATION KvSpec
CONSTANTS
    Req = {"r1", "r2", "r3"}
    Token = {"a", "b", "c"}
    NumPages = 6
    PageSize = 1
    ChunkSize = 0
    DirectFlash = TRUE
    Prompt <- SharedPrompt
    MaxNew <- SharedMaxNew
    Gen <- SharedGen
    StopTokens = {"c"}
    MaxRunning = 2
    RadixEnabled = TRUE
    StepsFail = FALSE
INVARIANTS
    NoPageLost
CHECK_DEADLOCK FALSE
