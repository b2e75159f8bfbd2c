SPECIFICATION KvSpec
CONSTANTS
    Req = {"r1", "r2", "r3"}
    Token = {"a", "b", "c"}
    NumPages = 5
    PageSize = 2
    ChunkSize = 1
    DirectFlash = TRUE
    Prompt <- NestedPrompt
    MaxNew <- TwoNew
    Gen <- AnyGen
    StopTokens = {"c"}
    MaxRunning = 2
    RadixEnabled = FALSE
    StepsFail = TRUE
INVARIANTS
    PrefillStoresPrompt
