SPECIFICATION FairServingSpec
CONSTANTS
    Req = {"r1", "r2", "r3"}
    Token = {"a", "b", "c", "r1", "r2", "r3"}
    NumPages = 9
    PageSize = 1
    Prompt <- ForkPrompt
    MaxNew <- ThreeThenOne
    Gen <- OwnGen
    StopTokens = {}
    MaxRunning = 2
    RadixEnabled = TRUE
    StepsFail = FALSE
INVARIANTS
    ListsMatchStatus
PROPERTIES
    RetriesSucceed
