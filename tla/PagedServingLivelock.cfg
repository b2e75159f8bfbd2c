SPECIFICATION FairServingSpec
CONSTANTS
    Req = {"r1", "r2"}
    Token = {"a", "b", "c", "r1", "r2", "r3"}
    NumPages = 4
    PageSize = 1
    Prompt <- ForkPrompt
    MaxNew <- OneNew
    Gen <- OwnGen
    StopTokens = {}
    MaxRunning = 2
    RadixEnabled = TRUE
    StepsFail = FALSE
PROPERTIES
    RetriesSucceed
