SPECIFICATION HiSpec
CONSTANTS
    Req = {"r1", "r2", "r3", "r4"}
    Token = {"a", "b", "r1", "r2", "r3", "r4"}
    NumPages = 7
    NumCpuPages = 3
    PageSize = 1
    Prompt <- HiPrompt
    MaxNew <- HiMaxNew
    Gen <- HiGen
    StopTokens = {}
    MaxRunning = 2
    RadixEnabled = TRUE
    StepsFail = FALSE
INVARIANT
    HiBorrowedPagesPinned
CHECK_DEADLOCK FALSE
