SPECIFICATION HiSpec
CONSTANTS
    Req = {"r1", "r2", "r3", "r4", "r5"}
    Token = {"a", "b", "r1", "r2", "r3", "r4", "r5"}
    NumPages = 7
    NumCpuPages = 2
    PageSize = 1
    Prompt <- HiPrompt
    MaxNew <- HiMaxNew
    Gen <- HiGen
    StopTokens = {}
    MaxRunning = 2
    RadixEnabled = TRUE
    StepsFail = TRUE
INVARIANTS
    HiLockConservation
    TreeWellFormed
    LockedOnGpu
    HiBorrowedPagesPinned
    CpuPagesOwned
    HiSingleOwner
PROPERTIES
    EvictKeepsSum
    LockedPagesStay
CHECK_DEADLOCK FALSE
