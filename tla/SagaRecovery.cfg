SPECIFICATION FairRecoverySpec
CONSTANTS
    N = 4
    Retries <- MiddleRetried
    RetryCount = 2
    CallFaults = {"late", "inflight"}
    StoreFaults = {"rejected", "lost_reply"}
    MaxExecutions = 2
    Ages = TRUE
INVARIANTS
    RecoveredIsClean
PROPERTIES
    EndIsKept
    ReverseOrder
    CleanedInTheEnd
