SPECIFICATION FairSpec
CONSTANTS
    N = 4
    Retries <- MiddleRetried
    RetryCount = 2
    CallFaults = {"late", "inflight"}
    StoreFaults = {"rejected", "lost_reply"}
    MaxExecutions = 2
INVARIANTS
    StoreTellsForward
    CompensatedLeavesNothing
    ResultTellsStore
PROPERTIES
    RecordBeforeCall
    StackSpec
    Returns
