SPECIFICATION FairSpec
CONSTANTS
    N = 4
    RetryCount = 2
    CallFaults = {"late", "inflight"}
    StoreFaults = {"rejected", "lost_reply"}
    MaxExecutions = 2
INVARIANTS
    StoreTellsBranches
    ResultTellsStore
PROPERTIES
    AtomicSpec
    Returns
