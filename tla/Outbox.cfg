SPECIFICATION FairSpec
CONSTANTS
    N = 6
    RetryCount = 3
    SendFails = TRUE
    OpFaults = {"late"}
    StoreFaults = {"rejected", "lost_reply"}
    MaxExecutions = 2
INVARIANTS
    NoEarlyMessage
    CommittedIsSent
    ResultTellsStore
PROPERTIES
    Returns
