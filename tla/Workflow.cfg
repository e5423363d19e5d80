SPECIFICATION FairSpec
CONSTANTS
    b1 = b1
    b2 = b2
    b3 = b3
    b4 = b4
    Branches = {b1, b2, b3, b4}
    Kind <- Kinds
    Loose = {b3, b4}
    StoreFaults = {"rejected", "lost_reply"}
    MaxExecutions = 2
INVARIANTS
    NothingRegisteredIsLost
    OneWay
    ReverseOrder
    ResultTellsStore
PROPERTIES
    ExecutionSpec
    Returns
