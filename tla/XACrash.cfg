SPECIFICATION Spec
CONSTANTS
    N = 2
    RetryCount = 2
    CallFaults = {}
    StoreFaults = {}
    MaxExecutions = 2
INVARIANTS
    RecoveryFindsPrepared
