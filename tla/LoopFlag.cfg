SPECIFICATION Spec
CONSTANTS
    Callers = {c1}
    Workers = {w1}
    MaxCalls = 1
INVARIANTS
    RunningMeansScanning
CHECK_DEADLOCK FALSE
