SPECIFICATION FairSpec
CONSTANTS
    Callers = {c1, c2, c3}
    Workers = {w1, w2, w3}
    MaxCalls = 6
INVARIANTS
    OneScanner
    StopClosesOnce
PROPERTIES
    StopIsFinal
    CallsReturn
CHECK_DEADLOCK FALSE
