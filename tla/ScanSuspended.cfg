SPECIFICATION FairSpec
CONSTANTS
    t1 = t1
    t2 = t2
    Txs = {t1}
    Mode <- OneSaga
    Scanners = {r1}
    Lasting = {r1}
    Limit = 1
    Aging = {}
    Failing = {}
    Updating = {t1}
PROPERTIES
    SuspendedIsFinished
