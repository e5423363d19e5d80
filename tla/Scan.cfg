SPECIFICATION FairSpec
CONSTANTS
    t1 = t1
    t2 = t2
    Txs = {t1, t2}
    Mode <- TccWorkflow
    Scanners = {r1, r2}
    Lasting = {r1}
    Limit = 1
    Aging = {t2}
    Failing = {t2}
    Updating = {t1}
INVARIANTS
    TypeOK
    StaleIsNotWrong
    OutcomeKept
    HandledOnce
PROPERTIES
    StrandedIsFinished
