SPECIFICATION FairSpec
CONSTANTS
    Threads = {t1, t2, t3}
    Modes = {m1}
    MaxRefs = 2
    Disciplined = TRUE
INVARIANTS
    TypeOK
    CountsExact
    SemaphoreCountsQueue
PROPERTIES
    ReceiveReturns
CHECK_DEADLOCK FALSE
