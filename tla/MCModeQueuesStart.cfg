SPECIFICATION FairSpec
CONSTANTS
    Threads = {t1, t2}
    Modes = {m1}
    MaxRefs = 2
    Disciplined = FALSE
PROPERTIES
    ThreadsStart
CHECK_DEADLOCK FALSE
