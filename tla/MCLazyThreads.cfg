SPECIFICATION FairSpec
CONSTANTS
    t1 = t1
    t2 = t2
    t3 = t3
    m1 = m1
    m2 = m2
    p1 = p1
    p2 = p2
    Threads = {t1, t2, t3}
    Modes = {m1, m2}
    Objects = {p1, p2}
    ModeOf <- MCModeOf
    Home <- MCHome
    Faulting <- MCFaulting
    Listed <- MCListed
    Disciplined = TRUE
    MaxLimit = 2
INVARIANTS
    TypeOK
    NoCircularWait
    FrontExists
    DirtyListed
PROPERTIES
    CallsReturn
