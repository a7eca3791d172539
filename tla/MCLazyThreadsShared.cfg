SPECIFICATION Spec
CONSTANTS
    t1 = t1
    t2 = t2
    t3 = t3
    m1 = m1
    m2 = m2
    p1 = p1
    p2 = p2
    Threads = {t1, t3}
    Modes = {m1, m2}
    Objects = {p1}
    ModeOf <- TwoModeOf
    Home <- TwoHome
    Faulting <- TwoFaulting
    Listed = {}
    Disciplined = FALSE
    MaxLimit = 2
INVARIANTS
    NoCircularWait
