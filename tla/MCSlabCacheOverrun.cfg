SPECIFICATION Spec
SYMMETRY ThreadsAlike
CONSTANTS
    s1 = s1
    s2 = s2
    Threads = {t1, t2}
    Sites = {s1, s2}
    SizesOf <- OddSize
    BlockSize = 12
    Places = {0, 1}
INVARIANT BytesOwned
