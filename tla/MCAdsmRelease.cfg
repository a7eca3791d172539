SPECIFICATION AdsmSpec
CONSTANTS
    Blocks = {b1, b2}
    Eager = TRUE
    RollThreshold = 1
    MaxLimit = 2
    MaxRefs = 3
    HostFirst = FALSE
    TransfersFail = TRUE
    Launches = {"listed"}
    Disciplined = TRUE
    Migrates = FALSE
SYMMETRY Symmetry
INVARIANTS
    KernelBlocksReleased
CHECK_DEADLOCK FALSE
