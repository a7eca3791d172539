SPECIFICATION AdsmSpec
CONSTANTS
    Blocks = {b1, b2}
    Eager = TRUE
    RollThreshold = 1
    MaxLimit = 2
    MaxRefs = 3
    HostFirst = FALSE
    TransfersFail = FALSE
    Launches = {"all"}
    Disciplined = FALSE
    Migrates = TRUE
SYMMETRY Symmetry
INVARIANTS
    KernelBlocksReleased
