SPECIFICATION AdsmSpec
CONSTANTS
    Blocks = {b1, b2}
    Eager = TRUE
    RollThreshold = 1
    MaxLimit = 2
    MaxRefs = 3
    HostFirst = FALSE
    TransfersFail = FALSE
    Launches = {"all", "listed"}
    Disciplined = TRUE
    Migrates = TRUE
SYMMETRY Symmetry
INVARIANTS
    KernelBlocksReleased
    KernelDataCurrent
    SynchronizedReadsCurrent
PROPERTIES
    ImplementsLazy
