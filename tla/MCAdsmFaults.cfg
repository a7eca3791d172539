SPECIFICATION AdsmSpec
CONSTANTS
    Blocks = {b1, b2}
    Eager = FALSE
    RollThreshold = 1
    MaxLimit = 2
    MaxRefs = 3
    HostFirst = TRUE
    TransfersFail = TRUE
    Launches = {"all", "listed"}
    Disciplined = TRUE
    Migrates = TRUE
SYMMETRY Symmetry
INVARIANTS
    DirtyListed
    WritableListed
    AllLaunchesReleased
    ObjectsTakenBack
CHECK_DEADLOCK FALSE
