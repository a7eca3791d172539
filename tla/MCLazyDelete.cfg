SPECIFICATION Spec
CONSTANTS
    Blocks = {b1, b2}
    Eager = TRUE
    RollThreshold = 2
    MaxLimit = 4
    MaxRefs = 3
    HostFirst = FALSE
    TransfersFail = FALSE
SYMMETRY Symmetry
PROPERTIES
    DeletedUnreferenced
