SPECIFICATION Spec
CONSTANTS
    Blocks = {b1, b2, b3}
    Eager = TRUE
    RollThreshold = 1
    MaxLimit = 4
    MaxRefs = 3
    HostFirst = FALSE
    TransfersFail = FALSE
SYMMETRY Symmetry
INVARIANTS
    TypeOK
    DirtyListed
    ReadOnlyBothCopies
    AcceleratorCurrent
    HostCurrent
    ReadablePagesCurrent
    ProtectionFollowsState
    DirtyWithinTwiceLimit
    ListHoldsReference
PROPERTIES
    AddedBlockStays
