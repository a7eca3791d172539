SPECIFICATION FairSpec
CONSTANTS
    Top = 22
    BlockSize = 4
    Objects <- MCObjects
    Requests <- RightRequests
INVARIANTS
    TypeOK
    TransfersInBlocks
PROPERTIES
    KeepsContract
    TransfersUndisturbed
    CallsReturn
    CallsAdvance
