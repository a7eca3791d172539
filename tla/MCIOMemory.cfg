SPECIFICATION Spec
CONSTANTS
    MaxIndex = 3
    MaxPageable = 1
INVARIANTS
    TypeOK
    FreeChunksMaximal
PROPERTIES
    KeepsContract
