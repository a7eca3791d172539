SPECIFICATION FairSpec
CONSTANTS
    Top = 22
    BlockSize = 4
    Objects <- MCObjects
    Requests <- EndingCopies
PROPERTIES
    KeepsContract
