SPECIFICATION FairSpec
CONSTANTS
    Top = 22
    BlockSize = 4
    Objects <- MCObjects
    Requests <- BufferedCopies
INVARIANTS
    ObjectReached
