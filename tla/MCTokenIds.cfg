CONSTANTS
    MaxSupply = 7
    Premint = 1
    Entropies <- MCEntropies
SPECIFICATION Spec
INVARIANTS
    TypeOK
    FreeOrMinted
    RangeMustExist
PROPERTIES
    RollbackRestores
    DrawsFromPool
CHECK_DEADLOCK TRUE
