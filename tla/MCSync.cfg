SPECIFICATION FairSpec
CONSTANTS
    None = None
    g = g
    a1 = a1
    a2 = a2
    a3 = a3
    b1 = b1
    b2 = b2
    Hashes <- MCHashes
    Start <- g
    Blue <- MCBlue
    Chain <- MCChain
    Moves <- Rival
    MaxMoves = 3
    MaxUpsets = 1
INVARIANTS
    TypeOK
    IndexedIsChain
PROPERTIES
    SyncEnds
    NoticeServed
CHECK_DEADLOCK FALSE
