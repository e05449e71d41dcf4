SPECIFICATION Spec
CONSTANTS
    None = None
    Failed = Failed
    HiddenTxs = {}
    alice = alice
    bob = bob
    odd = odd
    NoAddress = {odd}
    t1 = t1
    t0 = t0
    t2 = t2
    Base = 4
    Width = 2
    TickBytes <- MCTickBytes
    SpkBytes <- MCSpkBytes
    HashBytes <- MCHashBytes
    Neighbours = {t0, t2}
    a1 = a1
    a2 = a2
    b2 = b2
    Hashes <- MarketHashes
    Blue <- MCBlue
    Daa <- MCDaa
    Entropy <- MCEntropy
    Ops <- MarketOps
    PerBlock = 3
    MaxReorgs = 2
INVARIANTS
    TypeOK
    ChainIndexed
    OperationsIndexed
    OwnershipConsistent
    ListingsBacked
    StatsFollow
    QueriesAnswer
    ViewsAgree
PROPERTIES
    RollbackIsReplay
    ListedTokenLocked
CHECK_DEADLOCK FALSE
