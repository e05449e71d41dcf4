SPECIFICATION Spec
CONSTANTS
    None = None
    KSPR_FEE_DEPLOY = 2
    KSPR_FEE_MINT = 1
    MIN_ROYALTY_FEE = 1
    MAX_ROYALTY_FEE = 3
    Word = 16
    OtherAddresses = {"elsewhere"}
    TickOf <- MCTickOf
    RestrictedTicks <- MCRestricted
    HiddenMetadata = {"hidden"}
    DaaEcdsaFix = 2
    Blocks <- MCBlocks
    Chains <- MCChains
    Work <- MCWork
    Origin = 0
    MERGE_SET_LIMIT = 4
    BLOCK_TX_CAPACITY = 4
    REJECTIONS_LEN_LIMIT = 2
    Olds <- MCOlds
    MaxThreads = 2
    MaxUpsets = 3
INVARIANTS
    TypeOK
    SameMergeset
    InscriptionsAnswered
    RingSound
CHECK_DEADLOCK FALSE
