SPECIFICATION Spec
CONSTANTS
    None = None
    Failed = Failed
    HiddenTxs = {"d2"}
    alice = alice
    bob = bob
    odd = odd
    NoAddress = {odd}
    t1 = t1
    t0 = t0
    t2 = t2
    Base = 4
    Width = 2
    TickBytes <- MCTickBytes
    SpkBytes <- MCSpkBytes
    HashBytes <- MCHashBytes
    Neighbours = {t0, t2}
    a1 = a1
    a2 = a2
    b2 = b2
    Hashes <- MintHashes
    Blue <- MCBlue
    Daa <- MCDaa
    Entropy <- MCEntropy
    Ops <- MintOps
    PerBlock = 3
    MaxReorgs = 1
CONSTRAINT FewRefused
INVARIANTS
    SupplyRespected
    AllocatorInStep
    DiscountsStand
    QuotesHold
    ScansExact
PROPERTIES
    KeepsTheBook
CHECK_DEADLOCK FALSE
