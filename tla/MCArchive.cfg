SPECIFICATION FairSpec
CONSTANTS
    None = None
    p1 = p1
    p2 = p2
    queue = queue
    receiver = receiver
    other = other
    Partitions <- MCPartitions
    Skipped <- MCSkipped
    Requesters <- MCRequesters
    Receiver <- receiver
    MaxDaa = 1
    TimeoutDaa = 0
    MaxCommits = 1
    MaxArchives = 1
    MaxUpsets = 1
    MaxSyncs = 1
    MaxRestores = 1
INVARIANTS
    TypeOK
    RestoreFaithful
PROPERTIES
    SyncComesToEnd
CHECK_DEADLOCK FALSE
