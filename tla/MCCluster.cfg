SPECIFICATION FairSpec
CONSTANTS
    None = None
    Nodes = {1, 2}
    MaxKey = 1
    Lists = {"keyed", "history"}
    OpScore <- MCOpScore
    Hidden = {}
    Requested = {1}
    MaxLimit = 1
    Contents <- MCContents
    Foreign = {}
    Bias <- MCBias
    Others = {o}
    Walker = w
    MaxChanges = 1
    MaxUpsets = 1
    MaxRefusals = 1
INVARIANTS
    TypeOK
    SessionsCounted
    EachOnce
PROPERTIES
    Forwards
    WalkEnds
    ShutdownEnds
CHECK_DEADLOCK FALSE
