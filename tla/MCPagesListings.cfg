SPECIFICATION PagesSpec
CONSTANTS
    None = None
    Nodes = {1}
    MaxKey = 3
    Lists = {"listings"}
    OpScore <- MCOpScore
    Hidden = {}
    Requested = {1, 2}
    MaxLimit = 2
    Contents <- MCContents
INVARIANT EachOnce
CHECK_DEADLOCK FALSE
