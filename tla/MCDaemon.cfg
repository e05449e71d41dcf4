SPECIFICATION FairDaemon
CONSTANTS
    None = None
    g = g
    a1 = a1
    a2 = a2
    a3 = a3
    b1 = b1
    b2 = b2
    Hashes <- MCHashes
    Start <- g
    Blue <- MCBlue
    Chain <- MCChain
    Moves <- OneStep
    MaxMoves = 1
    MaxUpsets = 1
    Services <- MCServices
    Servers <- MCServers
    MaxFaults = 1
INVARIANTS
    NoHandshakeDeadlock
PROPERTIES
    StopsAtRest
CHECK_DEADLOCK FALSE
