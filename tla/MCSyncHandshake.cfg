SPECIFICATION Spec
CONSTANTS
    None = None
    g = g
    a1 = a1
    a2 = a2
    a3 = a3
    b1 = b1
    b2 = b2
    Hashes <- MCHashes
    Start <- g
    Blue <- MCBlue
    Chain <- MCChain
    Moves <- Forward
    MaxMoves = 1
    MaxUpsets = 2
INVARIANTS
    NoHandshakeDeadlock
CHECK_DEADLOCK FALSE
