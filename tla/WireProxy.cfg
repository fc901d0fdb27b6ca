SPECIFICATION FairSpec
CONSTANTS
    A = A
    B = B
    Stopping = {A}
INVARIANTS
    LateForwardsBounded
    PathOpen
    CleanedPeerIsOff
PROPERTIES
    RemotePumpEnds
    TunnelStaysUp
CHECK_DEADLOCK FALSE
