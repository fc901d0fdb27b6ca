SPECIFICATION FairSpec
CONSTANTS
    a = a
    b = b
    NoPeer = NoPeer
    Nodes <- TwoNodes
    WgKey <- TwoKeys
    Enrolled <- TwoNodes
    Lossy = TRUE
    MaxStarts <- BRestarts
INVARIANTS
    RepliesFindTheirAgent
    OneConnPerPeer
    LinkAgrees
    NoStall
PROPERTIES
    ImplementsLink
    PeersConnect
CHECK_DEADLOCK FALSE
