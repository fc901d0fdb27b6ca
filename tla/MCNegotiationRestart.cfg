SPECIFICATION FairSpec
CONSTANTS
    a = a
    b = b
    NoPeer = NoPeer
    Nodes <- TwoNodes
    WgKey <- TwoKeys
    Enrolled <- TwoNodes
    Lossy = FALSE
    MaxStarts <- BRestarts
PROPERTIES
    RestartedPeersConnect
CHECK_DEADLOCK FALSE
