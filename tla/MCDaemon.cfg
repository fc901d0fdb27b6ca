SPECIFICATION FairSpec
CONSTANTS
    p1 = p1
    p2 = p2
    Peers <- TwoPeers
    MaxFaults = 2
INVARIANTS
    NoSilentLeak
    ServesOwnInterface
    StopIsClean
PROPERTIES
    ShutdownEnds
    ComesBack
