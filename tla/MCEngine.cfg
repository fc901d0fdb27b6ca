SPECIFICATION FairSpec
CONSTANTS
    d1 = d1
    d2 = d2
    c1 = c1
    NoDaemon = NoDaemon
    Daemons <- TwoDaemons
    Clients <- OneClient
INVARIANTS
    AnswersAreOwn
    SocketStaysReachable
PROPERTIES
    DaemonListens
    QueryEnds
CHECK_DEADLOCK FALSE
