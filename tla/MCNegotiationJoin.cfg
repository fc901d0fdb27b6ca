SPECIFICATION Spec
CONSTANTS
    a = a
    b = b
    NoPeer = NoPeer
    Nodes <- TwoNodes
    WgKey <- TwoKeys
    Enrolled = {}
    Lossy = FALSE
    MaxStarts <- Once
INVARIANTS
    SettledDaemonSurvivesJoin
CHECK_DEADLOCK FALSE
