SPECIFICATION Spec
CONSTANTS
    c1 = c1
    c2 = c2
    k1 = k1
    k2 = k2
    k3 = k3
    k4 = k4
    Procs <- TwoProcs
    Keys <- FourKeys
INVARIANTS
    StartsAgain
    OneIdentity
PROPERTIES
    IdentityStays
SYMMETRY Symmetry
