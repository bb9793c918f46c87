\* Four attempts of two identities, delayed and beside maintenance.
CONSTANTS
    a1 = a1
    a2 = a2
    a3 = a3
    a4 = a4
    p1 = p1
    p2 = p2
    Attempts = {a1, a2, a3, a4}
    Pairs = {p1, p2}
    PairOf <- MCPairOf
    AddressLimit = 2
    PairLimit = 1
    Second = 2
    Window = 4
    MaxTime = 7
    MaxDelay = 2
SYMMETRY OneIdentity
SPECIFICATION RateSpec
INVARIANTS RateTypeOK FailuresAreBounded ReleasesAreExact
CHECK_DEADLOCK FALSE
