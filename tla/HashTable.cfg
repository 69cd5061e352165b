CONSTANTS
    primes <- MCPrimes
    load_factors <- MCLoadFactors
    Keys = {0, 3, 5}
    HashMod = 5
    ValMod = 2
    MinSizes = {0, 2}
    Entries = {e1, e2, e3}
    NULL = NULL
SPECIFICATION TableSpec
SYMMETRY Symmetry
INVARIANTS WellFormed IterComplete
PROPERTIES TableContract
CHECK_DEADLOCK FALSE
