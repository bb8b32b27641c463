SPECIFICATION ProxySpec
CONSTANTS
    Requests = {r1, r2}
    Total = 7
    BlockSize = 2
    MaxCachedBytes = 5
    MaxServes = 4
SYMMETRY Symmetry
INVARIANTS
    ServedExactly
    CacheExact
CHECK_DEADLOCK FALSE
