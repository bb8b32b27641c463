SPECIFICATION FairSpec
CONSTANTS
    Callers = {c1, c2}
    MaxSources = 2
    MaxFired = 2
INVARIANTS
    Inv
    RefsExact
PROPERTIES
    LeaseSpec
    UnusedGoes
    TornDown
\* After Stop, and once the bound on entries is reached, everybody may come to rest.
CHECK_DEADLOCK FALSE
