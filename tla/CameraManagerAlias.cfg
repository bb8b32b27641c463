SPECIFICATION Spec
CONSTANTS
    NumCams = 3
    MaxOps = 6
    c1 = c1
    c2 = c2
    AllClients = {c1, c2}
    Setups <- Removals
INVARIANTS
    OwnConfig
CHECK_DEADLOCK FALSE
