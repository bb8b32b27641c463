SPECIFICATION Spec
CONSTANTS
    NumCams = 2
    MaxOps = 6
    c1 = c1
    c2 = c2
    AllClients = {c1, c2}
    Setups <- MCSetups
INVARIANTS
    Inv
    OneRecorder
    RunningRegistered
    LatestConfig
CHECK_DEADLOCK FALSE
