SPECIFICATION FairSpec
CONSTANTS
    NumRecs = 3
    w1 = w1
    w2 = w2
    AllWorkers = {w1, w2}
    ClaimBatch = 2
    MaxVersion = 2
    Setups <- MCSetups
INVARIANTS
    Inv
    NothingLost
PROPERTIES
    UploadsEnd
CHECK_DEADLOCK FALSE
