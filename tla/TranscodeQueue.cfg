SPECIFICATION FairSpec
CONSTANTS
    NumRecs = 2
    MaxTasks = 4
    Setups <- MCSetups
INVARIANTS
    Inv
    InputWhole
    FootageKept
PROPERTIES
    OutputKept
    TasksEnd
CHECK_DEADLOCK FALSE
