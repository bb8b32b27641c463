SPECIFICATION FairSpec
CONSTANTS
    NumSegs = 3
    MaxOut = 3
    BatchSize = 2
    Setups <- MCSetups
INVARIANTS
    FootageKept
    CoveredOnce
    RowCovers
    SourceRowHasFile
PROPERTIES
    TaskInputKept
    PendingDrains
CHECK_DEADLOCK FALSE
