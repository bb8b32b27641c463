SPECIFICATION FairSpec
CONSTANTS
    NumRecs = 2
    Roots = {old, new}
    Home = old
    None = none
    MaxVersion = 2
    Setups <- MCSetups
INVARIANTS
    Inv
    RowIntact
PROPERTIES
    HistoryFollows
CHECK_DEADLOCK FALSE
