SPECIFICATION LockSpec
CONSTANTS
    Callers = {c1, c2, c3, c4}
    MaxLocks = 3
    NoLock = NoLock
INVARIANTS
    OneMerger
CHECK_DEADLOCK FALSE
