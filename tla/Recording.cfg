SPECIFICATION LiveSpec
CONSTANTS
    LegacyCount = 1
    MaxSegs = 2
    BatchLimit = 1
    Threshold = 1
    MaxCrashes = 1
    AIStatuses = {"processing", "completed"}
INVARIANTS
    RecordedRowHasFile
PROPERTIES
    LiveTempNotSwept
    ReferencedFileKept
    LeftoversReclaimed
