CONSTANTS
    Faults = {"fork", "open", "write", "panic", "close", "rename"}
    MaxVersion = 2
    MaxGen = 3
SPECIFICATION Spec
INVARIANTS
    TypeOK
    DumpWritten
    ReportTrue
    CheckpointAhead
    ShutdownFlushesAlone
PROPERTIES
    NeverOlder
    RequestHonored
CHECK_DEADLOCK FALSE
