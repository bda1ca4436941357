CONSTANTS
    Faults = {}
    MaxVersion = 2
    MaxGen = 3
SPECIFICATION Spec
INVARIANTS
    ShutdownFlushes
CHECK_DEADLOCK FALSE
