CONSTANTS
    Queue = {q1, q2}
    User <- MCOneUser
    Guest <- MCGuests
    Id = {a}
    Line = {"blank"}
    Delay = {0}
    Programmer <- MCOneUser
    Builtins = {"suspend", "read"}
    HiWat = 2
    Limit = 2
    MaxLines = 1
    MaxDrift = 1
    MaxTime = 2
    NoTask = NoTask
    NoQueue = NoQueue
SPECIFICATION PSpec
PROPERTIES
    EachTaskKept
    ReaderResumed
    ReadyTaskServed
    EmptyQueueDestroyed
CHECK_DEADLOCK FALSE
