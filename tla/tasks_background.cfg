CONSTANTS
    Queue = {q1, q2, q3}
    User <- MCTwoUsers
    Guest <- MCGuests
    Id = {a, b}
    Line = {"blank"}
    Delay = {1}
    Programmer <- MCTwoUsers
    Builtins = {"fork", "suspend", "kill_task", "resume", "reconnect_player"}
    HiWat = 2
    Limit = 1
    MaxLines = 1
    MaxDrift = 1
    MaxTime = 1
    NoTask = NoTask
    NoQueue = NoQueue
SPECIFICATION Spec
SYMMETRY MCSymmetry
INVARIANTS
    OneQueuePerPlayer
    BgCounted
    QuotaRespected
    ReadyTaskOfOwner
    Ordered
CHECK_DEADLOCK FALSE
