CONSTANTS
    Queue = {q1, q2, q3}
    User <- MCTwoUsers
    Guest <- MCGuests
    Id = {a, b}
    Line = {"blank"}
    Delay = {0}
    Programmer <- MCOneUser
    Builtins = {"fork", "reconnect_player"}
    HiWat = 2
    Limit = 2
    MaxLines = 1
    MaxDrift = 1
    MaxTime = 0
    NoTask = NoTask
    NoQueue = NoQueue
SPECIFICATION Spec
SYMMETRY MCSymmetry
INVARIANTS
    NoLostWakeup
CHECK_DEADLOCK FALSE
