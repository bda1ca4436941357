CONSTANTS
    Queue = {q1, q2}
    User <- MCOneUser
    Guest <- MCGuests
    Id = {a}
    Line = {"blank", "oob", "cmd"}
    Delay = {0}
    Programmer <- MCOneUser
    Builtins = {"read", "force_input", "flush_input", "set_connection_option", "kill_task",
                "suspend", "read_stdin"}
    HiWat = 2
    Limit = 1
    MaxLines = 2
    MaxDrift = 1
    MaxTime = 0
    NoTask = NoTask
    NoQueue = NoQueue
SPECIFICATION Spec
SYMMETRY MCSymmetry
INVARIANTS
    TypeOK
    NoLostWakeup
    ServedStaysAtHead
    SuspendedInputResumes
CHECK_DEADLOCK FALSE
