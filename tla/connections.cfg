\* Deadlock: after something undefined the server has nothing more to do.
CONSTANTS
    Conn = {c1, c2, c3}
    Player = {p, q}
    MaxCalls = 2
    Listener = {l0, l1}
    SYSTEM_OBJECT = l0
    Null = Null
    KeepSeconds = FALSE
    Hooks = {"user_connected", "user_disconnected", "user_client_disconnected"}
    MAX_QUEUED_OUTPUT = 4
    Length = {0, 1, 3, 6}
    MaxSent = 6
CHECK_DEADLOCK FALSE
SPECIFICATION MCSpec
SYMMETRY MCSymmetry
INVARIANTS
    NothingUndefined
    OnePerPlayer
    ToldOfConnections
    EveryLineAccounted
