\* Deadlock: when every object is recycled there is no verb left to run.
CONSTANTS
    MaxOid = 2
    Calls = {c1, c2}
    Hooks = {"accept", "recycle", "exitfunc"}
    Waif = {w1}
    Null = Null
    Names = {n1, n2, n3, plain}
    Plain = {plain}
    Values = {x}
    CLEAR = CLEAR
    Garbage = Garbage
    Mappable = 1
    MaxClass = 1
    MaxDefs = 3
    MaxAge = 1
CHECK_DEADLOCK FALSE
SPECIFICATION MCSpec
SYMMETRY MCSymmetry
INVARIANTS
    TypeOK
    LinksAgree
    Forest
    UsersExact
    NoneBeyondLast
    WaifsKeepValues
    ListsCurrent
