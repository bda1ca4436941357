CONSTANTS
    Families = {"defaults"}
    Programs <- MCPrograms
    Vars <- MCVars
    Objects = {"hall", "room", "thing"}
    Answers <- MCAnswers
    MaxAsks = 2
    MaxDepth = 4
SPECIFICATION Spec
INVARIANTS
    LinesRight
CHECK_DEADLOCK FALSE
