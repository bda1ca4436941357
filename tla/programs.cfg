CONSTANTS
    Families = {"statements", "calls", "expressions"}
    Programs <- MCPrograms
    Vars <- MCVars
    Objects = {"hall", "room", "thing"}
    Answers <- MCAnswers
    MaxAsks = 2
    MaxDepth = 4
SPECIFICATION Spec
INVARIANTS
    RunsAsWritten
    StackAsCounted
    SavedAccepted
    DecompilesBack
    LinesRight
CHECK_DEADLOCK FALSE
