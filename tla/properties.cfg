CONSTANTS
    Oid = {o1, o2, o3, o4}
    NOTHING = NOTHING
    Names = {n1, n2}
    Values = {x, y}
    CLEAR = CLEAR
    Garbage = Garbage
SPECIFICATION Spec
SYMMETRY MCSymmetry
INVARIANTS
    NamesApart
    ReadsNearest
PROPERTY
    ValuesKept
