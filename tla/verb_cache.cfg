\* Deadlock: when every object is recycled there is no verb left to run.
CONSTANTS
    MaxOid = 3
    Calls = {}
    Hooks = {}
    Name = {look}
    VerbId = {v1, v2}
CHECK_DEADLOCK FALSE
SPECIFICATION SpecVerbs
SYMMETRY AddressSymmetry
INVARIANTS
    LookupRight
