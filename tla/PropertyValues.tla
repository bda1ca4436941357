--------------------------- MODULE PropertyValues ---------------------------
(***************************************************************************)
(* What the properties of objects promise, without arrays and positions:   *)
(* an object has the properties that it and its ancestors define, each by  *)
(* its name, and a value of its own for each, or none (it is clear).  That *)
(* value stays, whatever becomes of other properties and wherever the      *)
(* object goes, for as long as it has the property from the same definer.  *)
(***************************************************************************)
CONSTANTS
    Oid,       \* numbers of objects
    NOTHING,
    Names,     \* names of properties
    Values,    \* values of properties
    CLEAR,     \* no value of its own, not in Values
    None       \* no such property, neither in Values nor CLEAR

VARIABLES
    valid,     \* the objects there are
    parent,    \* of each object
    defines,   \* the names of the properties that each object defines
    own        \* by object and name

Blank == [n \in Names |-> None]

Init == valid = {} /\ parent = [o \in Oid |-> NOTHING]
        /\ defines = [o \in Oid |-> {}] /\ own = [o \in Oid |-> Blank]

\* An object and its ancestors, and an object and its descendants.
Line(up, o) ==
    LET line[x \in Oid] == {x} \cup (IF up[x] = NOTHING THEN {} ELSE line[up[x]])
    IN  IF o = NOTHING THEN {} ELSE line[o]
Below(up, o) == {x \in Oid : o \in Line(up, x)}
\* Where each object has the property of each name from.
Definers(up, defs) ==
    [o \in Oid |->
        LET line == Line(up, o)
        IN  [n \in Names |->
                LET from == {x \in line : n \in defs[x]}
                IN  IF from = {} THEN NOTHING ELSE CHOOSE x \in from : TRUE]]

NamesOf(S) == UNION {defines[x] : x \in S}

\* Objects keep the values of the properties they keep; others become clear.
Kept(up, defs) ==
    LET before == Definers(parent, defines)
        after  == Definers(up, defs)
        had    == own
    IN  [o \in Oid |-> [n \in Names |->
            IF after[o][n] = NOTHING THEN None
            ELSE IF after[o][n] = before[o][n] THEN had[o][n]
            ELSE CLEAR]]

Create(o, p) ==
    /\ o \notin valid /\ p \in valid \cup {NOTHING}
    /\ valid' = valid \cup {o} /\ parent' = [parent EXCEPT ![o] = p]
    /\ UNCHANGED defines /\ own' = Kept(parent', defines)

Chparent(o, p) ==
    /\ o \in valid /\ p \in valid \cup {NOTHING}
    /\ parent' = [parent EXCEPT ![o] = p] /\ UNCHANGED <<valid, defines>>
    /\ o \notin Line(parent, p)
    /\ NamesOf(Line(parent, p)) \cap NamesOf(Below(parent, o)) = {}
    /\ own' = Kept(parent', defines)

Recycle(o) ==
    /\ o \in valid /\ valid' = valid \ {o}
    /\ parent' = [x \in Oid |-> IF x = o THEN NOTHING
                                ELSE IF parent[x] = o THEN parent[o] ELSE parent[x]]
    /\ defines' = [defines EXCEPT ![o] = {}]
    /\ own' = Kept(parent', defines')

\* No name may have two properties, for any object.
Unused(o, n) == n \notin NamesOf(Line(parent, o) \cup Below(parent, o))

Add(o, n, value) ==
    /\ UNCHANGED <<valid, parent>>
    /\ defines' = [defines EXCEPT ![o] = @ \cup {n}]
    /\ o \in valid /\ Unused(o, n)
    /\ own' = [Kept(parent, defines') EXCEPT ![o][n] = value]

Delete(o, n) ==
    /\ UNCHANGED <<valid, parent>>
    /\ n \in defines[o] /\ defines' = [defines EXCEPT ![o] = @ \ {n}]
    /\ own' = Kept(parent, defines')

Rename(o, old, new) ==
    /\ UNCHANGED <<valid, parent>>
    /\ old \in defines[o] /\ defines' = [defines EXCEPT ![o] = (@ \ {old}) \cup {new}]
    /\ Unused(o, new)
    /\ own' = [x \in Oid |-> IF x \in Below(parent, o)
                             THEN [own[x] EXCEPT ![new] = own[x][old], ![old] = None]
                             ELSE own[x]]

Set(o, n, value) ==
    /\ UNCHANGED <<valid, parent, defines>>
    /\ own[o][n] # None /\ own' = [own EXCEPT ![o][n] = value]

Clear(o, n) ==
    /\ UNCHANGED <<valid, parent, defines>> /\ n \notin defines[o]
    /\ own[o][n] # None /\ own' = [own EXCEPT ![o][n] = CLEAR]

Next ==
    \E o \in Oid :
        \/ Recycle(o)
        \/ \E p \in Oid \cup {NOTHING} : Create(o, p) \/ Chparent(o, p)
        \/ \E n \in Names :
              \/ Delete(o, n) \/ Clear(o, n)
              \/ \E new \in Names : Rename(o, n, new)
              \/ \E value \in Values : Add(o, n, value) \/ Set(o, n, value)

Spec == Init /\ [][Next]_<<valid, parent, defines, own>>
=============================================================================
