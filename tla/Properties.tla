----------------------------- MODULE Properties -----------------------------
(***************************************************************************)
(* The properties of objects as db_properties.c keeps them.                *)
(*                                                                         *)
(* propdefs holds the names of the properties that an object defines, and  *)
(* propval a value for each property it has: first those for the names in  *)
(* its own propdefs, then those for its parent's, and so on up.  So each   *)
(* change of a propdefs or of a parent has to move values in the arrays of *)
(* every descendant.                                                       *)
(*                                                                         *)
(* Both ends of parent links agree and there are no cycles (ObjectTree).   *)
(***************************************************************************)
EXTENDS Integers, SequencesExt

CONSTANTS
    Oid,       \* numbers of objects
    NOTHING,
    Names,     \* names of properties, not those of built-in ones
    Values,    \* values of properties
    CLEAR,     \* the value of type TYPE_CLEAR
    Garbage    \* what is read past the end of an array, or of no object

ASSUME SpecialAssumption == NOTHING \notin Oid /\ {CLEAR, Garbage} \cap Values = {} /\ CLEAR # Garbage

VARIABLES
    valid,     \* the objects there are
    parent,
    propdefs,  \* the names, in order
    propval

vars == <<valid, parent, propdefs, propval>>

Init ==
    /\ valid = {}
    /\ parent = [o \in Oid |-> NOTHING]
    /\ propdefs = [o \in Oid |-> <<>>] /\ propval = [o \in Oid |-> <<>>]

At(seq, i) == IF i \in DOMAIN seq THEN seq[i] ELSE Garbage
IndexOf(o, n) == SelectInSeq(propdefs[o], LAMBDA m : m = n)

\* An object and its ancestors, and an object and its descendants.
Line(up, o) ==
    LET line[x \in Oid] == {x} \cup (IF up[x] = NOTHING THEN {} ELSE line[up[x]])
    IN  IF o = NOTHING THEN {} ELSE line[o]
Below(o) == {x \in Oid : o \in Line(parent, x)}

\* dbpriv_count_properties()
Count(up, defs, o) ==
    LET count[x \in Oid] == Len(defs[x]) + IF up[x] = NOTHING THEN 0 ELSE count[up[x]]
    IN  IF o = NOTHING THEN 0 ELSE count[o]

(***************************************************************************)
(* db_find_property()                                                      *)
(***************************************************************************)
NotFound == [definer |-> NOTHING, at |-> 0]
Find(o, n) ==
    LET find[x \in Oid] ==
            IF IndexOf(x, n) # 0 THEN [definer |-> x, at |-> IndexOf(x, n)]
            ELSE IF parent[x] = NOTHING THEN NotFound
            ELSE LET up == find[parent[x]]
                 IN  IF up = NotFound THEN NotFound ELSE [up EXCEPT !.at = @ + Len(propdefs[x])]
    IN  find[o]

\* While the value is clear, the one of the parent is looked at, at the
\* position that is left when the names of the object itself are passed over.
ValueAt(o, at) ==
    LET value[x \in Oid] ==
            [i \in Int |->
                IF At(propval[x], i) # CLEAR THEN At(propval[x], i)
                ELSE IF parent[x] = NOTHING THEN Garbage
                ELSE value[parent[x]][i - Len(propdefs[x])]]
    IN  value[o][at]

DefinedAtOrBelow_Here(n, o) == IndexOf(o, n) # 0
DefinedAtOrBelow(n, o) == \E x \in Below(o) : IndexOf(x, n) # 0
MayDefine(o, n) == Find(o, n) = NotFound /\ ~DefinedAtOrBelow(n, o)

(***************************************************************************)
(* Adding and deleting properties                                          *)
(***************************************************************************)
\* Where position at of root is in the array of an object below it.
Offset(root, at, o) ==
    LET offset[x \in Oid] ==
            IF x = root \/ parent[x] = NOTHING THEN at
            ELSE Len(propdefs[x]) + offset[parent[x]]
    IN  offset[o]

\* insert_prop_recursively(), remove_prop_recursively(); nprops is counted with
\* the name added or deleted already.
InsertBelow(root, at, value, defs) ==
    [o \in Oid |->
        IF o \notin Below(root) THEN propval[o]
        ELSE LET pos == Offset(root, at, o)
             IN  [i \in 1..Count(parent, defs, o) |->
                     IF i < pos THEN At(propval[o], i)
                     ELSE IF i > pos THEN At(propval[o], i - 1)
                     ELSE IF o = root THEN value ELSE CLEAR]]
RemoveBelow(root, at, defs) ==
    [o \in Oid |->
        IF o \notin Below(root) THEN propval[o]
        ELSE LET pos == Offset(root, at, o)
             IN  [i \in 1..Count(parent, defs, o) |->
                     At(propval[o], IF i < pos THEN i ELSE i + 1)]]

AddPropdef(o, n, value) ==
    /\ o \in valid /\ MayDefine(o, n)
    /\ propdefs' = [propdefs EXCEPT ![o] = Append(@, n)]
    /\ propval' = InsertBelow(o, Len(propdefs[o]) + 1, value, propdefs')
    /\ UNCHANGED <<valid, parent>>

DeletePropdef(o, n) ==
    /\ o \in valid /\ IndexOf(o, n) # 0
    /\ propdefs' = [propdefs EXCEPT ![o] = RemoveAt(@, IndexOf(o, n))]
    /\ propval' = RemoveBelow(o, IndexOf(o, n), propdefs')
    /\ UNCHANGED <<valid, parent>>

\* Positions stay.
RenamePropdef(o, old, new) ==
    /\ o \in valid /\ IndexOf(o, old) # 0 /\ MayDefine(o, new)
    /\ propdefs' = [propdefs EXCEPT ![o][IndexOf(o, old)] = new]
    /\ UNCHANGED <<valid, parent, propval>>

(***************************************************************************)
(* Setting and clearing values                                             *)
(***************************************************************************)
SetProperty(o, n, value) ==
    /\ o \in valid /\ Find(o, n) # NotFound
    /\ propval' = [propval EXCEPT ![o][Find(o, n).at] = value]
    /\ UNCHANGED <<valid, parent, propdefs>>

\* clear_property() refuses the definer, whose value others fall back on.
MayClear_Any(o, n) == Find(o, n) # NotFound
MayClear(o, n) == Find(o, n) # NotFound /\ Find(o, n).definer # o
ClearProperty(o, n) ==
    /\ o \in valid /\ MayClear(o, n)
    /\ propval' = [propval EXCEPT ![o][Find(o, n).at] = CLEAR]
    /\ UNCHANGED <<valid, parent, propdefs>>

(***************************************************************************)
(* Changing parents                                                        *)
(***************************************************************************)
\* fix_props() of o, for which "local" values stay that come from o up to oid.
FixProps_NoCommon(o, local, old, new, common) ==
    [i \in 1..local + new + common |->
        IF i <= local THEN At(propval[o], i)
        ELSE IF i <= local + new THEN CLEAR
        ELSE At(propval[o], i - new)]
FixProps(o, local, old, new, common) ==
    [i \in 1..local + new + common |->
        IF i <= local THEN At(propval[o], i)
        ELSE IF i <= local + new THEN CLEAR
        ELSE At(propval[o], i - new + old)]

\* dbpriv_fix_properties_after_chparent(), of o at or below oid.
AfterChparent(oid, old_parent, new_parent, o) ==
    LET both   == Line(parent, old_parent) \cap Line(parent, new_parent)
        common == IF both = {} THEN NOTHING
                  ELSE CHOOSE x \in both : both \subseteq Line(parent, x)
        inherited(p) == Count(parent, propdefs, p)
    IN  FixProps(o, Offset(oid, Len(propdefs[oid]), o),
                 inherited(old_parent) - inherited(common),
                 inherited(new_parent) - inherited(common), inherited(common))

NoConflict(o, p) ==
    \A x \in Line(parent, p) : \A i \in DOMAIN propdefs[x] : ~DefinedAtOrBelow(propdefs[x][i], o)

Chparent(o, p) ==
    /\ o \in valid /\ p \in valid \cup {NOTHING} /\ o \notin Line(parent, p)
    /\ NoConflict(o, p)
    /\ parent' = [parent EXCEPT ![o] = p]
    /\ propval' = [x \in Oid |-> IF x \in Below(o) THEN AfterChparent(o, parent[o], p, x)
                                 ELSE propval[x]]
    /\ UNCHANGED <<valid, propdefs>>

\* The new object is given its parent.
Create(o, p) ==
    /\ o \notin valid /\ p \in valid \cup {NOTHING}
    /\ valid' = valid \cup {o} /\ parent' = [parent EXCEPT ![o] = p]
    /\ propval' = [propval EXCEPT ![o] = AfterChparent(o, NOTHING, p, o)]
    /\ UNCHANGED propdefs

\* Each child gets the object's parent for its own, and the object none.
Recycle(o) ==
    LET Kids == {x \in Oid : parent[x] = o}
        KidAbove(x) == CHOOSE k \in Kids : x \in Below(k)
    IN  /\ o \in valid /\ \A k \in Kids : NoConflict(k, parent[o])
        /\ valid' = valid \ {o}
        /\ parent' = [x \in Oid |-> IF x = o THEN NOTHING
                                    ELSE IF x \in Kids THEN parent[o] ELSE parent[x]]
        /\ propdefs' = [propdefs EXCEPT ![o] = <<>>]
        /\ propval' = [x \in Oid |->
                          IF x = o THEN <<>>
                          ELSE IF x \in Below(o) THEN AfterChparent(KidAbove(x), o, parent[o], x)
                          ELSE propval[x]]

Next ==
    \E o \in Oid :
        \/ Recycle(o)
        \/ \E p \in Oid \cup {NOTHING} : Create(o, p) \/ Chparent(o, p)
        \/ \E n \in Names :
              \/ DeletePropdef(o, n) \/ ClearProperty(o, n)
              \/ \E new \in Names : RenamePropdef(o, n, new)
              \/ \E value \in Values : AddPropdef(o, n, value) \/ SetProperty(o, n, value)

Spec == Init /\ [][Next]_vars

(***************************************************************************)
(* Properties                                                              *)
(***************************************************************************)
\* No object has two properties of one name, whatever was added, renamed and
\* put under other parents.  recycle() rests on it: it changes parents until
\* there are no children, and would go on forever if a change were refused.
NamesApart ==
    \A o \in valid : \A x, y \in Line(parent, o) :
        \A i \in DOMAIN propdefs[x], j \in DOMAIN propdefs[y] :
            propdefs[x][i] = propdefs[y][j] => x = y /\ i = j

\* Reading a property never runs out of ancestors, and finds the value of the
\* nearest one, of those that have the property, that has a value of its own.
ReadsNearest ==
    \A o \in valid, n \in Names :
        LET h  == Find(o, n)
            Own(x) == At(propval[x], Find(x, n).at)
            Having == {x \in Line(parent, o) : Find(x, n).definer = h.definer /\ Own(x) # CLEAR}
        IN  h # NotFound =>
               \E x \in Having : Having \subseteq Line(parent, x) /\ ValueAt(o, h.at) = Own(x)

\* The names that the values of an object are for.
Layout ==
    LET layout[x \in Oid] == propdefs[x] \o (IF parent[x] = NOTHING THEN <<>> ELSE layout[parent[x]])
    IN  layout

Defines == [o \in Oid |-> ToSet(propdefs[o])]
OwnValues ==
    [o \in Oid |->
        LET layout == Layout[o]
        IN  [n \in Names |->
                IF \E i \in DOMAIN layout : layout[i] = n
                THEN At(propval[o], CHOOSE i \in DOMAIN layout : layout[i] = n)
                ELSE Garbage]]

\* The arrays keep what PropertyValues promises: each object its own value of
\* each property for as long as it has it, and no other object's.
Abstract == INSTANCE PropertyValues WITH
    None <- Garbage, defines <- Defines, own <- OwnValues
ValuesKept == Abstract!Spec
=============================================================================
