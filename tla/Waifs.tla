------------------------------- MODULE Waifs -------------------------------
(***************************************************************************)
(* Waifs, the lightweight objects of waif.c, and the objects they are      *)
(* instances of.                                                           *)
(*                                                                         *)
(* A waif keeps values for those properties of its class whose names begin *)
(* with ':'.  It shares with the class a list of their names, which counts *)
(* its holders.  When properties or parents change, the classes let go of  *)
(* their lists, and a waif is brought up to date when it is next looked at,  *)
(* by comparing its list with the new one of its class.                    *)
(*                                                                         *)
(* Names are compared by address; here equal names have equal addresses,   *)
(* as the literals of one verb and all strings read from a dump have.      *)
(***************************************************************************)
EXTENDS ObjectTree, SequencesExt

CONSTANTS
    Waif,
    Null,
    Names,     \* names of properties
    Plain,     \* those that do not begin with ':'
    Values,    \* of the properties of waifs
    CLEAR,     \* the value of type TYPE_CLEAR
    Garbage,   \* what is read past the end of an array
    Mappable   \* N_MAPPABLE_PROPS

Address == 1..Cardinality(Oid) + Cardinality(Waif)

ASSUME WaifAssumption ==
    /\ IsFiniteSet(Waif) /\ Waif \cap Oid = {} /\ Null \notin Address
    /\ Plain \subseteq Names /\ Mappable \in Nat
    /\ {CLEAR, Garbage} \cap Values = {} /\ CLEAR # Garbage
    /\ Null \notin Seq(Values \cup {CLEAR})

VARIABLES
    propdefs,       \* the names that each object defines, in order
    lists,          \* the lists of names: [refcount, defs], by address
    waif_propdefs,  \* for each object, the address of its list
    waifs,          \* each is [class, propdefs, propvals, map]
    \* What a reader expects of the waifs: the value put to each property
    \* last, and the properties that must still have it.
    put,
    kept

waifVars == <<propdefs, lists, waif_propdefs, waifs, put, kept>>

\* What is where there is no list, and no waif.
NoList == [refcount |-> 0, defs |-> <<>>]
NoWaif == [class |-> NOTHING, propdefs |-> Null, propvals |-> Null, map |-> {}]
There(w) == waifs[w].class # NOTHING

InitWaifs ==
    /\ Init /\ propdefs = [o \in Oid |-> <<>>]
    /\ lists = [a \in Address |-> NoList] /\ waif_propdefs = [o \in Oid |-> Null]
    /\ waifs = [w \in Waif |-> NoWaif]
    /\ put = [w \in Waif |-> [n \in Names |-> CLEAR]] /\ kept = [w \in Waif |-> {}]

(***************************************************************************)
(* The lists of names.  A memory has the variables lists, waif_propdefs    *)
(* and waifs for its fields.                                               *)
(***************************************************************************)
Memory == [lists |-> lists, of |-> waif_propdefs, waifs |-> waifs]

FreePropdefs(mem, a) ==
    IF a = Null THEN mem
    ELSE IF mem.lists[a].refcount > 1 THEN [mem EXCEPT !.lists[a].refcount = @ - 1]
    ELSE [mem EXCEPT !.lists[a] = NoList]

\* gen_waif_propdefs(); an address that was freed may be had again.
ForWaifs(names) ==
    LET upto[i \in 0..Len(names)] ==
            IF i = 0 THEN <<>>
            ELSE IF names[i] \in Plain THEN upto[i - 1] ELSE Append(upto[i - 1], names[i])
    IN  upto[Len(names)]
Inherited(names, up, o) ==
    LET defs[x \in Oid] ==
            ForWaifs(names[x]) \o IF up[x] = NOTHING THEN <<>> ELSE defs[up[x]]
    IN  defs[o]
DefsOf(o) == Inherited(propdefs, Parent, o)
Generated(mem, o) ==
    LET a == CHOOSE a \in Address :
                 mem.lists[a] = NoList /\ \A b \in 1..a - 1 : mem.lists[b] # NoList
    IN  IF mem.of[o] # Null THEN mem
        ELSE [mem EXCEPT !.of[o] = a, !.lists[a] = [refcount |-> 1, defs |-> DefsOf(o)]]

\* The waif w shares the list of its class, in place of the one it has.
Sharing(mem, w) ==
    LET a == mem.of[mem.waifs[w].class]
    IN  [mem EXCEPT !.waifs[w].propdefs = a, !.lists[a].refcount = @ + 1]

\* The objects at and above oid, by the parents "up", and at and below oid.
Line(up, oid) ==
    LET line[x \in Oid] == {x} \cup IF up[x] = NOTHING THEN {} ELSE line[up[x]]
    IN  IF oid = NOTHING THEN {} ELSE line[oid]
Below(oid) == {x \in valid : oid \in Line(Parent, x)}
At(seq, i) == IF i \in DOMAIN seq THEN seq[i] ELSE Garbage

(***************************************************************************)
(* The values of a waif.  Of the first Mappable names only those in its    *)
(* map have a place in propvals; the rest follow, and all have one.        *)
(***************************************************************************)
HasPlace(map, i) == i > Mappable \/ i \in map

\* count_waif_propvals(), of a list of len names.
CountPropvals(map, len) == Cardinality(map) + IF len > Mappable THEN len - Mappable ELSE 0

\* alloc_waif_propvals(), all clear.
AllocPropvals(map, len) ==
    IF CountPropvals(map, len) = 0 THEN Null
    ELSE [i \in 1..CountPropvals(map, len) |-> CLEAR]

\* find_propval_offset(), of the i-th name; 0 where the code returns -1.
Offset_InMap(map, i) ==
    IF i > Mappable THEN i - Mappable + Cardinality(map)
    ELSE IF i \in map THEN Cardinality({j \in map : j <= i})
    ELSE 0

\* The values of the names, put where the map gives them a place.
Placed(map, values) ==
    [k \in 1..CountPropvals(map, Len(values)) |->
        values[CHOOSE i \in 1..Len(values) : Offset_InMap(map, i) = k]]

\* The bug: the values of deleted properties are not passed over.
Transferred_KeepDeleted(old, new, map, propvals) ==
    LET Places(i, j) == Cardinality({k \in i..j - 1 : HasPlace(map, k)})
        Taken(s, k) ==
            [a |-> k + 1, ov |-> s.ov + Places(k, k + 1),
             xp |-> Append(s.xp, IF HasPlace(map, k) THEN At(propvals, s.ov) ELSE CLEAR)]
        turn[b \in 0..Len(new)] ==
            IF b = 0 THEN [a |-> 1, ov |-> 1, xp |-> <<>>]
            ELSE LET s    == turn[b - 1]
                     same == {k \in s.a..Len(old) : old[k] = new[b]}
                 IN  IF same = {} THEN [s EXCEPT !.xp = Append(@, CLEAR)] ELSE Taken(s, Min(same))
    IN  turn[Len(new)].xp

\* The loop of update_waif_propdefs() over the new names: the value of each.
\* It goes through the old names, from a on, and takes the old values one by
\* one, from ov on; those of the names that it passes over are gone.
Transferred(old, new, map, propvals) ==
    LET Places(i, j) == Cardinality({k \in i..j - 1 : HasPlace(map, k)})
        Taken(s, k) ==
            [a |-> k + 1, ov |-> s.ov + Places(s.a, k + 1),
             xp |-> Append(s.xp, IF HasPlace(map, k) THEN At(propvals, s.ov + Places(s.a, k))
                                 ELSE CLEAR)]
        turn[b \in 0..Len(new)] ==
            IF b = 0 THEN [a |-> 1, ov |-> 1, xp |-> <<>>]
            ELSE LET s    == turn[b - 1]
                     same == {k \in s.a..Len(old) : old[k] = new[b]}
                 IN  IF same = {} THEN [s EXCEPT !.xp = Append(@, CLEAR)] ELSE Taken(s, Min(same))
    IN  turn[Len(new)].xp

\* Its end: a new map, and the values packed.
Packed(xfer) ==
    LET map == {i \in 1..Len(xfer) : i <= Mappable /\ xfer[i] # CLEAR}
    IN  [map |-> map,
         propvals |-> IF CountPropvals(map, Len(xfer)) = 0 THEN Null ELSE Placed(map, xfer)]

(***************************************************************************)
(* update_waif_propdefs()                                                  *)
(***************************************************************************)
\* The class was recycled: the map stays.
Invalid(mem, w) ==
    [FreePropdefs(mem, mem.waifs[w].propdefs)
        EXCEPT !.waifs[w].propdefs = Null, !.waifs[w].propvals = Null]

Remapped(old, new, waif) ==
    IF waif.propvals = Null
    THEN [map |-> waif.map, propvals |-> AllocPropvals(waif.map, Len(new))]
    ELSE Packed(Transferred(old, new, waif.map, waif.propvals))

Updated(mem, w) ==
    LET waif == mem.waifs[w]
        gen  == Generated(mem, waif.class)
        new  == Sharing(gen, w)
        Defs(a) == IF a = Null THEN <<>> ELSE new.lists[a].defs
        values  == Remapped(Defs(waif.propdefs), Defs(new.waifs[w].propdefs), waif)
    IN  IF waif.class \notin valid THEN Invalid(mem, w)
        ELSE IF waif.propdefs = mem.of[waif.class] THEN mem
        ELSE FreePropdefs([new EXCEPT !.waifs[w].map = values.map,
                                      !.waifs[w].propvals = values.propvals],
                          waif.propdefs)

\* A waif that was looked at while its class was not there has no list.  When
\* the number is given to a new object without one, the two are taken to agree,
\* and a waif read from a dump without a class has values of no list: the
\* server dies by a null pointer.
Dies(w) ==
    LET waif == waifs[w]
    IN  /\ waif.class \in valid /\ waif.propdefs = Null
        /\ waif_propdefs[waif.class] = Null \/ waif.propvals # Null

Becomes(mem) == lists' = mem.lists /\ waif_propdefs' = mem.of /\ waifs' = mem.waifs

(***************************************************************************)
(* Operations on waifs                                                     *)
(***************************************************************************)
NewWaif(w, class) ==
    /\ ~There(w) /\ class \in valid
    /\ LET gen  == Generated(Memory, class)
           defs == gen.lists[gen.of[class]].defs
           new  == [class |-> class, propdefs |-> gen.of[class], map |-> {},
                    propvals |-> AllocPropvals({}, Len(defs))]
       IN  Becomes(Sharing([gen EXCEPT !.waifs[w] = new], w))
    /\ put' = [put EXCEPT ![w] = [n \in Names |-> CLEAR]]
    /\ kept' = [kept EXCEPT ![w] = {}]
    /\ UNCHANGED <<vars, propdefs>>

FreeWaif(w) ==
    /\ There(w)
    /\ Becomes([FreePropdefs(Memory, waifs[w].propdefs) EXCEPT !.waifs[w] = NoWaif])
    /\ put' = [put EXCEPT ![w] = [n \in Names |-> CLEAR]]
    /\ kept' = [kept EXCEPT ![w] = {}]
    /\ UNCHANGED <<vars, propdefs>>

\* What is not in the list of a waif any more when it is looked at is gone.
Known(mem, w) ==
    LET a == mem.waifs[w].propdefs
    IN  [n \in Names |-> IF a # Null /\ n \in ToSet(mem.lists[a].defs) THEN put[w][n] ELSE CLEAR]

\* waif_get_prop(), waif_bytes() and the rest change nothing but this.
Look(w) ==
    /\ There(w) /\ ~Dies(w)
    /\ LET mem == Updated(Memory, w)
       IN  Becomes(mem) /\ put' = [put EXCEPT ![w] = Known(mem, w)]
    /\ UNCHANGED <<vars, propdefs, kept>>

\* alloc_propval_offset(): i gets a place.
WithPlace(waif, i) ==
    LET map == waif.map \cup {i}
        at  == Offset_InMap(map, i)
        old == IF waif.propvals = Null THEN <<>> ELSE waif.propvals
    IN  [waif EXCEPT !.map = map, !.propvals = InsertAt(old, at, CLEAR)]

\* waif_put_prop()
PutProp(w, n, value) ==
    /\ There(w) /\ ~Dies(w)
    /\ LET mem  == Updated(Memory, w)
           waif == mem.waifs[w]
           i    == IF waif.propdefs = Null THEN 0
                   ELSE SelectInSeq(mem.lists[waif.propdefs].defs, LAMBDA m : m = n)
           placed == IF Offset_InMap(waif.map, i) = 0 THEN WithPlace(waif, i) ELSE waif
           at     == Offset_InMap(placed.map, i)
       IN  /\ waif.class \in valid /\ i # 0
           /\ Becomes([mem EXCEPT !.waifs[w] = [placed EXCEPT !.propvals =
                          SubSeq(@, 1, at - 1) \o <<value>> \o SubSeq(@, at + 1, Len(@))]])
           /\ put' = [put EXCEPT ![w] = [Known(mem, w) EXCEPT ![n] = value]]
    /\ kept' = [kept EXCEPT ![w] = @ \cup {n}]
    /\ UNCHANGED <<vars, propdefs>>

(***************************************************************************)
(* A dump, and a start of the server from it                               *)
(***************************************************************************)
\* write_waif(): the length of the list, and the values of the mapped names
\* and of the others that are not clear.
Written(waif, len) ==
    LET Value(i) == waif.propvals[Offset_InMap(waif.map, i)]
    IN  {<<i, Value(i)>> : i \in {j \in 1..len : HasPlace(waif.map, j)
                                    /\ (j <= Mappable \/ Value(j) # CLEAR)}}

\* read_waif()
ReadWaif(class, written, len) ==
    LET map    == {i \in 1..len : i <= Mappable /\ \E v \in written : v[1] = i}
        values == [i \in 1..len |-> IF \E v \in written : v[1] = i
                                    THEN (CHOOSE v \in written : v[1] = i)[2]
                                    ELSE CLEAR]
    IN  [class |-> class, propdefs |-> Null, map |-> map, propvals |-> Placed(map, values)]

\* waif_after_loading() makes the lists of the classes that have waifs anew,
\* here at the addresses with their numbers.
Instances(class) == {w \in Waif : waifs[w].class = class}
Made(o) == o \in valid /\ Instances(o) # {}
ListOf(o) == IF Made(o) THEN o + 1 ELSE Null

\* A waif of which mem is what was written.
Again(mem, w) ==
    LET waif == mem.waifs[w]
        len  == IF waif.propdefs = Null THEN 0 ELSE Len(mem.lists[waif.propdefs].defs)
    IN  [ReadWaif(waif.class, Written(waif, len), len) EXCEPT !.propdefs = ListOf(waif.class)]

\* Each waif is brought up to date to be written.  One without a list is taken
\* to agree with a class that has none, and nothing of it is written: it is read
\* without values.  If its class has got a list for a waif written before it, it
\* has that list too when it has no values, and else the server dies.
Overlooked(w) == Dies(w) /\ waif_propdefs[waifs[w].class] = Null
MayComeLater(w) ==
    /\ Overlooked(w) /\ waifs[w].propvals = Null
    /\ \E v \in Instances(waifs[w].class) : waifs[v].propdefs # Null
ToBeWritten(w, later) ==
    Updated(IF w \in later THEN Generated(Memory, waifs[w].class) ELSE Memory, w)

\* No array is made for a waif that was overlooked, so with more names than
\* Mappable what is read past its end is anything: this is not followed.
Restart ==
    \E later \in SUBSET {w \in Waif : MayComeLater(w)} :
       /\ \A w \in Waif : There(w) /\ Dies(w) /\ w \notin later =>
             Overlooked(w) /\ Len(DefsOf(waifs[w].class)) <= Mappable
       /\ waif_propdefs' = [o \in Oid |-> ListOf(o)]
       /\ lists' = [a \in Address |->
              IF Made(a - 1) THEN [refcount |-> 1 + Cardinality(Instances(a - 1)), defs |-> DefsOf(a - 1)]
              ELSE NoList]
       /\ LET saved == [w \in Waif |-> ToBeWritten(w, later)]
          IN  /\ waifs' = [w \in Waif |-> IF There(w) THEN Again(saved[w], w) ELSE NoWaif]
              /\ put' = [w \in Waif |-> IF There(w) THEN Known(saved[w], w) ELSE put[w]]
       /\ UNCHANGED <<vars, propdefs, kept>>

(***************************************************************************)
(* What is to be expected of the waifs when their classes change           *)
(***************************************************************************)
\* The properties of an object, each with the object that defines it.
Definitions(there, up, defs, oid) ==
    IF oid \notin there THEN {}
    ELSE UNION {{<<x, n>> : n \in ToSet(defs[x])} : x \in Line(up, oid)}

\* A name deleted and added again before the waif is looked at is taken for the
\* old one, and may even cost others their values: then nothing is expected.
Follow(w, old, new) ==
    LET Named(defs) == {d[2] : d \in defs}
        a == waifs[w].propdefs
    IN  IF a # Null /\ Named(new \ old) \cap ToSet(lists[a].defs) # {} THEN {}
        ELSE kept[w] \ Named(old \ new)
Expect ==
    /\ kept' = [w \in Waif |->
           IF ~There(w) THEN {}
           ELSE Follow(w, Definitions(valid, Parent, propdefs, waifs[w].class),
                          Definitions(valid', Parent', propdefs', waifs[w].class))]
    /\ UNCHANGED put

\* A waif whose list is that of an object below sees the name in it change.
Sees(w, oid) ==
    /\ There(w) /\ waifs[w].propdefs # Null
    /\ \E x \in Below(oid) : waif_propdefs[x] = waifs[w].propdefs
ExpectRenamed(oid, old, new) ==
    LET before(w) == Definitions(valid, Parent, propdefs, waifs[w].class)
        after(w)  == Definitions(valid, Parent, propdefs', waifs[w].class)
    IN  /\ put' = [w \in Waif |->
               IF Sees(w, oid) THEN [put[w] EXCEPT ![new] = put[w][old], ![old] = CLEAR]
               ELSE put[w]]
        /\ kept' = [w \in Waif |->
               IF ~There(w) THEN {}
               ELSE IF Sees(w, oid) THEN {IF n = old THEN new ELSE n : n \in kept[w]}
               ELSE Follow(w, before(w), after(w))]

(***************************************************************************)
(* Operations on objects, which let go of the lists of all they affect     *)
(***************************************************************************)
LetGo(objects) ==
    LET left(a) == lists[a].refcount - Cardinality({o \in objects : waif_propdefs[o] = a})
    IN  [Memory EXCEPT
            !.lists = [a \in Address |-> IF left(a) <= 0 THEN NoList
                                         ELSE [@[a] EXCEPT !.refcount = left(a)]],
            !.of = [o \in Oid |-> IF o \in objects THEN Null ELSE @[o]]]

MayDefine(oid, n) == \A x \in Line(Parent, oid) \cup Below(oid) : n \notin ToSet(propdefs[x])

AddPropdef(oid, n) ==
    /\ oid \in valid /\ MayDefine(oid, n)
    /\ propdefs' = [propdefs EXCEPT ![oid] = Append(@, n)]
    /\ Becomes(LetGo(Below(oid))) /\ UNCHANGED vars /\ Expect

DeletePropdef(oid, n) ==
    /\ oid \in valid /\ n \in ToSet(propdefs[oid])
    /\ propdefs' = [propdefs EXCEPT ![oid] = RemoveFirst(@, n)]
    /\ Becomes(LetGo(Below(oid))) /\ UNCHANGED vars /\ Expect

\* waif_rename_propdef(), for all at or below oid.  Waifs that are not up to
\* date do not see the lists that are changed: for them the old name is gone.
Rename(seq, old, new) == [i \in DOMAIN seq |-> IF seq[i] = old THEN new ELSE seq[i]]
\* The bug: the lists of children keep the old name.
RenamedInPlace_NotBelow(oid, old, new) ==
    LET held == {waif_propdefs[oid]}
        renamed == [a \in Address |-> IF a \notin held THEN lists[a]
                                      ELSE [lists[a] EXCEPT !.defs = Rename(@, old, new)]]
    IN  [Memory EXCEPT !.lists = renamed]
RenamedInPlace(oid, old, new) ==
    LET held == {waif_propdefs[x] : x \in Below(oid)}
        renamed == [a \in Address |-> IF a \notin held THEN lists[a]
                                      ELSE [lists[a] EXCEPT !.defs = Rename(@, old, new)]]
    IN  [Memory EXCEPT !.lists = renamed]
RenamePropdef(oid, old, new) ==
    /\ oid \in valid /\ old \in ToSet(propdefs[oid]) /\ MayDefine(oid, new)
    /\ propdefs' = [propdefs EXCEPT ![oid] = Rename(@, old, new)]
    /\ UNCHANGED vars
    /\ IF {old, new} \cap Plain = {}
       THEN Becomes(RenamedInPlace(oid, old, new)) /\ ExpectRenamed(oid, old, new)
       ELSE Becomes(LetGo(Below(oid))) /\ Expect

NoConflict(oid, parent) ==
    \A x \in Line(Parent, parent), y \in Below(oid) : ToSet(propdefs[x]) \cap ToSet(propdefs[y]) = {}
ChparentWaifs(oid, parent) ==
    /\ NoConflict(oid, parent) /\ Chparent(oid, parent)
    /\ Becomes(LetGo(Below(oid))) /\ UNCHANGED propdefs /\ Expect

CreateWaifs(parent) ==
    (Create(parent) \/ CreateYoung(parent)) /\ Becomes(Memory) /\ UNCHANGED propdefs /\ Expect

RecycleWaifs(oid) ==
    /\ Recycle(oid)
    /\ propdefs' = [propdefs EXCEPT ![oid] = <<>>]
    /\ Becomes(LetGo(Below(oid))) /\ Expect

\* The names and the list go with the object; its waifs keep the old number.
MovePropdefs(old, new) ==
    /\ propdefs' = [propdefs EXCEPT ![new] = propdefs[old], ![old] = <<>>]
    /\ Becomes([Memory EXCEPT !.of[new] = waif_propdefs[old], !.of[old] = Null])
    /\ Expect
RenumberWaifs(old) == Renumber(old) /\ MovePropdefs(old, Lowest(valid, old))
SetObjectNumberWaifs(old, new) == SetObjectNumber(old, new) /\ MovePropdefs(old, new)

NextWaifs ==
    \/ \E parent \in OidOrNothing : CreateWaifs(parent)
    \/ \E oid \in Oid :
          \/ RenumberWaifs(oid) \/ RecycleWaifs(oid)
          \/ \E new \in Oid : SetObjectNumberWaifs(oid, new)
          \/ \E parent \in OidOrNothing : ChparentWaifs(oid, parent)
          \/ \E n \in Names : AddPropdef(oid, n) \/ DeletePropdef(oid, n)
          \/ \E n, new \in Names : RenamePropdef(oid, n, new)
    \/ \E w \in Waif :
          \/ FreeWaif(w) \/ Look(w)
          \/ \E class \in Oid : NewWaif(w, class)
          \/ \E n \in Names, value \in Values : PutProp(w, n, value)
    \/ Restart

SpecWaifs == InitWaifs /\ [][NextWaifs]_<<vars, waifVars>>

(***************************************************************************)
(* Properties                                                              *)
(***************************************************************************)
\* What a waif has for a property is what was put to it last, or is clear, and
\* it is clear only where that is to be expected: when the property was not
\* put to, or has been deleted, renamed or taken from the class since.
WaifsKeepValues ==
    \A w \in Waif :
        ~Dies(w) /\ waifs[w].class \in valid =>
            LET mem  == Updated(Memory, w)
                waif == mem.waifs[w]
                defs == mem.lists[waif.propdefs].defs
                Value(i) == IF Offset_InMap(waif.map, i) = 0 THEN CLEAR
                            ELSE At(waif.propvals, Offset_InMap(waif.map, i))
            IN  /\ kept[w] \subseteq ToSet(defs)
                /\ \A i \in DOMAIN defs :
                      \/ Value(i) = put[w][defs[i]]
                      \/ Value(i) = CLEAR /\ defs[i] \notin kept[w]

\* A list that an object holds has the names of the properties the object has,
\* whatever was added, deleted, renamed and put under other parents since it
\* was made; so waif_rename_propdef() finds the name it looks for, and
\* db_find_property() those that waifs know.  A list is freed when, and only
\* when, nothing holds it any more.
ListsCurrent ==
    LET Holders(a) == {o \in Oid : waif_propdefs[o] = a} \cup {w \in Waif : waifs[w].propdefs = a}
    IN  /\ \A a \in Address :
              /\ lists[a].refcount = Cardinality(Holders(a))
              /\ lists[a].refcount = 0 => lists[a] = NoList
        /\ \A o \in Oid : waif_propdefs[o] # Null =>
              o \in valid /\ lists[waif_propdefs[o]].defs = DefsOf(o)
=============================================================================
