-------------------------- MODULE ObjectTreeProofs --------------------------
(***************************************************************************)
(* Proofs about ObjectTree, for any numbers of objects and waiting calls,  *)
(* and, from what it promises of the links, about VerbCache, for any names *)
(* of verbs.                                                               *)
(***************************************************************************)
EXTENDS VerbCache, Facts, TLAPS

LEMMA NothingIsNoOid == NOTHING \notin Oid
  BY DEF NOTHING, Oid

-----------------------------------------------------------------------------
(* Numbers of objects.                                                     *)

\* db_renumber_object() finds a number that is not above the one there is, and
\* is free if it is another.
LEMMA LowestOK ==
  ASSUME NEW used, NEW old \in Nat
  PROVE  /\ Lowest(used, old) \in 0..old
         /\ Lowest(used, old) = old \/ Lowest(used, old) \notin used
<1> DEFINE S == {n \in 0..old : n = old \/ n \notin used}
<1>1. PICK n \in S : \A m \in S : n <= m
  <2>1. S \in SUBSET Nat /\ S # {}
    OBVIOUS
  <2> HIDE DEF S
  <2> QED
    BY <2>1, Least
<1>2. \A m \in 0..n - 1 : m \in used
  <2> SUFFICES ASSUME NEW m \in 0..n - 1, m \notin used PROVE FALSE
    OBVIOUS
  <2>1. m \in S
    OBVIOUS
  <2> QED
    BY <1>1, <2>1
<1> QED
  BY <1>1, <1>2 DEF Lowest

\* db_reset_last_used_objid() puts num_objects above every object.
LEMMA ResetOK ==
  ASSUME NEW used \in SUBSET Oid, used # {}
  PROVE  /\ ResetLastUsed(used) \in 0..MaxOid + 1
         /\ \A n \in used : n < ResetLastUsed(used)
<1>1. PICK n \in used : \A m \in used : m <= n
  BY MaxOidAssumption, Greatest DEF Oid
<1> DEFINE k == CHOOSE x \in used : \A m \in used : m <= x
<1>2. k \in used /\ \A m \in used : m <= k
  BY <1>1
<1>3. k \in 0..MaxOid /\ \A m \in used : m \in Int
  <2>1. \A m \in used : m \in 0..MaxOid
    BY DEF Oid
  <2> HIDE DEF k
  <2> QED
    BY <1>2, <2>1
<1>4. ResetLastUsed(used) = 1 + k
  BY DEF ResetLastUsed
<1> HIDE DEF k
<1> QED
  BY <1>2, <1>3, <1>4, MaxOidAssumption
-----------------------------------------------------------------------------
(* Ways up, along the parents or the locations.                            *)

Links == [Oid -> OidOrNothing]
Acyclic(link) == \A o \in Oid : o \notin Up(link, link[o])

LEMMA UpOK ==
  ASSUME NEW link \in Links, NEW o \in Oid
  PROVE  /\ o \in Up(link, o) /\ Up(link, o) \subseteq Oid
         /\ ClosedUp(link, Up(link, o))
         /\ \A S \in SUBSET Oid : o \in S /\ ClosedUp(link, S) => Up(link, o) \subseteq S
<1>1. o # NOTHING
  BY NothingIsNoOid
<1>2. \A y \in Up(link, o) : link[y] # NOTHING => link[y] \in Up(link, o)
  <2> SUFFICES ASSUME NEW y \in Up(link, o), link[y] # NOTHING PROVE link[y] \in Up(link, o)
    OBVIOUS
  <2>1. y \in Oid /\ link[y] \in Oid
    BY DEF Up, Links, OidOrNothing
  <2>2. ASSUME NEW S \in SUBSET Oid, o \in S, ClosedUp(link, S) PROVE link[y] \in S
    <3>1. y \in S
      BY <2>2 DEF Up
    <3> QED
      BY <2>2, <3>1 DEF ClosedUp
  <2> QED
    BY <1>1, <2>1, <2>2 DEF Up
<1> QED
  BY <1>1, <1>2 DEF Up, ClosedUp

LEMMA UpNothing == \A link : Up(link, NOTHING) = {}
  BY DEF Up

\* To show that there is no way around, a set closed upwards is enough.
LEMMA AcyclicBy ==
  ASSUME NEW link \in Links,
         \A o \in Oid : link[o] # NOTHING =>
            \E S \in SUBSET Oid : link[o] \in S /\ ClosedUp(link, S) /\ o \notin S
  PROVE  Acyclic(link)
<1> SUFFICES ASSUME NEW o \in Oid PROVE o \notin Up(link, link[o])
  BY DEF Acyclic
<1>1. CASE link[o] = NOTHING
  BY <1>1, UpNothing
<1>2. CASE link[o] # NOTHING
  <2>1. link[o] \in Oid
    BY <1>2 DEF Links, OidOrNothing
  <2> QED
    BY <1>2, <2>1, UpOK
<1> QED
  BY <1>1, <1>2

\* An object may be put anywhere but below itself.
LEMMA Relinked ==
  ASSUME NEW link \in Links, Acyclic(link), NEW x \in Oid, NEW p \in OidOrNothing,
         x \notin Up(link, p)
  PROVE  [link EXCEPT ![x] = p] \in Links /\ Acyclic([link EXCEPT ![x] = p])
<1> DEFINE new == [link EXCEPT ![x] = p]
<1>1. new \in Links /\ new[x] = p /\ \A o \in Oid \ {x} : new[o] = link[o]
  BY DEF Links
<1> HIDE DEF new
<1>2. ASSUME NEW S \in SUBSET Oid, ClosedUp(link, S), x \notin S PROVE ClosedUp(new, S)
  BY <1>1, <1>2 DEF ClosedUp
<1>3. ASSUME NEW o \in Oid, new[o] # NOTHING
      PROVE  \E S \in SUBSET Oid : new[o] \in S /\ ClosedUp(new, S) /\ o \notin S
  <2>1. CASE o = x
    <3>1. p \in Oid
      BY <1>1, <1>3, <2>1 DEF OidOrNothing
    <3> QED
      BY <1>1, <1>2, <2>1, <3>1, UpOK
  <2>2. CASE o # x
    <3> DEFINE S == Up(link, link[o])
    <3>1. link[o] \in Oid /\ new[o] = link[o]
      BY <1>1, <1>3, <2>2 DEF Links, OidOrNothing
    <3>2. S \subseteq Oid /\ link[o] \in S /\ ClosedUp(link, S) /\ o \notin S
      BY <3>1, UpOK DEF Acyclic
    <3>3. \A R \in SUBSET Oid : link[o] \in R /\ ClosedUp(link, R) => S \subseteq R
      BY <3>1, UpOK
    <3> HIDE DEF S
    <3>4. CASE x \notin S
      BY <1>2, <3>1, <3>2, <3>4
    <3>5. CASE x \in S /\ p = NOTHING
      <4>1. ClosedUp(new, S)
        BY <1>1, <3>2, <3>5 DEF ClosedUp
      <4> QED
        BY <3>1, <3>2, <4>1
    <3>6. CASE x \in S /\ p # NOTHING
      <4> DEFINE T == Up(link, p)
      <4>1. p \in Oid
        BY <3>6 DEF OidOrNothing
      <4>2. T \subseteq Oid /\ p \in T /\ ClosedUp(link, T) /\ x \notin T
        BY <4>1, UpOK
      <4> HIDE DEF T
      <4>3. o \notin T
        <5> SUFFICES ASSUME o \in T PROVE FALSE
          OBVIOUS
        <5>1. link[o] \in T
          BY <3>1, <4>2, NothingIsNoOid DEF ClosedUp
        <5> QED
          BY <3>3, <3>6, <4>2, <5>1
      <4>4. ClosedUp(new, S \cup T)
        BY <1>1, <3>2, <4>2 DEF ClosedUp
      <4> QED
        BY <3>1, <3>2, <4>2, <4>3, <4>4
    <3> QED
      BY <3>4, <3>5, <3>6
  <2> QED
    BY <2>1, <2>2
<1>4. Acyclic(new)
  BY <1>1, <1>3, AcyclicBy
<1> QED
  BY <1>1, <1>4 DEF new

\* Links may be cut, or go to where the next one went.
Shorter(link, new) ==
    \A o \in Oid :
        \/ new[o] = NOTHING
        \/ new[o] = link[o]
        \/ link[o] # NOTHING /\ new[o] = link[link[o]]
LEMMA Shortened ==
  ASSUME NEW link \in Links, Acyclic(link), NEW new \in Links, Shorter(link, new)
  PROVE  Acyclic(new)
<1>1. ASSUME NEW S \in SUBSET Oid, ClosedUp(link, S) PROVE ClosedUp(new, S)
  <2> SUFFICES ASSUME NEW y \in S, new[y] # NOTHING PROVE new[y] \in S
    BY DEF ClosedUp
  <2>1. link[y] # NOTHING => link[y] \in S
    BY <1>1 DEF ClosedUp
  <2> QED
    BY <1>1, <2>1 DEF ClosedUp, Shorter
<1>2. ASSUME NEW o \in Oid, new[o] # NOTHING
      PROVE  \E S \in SUBSET Oid : new[o] \in S /\ ClosedUp(new, S) /\ o \notin S
  <2>1. link[o] \in Oid
    BY <1>2 DEF Links, OidOrNothing, Shorter
  <2> DEFINE S == Up(link, link[o])
  <2>2. S \subseteq Oid /\ link[o] \in S /\ ClosedUp(link, S) /\ o \notin S
    BY <2>1, UpOK DEF Acyclic
  <2> HIDE DEF S
  <2>3. new[o] \in S
    BY <1>2, <2>2 DEF ClosedUp, Shorter
  <2> QED
    BY <1>1, <2>2, <2>3
<1> QED
  BY <1>2, AcyclicBy

\* An object may take a number that no link leads to.
LEMMA RenamedLinks ==
  ASSUME NEW link \in Links, Acyclic(link), NEW old \in Oid, NEW fresh \in Oid, old # fresh,
         link[fresh] = NOTHING, \A o \in Oid : link[o] # fresh,
         NEW new \in Links, new[old] = NOTHING,
         new[fresh] = link[old],
         \A o \in Oid \ {old, fresh} : new[o] = IF link[o] = old THEN fresh ELSE link[o]
  PROVE  Acyclic(new)
<1> DEFINE R(S) == (S \ {old, fresh}) \cup (IF old \in S THEN {fresh} ELSE {})
<1>1. link[old] # old
  BY UpOK DEF Acyclic
<1>2. ASSUME NEW S \in SUBSET Oid, ClosedUp(link, S) PROVE R(S) \in SUBSET Oid /\ ClosedUp(new, R(S))
  <2>1. R(S) \in SUBSET Oid
    OBVIOUS
  <2>2. ASSUME NEW y \in R(S), new[y] # NOTHING PROVE new[y] \in R(S)
    <3>1. CASE y = fresh
      BY <1>1, <1>2, <2>2, <3>1 DEF ClosedUp
    <3>2. CASE y # fresh
      <4>1. y \in S /\ y \in Oid \ {old, fresh}
        BY <2>2, <3>2
      <4>2. link[y] # NOTHING
        BY <2>2, <4>1, NothingIsNoOid
      <4>3. link[y] \in S /\ link[y] # fresh
        BY <1>2, <4>1, <4>2 DEF ClosedUp
      <4>4. new[y] = IF link[y] = old THEN fresh ELSE link[y]
        BY <4>1
      <4> QED
        BY <4>3, <4>4
    <3> QED
      BY <3>1, <3>2
  <2> QED
    BY <2>1, <2>2 DEF ClosedUp
<1>3. ASSUME NEW o \in Oid, new[o] # NOTHING
      PROVE  \E S \in SUBSET Oid : new[o] \in S /\ ClosedUp(new, S) /\ o \notin S
  <2> DEFINE b == IF o = fresh THEN old ELSE o
  <2>1. b \in Oid /\ b # fresh /\ (b = old <=> o = fresh) /\ o # old
    BY <1>3
  <2>2. link[b] # NOTHING /\ new[o] = IF link[b] = old THEN fresh ELSE link[b]
    BY <1>1, <1>3, NothingIsNoOid
  <2>3. link[b] \in Oid
    BY <2>1, <2>2 DEF Links, OidOrNothing
  <2> DEFINE S == Up(link, link[b])
  <2>4. S \in SUBSET Oid /\ link[b] \in S /\ ClosedUp(link, S) /\ b \notin S
    BY <2>1, <2>3, UpOK DEF Acyclic
  <2> HIDE DEF S
  <2>5. new[o] \in R(S)
    BY <2>1, <2>2, <2>4
  <2>6. o \notin R(S)
    BY <2>1, <2>4
  <2> HIDE DEF R
  <2> QED
    BY <1>2, <2>4, <2>5, <2>6
<1> QED
  BY <1>3, AcyclicBy
-----------------------------------------------------------------------------
(* What db_objects.c does to objects whose links are sound.                *)

ParentOf(f) == [o \in Oid |-> f[o].parent]
LocationOf(f) == [o \in Oid |-> f[o].location]
Linked(f, V) ==
    \A o \in V :
        /\ f[o].parent \in V \cup {NOTHING} /\ f[o].location \in V \cup {NOTHING}
        /\ f[o].children = {x \in V : f[x].parent = o}
        /\ f[o].contents = {x \in V : f[x].location = o}
Sound(f, V) ==
    /\ f \in [Oid -> Object] /\ V \subseteq Oid
    /\ \A o \in Oid \ V : f[o] = Fresh
    /\ Linked(f, V)
    /\ Acyclic(ParentOf(f)) /\ Acyclic(LocationOf(f))

LEMMA LinksOf ==
  ASSUME NEW f \in [Oid -> Object]
  PROVE  /\ ParentOf(f) \in Links /\ LocationOf(f) \in Links
         /\ \A o \in Oid : ParentOf(f)[o] = f[o].parent /\ LocationOf(f)[o] = f[o].location
  BY DEF Object, ParentOf, LocationOf, Links

LEMMA FreshIs ==
  /\ Fresh \in Object /\ Fresh.parent = NOTHING /\ Fresh.location = NOTHING
  /\ Fresh.children = {} /\ Fresh.contents = {} /\ Fresh.user = FALSE
  BY DEF Fresh, Object, OidOrNothing

\* No way up leaves the objects there are.
LEMMA UpIsValid ==
  ASSUME NEW f, NEW V, Sound(f, V), NEW p \in V
  PROVE  Up(ParentOf(f), p) \subseteq V /\ Up(LocationOf(f), p) \subseteq V
<1>1. f \in [Oid -> Object] /\ V \in SUBSET Oid /\ p \in Oid
  BY DEF Sound
<1>2. ClosedUp(ParentOf(f), V) /\ ClosedUp(LocationOf(f), V)
  BY <1>1, LinksOf DEF Sound, Linked, ClosedUp
<1> QED
  BY <1>1, <1>2, LinksOf, UpOK

LEMMA AddFresh ==
  ASSUME NEW f, NEW V, Sound(f, V), NEW n \in Oid \ V
  PROVE  Sound(f, V \cup {n})
<1>1. f[n] = Fresh
  BY DEF Sound
<1>2. Linked(f, V \cup {n})
  <2> SUFFICES ASSUME NEW o \in V \cup {n}
               PROVE  /\ f[o].parent \in V \cup {n, NOTHING} /\ f[o].location \in V \cup {n, NOTHING}
                      /\ f[o].children = {x \in V \cup {n} : f[x].parent = o}
                      /\ f[o].contents = {x \in V \cup {n} : f[x].location = o}
    BY DEF Linked
  <2>1. o # NOTHING /\ n # NOTHING /\ V \subseteq Oid
    BY NothingIsNoOid DEF Sound
  <2>2. CASE o \in V
    BY <1>1, <2>1, <2>2, FreshIs DEF Sound, Linked
  <2>3. CASE o = n
    <3>1. \A x \in V : f[x].parent # n /\ f[x].location # n
      BY <2>1 DEF Sound, Linked
    <3> QED
      BY <1>1, <2>1, <2>3, <3>1, FreshIs
  <2> QED
    BY <2>2, <2>3
<1> QED
  BY <1>2 DEF Sound

\* Object by object, what ChangeParent() makes of f.
ChangeParentMade(f, oid, p, g) ==
    \A x \in Oid :
        /\ g[x].parent = IF x = oid THEN p ELSE f[x].parent
        /\ g[x].children = IF x = p THEN f[x].children \cup {oid}
                        ELSE IF x = f[oid].parent THEN f[x].children \ {oid}
                        ELSE f[x].children
        /\ g[x].location = f[x].location /\ g[x].contents = f[x].contents
        /\ g[x].user = f[x].user

LEMMA ChangeParentIs ==
  ASSUME NEW f \in [Oid -> Object], NEW oid \in Oid, NEW p \in OidOrNothing,
         NEW g, g = ChangeParent(f, oid, p)
  PROVE  g \in [Oid -> Object] /\ ChangeParentMade(f, oid, p, g)
<1>1. ASSUME NEW x \in Oid
      PROVE  /\ g[x] \in Object
             /\ g[x].parent = IF x = oid THEN p ELSE f[x].parent
             /\ g[x].children = IF x = p THEN f[x].children \cup {oid}
                             ELSE IF x = f[oid].parent THEN f[x].children \ {oid}
                             ELSE f[x].children
             /\ g[x].location = f[x].location /\ g[x].contents = f[x].contents
             /\ g[x].user = f[x].user
  <2>1. f[x] \in Object
    OBVIOUS
  <2>2. g[x] = [f[x] EXCEPT !.parent = IF x = oid THEN p ELSE @,
                            !.children = IF x = p THEN @ \cup {oid}
                                        ELSE IF x = f[oid].parent THEN @ \ {oid} ELSE @]
    BY DEF ChangeParent
  <2>3. g[x].parent = IF x = oid THEN p ELSE f[x].parent
    BY <2>1, <2>2 DEF Object
  <2>4. g[x].children = IF x = p THEN f[x].children \cup {oid}
                    ELSE IF x = f[oid].parent THEN f[x].children \ {oid}
                    ELSE f[x].children
    BY <2>1, <2>2 DEF Object
  <2>5. g[x].location = f[x].location /\ g[x].contents = f[x].contents
    BY <2>1, <2>2 DEF Object
  <2>6. g[x].user = f[x].user
    BY <2>1, <2>2 DEF Object
  <2>7. g[x] \in Object
    <3>1. ASSUME NEW v \in OidOrNothing, NEW w \in SUBSET Oid
          PROVE  [f[x] EXCEPT !.parent = v, !.children = w] \in Object
      BY <2>1 DEF Object
    <3> DEFINE v == IF x = oid THEN p ELSE f[x].parent
               w == IF x = p THEN f[x].children \cup {oid}
                    ELSE IF x = f[oid].parent THEN f[x].children \ {oid}
                    ELSE f[x].children
    <3>2. v \in OidOrNothing /\ w \in SUBSET Oid
      BY <2>1 DEF Object
    <3>3. g[x] = [f[x] EXCEPT !.parent = v, !.children = w]
      BY <2>1, <2>2 DEF Object
    <3> HIDE DEF v, w
    <3> QED
      BY <3>1, <3>2, <3>3
  <2> QED
    BY <2>3, <2>4, <2>5, <2>6, <2>7
<1>2. g = [x \in Oid |-> g[x]]
  BY DEF ChangeParent
<1>3. g \in [Oid -> Object]
  BY <1>1, <1>2
<1> QED
  BY <1>1, <1>3 DEF ChangeParentMade

LEMMA ChangeParentSound ==
  ASSUME NEW f, NEW V, Sound(f, V), NEW oid \in V, NEW p \in V \cup {NOTHING},
         oid \notin Up(ParentOf(f), p),
         NEW g, g = ChangeParent(f, oid, p)
  PROVE  Sound(g, V) /\ \A x \in Oid : g[x].user = f[x].user
<1>1. f \in [Oid -> Object] /\ V \subseteq Oid /\ oid \in Oid /\ p \in OidOrNothing
  BY DEF Sound, OidOrNothing
<1>2. g \in [Oid -> Object]
  BY <1>1, ChangeParentIs
<1>3. \A x \in Oid :
        /\ g[x].parent = IF x = oid THEN p ELSE f[x].parent
        /\ g[x].children = IF x = p THEN f[x].children \cup {oid}
                        ELSE IF x = f[oid].parent THEN f[x].children \ {oid}
                        ELSE f[x].children
        /\ g[x].location = f[x].location /\ g[x].contents = f[x].contents
        /\ g[x].user = f[x].user
  <2>1. ChangeParentMade(f, oid, p, g)
    BY <1>1, ChangeParentIs
  <2> QED
    BY <2>1 DEF ChangeParentMade
<1>4. Acyclic(ParentOf(g)) /\ Acyclic(LocationOf(g))
  <2>1. LocationOf(g) = LocationOf(f)
    BY <1>3 DEF LocationOf
  <2>2. ParentOf(g) = [ParentOf(f) EXCEPT ![oid] = p]
    BY <1>1, <1>3 DEF ParentOf
  <2>3. Acyclic(ParentOf(f)) /\ Acyclic(LocationOf(f)) /\ ParentOf(f) \in Links
    BY <1>1, LinksOf DEF Sound
  <2>4. Acyclic([ParentOf(f) EXCEPT ![oid] = p])
    BY <1>1, <2>3, Relinked
  <2> QED
    BY <2>1, <2>2, <2>3, <2>4
<1>5. Linked(g, V)
  <2> SUFFICES ASSUME NEW o \in V
               PROVE  /\ g[o].parent \in V \cup {NOTHING} /\ g[o].location \in V \cup {NOTHING}
                      /\ g[o].children = {x \in V : g[x].parent = o}
                      /\ g[o].contents = {x \in V : g[x].location = o}
    BY DEF Linked
  <2>1. /\ f[o].parent \in V \cup {NOTHING} /\ f[o].location \in V \cup {NOTHING}
        /\ f[o].children = {x \in V : f[x].parent = o}
        /\ f[o].contents = {x \in V : f[x].location = o}
    BY DEF Sound, Linked
  <2>2. g[o].children = {x \in V : g[x].parent = o}
    <3>1. \A x \in V : g[x].parent = IF x = oid THEN p ELSE f[x].parent
      BY <1>1, <1>3
    <3>2. CASE o = p
      <4>1. g[o].children = f[o].children \cup {oid}
        BY <1>1, <1>3, <3>2
      <4> QED
        BY <2>1, <3>1, <3>2, <4>1
    <3>3. CASE o # p /\ o = f[oid].parent
      <4>1. g[o].children = f[o].children \ {oid}
        BY <1>1, <1>3, <3>3
      <4> QED
        BY <2>1, <3>1, <3>3, <4>1
    <3>4. CASE o # p /\ o # f[oid].parent
      <4>1. g[o].children = f[o].children
        BY <1>1, <1>3, <3>4
      <4> QED
        BY <2>1, <3>1, <3>4, <4>1
    <3> QED
      BY <3>2, <3>3, <3>4
  <2>3. g[o].contents = {x \in V : g[x].location = o}
    <3>1. \A x \in V : g[x].location = f[x].location /\ g[x].contents = f[x].contents
      BY <1>1, <1>3
    <3> QED
      BY <2>1, <3>1
  <2> QED
    BY <1>1, <1>3, <2>1, <2>2, <2>3
<1>6. \A o \in Oid \ V : g[o] = Fresh
  <2> SUFFICES ASSUME NEW o \in Oid \ V PROVE g[o] = Fresh
    OBVIOUS
  <2>1. f[o] = Fresh /\ o # p /\ o # oid /\ o # f[oid].parent
    BY NothingIsNoOid DEF Sound, Linked
  <2>2. g[o] = f[o]
    BY <2>1 DEF ChangeParent, Fresh
  <2> QED
    BY <2>1, <2>2
<1> QED
  BY <1>1, <1>2, <1>3, <1>4, <1>5, <1>6 DEF Sound

\* Object by object, what ChangeLocation() makes of f.
ChangeLocationMade(f, oid, p, g) ==
    \A x \in Oid :
        /\ g[x].location = IF x = oid THEN p ELSE f[x].location
        /\ g[x].contents = IF x = p THEN f[x].contents \cup {oid}
                        ELSE IF x = f[oid].location THEN f[x].contents \ {oid}
                        ELSE f[x].contents
        /\ g[x].parent = f[x].parent /\ g[x].children = f[x].children
        /\ g[x].user = f[x].user

LEMMA ChangeLocationIs ==
  ASSUME NEW f \in [Oid -> Object], NEW oid \in Oid, NEW p \in OidOrNothing,
         NEW g, g = ChangeLocation(f, oid, p)
  PROVE  g \in [Oid -> Object] /\ ChangeLocationMade(f, oid, p, g)
<1>1. ASSUME NEW x \in Oid
      PROVE  /\ g[x] \in Object
             /\ g[x].location = IF x = oid THEN p ELSE f[x].location
             /\ g[x].contents = IF x = p THEN f[x].contents \cup {oid}
                             ELSE IF x = f[oid].location THEN f[x].contents \ {oid}
                             ELSE f[x].contents
             /\ g[x].parent = f[x].parent /\ g[x].children = f[x].children
             /\ g[x].user = f[x].user
  <2>1. f[x] \in Object
    OBVIOUS
  <2>2. g[x] = [f[x] EXCEPT !.location = IF x = oid THEN p ELSE @,
                            !.contents = IF x = p THEN @ \cup {oid}
                                        ELSE IF x = f[oid].location THEN @ \ {oid} ELSE @]
    BY DEF ChangeLocation
  <2>3. g[x].location = IF x = oid THEN p ELSE f[x].location
    BY <2>1, <2>2 DEF Object
  <2>4. g[x].contents = IF x = p THEN f[x].contents \cup {oid}
                    ELSE IF x = f[oid].location THEN f[x].contents \ {oid}
                    ELSE f[x].contents
    BY <2>1, <2>2 DEF Object
  <2>5. g[x].parent = f[x].parent /\ g[x].children = f[x].children
    BY <2>1, <2>2 DEF Object
  <2>6. g[x].user = f[x].user
    BY <2>1, <2>2 DEF Object
  <2>7. g[x] \in Object
    <3>1. ASSUME NEW v \in OidOrNothing, NEW w \in SUBSET Oid
          PROVE  [f[x] EXCEPT !.location = v, !.contents = w] \in Object
      BY <2>1 DEF Object
    <3> DEFINE v == IF x = oid THEN p ELSE f[x].location
               w == IF x = p THEN f[x].contents \cup {oid}
                    ELSE IF x = f[oid].location THEN f[x].contents \ {oid}
                    ELSE f[x].contents
    <3>2. v \in OidOrNothing /\ w \in SUBSET Oid
      BY <2>1 DEF Object
    <3>3. g[x] = [f[x] EXCEPT !.location = v, !.contents = w]
      BY <2>1, <2>2 DEF Object
    <3> HIDE DEF v, w
    <3> QED
      BY <3>1, <3>2, <3>3
  <2> QED
    BY <2>3, <2>4, <2>5, <2>6, <2>7
<1>2. g = [x \in Oid |-> g[x]]
  BY DEF ChangeLocation
<1>3. g \in [Oid -> Object]
  BY <1>1, <1>2
<1> QED
  BY <1>1, <1>3 DEF ChangeLocationMade

LEMMA ChangeLocationSound ==
  ASSUME NEW f, NEW V, Sound(f, V), NEW oid \in V, NEW p \in V \cup {NOTHING},
         oid \notin Up(LocationOf(f), p),
         NEW g, g = ChangeLocation(f, oid, p)
  PROVE  Sound(g, V) /\ \A x \in Oid : g[x].user = f[x].user
<1>1. f \in [Oid -> Object] /\ V \subseteq Oid /\ oid \in Oid /\ p \in OidOrNothing
  BY DEF Sound, OidOrNothing
<1>2. g \in [Oid -> Object]
  BY <1>1, ChangeLocationIs
<1>3. \A x \in Oid :
        /\ g[x].location = IF x = oid THEN p ELSE f[x].location
        /\ g[x].contents = IF x = p THEN f[x].contents \cup {oid}
                        ELSE IF x = f[oid].location THEN f[x].contents \ {oid}
                        ELSE f[x].contents
        /\ g[x].parent = f[x].parent /\ g[x].children = f[x].children
        /\ g[x].user = f[x].user
  <2>1. ChangeLocationMade(f, oid, p, g)
    BY <1>1, ChangeLocationIs
  <2> QED
    BY <2>1 DEF ChangeLocationMade
<1>4. Acyclic(LocationOf(g)) /\ Acyclic(ParentOf(g))
  <2>1. ParentOf(g) = ParentOf(f)
    BY <1>3 DEF ParentOf
  <2>2. LocationOf(g) = [LocationOf(f) EXCEPT ![oid] = p]
    BY <1>1, <1>3 DEF LocationOf
  <2>3. Acyclic(LocationOf(f)) /\ Acyclic(ParentOf(f)) /\ LocationOf(f) \in Links
    BY <1>1, LinksOf DEF Sound
  <2>4. Acyclic([LocationOf(f) EXCEPT ![oid] = p])
    BY <1>1, <2>3, Relinked
  <2> QED
    BY <2>1, <2>2, <2>3, <2>4
<1>5. Linked(g, V)
  <2> SUFFICES ASSUME NEW o \in V
               PROVE  /\ g[o].parent \in V \cup {NOTHING} /\ g[o].location \in V \cup {NOTHING}
                      /\ g[o].children = {x \in V : g[x].parent = o}
                      /\ g[o].contents = {x \in V : g[x].location = o}
    BY DEF Linked
  <2>1. /\ f[o].parent \in V \cup {NOTHING} /\ f[o].location \in V \cup {NOTHING}
        /\ f[o].children = {x \in V : f[x].parent = o}
        /\ f[o].contents = {x \in V : f[x].location = o}
    BY DEF Sound, Linked
  <2>2. g[o].contents = {x \in V : g[x].location = o}
    <3>1. \A x \in V : g[x].location = IF x = oid THEN p ELSE f[x].location
      BY <1>1, <1>3
    <3>2. CASE o = p
      <4>1. g[o].contents = f[o].contents \cup {oid}
        BY <1>1, <1>3, <3>2
      <4> QED
        BY <2>1, <3>1, <3>2, <4>1
    <3>3. CASE o # p /\ o = f[oid].location
      <4>1. g[o].contents = f[o].contents \ {oid}
        BY <1>1, <1>3, <3>3
      <4> QED
        BY <2>1, <3>1, <3>3, <4>1
    <3>4. CASE o # p /\ o # f[oid].location
      <4>1. g[o].contents = f[o].contents
        BY <1>1, <1>3, <3>4
      <4> QED
        BY <2>1, <3>1, <3>4, <4>1
    <3> QED
      BY <3>2, <3>3, <3>4
  <2>3. g[o].children = {x \in V : g[x].parent = o}
    <3>1. \A x \in V : g[x].parent = f[x].parent /\ g[x].children = f[x].children
      BY <1>1, <1>3
    <3> QED
      BY <2>1, <3>1
  <2> QED
    BY <1>1, <1>3, <2>1, <2>2, <2>3
<1>6. \A o \in Oid \ V : g[o] = Fresh
  <2> SUFFICES ASSUME NEW o \in Oid \ V PROVE g[o] = Fresh
    OBVIOUS
  <2>1. f[o] = Fresh /\ o # p /\ o # oid /\ o # f[oid].location
    BY NothingIsNoOid DEF Sound, Linked
  <2>2. g[o] = f[o]
    BY <2>1 DEF ChangeLocation, Fresh
  <2> QED
    BY <2>1, <2>2
<1> QED
  BY <1>1, <1>2, <1>3, <1>4, <1>5, <1>6 DEF Sound

LEMMA EmptiedSound ==
  ASSUME NEW f, NEW V, Sound(f, V), NEW oid \in V, NEW g, g = Emptied(f, oid)
  PROVE  /\ Sound(g, V) /\ \A x \in Oid : g[x].user = f[x].user
         /\ g[oid].location = NOTHING /\ g[oid].contents = {}
<1>1. f \in [Oid -> Object] /\ V \subseteq Oid /\ oid \in Oid
  BY DEF Sound
<1>2. ASSUME NEW x \in Oid
      PROVE  /\ g[x] \in Object
             /\ g[x].location = IF x \in f[oid].contents \cup {oid} THEN NOTHING ELSE f[x].location
             /\ g[x].contents = IF x = oid THEN {} ELSE f[x].contents \ {oid}
             /\ g[x].parent = f[x].parent /\ g[x].children = f[x].children
             /\ g[x].user = f[x].user
  <2>1. f[x] \in Object /\ NOTHING \in OidOrNothing
    BY <1>1 DEF OidOrNothing
  <2>2. g[x] = [f[x] EXCEPT !.location = IF x \in f[oid].contents \cup {oid} THEN NOTHING ELSE @,
                            !.contents = IF x = oid THEN {} ELSE @ \ {oid}]
    BY DEF Emptied
  <2>3. g[x].location = IF x \in f[oid].contents \cup {oid} THEN NOTHING ELSE f[x].location
    BY <2>1, <2>2 DEF Object
  <2>4. g[x].contents = IF x = oid THEN {} ELSE f[x].contents \ {oid}
    BY <2>1, <2>2 DEF Object
  <2>5. g[x].parent = f[x].parent /\ g[x].children = f[x].children
    BY <2>1, <2>2 DEF Object
  <2>6. g[x].user = f[x].user
    BY <2>1, <2>2 DEF Object
  <2>7. g[x] \in Object
    <3>1. ASSUME NEW v \in OidOrNothing, NEW w \in SUBSET Oid
          PROVE  [f[x] EXCEPT !.location = v, !.contents = w] \in Object
      BY <2>1 DEF Object
    <3> DEFINE v == IF x \in f[oid].contents \cup {oid} THEN NOTHING ELSE f[x].location
               w == IF x = oid THEN {} ELSE f[x].contents \ {oid}
    <3>2. v \in OidOrNothing /\ w \in SUBSET Oid
      BY <2>1 DEF Object
    <3>3. g[x] = [f[x] EXCEPT !.location = v, !.contents = w]
      BY <2>1, <2>2 DEF Object
    <3> HIDE DEF v, w
    <3> QED
      BY <3>1, <3>2, <3>3
  <2> QED
    BY <2>3, <2>4, <2>5, <2>6, <2>7
<1>3. g \in [Oid -> Object]
  <2>1. g = [x \in Oid |-> g[x]]
    BY DEF Emptied
  <2> QED
    BY <1>2, <2>1
<1>4. Acyclic(ParentOf(g)) /\ Acyclic(LocationOf(g))
  <2>1. ParentOf(g) = ParentOf(f)
    BY <1>2 DEF ParentOf
  <2>2. Shorter(LocationOf(f), LocationOf(g))
    BY <1>2 DEF LocationOf, Shorter
  <2>3. LocationOf(f) \in Links /\ LocationOf(g) \in Links /\ Acyclic(LocationOf(f))
    BY <1>1, <1>3, LinksOf DEF Sound
  <2>4. Acyclic(LocationOf(g))
    BY <2>2, <2>3, Shortened
  <2> QED
    BY <2>1, <2>4 DEF Sound
<1>5. Linked(g, V)
  <2> SUFFICES ASSUME NEW o \in V
               PROVE  /\ g[o].parent \in V \cup {NOTHING} /\ g[o].location \in V \cup {NOTHING}
                      /\ g[o].children = {x \in V : g[x].parent = o}
                      /\ g[o].contents = {x \in V : g[x].location = o}
    BY DEF Linked
  <2>1. /\ f[o].parent \in V \cup {NOTHING} /\ f[o].location \in V \cup {NOTHING}
        /\ f[o].children = {x \in V : f[x].parent = o}
        /\ f[o].contents = {x \in V : f[x].location = o}
        /\ f[oid].contents = {x \in V : f[x].location = oid}
    BY DEF Sound, Linked
  <2>2. \A x \in V : g[x].parent = f[x].parent /\ g[x].children = f[x].children
    BY <1>1, <1>2
  <2>3. \A x \in V : g[x].location = IF f[x].location = oid \/ x = oid THEN NOTHING ELSE f[x].location
    BY <1>1, <1>2, <2>1
  <2>4. g[o].contents = IF o = oid THEN {} ELSE f[o].contents \ {oid}
    BY <1>1, <1>2
  <2>5. o # NOTHING
    BY <1>1, NothingIsNoOid
  <2>6. g[o].contents = {x \in V : g[x].location = o}
    <3>1. CASE o = oid
      BY <2>3, <2>4, <2>5, <3>1
    <3>2. CASE o # oid
      BY <2>1, <2>3, <2>4, <2>5, <3>2
    <3> QED
      BY <3>1, <3>2
  <2>7. g[o].location \in V \cup {NOTHING}
    BY <2>1, <2>3
  <2> QED
    BY <2>1, <2>2, <2>6, <2>7
<1>6. \A o \in Oid \ V : g[o] = Fresh
  <2> SUFFICES ASSUME NEW o \in Oid \ V PROVE g[o] = Fresh
    OBVIOUS
  <2>1. f[o] = Fresh /\ o # oid /\ o \notin f[oid].contents
    BY DEF Sound, Linked
  <2>2. g[o] = [Fresh EXCEPT !.location = @, !.contents = @ \ {oid}]
    BY <2>1 DEF Emptied
  <2> QED
    BY <2>2 DEF Fresh
<1> QED
  BY <1>1, <1>2, <1>3, <1>4, <1>5, <1>6 DEF Sound

LEMMA OrphanedSound ==
  ASSUME NEW f, NEW V, Sound(f, V), NEW oid \in V, NEW g, g = Orphaned(f, oid)
  PROVE  /\ Sound(g, V) /\ \A x \in Oid : g[x].user = f[x].user
         /\ g[oid].parent = NOTHING /\ g[oid].children = {}
         /\ g[oid].location = f[oid].location /\ g[oid].contents = f[oid].contents
<1> DEFINE up == f[oid].parent
<1>1. f \in [Oid -> Object] /\ V \subseteq Oid /\ oid \in Oid
  BY DEF Sound
<1>2. ASSUME NEW x \in Oid
      PROVE  /\ g[x] \in Object
             /\ g[x].parent = IF x \in f[oid].children THEN up
                              ELSE IF x = oid THEN NOTHING ELSE f[x].parent
             /\ g[x].children = IF x = up THEN (f[x].children \cup f[oid].children) \ {oid}
                                ELSE IF x = oid THEN {} ELSE f[x].children
             /\ g[x].location = f[x].location /\ g[x].contents = f[x].contents
             /\ g[x].user = f[x].user
  <2>1. f[x] \in Object /\ f[oid] \in Object /\ NOTHING \in OidOrNothing
    BY <1>1 DEF OidOrNothing
  <2>2. g[x] = [f[x] EXCEPT !.parent = IF x \in f[oid].children THEN up
                                       ELSE IF x = oid THEN NOTHING ELSE @,
                            !.children = IF x = up THEN (@ \cup f[oid].children) \ {oid}
                                         ELSE IF x = oid THEN {} ELSE @]
    BY DEF Orphaned
  <2> HIDE DEF up
  <2>3. g[x].parent = IF x \in f[oid].children THEN up ELSE IF x = oid THEN NOTHING ELSE f[x].parent
    BY <2>1, <2>2 DEF Object
  <2>4. g[x].children = IF x = up THEN (f[x].children \cup f[oid].children) \ {oid}
                        ELSE IF x = oid THEN {} ELSE f[x].children
    BY <2>1, <2>2 DEF Object
  <2>5. g[x].location = f[x].location /\ g[x].contents = f[x].contents
    BY <2>1, <2>2 DEF Object
  <2>6. g[x].user = f[x].user
    BY <2>1, <2>2 DEF Object
  <2>7. g[x] \in Object
    <3>1. ASSUME NEW v \in OidOrNothing, NEW w \in SUBSET Oid
          PROVE  [f[x] EXCEPT !.parent = v, !.children = w] \in Object
      BY <2>1 DEF Object
    <3> DEFINE v == IF x \in f[oid].children THEN up ELSE IF x = oid THEN NOTHING ELSE f[x].parent
               w == IF x = up THEN (f[x].children \cup f[oid].children) \ {oid}
                    ELSE IF x = oid THEN {} ELSE f[x].children
    <3>2. v \in OidOrNothing /\ w \in SUBSET Oid
      BY <2>1 DEF Object, up
    <3>3. g[x] = [f[x] EXCEPT !.parent = v, !.children = w]
      BY <2>1, <2>2 DEF Object
    <3> HIDE DEF v, w
    <3> QED
      BY <3>1, <3>2, <3>3
  <2> QED
    BY <2>3, <2>4, <2>5, <2>6, <2>7
<1>3. g \in [Oid -> Object]
  <2>1. g = [x \in Oid |-> g[x]]
    BY DEF Orphaned
  <2> QED
    BY <1>2, <2>1
<1>4. /\ \A o \in V : /\ f[o].parent \in V \cup {NOTHING} /\ f[o].location \in V \cup {NOTHING}
                      /\ f[o].children = {x \in V : f[x].parent = o}
                      /\ f[o].contents = {x \in V : f[x].location = o}
      /\ NOTHING \notin V
  BY <1>1, NothingIsNoOid DEF Sound, Linked
<1>5. up # oid /\ oid \notin f[oid].children
  <2>1. oid \notin Up(ParentOf(f), up)
    BY <1>1, LinksOf DEF Sound, Acyclic
  <2>2. up # oid
    BY <1>1, <2>1, LinksOf, UpOK
  <2> QED
    BY <1>4, <2>2
<1>6. Acyclic(ParentOf(g)) /\ Acyclic(LocationOf(g))
  <2>1. LocationOf(g) = LocationOf(f)
    BY <1>2 DEF LocationOf
  <2>2. ParentOf(f) \in Links /\ ParentOf(g) \in Links /\ Acyclic(ParentOf(f))
    BY <1>1, <1>3, LinksOf DEF Sound
  <2>3. ASSUME NEW o \in Oid
        PROVE  \/ ParentOf(g)[o] = NOTHING
               \/ ParentOf(g)[o] = ParentOf(f)[o]
               \/ ParentOf(f)[o] # NOTHING /\ ParentOf(g)[o] = ParentOf(f)[ParentOf(f)[o]]
    <3>1. CASE o \in f[oid].children
      <4>1. f[o].parent = oid /\ g[o].parent = up /\ oid # NOTHING
        <5>1. f[o].parent = oid
          BY <1>4, <3>1
        <5>2. g[o].parent = up
          BY <1>2, <3>1
        <5> QED
          BY <1>1, <5>1, <5>2, NothingIsNoOid
      <4>2. ParentOf(f)[o] = oid /\ ParentOf(f)[oid] = up /\ ParentOf(g)[o] = up
        BY <1>1, <1>3, <4>1, LinksOf
      <4> QED
        BY <4>1, <4>2
    <3>2. CASE o \notin f[oid].children
      BY <1>2, <3>2 DEF ParentOf
    <3> QED
      BY <3>1, <3>2
  <2>4. Acyclic(ParentOf(g))
    <3>1. Shorter(ParentOf(f), ParentOf(g))
      BY <2>3 DEF Shorter
    <3> QED
      BY <2>2, <3>1, Shortened
  <2> QED
    BY <2>1, <2>4 DEF Sound
<1>7. Linked(g, V)
  <2> SUFFICES ASSUME NEW o \in V
               PROVE  /\ g[o].parent \in V \cup {NOTHING} /\ g[o].location \in V \cup {NOTHING}
                      /\ g[o].children = {x \in V : g[x].parent = o}
                      /\ g[o].contents = {x \in V : g[x].location = o}
    BY DEF Linked
  <2>1. up \in V \cup {NOTHING}
    BY <1>4
  <2> HIDE DEF up
  <2>2. \A x \in V : g[x].location = f[x].location /\ g[x].contents = f[x].contents
    BY <1>1, <1>2
  <2>3. \A x \in V : g[x].parent = IF f[x].parent = oid THEN up
                                  ELSE IF x = oid THEN NOTHING ELSE f[x].parent
    <3> SUFFICES ASSUME NEW x \in V
                 PROVE  g[x].parent = IF f[x].parent = oid THEN up
                                      ELSE IF x = oid THEN NOTHING ELSE f[x].parent
      OBVIOUS
    <3>1. x \in f[oid].children <=> f[x].parent = oid
      BY <1>4
    <3> QED
      BY <1>1, <1>2, <3>1
  <2>4. g[o].children = IF o = up THEN (f[o].children \cup f[oid].children) \ {oid}
                        ELSE IF o = oid THEN {} ELSE f[o].children
    BY <1>1, <1>2
  <2>5. /\ f[o].children = {x \in V : f[x].parent = o} /\ f[oid].children = {x \in V : f[x].parent = oid}
        /\ f[oid].parent = up
    BY <1>4 DEF up
  <2>6. g[o].children = {x \in V : g[x].parent = o}
    <3>1. CASE o = up
      <4>1. g[o].children = {x \in V : (f[x].parent = o \/ f[x].parent = oid) /\ x # oid}
        BY <2>4, <2>5, <3>1
      <4> QED
        BY <1>4, <1>5, <2>3, <3>1, <4>1
    <3>2. CASE o # up /\ o = oid
      BY <1>4, <2>3, <2>4, <3>2
    <3>3. CASE o # up /\ o # oid
      <4>1. g[o].children = {x \in V : f[x].parent = o}
        BY <2>4, <2>5, <3>3
      <4> QED
        BY <1>4, <2>3, <2>5, <3>3, <4>1
    <3> QED
      BY <3>1, <3>2, <3>3
  <2>7. g[o].parent \in V \cup {NOTHING}
    BY <1>4, <2>1, <2>3
  <2> QED
    BY <1>4, <2>2, <2>6, <2>7
<1>8. \A o \in Oid \ V : g[o] = Fresh
  <2> SUFFICES ASSUME NEW o \in Oid \ V PROVE g[o] = Fresh
    OBVIOUS
  <2>1. f[o] = Fresh /\ o # oid /\ o \notin f[oid].children /\ o # up
    BY <1>4, NothingIsNoOid DEF Sound
  <2>2. g[o] = f[o]
    BY <2>1 DEF Orphaned, Fresh
  <2> QED
    BY <2>1, <2>2
<1> HIDE DEF up
<1>9. /\ g[oid].parent = NOTHING /\ g[oid].children = {}
      /\ g[oid].location = f[oid].location /\ g[oid].contents = f[oid].contents
  BY <1>1, <1>2, <1>5
<1> QED
  BY <1>1, <1>2, <1>3, <1>6, <1>7, <1>8, <1>9 DEF Sound

\* A barren orphan can go.
Removed(f, oid) == [f EXCEPT ![oid] = Fresh]
Barren(o) == o.location = NOTHING /\ o.contents = {} /\ o.parent = NOTHING /\ o.children = {}
LEMMA RemoveSound ==
  ASSUME NEW f, NEW V, Sound(f, V), NEW oid \in V, Barren(f[oid]),
         NEW g, g = Removed(f, oid)
  PROVE  Sound(g, V \ {oid}) /\ \A x \in Oid \ {oid} : g[x].user = f[x].user
<1>1. f \in [Oid -> Object] /\ V \subseteq Oid /\ oid \in Oid
  BY DEF Sound
<1>0. f[oid].location = NOTHING /\ f[oid].contents = {} /\ f[oid].parent = NOTHING /\ f[oid].children = {}
  BY DEF Barren
<1>2. g \in [Oid -> Object] /\ g[oid] = Fresh /\ \A x \in Oid \ {oid} : g[x] = f[x]
  BY <1>1, FreshIs DEF Removed
<1>3. \A x \in Oid : g[x].parent = f[x].parent /\ g[x].location = f[x].location
  BY <1>0, <1>2, FreshIs
<1>4. ParentOf(g) = ParentOf(f) /\ LocationOf(g) = LocationOf(f)
  BY <1>3 DEF ParentOf, LocationOf
<1>5. Linked(g, V \ {oid})
  <2> SUFFICES ASSUME NEW o \in V \ {oid}
               PROVE  /\ g[o].parent \in (V \ {oid}) \cup {NOTHING} /\ g[o].location \in (V \ {oid}) \cup {NOTHING}
                      /\ g[o].children = {x \in V \ {oid} : g[x].parent = o}
                      /\ g[o].contents = {x \in V \ {oid} : g[x].location = o}
    BY DEF Linked
  <2>1. /\ f[o].parent \in V \cup {NOTHING} /\ f[o].location \in V \cup {NOTHING}
        /\ f[o].children = {x \in V : f[x].parent = o}
        /\ f[o].contents = {x \in V : f[x].location = o}
        /\ {} = {x \in V : f[x].parent = oid}
        /\ {} = {x \in V : f[x].location = oid}
    BY <1>0 DEF Sound, Linked
  <2>2. o # NOTHING /\ g[o] = f[o] /\ f[oid].parent # o /\ f[oid].location # o
    BY <1>0, <1>1, <1>2, NothingIsNoOid
  <2>3. g[o].parent \in (V \ {oid}) \cup {NOTHING} /\ g[o].location \in (V \ {oid}) \cup {NOTHING}
    BY <2>1, <2>2
  <2>4. g[o].children = {x \in V \ {oid} : g[x].parent = o}
    BY <1>1, <1>3, <2>1, <2>2
  <2>5. g[o].contents = {x \in V \ {oid} : g[x].location = o}
    BY <1>1, <1>3, <2>1, <2>2
  <2> QED
    BY <2>3, <2>4, <2>5
<1> QED
  BY <1>1, <1>2, <1>4, <1>5 DEF Sound

LEMMA DestroySound ==
  ASSUME NEW f, NEW V, Sound(f, V), NEW oid \in V,
         NEW e, e = Emptied(f, oid), NEW p, p = Orphaned(e, oid), NEW g, g = Removed(p, oid)
  PROVE  Sound(g, V \ {oid}) /\ \A x \in Oid \ {oid} : g[x].user = f[x].user
<1>1. /\ Sound(e, V) /\ \A x \in Oid : e[x].user = f[x].user
      /\ e[oid].location = NOTHING /\ e[oid].contents = {}
  BY EmptiedSound
<1>2. /\ Sound(p, V) /\ \A x \in Oid : p[x].user = e[x].user
      /\ p[oid].parent = NOTHING /\ p[oid].children = {}
      /\ p[oid].location = e[oid].location /\ p[oid].contents = e[oid].contents
  BY <1>1, OrphanedSound
<1>3. Sound(p, V) /\ Barren(p[oid])
  BY <1>1, <1>2 DEF Barren
<1>4. Sound(g, V \ {oid}) /\ \A x \in Oid \ {oid} : g[x].user = p[x].user
  BY <1>3, RemoveSound
<1> QED
  BY <1>1, <1>2, <1>4

\* Object by object, what ChangeNumber() makes of f.
ChangeNumberMade(f, old, new, g) ==
    /\ g[old] = Fresh
    /\ /\ g[new].parent = f[old].parent /\ g[new].children = f[old].children
       /\ g[new].location = f[old].location /\ g[new].contents = f[old].contents
       /\ g[new].user = f[old].user
    /\ \A x \in Oid \ {old, new} :
          /\ g[x].parent = IF f[x].parent = old THEN new ELSE f[x].parent
          /\ g[x].children = IF x = f[old].parent THEN Replace(f[x].children, old, new)
                             ELSE f[x].children
          /\ g[x].location = IF f[x].location = old THEN new ELSE f[x].location
          /\ g[x].contents = IF x = f[old].location THEN Replace(f[x].contents, old, new)
                             ELSE f[x].contents
          /\ g[x].user = f[x].user

\* What Linked() and Acyclic() say of an object and a number that no object has.
LEMMA Apart ==
  ASSUME NEW f, NEW V, Sound(f, V), NEW old \in V, NEW new \in Oid \ V
  PROVE  /\ f[old].parent \notin {old, new} /\ f[old].location \notin {old, new}
         /\ {old, new} \cap f[old].children = {} /\ {old, new} \cap f[old].contents = {}
         /\ \A x \in Oid : /\ f[x].parent # new /\ f[x].location # new
                           /\ x \in f[old].children <=> f[x].parent = old
                           /\ x \in f[old].contents <=> f[x].location = old
         /\ f[new] = Fresh
<1>1. f \in [Oid -> Object] /\ V \subseteq Oid /\ old \in Oid /\ old # NOTHING /\ new # NOTHING
  BY NothingIsNoOid DEF Sound
<1>2. f[old].parent # old /\ f[old].location # old
  <2>1. old \notin Up(ParentOf(f), f[old].parent) /\ old \notin Up(LocationOf(f), f[old].location)
    BY <1>1, LinksOf DEF Sound, Acyclic
  <2>2. old \in Up(ParentOf(f), old) /\ old \in Up(LocationOf(f), old)
    BY <1>1, LinksOf, UpOK
  <2> QED
    BY <2>1, <2>2
<1>3. \A x \in Oid \ V : f[x] = Fresh /\ f[x].parent = NOTHING /\ f[x].location = NOTHING
  BY FreshIs DEF Sound
<1>4. \A x \in V : f[x].parent \in V \cup {NOTHING} /\ f[x].location \in V \cup {NOTHING}
  BY DEF Sound, Linked
<1>5. /\ f[old].children = {x \in V : f[x].parent = old}
      /\ f[old].contents = {x \in V : f[x].location = old}
  BY DEF Sound, Linked
<1>6. \A x \in Oid : f[x].parent # new /\ f[x].location # new
  BY <1>1, <1>3, <1>4
<1>7. \A x \in Oid : /\ x \in f[old].children <=> f[x].parent = old
                     /\ x \in f[old].contents <=> f[x].location = old
  BY <1>1, <1>3, <1>5
<1> QED
  BY <1>1, <1>2, <1>3, <1>5, <1>6, <1>7

LEMMA ChangeNumberIs ==
  ASSUME NEW f, NEW V, Sound(f, V), NEW old \in V, NEW new \in Oid \ V,
         NEW g, g = ChangeNumber(f, old, new)
  PROVE  g \in [Oid -> Object] /\ ChangeNumberMade(f, old, new, g)
<1> DEFINE h == [f EXCEPT ![new] = f[old], ![old] = Fresh]
<1>1. f \in [Oid -> Object] /\ V \subseteq Oid /\ old \in Oid /\ new \in Oid /\ old # new
  BY DEF Sound
<1>2. /\ h \in [Oid -> Object] /\ h[new] = f[old] /\ h[old] = Fresh
      /\ \A x \in Oid \ {old, new} : h[x] = f[x]
  BY <1>1, FreshIs
<1>3. g = Renamed(h, old, new, f[old])
  BY DEF ChangeNumber
<1> HIDE DEF h
<1>4. ASSUME NEW x \in Oid
      PROVE  /\ g[x] \in Object
             /\ g[x].parent = IF x \in f[old].children THEN new ELSE h[x].parent
             /\ g[x].children = IF x = f[old].parent THEN Replace(h[x].children, old, new)
                                ELSE h[x].children
             /\ g[x].location = IF x \in f[old].contents THEN new ELSE h[x].location
             /\ g[x].contents = IF x = f[old].location THEN Replace(h[x].contents, old, new)
                                ELSE h[x].contents
             /\ g[x].user = h[x].user
  <2>1. h[x] \in Object
    BY <1>2
  <2> DEFINE a == IF x \in f[old].children THEN new ELSE h[x].parent
             b == IF x = f[old].parent THEN Replace(h[x].children, old, new) ELSE h[x].children
             c == IF x \in f[old].contents THEN new ELSE h[x].location
             d == IF x = f[old].location THEN Replace(h[x].contents, old, new) ELSE h[x].contents
  <2>2. g[x] = [h[x] EXCEPT !.parent = a, !.children = b, !.location = c, !.contents = d]
    BY <1>3, <2>1 DEF Renamed, Object
  <2>3. a \in OidOrNothing /\ b \in SUBSET Oid /\ c \in OidOrNothing /\ d \in SUBSET Oid
    BY <1>1, <2>1 DEF Object, OidOrNothing, Replace
  <2> HIDE DEF a, b, c, d
  <2>5. /\ g[x] \in Object /\ g[x].parent = a /\ g[x].children = b
        /\ g[x].location = c /\ g[x].contents = d /\ g[x].user = h[x].user
    BY <2>1, <2>2, <2>3 DEF Object
  <2> QED
    BY <2>5 DEF a, b, c, d
<1>5. g \in [Oid -> Object]
  <2>1. g = [x \in Oid |-> g[x]]
    BY <1>3 DEF Renamed
  <2> QED
    BY <1>4, <2>1
<1>6. /\ f[old].parent \notin {old, new} /\ f[old].location \notin {old, new}
      /\ {old, new} \cap f[old].children = {} /\ {old, new} \cap f[old].contents = {}
      /\ \A x \in Oid : /\ x \in f[old].children <=> f[x].parent = old
                        /\ x \in f[old].contents <=> f[x].location = old
  BY Apart
<1>7. g[old] = Fresh
  <2>1. /\ g[old].parent = Fresh.parent /\ g[old].children = Fresh.children
        /\ g[old].location = Fresh.location /\ g[old].contents = Fresh.contents
        /\ g[old].user = Fresh.user
    BY <1>1, <1>2, <1>4, <1>6
  <2>2. g[old] \in Object /\ Fresh \in Object
    BY <1>1, <1>4, FreshIs
  <2> QED
    BY <2>1, <2>2 DEF Object
<1>8. /\ g[new].parent = f[old].parent /\ g[new].children = f[old].children
      /\ g[new].location = f[old].location /\ g[new].contents = f[old].contents
      /\ g[new].user = f[old].user
  BY <1>1, <1>2, <1>4, <1>6
<1>9. ASSUME NEW x \in Oid \ {old, new}
      PROVE  /\ g[x].parent = IF f[x].parent = old THEN new ELSE f[x].parent
             /\ g[x].children = IF x = f[old].parent THEN Replace(f[x].children, old, new)
                                ELSE f[x].children
             /\ g[x].location = IF f[x].location = old THEN new ELSE f[x].location
             /\ g[x].contents = IF x = f[old].location THEN Replace(f[x].contents, old, new)
                                ELSE f[x].contents
             /\ g[x].user = f[x].user
  BY <1>2, <1>4, <1>6
<1> QED
  BY <1>5, <1>7, <1>8, <1>9 DEF ChangeNumberMade

LEMMA ChangeNumberSound ==
  ASSUME NEW f, NEW V, Sound(f, V), NEW old \in V, NEW new \in Oid \ V,
         NEW g, g = ChangeNumber(f, old, new)
  PROVE  /\ Sound(g, Replace(V, old, new)) /\ g[new].user = f[old].user
         /\ \A x \in Oid \ {old, new} : g[x].user = f[x].user
<1>1. /\ f \in [Oid -> Object] /\ V \subseteq Oid /\ old \in Oid /\ new \in Oid /\ old # new
      /\ g \in [Oid -> Object]
  BY ChangeNumberIs DEF Sound
<1>2. /\ f[new].parent = NOTHING /\ f[new].location = NOTHING
      /\ \A x \in Oid : f[x].parent # new /\ f[x].location # new
      /\ \A o \in V : /\ f[o].parent \in V \cup {NOTHING} /\ f[o].location \in V \cup {NOTHING}
                      /\ f[o].children = {x \in V : f[x].parent = o}
                      /\ f[o].contents = {x \in V : f[x].location = o}
  <2>1. f[new] = Fresh /\ \A x \in Oid : f[x].parent # new /\ f[x].location # new
    BY Apart
  <2>2. Linked(f, V)
    BY DEF Sound
  <2> QED
    BY <2>1, <2>2, FreshIs DEF Linked
<1>3. \A x \in Oid \ {old, new} :
          /\ g[x].parent = IF f[x].parent = old THEN new ELSE f[x].parent
          /\ g[x].children = IF x = f[old].parent THEN Replace(f[x].children, old, new)
                             ELSE f[x].children
          /\ g[x].location = IF f[x].location = old THEN new ELSE f[x].location
          /\ g[x].contents = IF x = f[old].location THEN Replace(f[x].contents, old, new)
                             ELSE f[x].contents
          /\ g[x].user = f[x].user
  BY ChangeNumberIs DEF ChangeNumberMade
<1>4. /\ g[old] = Fresh
      /\ g[new].parent = f[old].parent /\ g[new].children = f[old].children
      /\ g[new].location = f[old].location /\ g[new].contents = f[old].contents
      /\ g[new].user = f[old].user
  BY ChangeNumberIs DEF ChangeNumberMade
<1>5. f[old].parent # old /\ f[old].location # old
  BY Apart
<1>6. Linked(g, Replace(V, old, new))
  <2> SUFFICES ASSUME NEW o \in Replace(V, old, new)
               PROVE  /\ g[o].parent \in Replace(V, old, new) \cup {NOTHING}
                      /\ g[o].location \in Replace(V, old, new) \cup {NOTHING}
                      /\ g[o].children = {x \in Replace(V, old, new) : g[x].parent = o}
                      /\ g[o].contents = {x \in Replace(V, old, new) : g[x].location = o}
    BY DEF Linked
  <2>1. new \notin V /\ V \subseteq Oid /\ old \in V /\ new # NOTHING /\ old # NOTHING /\ old # new
    BY <1>1, NothingIsNoOid
  <2>3. /\ g[o].parent \in Replace(V, old, new) \cup {NOTHING}
        /\ g[o].children = {x \in Replace(V, old, new) : g[x].parent = o}
    <3>1. CASE o = new
      <4>1. g[o].children = {x \in V : f[x].parent = old} /\ g[o].parent = f[old].parent
        BY <1>2, <1>4, <3>1
      <4>2. \A x \in V \ {old} : g[x].parent = new <=> f[x].parent = old
        BY <1>2, <1>3, <2>1
      <4>3. f[old].parent # old /\ f[old].parent # new /\ g[new].parent = f[old].parent
        BY <1>2, <1>4, <1>5, <2>1
      <4>4. {x \in Replace(V, old, new) : g[x].parent = o} = {x \in V : f[x].parent = old}
        BY <2>1, <3>1, <4>2, <4>3 DEF Replace
      <4> QED
        BY <1>2, <1>5, <4>1, <4>4 DEF Replace
    <3>2. CASE o # new
      <4>1. o \in V \ {old} /\ f[o].children = {x \in V : f[x].parent = o}
        BY <1>2, <3>2 DEF Replace
      <4>2. g[o].children = IF o = f[old].parent THEN Replace(f[o].children, old, new) ELSE f[o].children
        BY <1>3, <2>1, <4>1
      <4>3. \A x \in V \ {old} : g[x].parent = o <=> f[x].parent = o
        BY <1>2, <1>3, <2>1, <3>2, <4>1
      <4>4. g[new].parent = f[old].parent
        BY <1>4
      <4>5. g[o].children = {x \in Replace(V, old, new) : g[x].parent = o}
        BY <2>1, <4>1, <4>2, <4>3, <4>4 DEF Replace
      <4>6. g[o].parent = IF f[o].parent = old THEN new ELSE f[o].parent
        BY <1>3, <2>1, <4>1
      <4> QED
        BY <1>2, <4>1, <4>5, <4>6 DEF Replace
    <3> QED
      BY <3>1, <3>2
  <2>4. /\ g[o].location \in Replace(V, old, new) \cup {NOTHING}
        /\ g[o].contents = {x \in Replace(V, old, new) : g[x].location = o}
    <3>1. CASE o = new
      <4>1. g[o].contents = {x \in V : f[x].location = old} /\ g[o].location = f[old].location
        BY <1>2, <1>4, <3>1
      <4>2. \A x \in V \ {old} : g[x].location = new <=> f[x].location = old
        BY <1>2, <1>3, <2>1
      <4>3. f[old].location # old /\ f[old].location # new /\ g[new].location = f[old].location
        BY <1>2, <1>4, <1>5, <2>1
      <4>4. {x \in Replace(V, old, new) : g[x].location = o} = {x \in V : f[x].location = old}
        BY <2>1, <3>1, <4>2, <4>3 DEF Replace
      <4> QED
        BY <1>2, <1>5, <4>1, <4>4 DEF Replace
    <3>2. CASE o # new
      <4>1. o \in V \ {old} /\ f[o].contents = {x \in V : f[x].location = o}
        BY <1>2, <3>2 DEF Replace
      <4>2. g[o].contents = IF o = f[old].location THEN Replace(f[o].contents, old, new) ELSE f[o].contents
        BY <1>3, <2>1, <4>1
      <4>3. \A x \in V \ {old} : g[x].location = o <=> f[x].location = o
        BY <1>2, <1>3, <2>1, <3>2, <4>1
      <4>4. g[new].location = f[old].location
        BY <1>4
      <4>5. g[o].contents = {x \in Replace(V, old, new) : g[x].location = o}
        BY <2>1, <4>1, <4>2, <4>3, <4>4 DEF Replace
      <4>6. g[o].location = IF f[o].location = old THEN new ELSE f[o].location
        BY <1>3, <2>1, <4>1
      <4> QED
        BY <1>2, <4>1, <4>5, <4>6 DEF Replace
    <3> QED
      BY <3>1, <3>2
  <2> QED
    BY <2>3, <2>4
<1>7. Acyclic(ParentOf(g)) /\ Acyclic(LocationOf(g))
  <2>1. Acyclic(ParentOf(g))
    <3>1. ParentOf(f)[new] = NOTHING /\ \A x \in Oid : ParentOf(f)[x] # new
      BY <1>1, <1>2, LinksOf
    <3>2. ParentOf(g)[old] = NOTHING /\ ParentOf(g)[new] = ParentOf(f)[old]
      BY <1>1, <1>4, FreshIs, LinksOf
    <3>3. \A x \in Oid \ {old, new} : ParentOf(g)[x] = IF ParentOf(f)[x] = old THEN new ELSE ParentOf(f)[x]
      BY <1>1, <1>3, <1>4, LinksOf
    <3>4. ParentOf(f) \in Links /\ ParentOf(g) \in Links /\ Acyclic(ParentOf(f))
      BY <1>1, <1>4, LinksOf DEF Sound
    <3> QED
      BY <1>1, <3>1, <3>2, <3>3, <3>4, RenamedLinks
  <2>2. Acyclic(LocationOf(g))
    <3>1. LocationOf(f)[new] = NOTHING /\ \A x \in Oid : LocationOf(f)[x] # new
      BY <1>1, <1>2, LinksOf
    <3>2. LocationOf(g)[old] = NOTHING /\ LocationOf(g)[new] = LocationOf(f)[old]
      BY <1>1, <1>4, FreshIs, LinksOf
    <3>3. \A x \in Oid \ {old, new} : LocationOf(g)[x] = IF LocationOf(f)[x] = old THEN new ELSE LocationOf(f)[x]
      BY <1>1, <1>3, <1>4, LinksOf
    <3>4. LocationOf(f) \in Links /\ LocationOf(g) \in Links /\ Acyclic(LocationOf(f))
      BY <1>1, <1>4, LinksOf DEF Sound
    <3> QED
      BY <1>1, <3>1, <3>2, <3>3, <3>4, RenamedLinks
  <2> QED
    BY <2>1, <2>2
<1>8. \A o \in Oid \ Replace(V, old, new) : g[o] = Fresh
  <2> SUFFICES ASSUME NEW o \in Oid \ Replace(V, old, new) PROVE g[o] = Fresh
    OBVIOUS
  <2>1. CASE o = old
    BY <1>4, <2>1
  <2>2. CASE o # old
    <3>1. o \in Oid \ {old, new} /\ f[o] = Fresh
      BY <2>2 DEF Replace, Sound
    <3>2. o # f[old].parent /\ o # f[old].location
      BY <1>2, <2>2, NothingIsNoOid DEF Replace
    <3>3. /\ g[o].parent = Fresh.parent /\ g[o].children = Fresh.children
          /\ g[o].location = Fresh.location /\ g[o].contents = Fresh.contents
          /\ g[o].user = Fresh.user
      BY <1>1, <1>3, <3>1, <3>2, FreshIs, NothingIsNoOid
    <3>4. g[o] \in Object /\ Fresh \in Object
      BY <1>1, FreshIs
    <3> QED
      BY <3>3, <3>4 DEF Object
  <2> QED
    BY <2>1, <2>2
<1>9. Replace(V, old, new) \subseteq Oid
  BY <1>1 DEF Replace
<1> QED
  BY <1>1, <1>3, <1>4, <1>6, <1>7, <1>8, <1>9 DEF Sound

LEMMA CreateSound ==
  ASSUME NEW f, NEW V, Sound(f, V), NEW n \in Oid \ V, NEW p \in V \cup {NOTHING},
         NEW g, g = ChangeParent(f, n, p)
  PROVE  Sound(g, V \cup {n}) /\ f[n] = Fresh /\ \A x \in Oid : g[x].user = f[x].user
<1>1. Sound(f, V \cup {n})
  BY AddFresh
<1>2. n \notin Up(ParentOf(f), p)
  BY UpIsValid, UpNothing
<1>3. f[n] = Fresh
  BY DEF Sound
<1> QED
  BY <1>1, <1>2, <1>3, ChangeParentSound

Flagged(f, oid, yes) == [f EXCEPT ![oid].user = yes]
LEMMA FlagSound ==
  ASSUME NEW f, NEW V, Sound(f, V), NEW oid \in V, NEW yes \in BOOLEAN,
         NEW g, g = Flagged(f, oid, yes)
  PROVE  Sound(g, V) /\ g[oid].user = yes /\ \A x \in Oid \ {oid} : g[x].user = f[x].user
<1>1. f \in [Oid -> Object] /\ V \subseteq Oid /\ oid \in Oid
  BY DEF Sound
<1>2. g \in [Oid -> Object] /\ g[oid].user = yes /\ \A x \in Oid \ {oid} : g[x] = f[x]
  <2>1. f[oid] \in Object
    BY <1>1
  <2>2. [f[oid] EXCEPT !.user = yes] \in Object /\ [f[oid] EXCEPT !.user = yes].user = yes
    BY <2>1 DEF Object
  <2>3. g[oid] = [f[oid] EXCEPT !.user = yes] /\ \A x \in Oid \ {oid} : g[x] = f[x]
    BY <1>1 DEF Flagged
  <2>4. g = [x \in Oid |-> g[x]]
    BY <1>1 DEF Flagged
  <2>5. \A x \in Oid : g[x] \in Object
    BY <1>1, <2>2, <2>3
  <2> QED
    BY <2>2, <2>3, <2>4, <2>5
<1>3. \A x \in Oid : /\ g[x].parent = f[x].parent /\ g[x].children = f[x].children
                     /\ g[x].location = f[x].location /\ g[x].contents = f[x].contents
  <2>1. f[oid] \in Object /\ g[oid] = [f[oid] EXCEPT !.user = yes]
    BY <1>1 DEF Flagged
  <2>2. /\ g[oid].parent = f[oid].parent /\ g[oid].children = f[oid].children
        /\ g[oid].location = f[oid].location /\ g[oid].contents = f[oid].contents
    BY <2>1 DEF Object
  <2> QED
    BY <1>2, <2>2
<1>4. ParentOf(g) = ParentOf(f) /\ LocationOf(g) = LocationOf(f)
  BY <1>3 DEF ParentOf, LocationOf
<1>5. Linked(g, V)
  <2> SUFFICES ASSUME NEW o \in V
               PROVE  /\ g[o].parent \in V \cup {NOTHING} /\ g[o].location \in V \cup {NOTHING}
                      /\ g[o].children = {x \in V : g[x].parent = o}
                      /\ g[o].contents = {x \in V : g[x].location = o}
    BY DEF Linked
  <2>1. /\ f[o].parent \in V \cup {NOTHING} /\ f[o].location \in V \cup {NOTHING}
        /\ f[o].children = {x \in V : f[x].parent = o}
        /\ f[o].contents = {x \in V : f[x].location = o}
    BY DEF Sound, Linked
  <2>2. \A x \in V : /\ g[x].parent = f[x].parent /\ g[x].children = f[x].children
                     /\ g[x].location = f[x].location /\ g[x].contents = f[x].contents
    BY <1>1, <1>3
  <2> QED
    BY <2>1, <2>2
<1>6. \A o \in Oid \ V : g[o] = Fresh
  BY <1>2 DEF Sound
<1> QED
  BY <1>1, <1>2, <1>4, <1>5, <1>6 DEF Sound
-----------------------------------------------------------------------------
(* The invariant, and that every action keeps it.                          *)

Frame == [fn : {"none", "move", "recycle"}, what : OidOrNothing, where : OidOrNothing]

\* The forest needs the agreement of both ends: recycle() and renumber() find
\* the links to change by the other end.  Agreement needs the forest, in that no
\* object is its own parent or location.
IInv == TypeOK /\ Sound(obj, valid) /\ UsersExact /\ NoneBeyondLast

LEMMA IInvFacts ==
  ASSUME IInv
  PROVE  /\ Sound(obj, valid) /\ obj \in [Oid -> Object] /\ valid \subseteq Oid
         /\ num \in 0..MaxOid + 1 /\ calls \in [Calls -> Frame]
         /\ all_users = {o \in valid : obj[o].user} /\ \A o \in valid : o < num
         /\ MaxOid \in Nat /\ Parent = ParentOf(obj) /\ Location = LocationOf(obj)
  BY MaxOidAssumption
  DEF IInv, TypeOK, UsersExact, NoneBeyondLast, Frame, Parent, ParentOf, Location, LocationOf

LEMMA IInvNext ==
  ASSUME Sound(obj', valid'), num' \in 0..MaxOid + 1, calls' \in [Calls -> Frame],
         all_users' = {o \in valid' : obj'[o].user}, \A o \in valid' : o < num'
  PROVE  IInv'
  BY DEF IInv, TypeOK, Sound, UsersExact, NoneBeyondLast, Frame

LEMMA FramesOK ==
  /\ Idle \in Frame
  /\ \A x \in Oid : RecycleFrame(x) \in Frame
  /\ \A x, y \in Oid : MoveFrame(x, y) \in Frame
  BY DEF Idle, RecycleFrame, MoveFrame, Frame, OidOrNothing

LEMMA ReturnsOK ==
  ASSUME IInv, NEW c \in Calls, NEW fn, Returns(c, fn)
  PROVE  calls' \in [Calls -> Frame] /\ calls[c] \in Frame
  BY IInvFacts, FramesOK DEF Returns

LEMMA CreateOK ==
  ASSUME IInv, NEW p \in OidOrNothing, Create(p)
  PROVE  IInv'
<1>1. /\ num \in Oid \ valid /\ p \in valid \cup {NOTHING}
      /\ num' = num + 1 /\ valid' = valid \cup {num} /\ all_users' = all_users /\ calls' = calls
      /\ obj' = ChangeParent(obj, num, p)
  BY IInvFacts DEF Create, Oid, ValidOrNothing
<1>2. Sound(obj', valid') /\ obj[num] = Fresh /\ \A x \in Oid : obj'[x].user = obj[x].user
  <2>1. Sound(obj, valid) /\ num \in Oid \ valid /\ p \in valid \cup {NOTHING}
    BY <1>1, IInvFacts
  <2>2. /\ Sound(obj', valid \cup {num}) /\ obj[num] = Fresh
        /\ \A x \in Oid : obj'[x].user = obj[x].user
    BY <1>1, <2>1, CreateSound
  <2> QED
    BY <1>1, <2>2
<1>3. all_users' = {o \in valid' : obj'[o].user}
  BY <1>1, <1>2, IInvFacts, FreshIs
<1>4. num' \in 0..MaxOid + 1 /\ \A o \in valid' : o < num'
  BY <1>1, IInvFacts DEF Oid
<1> QED
  BY <1>1, <1>2, <1>3, <1>4, IInvFacts, IInvNext

LEMMA CreateYoungOK ==
  ASSUME IInv, NEW p \in OidOrNothing, CreateYoung(p)
  PROVE  IInv'
<1> DEFINE oid == Lowest(valid, num)
<1>1. /\ num \in Oid \ valid /\ p \in valid \cup {NOTHING}
      /\ num' = ResetLastUsed(valid') /\ valid' = valid \cup {oid}
      /\ all_users' = all_users /\ calls' = calls
      /\ obj' = ChangeParent(obj, oid, p)
  BY IInvFacts DEF CreateYoung, Oid, ValidOrNothing
<1>2. oid \in Oid \ valid
  <2>1. num \in Nat /\ num \in 0..MaxOid
    BY <1>1, IInvFacts DEF Oid
  <2>2. oid \in 0..num /\ (oid = num \/ oid \notin valid)
    BY <2>1, LowestOK
  <2> HIDE DEF oid
  <2> QED
    BY <1>1, <2>1, <2>2, IInvFacts DEF Oid
<1> HIDE DEF oid
<1>3. Sound(obj', valid') /\ obj[oid] = Fresh /\ \A x \in Oid : obj'[x].user = obj[x].user
  <2>1. Sound(obj, valid) /\ oid \in Oid \ valid /\ p \in valid \cup {NOTHING}
    BY <1>1, <1>2, IInvFacts
  <2>2. /\ Sound(obj', valid \cup {oid}) /\ obj[oid] = Fresh
        /\ \A x \in Oid : obj'[x].user = obj[x].user
    BY <1>1, <2>1, CreateSound
  <2> QED
    BY <1>1, <2>2
<1>4. all_users' = {o \in valid' : obj'[o].user}
  BY <1>1, <1>2, <1>3, IInvFacts, FreshIs
<1>5. num' \in 0..MaxOid + 1 /\ \A o \in valid' : o < num'
  BY <1>1, <1>2, IInvFacts, ResetOK
<1> QED
  BY <1>1, <1>3, <1>4, <1>5, IInvFacts, IInvNext

LEMMA ChparentOK ==
  ASSUME IInv, NEW what \in Oid, NEW p \in OidOrNothing, Chparent(what, p)
  PROVE  IInv'
<1>1. /\ what \in valid /\ p \in valid \cup {NOTHING} /\ what \notin Up(ParentOf(obj), p)
      /\ obj' = ChangeParent(obj, what, p)
      /\ valid' = valid /\ num' = num /\ all_users' = all_users /\ calls' = calls
  BY IInvFacts DEF Chparent, ValidOrNothing
<1>2. Sound(obj', valid') /\ \A x \in Oid : obj'[x].user = obj[x].user
  BY <1>1, IInvFacts, ChangeParentSound
<1> QED
  BY <1>1, <1>2, IInvFacts, IInvNext

LEMMA ResetMaxObjectOK ==
  ASSUME IInv, ResetMaxObject
  PROVE  IInv'
<1>1. /\ num' = ResetLastUsed(valid) /\ valid # {}
      /\ valid' = valid /\ obj' = obj /\ all_users' = all_users /\ calls' = calls
  BY DEF ResetMaxObject
<1>2. num' \in 0..MaxOid + 1 /\ \A o \in valid : o < num'
  BY <1>1, IInvFacts, ResetOK
<1> QED
  BY <1>1, <1>2, IInvFacts, IInvNext

\* The list of users is told of the new number as well.
LEMMA SetNumberOK ==
  ASSUME IInv, NEW old \in valid, NEW new \in Oid \ valid, SetNumber(old, new),
         num' \in 0..MaxOid + 1, new < num', \A o \in valid : o < num'
  PROVE  IInv'
<1>1. /\ obj' = ChangeNumber(obj, old, new) /\ valid' = Replace(valid, old, new) /\ calls' = calls
      /\ all_users' = IF obj[old].user /\ old \in all_users
                      THEN Replace(all_users, old, new) ELSE all_users
      /\ valid \subseteq Oid
  BY IInvFacts DEF SetNumber
<1>2. /\ Sound(obj', valid') /\ obj'[new].user = obj[old].user
      /\ \A x \in Oid \ {old, new} : obj'[x].user = obj[x].user
  BY <1>1, IInvFacts, ChangeNumberSound
<1>3. all_users' = {o \in valid' : obj'[o].user}
  <2>1. \A o \in valid \ {old} : obj'[o].user = obj[o].user
    BY <1>1, <1>2
  <2>2. all_users = {o \in valid : obj[o].user}
    BY IInvFacts
  <2>3. CASE obj[old].user
    <3>1. all_users' = Replace(all_users, old, new)
      BY <1>1, <2>2, <2>3
    <3> QED
      BY <1>1, <1>2, <2>1, <2>2, <2>3, <3>1 DEF Replace
  <2>4. CASE ~ obj[old].user
    <3>1. all_users' = all_users
      BY <1>1, <2>4
    <3> QED
      BY <1>1, <1>2, <2>1, <2>2, <2>4, <3>1 DEF Replace
  <2> QED
    BY <2>3, <2>4
<1>4. \A o \in valid' : o < num'
  BY <1>1 DEF Replace
<1> QED
  BY <1>1, <1>2, <1>3, <1>4, IInvFacts, IInvNext

LEMMA RenumberOK ==
  ASSUME IInv, NEW old \in Oid, Renumber(old)
  PROVE  IInv'
<1> DEFINE new == Lowest(valid, old)
<1>1. old \in valid /\ new # old /\ SetNumber(old, new) /\ num' = num
  BY DEF Renumber
<1>2. new \in 0..old /\ new \notin valid
  BY <1>1, LowestOK DEF Oid
<1> HIDE DEF new
<1>3. new \in Oid \ valid /\ new < num' /\ num' \in 0..MaxOid + 1 /\ \A o \in valid : o < num'
  <2>1. old \in 0..MaxOid /\ old < num /\ num \in 0..MaxOid + 1 /\ MaxOid \in Nat
    BY <1>1, IInvFacts DEF Oid
  <2>2. new \in 0..MaxOid /\ new < num
    BY <1>2, <2>1
  <2> QED
    BY <1>1, <1>2, <2>2, IInvFacts DEF Oid
<1> QED
  BY <1>1, <1>3, SetNumberOK

LEMMA SetObjectNumberOK ==
  ASSUME IInv, NEW old \in Oid, NEW new \in Oid, SetObjectNumber(old, new)
  PROVE  IInv'
<1>1. /\ old \in valid /\ new \in Oid \ valid /\ SetNumber(old, new)
      /\ num' = IF new >= num THEN new + 1 ELSE num
  BY DEF SetObjectNumber
<1>2. new < num' /\ num' \in 0..MaxOid + 1 /\ \A o \in valid : o < num'
  <2>1. \A o \in valid : o \in Int /\ o < num
    BY IInvFacts DEF Oid
  <2>2. num \in 0..MaxOid + 1 /\ new \in 0..MaxOid /\ MaxOid \in Nat
    BY IInvFacts DEF Oid
  <2> QED
    BY <1>1, <2>1, <2>2
<1> QED
  BY <1>1, <1>2, SetNumberOK

LEMMA SetPlayerFlagOK ==
  ASSUME IInv, NEW oid \in Oid, NEW yes \in BOOLEAN, SetPlayerFlag(oid, yes)
  PROVE  IInv'
<1>1. /\ oid \in valid /\ obj' = Flagged(obj, oid, yes)
      /\ all_users' = IF yes THEN all_users \cup {oid} ELSE all_users \ {oid}
      /\ valid' = valid /\ num' = num /\ calls' = calls
  BY DEF SetPlayerFlag, Flagged
<1>2. /\ Sound(obj', valid') /\ obj'[oid].user = yes
      /\ \A x \in Oid \ {oid} : obj'[x].user = obj[x].user
  BY <1>1, IInvFacts, FlagSound
<1>3. all_users' = {o \in valid' : obj'[o].user}
  BY <1>1, <1>2, IInvFacts
<1> QED
  BY <1>1, <1>2, <1>3, IInvFacts, IInvNext

\* MayMove() is what move() checks, before :accept and after.
LEMMA MoveOK ==
  ASSUME IInv, NEW what, NEW where, MayMove(what, where),
         obj' = ChangeLocation(obj, what, where),
         valid' = valid, num' = num, all_users' = all_users, calls' \in [Calls -> Frame]
  PROVE  IInv'
<1>1. what \in valid /\ where \in valid \cup {NOTHING} /\ what \notin Up(LocationOf(obj), where)
  BY IInvFacts DEF MayMove, ValidOrNothing
<1>2. Sound(obj', valid') /\ \A x \in Oid : obj'[x].user = obj[x].user
  BY <1>1, IInvFacts, ChangeLocationSound
<1> QED
  BY <1>2, IInvFacts, IInvNext

\* Only the calls that wait are changed.
LEMMA CallsOK ==
  ASSUME IInv, UNCHANGED <<valid, num, obj, all_users>>, NEW c \in Calls, NEW r \in Frame,
         calls' = [calls EXCEPT ![c] = r]
  PROVE  IInv'
<1>1. calls' \in [Calls -> Frame]
  BY IInvFacts
<1> QED
  BY <1>1, IInvFacts, IInvNext

LEMMA RecycleWaitsOK ==
  ASSUME IInv, NEW c \in Calls, NEW oid \in Oid, RecycleWaits(c, oid)
  PROVE  IInv'
<1>1. /\ oid \in valid /\ calls' = [calls EXCEPT ![c] = RecycleFrame(oid)]
      /\ valid' = valid /\ num' = num /\ all_users' = all_users
  BY DEF RecycleWaits
<1>2. calls' \in [Calls -> Frame]
  BY <1>1, IInvFacts, FramesOK
<1>3. Sound(obj', valid') /\ \A x \in Oid : obj'[x].user = obj[x].user
  <2>1. ASSUME NEW x \in obj[oid].contents, obj' = ChangeLocation(obj, x, NOTHING)
        PROVE  Sound(obj', valid') /\ \A y \in Oid : obj'[y].user = obj[y].user
    <3>1. x \in valid
      BY <1>1, IInvFacts DEF Sound, Linked
    <3>2. x \notin Up(LocationOf(obj), NOTHING)
      BY UpNothing
    <3> QED
      BY <1>1, <2>1, <3>1, <3>2, IInvFacts, ChangeLocationSound
  <2>2. ASSUME obj' = Emptied(obj, oid)
        PROVE  Sound(obj', valid') /\ \A y \in Oid : obj'[y].user = obj[y].user
    BY <1>1, <2>2, IInvFacts, EmptiedSound
  <2> QED
    BY <2>1, <2>2 DEF RecycleWaits
<1> QED
  BY <1>1, <1>2, <1>3, IInvFacts, IInvNext

LEMMA DestroyOK ==
  ASSUME IInv, NEW oid \in valid, Destroy(oid), calls' \in [Calls -> Frame]
  PROVE  IInv'
<1> DEFINE e == Emptied(obj, oid)
           p == Orphaned(e, oid)
<1>1. /\ valid' = valid \ {oid} /\ num' = num /\ valid \subseteq Oid
      /\ all_users' = IF obj[oid].user THEN all_users \ {oid} ELSE all_users
  BY IInvFacts DEF Destroy
<1>2. obj' = Removed(p, oid)
  BY DEF Destroy, Removed
<1> HIDE DEF p, e
<1>3. Sound(obj', valid') /\ \A x \in Oid \ {oid} : obj'[x].user = obj[x].user
  BY <1>1, <1>2, IInvFacts, DestroySound DEF p, e
<1>4. all_users' = {o \in valid' : obj'[o].user}
  <2>1. all_users' = all_users \ {oid}
    BY <1>1, IInvFacts
  <2> QED
    BY <1>1, <1>3, <2>1, IInvFacts
<1> QED
  BY <1>1, <1>3, <1>4, IInvFacts, IInvNext

LEMMA InitOK == Init => IInv
<1> SUFFICES ASSUME Init PROVE IInv
  OBVIOUS
<1>1. 0 \in Oid /\ 1 \in 0..MaxOid + 1
  BY MaxOidAssumption DEF Oid
<1>2. obj \in [Oid -> Object] /\ \A o \in Oid : obj[o] = Fresh
  BY FreshIs DEF Init
<1>3. Linked(obj, valid)
  BY <1>1, <1>2, FreshIs, NothingIsNoOid DEF Init, Linked
<1>4. Acyclic(ParentOf(obj)) /\ Acyclic(LocationOf(obj))
  <2>1. \A o \in Oid : ParentOf(obj)[o] = NOTHING /\ LocationOf(obj)[o] = NOTHING
    BY <1>2, FreshIs, LinksOf
  <2> QED
    BY <2>1, UpNothing DEF Acyclic
<1>5. Sound(obj, valid)
  BY <1>1, <1>2, <1>3, <1>4 DEF Init, Sound
<1>6. calls \in [Calls -> Frame]
  BY FramesOK DEF Init
<1>7. all_users = {o \in valid : obj[o].user} /\ \A o \in valid : o < num
  BY <1>1, <1>2, FreshIs DEF Init
<1> QED
  BY <1>1, <1>5, <1>6, <1>7 DEF Init, IInv, TypeOK, Sound, UsersExact, NoneBeyondLast, Frame

LEMMA NextOK == IInv /\ [Next]_vars => IInv'
<1> SUFFICES ASSUME IInv, [Next]_vars PROVE IInv'
  OBVIOUS
<1>1. CASE ResetMaxObject
  BY <1>1, ResetMaxObjectOK
<1>2. ASSUME NEW p \in OidOrNothing, Create(p) \/ CreateYoung(p) PROVE IInv'
  BY <1>2, CreateOK, CreateYoungOK
<1>3. ASSUME NEW oid \in Oid, Renumber(oid) PROVE IInv'
  BY <1>3, RenumberOK
<1>4. ASSUME NEW oid \in Oid, Recycle(oid) PROVE IInv'
  BY <1>4, IInvFacts, DestroyOK DEF Recycle
<1>5. ASSUME NEW oid \in Oid, NEW yes \in BOOLEAN, SetPlayerFlag(oid, yes) PROVE IInv'
  BY <1>5, SetPlayerFlagOK
<1>6. ASSUME NEW oid \in Oid, NEW new \in Oid, SetObjectNumber(oid, new) PROVE IInv'
  BY <1>6, SetObjectNumberOK
<1>7. ASSUME NEW oid \in Oid, NEW to \in OidOrNothing, Chparent(oid, to) PROVE IInv'
  BY <1>7, ChparentOK
<1>8. ASSUME NEW oid \in Oid, NEW to \in OidOrNothing, Move(oid, to) PROVE IInv'
  <2>1. /\ MayMove(oid, to) /\ obj' = ChangeLocation(obj, oid, to)
        /\ valid' = valid /\ num' = num /\ all_users' = all_users /\ calls' = calls
    BY <1>8 DEF Move
  <2> QED
    BY <2>1, IInvFacts, MoveOK
<1>9. ASSUME NEW c \in Calls, Accepted(c) PROVE IInv'
  <2> DEFINE what == calls[c].what
             where == calls[c].where
  <2>1. /\ Returns(c, "move") /\ MayMove(what, where) /\ obj' = ChangeLocation(obj, what, where)
        /\ valid' = valid /\ num' = num /\ all_users' = all_users
    BY <1>9 DEF Accepted
  <2>2. calls' \in [Calls -> Frame]
    BY <2>1, ReturnsOK
  <2> HIDE DEF what, where
  <2> QED
    BY <2>1, <2>2, MoveOK
<1>10. ASSUME NEW c \in Calls, FinishRecycle(c) PROVE IInv'
  <2>1. Returns(c, "recycle") /\ calls[c].what \in valid /\ Destroy(calls[c].what)
    BY <1>10 DEF FinishRecycle
  <2>2. calls' \in [Calls -> Frame]
    BY <2>1, ReturnsOK
  <2> QED
    BY <2>1, <2>2, DestroyOK
<1>11. ASSUME NEW c \in Calls, Dropped(c) PROVE IInv'
  BY <1>11, FramesOK, CallsOK DEF Dropped
<1>12. ASSUME NEW c \in Calls, NEW oid \in Oid, AskRecycle(c, oid) PROVE IInv'
  BY <1>12, FramesOK, CallsOK DEF AskRecycle
<1>13. ASSUME NEW c \in Calls, NEW oid \in Oid, RecycleWaits(c, oid) PROVE IInv'
  BY <1>13, RecycleWaitsOK
<1>14. ASSUME NEW c \in Calls, NEW oid \in Oid, NEW where \in Oid, AskAccept(c, oid, where)
       PROVE  IInv'
  BY <1>14, FramesOK, CallsOK DEF AskAccept
<1>15. CASE UNCHANGED vars
  <2>1. /\ valid' = valid /\ num' = num /\ obj' = obj /\ all_users' = all_users /\ calls' = calls
    BY <1>15 DEF vars
  <2> QED
    BY <2>1, IInvFacts, IInvNext
<1> QED
  BY <1>1, <1>2, <1>3, <1>4, <1>5, <1>6, <1>7, <1>8, <1>9, <1>10, <1>11, <1>12, <1>13, <1>14, <1>15
  DEF Next

LEMMA IInvHolds == Spec => []IInv
  BY InitOK, NextOK, PTL DEF Spec
-----------------------------------------------------------------------------

\* Objects, links and waiting calls have their types, and a number without an
\* object has no links, for any number of objects and of waiting calls.
THEOREM TypeCorrect == Spec => []TypeOK
<1>1. IInv => TypeOK
  BY DEF IInv
<1> QED
  BY <1>1, IInvHolds, PTL

\* Both ends of each link agree, whatever create(), recycle(), chparent(),
\* move(), renumber() and set_object_number() are called with meanwhile.
THEOREM BothEndsAgree == Spec => []LinksAgree
<1>1. IInv => LinksAgree
  BY DEF IInv, Sound, Linked, LinksAgree, ValidOrNothing
<1> QED
  BY <1>1, IInvHolds, PTL

\* Nothing comes to be its own ancestor or to contain itself, since move()
\* checks again what it checked before :accept.
THEOREM NoCycles == Spec => []Forest
<1>1. IInv => Forest
  BY IInvFacts DEF Sound, Acyclic, Forest
<1> QED
  BY <1>1, IInvHolds, PTL

\* players() lists the player objects, also after renumber() and recycle().
THEOREM UsersListed == Spec => []UsersExact
<1>1. IInv => UsersExact
  BY DEF IInv
<1> QED
  BY <1>1, IInvHolds, PTL

\* create() never takes the number of an object there is: num_objects is above
\* all of them, after set_object_number() and reset_max_object() too.
THEOREM NumbersAreNew == Spec => []NoneBeyondLast
<1>1. IInv => NoneBeyondLast
  BY DEF IInv
<1> QED
  BY <1>1, IInvHolds, PTL

-----------------------------------------------------------------------------
(* The verb cache: more on ways up.                                        *)

LEMMA UpTransitive ==
  ASSUME NEW link \in Links, NEW o \in Oid, NEW x \in Up(link, o)
  PROVE  x \in Oid /\ x \in Up(link, x) /\ Up(link, x) \subseteq Up(link, o)
<1>1. x \in Oid /\ Up(link, o) \in SUBSET Oid /\ ClosedUp(link, Up(link, o))
  BY UpOK
<1> QED
  BY <1>1, UpOK

\* What is met on the way up, but for the first, is met from the next one.
LEMMA UpStep ==
  ASSUME NEW link \in Links, NEW o \in Oid
  PROVE  Up(link, o) \subseteq {o} \cup Up(link, link[o])
<1> DEFINE S == {o} \cup Up(link, link[o])
<1>1. CASE link[o] = NOTHING
  <2>1. S = {o}
    BY <1>1, UpNothing
  <2>2. ClosedUp(link, S) /\ S \in SUBSET Oid
    BY <1>1, <2>1 DEF ClosedUp
  <2> QED
    BY <2>1, <2>2, UpOK
<1>2. CASE link[o] # NOTHING
  <2>1. link[o] \in Oid
    BY <1>2 DEF Links, OidOrNothing
  <2>2. /\ link[o] \in Up(link, link[o]) /\ Up(link, link[o]) \subseteq Oid
        /\ ClosedUp(link, Up(link, link[o]))
    BY <2>1, UpOK
  <2>3. ClosedUp(link, S) /\ S \in SUBSET Oid
    BY <2>2 DEF ClosedUp
  <2> HIDE DEF S
  <2>4. o \in S
    BY DEF S
  <2>5. Up(link, o) \subseteq S
    BY <2>3, <2>4, UpOK
  <2> QED
    BY <2>5 DEF S
<1> QED
  BY <1>1, <1>2

\* The way up is the same where the links are.
LEMMA UpSame ==
  ASSUME NEW link \in Links, NEW new \in Links, NEW o \in Oid,
         \A x \in Up(link, o) : new[x] = link[x]
  PROVE  \A x \in Up(link, o) : Up(new, x) = Up(link, x)
<1> SUFFICES ASSUME NEW x \in Up(link, o) PROVE Up(new, x) = Up(link, x)
  OBVIOUS
<1>1. x \in Oid /\ Up(link, x) \subseteq Up(link, o)
  BY UpTransitive
<1>2. /\ x \in Up(link, x) /\ Up(link, x) \in SUBSET Oid /\ ClosedUp(link, Up(link, x))
      /\ x \in Up(new, x) /\ Up(new, x) \in SUBSET Oid /\ ClosedUp(new, Up(new, x))
  BY <1>1, UpOK
<1>3. ClosedUp(new, Up(link, x))
  BY <1>1, <1>2 DEF ClosedUp
<1>4. Up(new, x) \subseteq Up(link, x)
  BY <1>1, <1>2, <1>3, UpOK
<1>5. ClosedUp(link, Up(new, x))
  BY <1>1, <1>2, <1>4 DEF ClosedUp
<1>6. Up(link, x) \subseteq Up(new, x)
  BY <1>1, <1>2, <1>5, UpOK
<1> QED
  BY <1>4, <1>6

\* Of the objects of S on a way up, one is met first: from it one meets the rest.
LEMMA FirstMet ==
  ASSUME NEW link \in Links, NEW o \in Oid, NEW S, Up(link, o) \cap S # {}
  PROVE  \E x \in Up(link, o) \cap S : Up(link, o) \cap S \subseteq Up(link, x)
<1> SUFFICES ASSUME \A x \in Up(link, o) \cap S : ~ (Up(link, o) \cap S \subseteq Up(link, x))
             PROVE  FALSE
  OBVIOUS
<1> DEFINE met == Up(link, o) \cap S
           T == {z \in Up(link, o) : met \subseteq Up(link, z)}
<1>1. o \in Up(link, o) /\ Up(link, o) \in SUBSET Oid /\ ClosedUp(link, Up(link, o))
  BY UpOK
<1>2. T \in SUBSET Oid /\ o \in T
  BY <1>1
<1>3. ASSUME NEW y \in T, link[y] # NOTHING PROVE link[y] \in T
  <2>1. y \in Oid /\ link[y] \in Up(link, o) /\ y \notin S
    BY <1>1, <1>3 DEF ClosedUp
  <2>2. Up(link, y) \subseteq {y} \cup Up(link, link[y])
    BY <2>1, UpStep
  <2> QED
    BY <2>1, <2>2
<1>4. ClosedUp(link, T)
  BY <1>3 DEF ClosedUp
<1>5. Up(link, o) \subseteq T
  <2> HIDE DEF T
  <2> QED
    BY <1>2, <1>4, UpOK
<1> QED
  BY <1>5

-----------------------------------------------------------------------------
(* The lookup.                                                             *)

LowestOf(link, met) ==
    IF met = {} THEN NOTHING ELSE CHOOSE x \in met : met \subseteq Up(link, x)
FirstOn(link, o, S) == LowestOf(link, Up(link, o) \cap S)

\* Nothing between o and the first of S is passed over, so a walk for any of a
\* part of S may as well start there: the key of the cache says enough.
LEMMA StartHigher ==
  ASSUME NEW link \in Links, NEW o \in OidOrNothing, NEW S \in SUBSET Oid, NEW T \in SUBSET S
  PROVE  /\ FirstOn(link, o, S) \in S \cup {NOTHING}
         /\ FirstOn(link, FirstOn(link, o, S), T) = FirstOn(link, o, T)
<1> DEFINE met == Up(link, o) \cap S
           k == FirstOn(link, o, S)
<1>1. CASE met = {}
  <2>1. k = NOTHING
    BY <1>1 DEF FirstOn, LowestOf
  <2>2. Up(link, NOTHING) \cap T = {} /\ Up(link, o) \cap T = {}
    BY <1>1, UpNothing
  <2>3. FirstOn(link, NOTHING, T) = NOTHING /\ FirstOn(link, o, T) = NOTHING
    BY <2>2 DEF FirstOn, LowestOf
  <2> QED
    BY <2>1, <2>3
<1>2. CASE met # {}
  <2>1. o \in Oid
    BY <1>2, UpNothing DEF OidOrNothing
  <2>2. \E x \in met : met \subseteq Up(link, x)
    BY <1>2, <2>1, FirstMet
  <2>3. k = CHOOSE x \in met : met \subseteq Up(link, x)
    BY <1>2 DEF FirstOn, LowestOf
  <2>4. k \in met /\ met \subseteq Up(link, k)
    <3> HIDE DEF k, met
    <3> QED
      BY <2>2, <2>3
  <2>5. Up(link, k) \subseteq Up(link, o)
    <3> HIDE DEF k
    <3> QED
      BY <2>1, <2>4, UpTransitive
  <2>6. Up(link, k) \cap T = Up(link, o) \cap T
    BY <2>4, <2>5
  <2> HIDE DEF k
  <2>7. FirstOn(link, k, T) = FirstOn(link, o, T)
    BY <2>6 DEF FirstOn
  <2> QED
    BY <2>4, <2>7 DEF k
<1> QED
  BY <1>1, <1>2

LEMMA FirstSame ==
  ASSUME NEW link \in Links, NEW new \in Links, NEW o \in OidOrNothing, NEW S,
         \A x \in Up(link, o) : new[x] = link[x]
  PROVE  FirstOn(new, o, S) = FirstOn(link, o, S)
<1>1. CASE o = NOTHING
  BY <1>1, UpNothing DEF FirstOn, LowestOf
<1>2. CASE o # NOTHING
  <2>1. o \in Oid
    BY <1>2 DEF OidOrNothing
  <2>2. Up(new, o) = Up(link, o) /\ \A x \in Up(link, o) : Up(new, x) = Up(link, x)
    BY <2>1, UpSame, UpOK
  <2> DEFINE met == Up(link, o) \cap S
  <2>3. \A x \in met : Up(new, x) = Up(link, x)
    BY <2>2
  <2>4. FirstOn(link, o, S) = LowestOf(link, met) /\ FirstOn(new, o, S) = LowestOf(new, met)
    BY <2>2 DEF FirstOn
  <2> HIDE DEF met
  <2>5. LowestOf(link, met) = LowestOf(new, met)
    <3> DEFINE a == CHOOSE x \in met : met \subseteq Up(link, x)
               b == CHOOSE x \in met : met \subseteq Up(new, x)
    <3>1. a = b
      BY <2>3
    <3>2. /\ LowestOf(link, met) = IF met = {} THEN NOTHING ELSE a
          /\ LowestOf(new, met) = IF met = {} THEN NOTHING ELSE b
      BY DEF LowestOf
    <3> HIDE DEF a, b
    <3> QED
      BY <3>1, <3>2
  <2> QED
    BY <2>4, <2>5
<1> QED
  BY <1>1, <1>2

\* Whoever defines a verb has verbs, and so is not passed over by a key.
LEMMA DefinersHaveVerbs ==
  ASSUME NEW name PROVE Definers(name) \in SUBSET WithVerbs
<1> SUFFICES ASSUME NEW o \in Definers(name) PROVE verbs[o] # <<>>
  BY DEF Definers, WithVerbs
<1>1. PICK v \in Defined(o) : TRUE
  BY DEF Definers
<1>2. DOMAIN verbs[o] # {}
  BY <1>1 DEF Defined
<1> QED
  BY <1>2

\* The lookup by its key is the lookup.
LEMMA FindFromKey ==
  ASSUME Parent \in Links, valid \subseteq Oid, NEW oid \in OidOrNothing, NEW name \in Name
  PROVE  /\ Nearest(oid, WithVerbs) \in WithVerbs \cup {NOTHING}
         /\ Find(Nearest(oid, WithVerbs), name) = Find(oid, name)
<1> DEFINE key == Nearest(oid, WithVerbs)
<1>1. \A o, S : Nearest(o, S) = FirstOn(Parent, o, S)
  BY DEF Nearest, FirstOn, LowestOf
<1>2. WithVerbs \in SUBSET Oid
  BY DEF WithVerbs
<1>3. key \in WithVerbs \cup {NOTHING} /\ Nearest(key, Definers(name)) = Nearest(oid, Definers(name))
  BY <1>1, <1>2, DefinersHaveVerbs, StartHigher
<1> HIDE DEF key
<1>4. Find(key, name) = Find(oid, name)
  BY <1>3 DEF Find
<1> QED
  BY <1>3, <1>4 DEF key
-----------------------------------------------------------------------------
(* The invariant.                                                          *)

\* What is remembered is right, and is kept under objects that have verbs: that
\* is why a change to an object with no verbs and no children loses nothing.
CacheRight ==
    \A k \in DOMAIN vc_table :
        k[1] \in WithVerbs \cup {NOTHING} /\ vc_table[k] = Find(k[1], k[2])
VerbsOfValid ==
    DOMAIN verbs = Oid /\ \A o \in Oid \ valid : verbs[o] = <<>>
VInv == IInv /\ VerbsOfValid /\ CacheRight

LEMMA EmptyRight == ASSUME vc_table' = Empty PROVE CacheRight'
  BY DEF CacheRight, Empty

LEMMA InitVerbsOK == InitVerbs => VInv
<1> SUFFICES ASSUME InitVerbs PROVE VInv
  OBVIOUS
<1>1. IInv
  BY InitOK DEF InitVerbs
<1>2. CacheRight
  BY DEF InitVerbs, CacheRight, Empty
<1>3. VerbsOfValid
  BY DEF InitVerbs, VerbsOfValid
<1> QED
  BY <1>1, <1>2, <1>3 DEF VInv

\* Verbs stay, and so do the links on the ways up from objects with verbs.
LEMMA NothingLost ==
  ASSUME VInv, IInv', vc_table' = vc_table, verbs' = verbs, verb' = verb,
         valid \subseteq valid',
         \A k \in WithVerbs : \A x \in Up(Parent, k) : Parent'[x] = Parent[x]
  PROVE  VInv'
<1>1. Parent \in Links /\ Parent' \in Links /\ valid \subseteq Oid /\ valid' \subseteq Oid
  <2>1. Sound(obj, valid) /\ obj \in [Oid -> Object] /\ Parent = ParentOf(obj)
    BY IInvFacts DEF VInv
  <2>2. obj' \in [Oid -> Object] /\ Parent' = ParentOf(obj') /\ valid' \subseteq Oid
    BY DEF IInv, Sound, Parent, ParentOf
  <2> QED
    BY <2>1, <2>2, LinksOf DEF Sound
<1>2. VerbsOfValid' /\ WithVerbs' = WithVerbs
  BY <1>1 DEF VInv, VerbsOfValid, WithVerbs
<1>3. ASSUME NEW name PROVE Definers(name)' = Definers(name)
  <2>1. Definers(name) \subseteq WithVerbs /\ Definers(name)' \subseteq WithVerbs
    BY <1>2, DefinersHaveVerbs DEF Definers, WithVerbs, Defined, Answers
  <2> QED
    BY <2>1 DEF Definers, WithVerbs, Defined, Answers
<1>4. ASSUME NEW k \in WithVerbs \cup {NOTHING}, NEW name PROVE Find(k, name)' = Find(k, name)
  <2>1. k \in OidOrNothing /\ \A x \in Up(Parent, k) : Parent'[x] = Parent[x]
    BY <1>1, UpNothing DEF WithVerbs, OidOrNothing
  <2>2. FirstOn(Parent', k, Definers(name)) = FirstOn(Parent, k, Definers(name))
    BY <1>1, <2>1, FirstSame
  <2>3. Nearest(k, Definers(name))' = Nearest(k, Definers(name))
    BY <1>3, <2>2 DEF Nearest, FirstOn, LowestOf
  <2>4. \A o : FindByName(o, name)' = FindByName(o, name)
    BY DEF FindByName, Answers
  <2> QED
    BY <2>3, <2>4 DEF Find
<1>5. CacheRight'
  BY <1>2, <1>4 DEF VInv, CacheRight
<1> QED
  BY <1>2, <1>5 DEF VInv

\* Wherever the cache is emptied it is enough that objects that are gone have no verbs.
LEMMA Flushed ==
  ASSUME VInv, IInv', Flush, VerbsOfValid' PROVE VInv'
  BY EmptyRight DEF Flush, VInv

LEMMA LookupOK ==
  ASSUME VInv, NEW oid \in OidOrNothing, NEW name \in Name, Lookup(oid, name)
  PROVE  VInv'
<1> DEFINE key == KeyOf(oid, name)
<1>1. UNCHANGED <<vars, verbs, verb>>
  BY DEF Lookup
<1>2. IInv' /\ VerbsOfValid' /\ WithVerbs' = WithVerbs
  <2>1. IInv'
    BY <1>1, NextOK DEF VInv
  <2>2. valid' = valid /\ verbs' = verbs
    BY <1>1 DEF vars
  <2> QED
    BY <2>1, <2>2 DEF VInv, VerbsOfValid, WithVerbs
<1>3. ASSUME NEW k, NEW n PROVE Find(k, n)' = Find(k, n)
  <2>1. valid' = valid /\ obj' = obj /\ verbs' = verbs /\ verb' = verb
    BY <1>1 DEF vars
  <2>2. Definers(n)' = Definers(n) /\ \A o : FindByName(o, n)' = FindByName(o, n)
    BY <2>1 DEF Definers, Defined, Answers, FindByName
  <2>3. Nearest(k, Definers(n))' = Nearest(k, Definers(n))
    BY <2>1, <2>2 DEF Nearest, Parent
  <2> QED
    BY <2>2, <2>3 DEF Find
<1>4. Parent \in Links /\ valid \subseteq Oid
  BY IInvFacts, LinksOf DEF VInv
<1>5. key = <<Nearest(oid, WithVerbs), name>> /\ key[1] \in WithVerbs \cup {NOTHING}
  BY <1>4, FindFromKey DEF KeyOf
<1>6. vc_table' = [k \in DOMAIN vc_table \cup {key} |->
                       IF k \in DOMAIN vc_table THEN vc_table[k] ELSE Find(k[1], name)]
  BY DEF Lookup
<1> HIDE DEF key
<1>7. key[2] = name
  BY <1>5
<1>8. ASSUME NEW k \in DOMAIN vc_table'
      PROVE  k[1] \in WithVerbs \cup {NOTHING} /\ vc_table'[k] = Find(k[1], k[2])
  <2>1. CASE k \in DOMAIN vc_table
    BY <1>6, <2>1 DEF VInv, CacheRight
  <2>2. CASE k \notin DOMAIN vc_table
    BY <1>5, <1>6, <1>7, <1>8, <2>2
  <2> QED
    BY <2>1, <2>2
<1>9. CacheRight'
  BY <1>2, <1>3, <1>8 DEF CacheRight
<1> QED
  BY <1>2, <1>9 DEF VInv

\* A new object is on nobody's way up.
LEMMA CreateVerbsOK ==
  ASSUME VInv, NEW p \in OidOrNothing, CreateVerbs(p)
  PROVE  VInv'
<1>1. /\ Create(p) /\ num \in Oid \ valid /\ valid' = valid \cup {num}
      /\ obj' = ChangeParent(obj, num, p)
      /\ verbs' = verbs /\ verb' = verb /\ vc_table' = vc_table
  BY IInvFacts DEF VInv, CreateVerbs, Create, Oid, verbVars
<1>2. IInv'
  BY <1>1, CreateOK DEF VInv
<1>3. Sound(obj, valid) /\ obj \in [Oid -> Object] /\ Parent = ParentOf(obj)
  BY IInvFacts DEF VInv
<1>4. \A x \in Oid \ {num} : Parent'[x] = Parent[x]
  <2>1. ChangeParentMade(obj, num, p, obj')
    BY <1>1, <1>3, ChangeParentIs
  <2> QED
    BY <2>1 DEF ChangeParentMade, Parent
<1>5. \A k \in WithVerbs : Up(Parent, k) \subseteq valid
  BY <1>3, UpIsValid DEF WithVerbs
<1>6. \A k \in WithVerbs : \A x \in Up(Parent, k) : Parent'[x] = Parent[x]
  BY <1>1, <1>4, <1>5, IInvFacts DEF VInv
<1> QED
  BY <1>1, <1>2, <1>6, NothingLost

\* Without children an object is on no other's way up, and without verbs it is
\* no key itself.
LEMMA ChparentVerbsOK ==
  ASSUME VInv, NEW oid \in Oid, NEW p \in OidOrNothing, ChparentVerbs(oid, p)
  PROVE  VInv'
<1>1. /\ oid \in valid /\ valid' = valid /\ obj' = ChangeParent(obj, oid, p)
      /\ verbs' = verbs /\ verb' = verb
  BY DEF ChparentVerbs, Chparent
<1>2. IInv'
  BY ChparentOK DEF ChparentVerbs, VInv
<1>3. CASE Flush
  <2>1. VerbsOfValid'
    BY <1>1 DEF VInv, VerbsOfValid
  <2> QED
    BY <1>2, <1>3, <2>1, Flushed
<1>4. CASE ~ ChparentFlushes(oid)
  <2>1. obj[oid].children = {} /\ verbs[oid] = <<>> /\ vc_table' = vc_table
    BY <1>4 DEF ChparentFlushes, ChparentVerbs
  <2>2. Sound(obj, valid) /\ obj \in [Oid -> Object] /\ Parent = ParentOf(obj) /\ Parent \in Links
    BY IInvFacts, LinksOf DEF VInv
  <2>3. \A x \in Oid \ {oid} : Parent'[x] = Parent[x]
    <3>1. ChangeParentMade(obj, oid, p, obj')
      BY <1>1, <2>2, ChangeParentIs
    <3> QED
      BY <3>1 DEF ChangeParentMade, Parent
  <2>4. \A x \in valid : obj[x].parent # oid
    BY <1>1, <2>1, <2>2 DEF Sound, Linked
  <2>5. ASSUME NEW k \in WithVerbs PROVE oid \notin Up(Parent, k)
    <3>1. k \in valid /\ k # oid /\ k \in Oid
      BY <2>1, <2>2 DEF WithVerbs, Sound
    <3>2. Up(Parent, k) \subseteq valid
      BY <2>2, <3>1, UpIsValid
    <3> DEFINE S == Up(Parent, k) \ {oid}
    <3>3. S \in SUBSET Oid /\ k \in S /\ ClosedUp(Parent, Up(Parent, k))
      BY <2>2, <3>1, UpOK
    <3>4. \A y \in S : Parent[y] # oid
      BY <2>4, <3>2, <3>3 DEF Parent
    <3>5. ClosedUp(Parent, S)
      BY <3>3, <3>4 DEF ClosedUp
    <3> HIDE DEF S
    <3>6. Up(Parent, k) \subseteq S
      BY <2>2, <3>1, <3>3, <3>5, UpOK
    <3> QED
      BY <3>6 DEF S
  <2>6. \A k \in WithVerbs : \A x \in Up(Parent, k) : Parent'[x] = Parent[x]
    <3>1. \A k \in WithVerbs : Up(Parent, k) \subseteq Oid
      BY <2>2, UpIsValid DEF WithVerbs, Sound
    <3> QED
      BY <2>3, <2>5, <3>1
  <2> QED
    BY <1>1, <1>2, <2>1, <2>6, NothingLost
<1> QED
  BY <1>3, <1>4 DEF ChparentVerbs

\* The verbs of an object are at its new number when it has one.
LEMMA SetNumberVerbsOK ==
  ASSUME VInv, IInv', NEW old \in valid, NEW new, MoveVerbs(old, new), Flush,
         valid' = Replace(valid, old, new)
  PROVE  VInv'
<1>1. verbs' = [verbs EXCEPT ![new] = verbs[old], ![old] = <<>>] /\ old \in Oid
  BY IInvFacts DEF MoveVerbs, VInv
<1>2. ASSUME NEW o \in Oid \ valid' PROVE verbs'[o] = <<>>
  <2>1. o = old \/ (o # new /\ o # old /\ verbs[o] = <<>>)
    BY DEF Replace, VInv, VerbsOfValid
  <2> QED
    BY <1>1, <2>1 DEF VInv, VerbsOfValid
<1>3. VerbsOfValid'
  BY <1>1, <1>2 DEF VInv, VerbsOfValid
<1> QED
  BY <1>3, Flushed

\* What is done to the verbs of an object leaves the objects alone.
LEMMA OnlyVerbs ==
  ASSUME VInv, UNCHANGED vars, Flush, NEW oid \in valid, NEW s,
         verbs' = [verbs EXCEPT ![oid] = s]
  PROVE  VInv'
<1>1. IInv' /\ valid' = valid
  BY NextOK DEF VInv, vars
<1>2. VerbsOfValid'
  BY <1>1, IInvFacts DEF VInv, VerbsOfValid
<1> QED
  BY <1>1, <1>2, Flushed

LEMMA OnlyAVerb ==
  ASSUME VInv, UNCHANGED vars, Flush, verbs' = verbs PROVE VInv'
<1>1. IInv' /\ valid' = valid
  BY NextOK DEF VInv, vars
<1>2. VerbsOfValid'
  BY <1>1 DEF VInv, VerbsOfValid
<1> QED
  BY <1>1, <1>2, Flushed

LEMMA NothingDone ==
  ASSUME VInv, IInv', valid' = valid, obj' = obj, UNCHANGED verbVars PROVE VInv'
<1>1. verbs' = verbs /\ verb' = verb /\ vc_table' = vc_table /\ Parent' = Parent
  BY DEF verbVars, Parent
<1> QED
  BY <1>1, NothingLost

LEMMA NextVerbsOK == VInv /\ [NextVerbs]_allVars => VInv'
<1> SUFFICES ASSUME VInv, [NextVerbs]_allVars PROVE VInv'
  OBVIOUS
<1> IInv /\ VerbsOfValid
  BY DEF VInv
<1>1. ASSUME NEW p \in OidOrNothing, CreateVerbs(p) PROVE VInv'
  BY <1>1, CreateVerbsOK
<1>2. ASSUME NEW p \in OidOrNothing, CreateYoungVerbs(p) PROVE VInv'
  <2>1. IInv' /\ valid \subseteq valid' /\ verbs' = verbs /\ Flush
    BY <1>2, CreateYoungOK DEF CreateYoungVerbs, CreateYoung
  <2>2. VerbsOfValid'
    BY <2>1 DEF VerbsOfValid
  <2> QED
    BY <2>1, <2>2, Flushed
<1>3. CASE ResetMaxObject /\ UNCHANGED verbVars
  <2>1. IInv' /\ valid' = valid /\ obj' = obj
    BY <1>3, ResetMaxObjectOK DEF ResetMaxObject
  <2> QED
    BY <1>3, <2>1, NothingDone
<1>4. ASSUME NEW oid \in Oid, RenumberVerbs(oid) PROVE VInv'
  <2>1. /\ oid \in valid /\ valid' = Replace(valid, oid, Lowest(valid, oid)) /\ IInv'
        /\ MoveVerbs(oid, Lowest(valid, oid)) /\ Flush
    BY <1>4, RenumberOK DEF RenumberVerbs, Renumber, SetNumber
  <2> QED
    BY <2>1, SetNumberVerbsOK
<1>5. ASSUME NEW oid \in Oid, NEW new \in Oid, SetObjectNumberVerbs(oid, new) PROVE VInv'
  <2>1. /\ oid \in valid /\ valid' = Replace(valid, oid, new) /\ IInv'
        /\ MoveVerbs(oid, new) /\ Flush
    BY <1>5, SetObjectNumberOK DEF SetObjectNumberVerbs, SetObjectNumber, SetNumber
  <2> QED
    BY <2>1, SetNumberVerbsOK
<1>6. ASSUME NEW oid \in Oid, RecycleVerbs(oid) PROVE VInv'
  <2>1. /\ oid \in valid /\ valid' = valid \ {oid} /\ verbs' = [verbs EXCEPT ![oid] = <<>>] /\ Flush
    BY <1>6 DEF RecycleVerbs, Recycle, Destroy
  <2>2. IInv'
    BY <1>6, <2>1, IInvFacts, DestroyOK DEF RecycleVerbs, Recycle
  <2>3. VerbsOfValid'
    BY <2>1 DEF VerbsOfValid
  <2> QED
    BY <2>1, <2>2, <2>3, Flushed
<1>7. ASSUME NEW oid \in Oid, NEW p \in OidOrNothing, ChparentVerbs(oid, p) PROVE VInv'
  BY <1>7, ChparentVerbsOK
<1>8. ASSUME NEW oid \in Oid, NEW v \in VerbId, DeleteVerb(oid, v) PROVE VInv'
  <2>1. DOMAIN verbs[oid] # {}
    BY <1>8 DEF DeleteVerb, Defined
  <2>2. verbs[oid] # <<>>
    BY <2>1
  <2>3. oid \in valid
    BY <2>2 DEF VerbsOfValid
  <2> DEFINE s == SelectSeq(verbs[oid], LAMBDA w : w # v)
  <2>4. UNCHANGED vars /\ Flush /\ verbs' = [verbs EXCEPT ![oid] = s]
    BY <1>8 DEF DeleteVerb
  <2> HIDE DEF s
  <2> QED
    BY <2>3, <2>4, OnlyVerbs
<1>9. ASSUME NEW oid \in Oid, NEW v \in VerbId, NEW new \in Verbdef, AddVerb(oid, v, new)
      PROVE  VInv'
  <2> DEFINE s == Append(verbs[oid], v)
  <2>1. oid \in valid /\ UNCHANGED vars /\ Flush /\ verbs' = [verbs EXCEPT ![oid] = s]
    BY <1>9 DEF AddVerb
  <2> HIDE DEF s
  <2> QED
    BY <2>1, OnlyVerbs
<1>10. ASSUME NEW v \in VerbId, SetArgSpecs(v) PROVE VInv'
  BY <1>10, OnlyAVerb DEF SetArgSpecs
<1>11. ASSUME NEW v \in VerbId, NEW new \in Verbdef, SetVerb(v, new) PROVE VInv'
  BY <1>11, OnlyAVerb DEF SetVerb
<1>12. ASSUME NEW oid \in OidOrNothing, NEW name \in Name, Lookup(oid, name) PROVE VInv'
  BY <1>12, LookupOK
<1>13. CASE UNCHANGED allVars
  <2>1. UNCHANGED vars /\ UNCHANGED verbVars
    BY <1>13 DEF allVars
  <2>2. IInv' /\ valid' = valid /\ obj' = obj
    BY <2>1, NextOK DEF vars
  <2> QED
    BY <2>1, <2>2, NothingDone
<1> QED
  BY <1>1, <1>2, <1>3, <1>4, <1>5, <1>6, <1>7, <1>8, <1>9, <1>10, <1>11, <1>12, <1>13 DEF NextVerbs

LEMMA VInvHolds == SpecVerbs => []VInv
  BY InitVerbsOK, NextVerbsOK, PTL DEF SpecVerbs
-----------------------------------------------------------------------------

\* A lookup through the cache finds what a walk through the parents finds,
\* though db_change_parent() and create() leave the cache as it is when the
\* object has neither children nor verbs; for any number of objects and names.
THEOREM LookupsRight == SpecVerbs => []LookupRight
<1>1. VInv => LookupRight
  <2> SUFFICES ASSUME VInv, NEW oid \in OidOrNothing, NEW name \in Name
               PROVE  FindCallable(oid, name) = Find(oid, name)
    BY DEF LookupRight
  <2>1. Parent \in Links /\ valid \subseteq Oid
    BY IInvFacts, LinksOf DEF VInv
  <2> DEFINE k == KeyOf(oid, name)
  <2>2. k[1] = Nearest(oid, WithVerbs) /\ k[2] = name
    BY DEF KeyOf
  <2>3. FindCallable(oid, name) = IF k \in DOMAIN vc_table THEN vc_table[k] ELSE Find(k[1], name)
    BY DEF FindCallable
  <2>4. Find(k[1], name) = Find(oid, name)
    BY <2>1, <2>2, FindFromKey
  <2> HIDE DEF k
  <2> QED
    BY <2>2, <2>3, <2>4 DEF VInv, CacheRight
<1> QED
  BY <1>1, VInvHolds, PTL

=============================================================================
