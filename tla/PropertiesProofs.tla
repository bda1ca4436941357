-------------------------- MODULE PropertiesProofs --------------------------
(***************************************************************************)
(* Proofs about Properties, for any objects, names and values: names never *)
(* clash, a value is read from the nearest object that has one, and the    *)
(* arrays implement PropertyValues.                                        *)
(***************************************************************************)
EXTENDS Properties, Facts, TLAPS

-----------------------------------------------------------------------------
(* The tree of parents.                                                    *)

Links == [Oid -> Oid \cup {NOTHING}]
Tree(up) == up \in Links /\ Founded(up)

LEMMA NothingIsNoOid == NOTHING \notin Oid
BY SpecialAssumption

\* What holds of an object if it holds of its parent holds of all.
LEMMA FromParents ==
    ASSUME NEW up, Tree(up), NEW S,
           \A x \in Oid : (up[x] # NOTHING => up[x] \in S) => x \in S
    PROVE  \A x \in Oid : x \in S
<1>1. DOMAIN up = Oid /\ \A x \in Oid : up[x] # NOTHING <=> up[x] \in Oid
  BY NothingIsNoOid DEF Tree, Links
<1>2. \A x \in DOMAIN up : (up[x] \in DOMAIN up => up[x] \in S) => x \in S
  BY <1>1
<1>3. DOMAIN up \subseteq S
  BY <1>2, FromTheRoots DEF Tree
<1> QED  BY <1>1, <1>3

\* A function told from that of the parent.
Told(f, up, D, base, step) ==
    /\ f \in [Oid -> D]
    /\ f = [x \in Oid |-> IF up[x] = NOTHING THEN base[x] ELSE step[x][f[up[x]]]]

LEMMA ToldFromParents ==
    ASSUME NEW up, Tree(up), NEW D, NEW base \in [Oid -> D], NEW step \in [Oid -> [D -> D]]
    PROVE  \E f : Told(f, up, D, base, step)
<1>1. DOMAIN up = Oid /\ \A x \in Oid : up[x] \in Oid <=> up[x] # NOTHING
  BY NothingIsNoOid DEF Tree, Links
<1>2. \E f : Grown(f, up, D, base, step)
  BY <1>1, BuiltFromRoots DEF Tree
<1>3. PICK f : Grown(f, up, D, base, step)
  BY <1>2
<1>4. f \in [Oid -> D] /\ \A x \in Oid : f[x] = IF up[x] = NOTHING THEN base[x] ELSE step[x][f[up[x]]]
  BY <1>1, <1>3 DEF Grown
<1>5. f = [x \in Oid |-> f[x]]
  BY <1>4
<1>6. Told(f, up, D, base, step)
  BY <1>4, <1>5 DEF Told
<1> QED  BY <1>6

LEMMA LineIs ==
    ASSUME NEW up, Tree(up)
    PROVE  /\ Line(up, NOTHING) = {}
           /\ \A x \in Oid : /\ Line(up, x) = {x} \cup Line(up, up[x])
                             /\ Line(up, x) \subseteq Oid
<1> DEFINE D == SUBSET Oid
           base == [x \in Oid |-> {x}]
           step == [x \in Oid |-> [S \in D |-> {x} \cup S]]
           Upto(f) == f = [x \in Oid |-> {x} \cup (IF up[x] = NOTHING THEN {} ELSE f[up[x]])]
           g == CHOOSE f : Upto(f)
<1>1. \A x \in Oid : up[x] # NOTHING => up[x] \in Oid
  BY DEF Tree, Links
<1>2. \A o : Line(up, o) = IF o = NOTHING THEN {} ELSE g[o]
  BY DEF Line
<1>3. \E f \in [Oid -> D] : Upto(f)
  <2>1. base \in [Oid -> D] /\ step \in [Oid -> [D -> D]]
    OBVIOUS
  <2>2. \A x \in Oid : base[x] = {x} /\ \A S \in D : step[x][S] = {x} \cup S
    OBVIOUS
  <2> HIDE DEF base, step, D
  <2>3. PICK f : Told(f, up, D, base, step)
    BY <2>1, ToldFromParents
  <2>4. \A x \in Oid : f[x] = {x} \cup (IF up[x] = NOTHING THEN {} ELSE f[up[x]])
    BY <1>1, <2>2, <2>3 DEF Told
  <2>5. f \in [Oid -> D] /\ f = [x \in Oid |-> f[x]]
    BY <2>3 DEF Told
  <2> QED  BY <2>4, <2>5
<1>4. PICK f \in [Oid -> D] : Upto(f)
  BY <1>3
<1>5. Upto(g)
  <2> HIDE DEF Upto
  <2> QED  BY <1>4
<1> HIDE DEF g
<1>6. \A x \in Oid : g[x] = {x} \cup (IF up[x] = NOTHING THEN {} ELSE g[up[x]])
  BY <1>5
<1>7. \A x \in Oid : x \in {y \in Oid : g[y] \subseteq Oid}
  <2> DEFINE S == {y \in Oid : g[y] \subseteq Oid}
  <2>1. \A x \in Oid : (up[x] # NOTHING => up[x] \in S) => x \in S
    BY <1>6
  <2> HIDE DEF S
  <2>2. \A x \in Oid : x \in S
    BY <2>1, FromParents
  <2> QED  BY <2>2 DEF S
<1> QED  BY <1>1, <1>2, <1>6, <1>7, NothingIsNoOid

\* Lines go up to the end, and are chains.
LEMMA LineUp ==
    ASSUME NEW up, Tree(up)
    PROVE  \A x \in Oid : /\ x \in Line(up, x)
                          /\ \A y \in Line(up, x) : Line(up, y) \subseteq Line(up, x)
                          /\ \A y, z \in Line(up, x) : y \in Line(up, z) \/ z \in Line(up, y)
<1> DEFINE Good(x) == /\ x \in Line(up, x)
                      /\ \A y \in Line(up, x) : Line(up, y) \subseteq Line(up, x)
                      /\ \A y, z \in Line(up, x) : y \in Line(up, z) \/ z \in Line(up, y)
           S == {x \in Oid : Good(x)}
<1>1. ASSUME NEW x \in Oid, up[x] # NOTHING => up[x] \in S  PROVE Good(x)
  <2>1. Line(up, x) = {x} \cup Line(up, up[x]) /\ Line(up, NOTHING) = {}
    BY LineIs
  <2>2. CASE up[x] = NOTHING
    BY <2>1, <2>2
  <2>3. CASE up[x] # NOTHING
    <3>1. Good(up[x])
      BY <1>1, <2>3
    <3> HIDE DEF S
    <3> QED  BY <2>1, <3>1
  <2> QED  BY <2>2, <2>3
<1> HIDE DEF Good
<1>2. \A x \in Oid : x \in S
  <2>1. \A x \in Oid : (up[x] # NOTHING => up[x] \in S) => x \in S
    BY <1>1
  <2> HIDE DEF S
  <2> QED  BY <2>1, FromParents
<1> QED  BY <1>2 DEF Good

\* A set that has the parents of what it has has the lines.
LEMMA LineLeast ==
    ASSUME NEW up, Tree(up), NEW T, \A x \in Oid : x \in T => up[x] = NOTHING \/ up[x] \in T,
           NEW o \in Oid, o \in T
    PROVE  Line(up, o) \subseteq T
<1> DEFINE S == {x \in Oid : x \in T => Line(up, x) \subseteq T}
<1>1. \A x \in Oid : (up[x] # NOTHING => up[x] \in S) => x \in S
  BY LineIs
<1> HIDE DEF S
<1>2. \A x \in Oid : x \in S
  BY <1>1, FromParents
<1> QED  BY <1>2 DEF S

LEMMA NoLoop ==
    ASSUME NEW up, Tree(up)
    PROVE  \A x \in Oid : x \notin Line(up, up[x])
<1> DEFINE S == {x \in Oid : x \notin Line(up, up[x])}
<1>1. ASSUME NEW x \in Oid, up[x] # NOTHING => up[x] \in S  PROVE x \in S
  <2>1. CASE up[x] = NOTHING
    BY <2>1, LineIs
  <2>2. CASE up[x] # NOTHING
    <3> DEFINE p == up[x]
    <3>1. p \in Oid /\ p \notin Line(up, up[p]) /\ p \in Line(up, x)
      BY <1>1, <2>2, LineIs, LineUp
    <3> SUFFICES ASSUME x \in Line(up, p)  PROVE FALSE
      OBVIOUS
    <3>2. CASE x = p
      BY <3>1, <3>2, LineUp
    <3>3. CASE x # p
      <4>1. x \in Line(up, up[p])
        BY <3>1, <3>3, LineIs
      <4>2. up[p] \in Oid
        BY <3>1, <4>1, LineIs DEF Tree, Links
      <4>3. Line(up, x) \subseteq Line(up, up[p])
        BY <4>1, <4>2, LineUp
      <4> QED  BY <3>1, <4>3
    <3> QED  BY <3>2, <3>3
  <2> QED  BY <2>1, <2>2
<1>2. \A x \in Oid : x \in S
  <2> HIDE DEF S
  <2> QED  BY <1>1, FromParents
<1> QED  BY <1>2

\* Giving an object another parent that is not below it.
LEMMA Relinked ==
    ASSUME NEW up, Tree(up), NEW o \in Oid, NEW p \in Oid \cup {NOTHING}, o \notin Line(up, p),
           NEW new, new = [up EXCEPT ![o] = p]
    PROVE  /\ Tree(new)
           /\ \A x \in Oid : Line(new, x) \subseteq
                                Line(up, x) \cup (IF o \in Line(up, x) THEN Line(up, p) ELSE {})
<1>0. new \in Links /\ new[o] = p /\ (\A x \in Oid \ {o} : new[x] = up[x]) /\ DOMAIN new = Oid
  BY DEF Tree, Links
<1>1. ASSUME NEW S \in SUBSET Oid, S # {}, \A x \in S : new[x] \in S  PROVE FALSE
  <2> DEFINE T == S \cap Line(up, p)
  <2>1. ASSUME NEW C \in SUBSET Oid, C # {}, o \notin C, \A x \in C : up[x] \in C  PROVE FALSE
    <3>1. DOMAIN up = Oid /\ \E x \in C : up[x] \notin C
      BY <2>1 DEF Tree, Links, Founded
    <3> QED  BY <2>1, <3>1
  <2>2. CASE o \notin S
    BY <1>0, <1>1, <2>1, <2>2
  <2>3. CASE o \in S
    <3>1. p \in Oid /\ p \in S
      BY <1>0, <1>1, <2>3
    <3>2. p \in T
      BY <3>1, LineUp
    <3>3. ASSUME NEW x \in T  PROVE up[x] \in T
      <4>1. x # o /\ x \in Oid /\ up[x] \in S /\ up[x] \in Oid
        BY <1>0, <1>1, <3>1
      <4>2. up[x] \in Line(up, x)
        BY <4>1, LineIs, LineUp
      <4> QED  BY <3>1, <4>1, <4>2, LineUp
    <3> QED  BY <2>1, <3>2, <3>3
  <2> QED  BY <2>2, <2>3
<1>2. Tree(new)
  BY <1>0, <1>1 DEF Tree, Founded
<1>3. ASSUME NEW x \in Oid
      PROVE  Line(new, x) \subseteq Line(up, x) \cup (IF o \in Line(up, x) THEN Line(up, p) ELSE {})
  <2> DEFINE T == Line(up, x) \cup (IF o \in Line(up, x) THEN Line(up, p) ELSE {})
  <2>1. Line(up, x) \subseteq Oid /\ Line(up, p) \subseteq Oid /\ x \in T
    BY LineIs, LineUp
  <2>2. ASSUME NEW y \in Oid, y \in T  PROVE new[y] = NOTHING \/ new[y] \in T
    <3>1. CASE y = o
      <4>1. o \in Line(up, x)
        BY <2>2, <3>1
      <4>2. p = NOTHING \/ p \in Line(up, p)
        BY LineUp
      <4> QED  BY <1>0, <3>1, <4>1, <4>2
    <3>2. CASE y # o
      <4>1. new[y] = up[y] /\ (up[y] = NOTHING \/ up[y] \in Oid)
        BY <1>0, <3>2 DEF Tree, Links
      <4>2. up[y] \in Oid => up[y] \in Line(up, y)
        BY LineIs, LineUp
      <4>3. \A z \in Oid : y \in Line(up, z) => Line(up, y) \subseteq Line(up, z)
        BY LineUp
      <4>4. y \in Line(up, p) => p \in Oid
        BY LineIs
      <4> QED  BY <2>2, <4>1, <4>2, <4>3, <4>4
    <3> QED  BY <3>1, <3>2
  <2> HIDE DEF T
  <2>3. Line(new, x) \subseteq T
    BY <1>2, <2>1, <2>2, LineLeast
  <2> QED  BY <2>3 DEF T
<1> QED  BY <1>2, <1>3

\* Giving the children of an object its parent, and it none.
LEMMA Unlinked ==
    ASSUME NEW up, Tree(up), NEW o \in Oid,
           NEW new, new = [x \in Oid |-> IF x = o THEN NOTHING
                                         ELSE IF up[x] = o THEN up[o] ELSE up[x]]
    PROVE  Tree(new) /\ \A x \in Oid : Line(new, x) \subseteq Line(up, x)
<1>0. /\ up \in Links /\ new \in Links /\ DOMAIN new = Oid /\ DOMAIN up = Oid
      /\ \A x \in Oid : new[x] = IF x = o THEN NOTHING ELSE IF up[x] = o THEN up[o] ELSE up[x]
  BY DEF Tree, Links
<1>1. ASSUME NEW S \in SUBSET Oid, S # {}, \A x \in S : new[x] \in S  PROVE FALSE
  <2>1. o \notin S
    BY <1>0, <1>1, NothingIsNoOid
  <2>2. ASSUME NEW C \in SUBSET Oid, C # {}, \A x \in C : up[x] \in C  PROVE FALSE
    BY <1>0, <2>2 DEF Tree, Founded
  <2>3. CASE \E x \in S : up[x] = o
    <3> DEFINE C == S \cup {o}
    <3>1. up[o] \in S
      BY <1>0, <1>1, <2>1, <2>3
    <3>2. \A x \in C : up[x] \in C
      BY <1>0, <1>1, <2>1, <3>1
    <3> QED  BY <2>2, <3>2
  <2>4. CASE ~ \E x \in S : up[x] = o
    <3>1. \A x \in S : up[x] \in S
      BY <1>0, <1>1, <2>1, <2>4
    <3> QED  BY <1>1, <2>2, <3>1
  <2> QED  BY <2>3, <2>4
<1>2. Tree(new)
  BY <1>0, <1>1 DEF Tree, Founded
<1>3. ASSUME NEW x \in Oid  PROVE Line(new, x) \subseteq Line(up, x)
  <2>1. ASSUME NEW y \in Oid, y \in Line(up, x)  PROVE up[y] = NOTHING \/ up[y] \in Line(up, x)
    <3>1. Line(up, y) \subseteq Line(up, x) /\ (up[y] = NOTHING \/ up[y] \in Oid)
      BY <1>0, <2>1, LineUp DEF Links
    <3>2. up[y] \in Oid => up[y] \in Line(up, y)
      BY LineIs, LineUp
    <3> QED  BY <3>1, <3>2
  <2>2. ASSUME NEW y \in Oid, y \in Line(up, x)  PROVE new[y] = NOTHING \/ new[y] \in Line(up, x)
    <3>1. up[y] = o => o \in Line(up, x) /\ (up[o] = NOTHING \/ up[o] \in Line(up, x))
      BY <2>1, <2>2, NothingIsNoOid
    <3> QED  BY <1>0, <2>1, <2>2, <3>1
  <2>3. x \in Line(up, x)
    BY LineUp
  <2> QED  BY <1>2, <2>2, <2>3, LineLeast
<1> QED  BY <1>2, <1>3

-----------------------------------------------------------------------------
(* Finding a property.                                                     *)

Lists == [Oid -> Seq(Names)]
Has(d, n) == n \in Range(propdefs[d])

LEMMA PlaceIs ==
    ASSUME NEW o \in Oid, NEW n, propdefs \in Lists
    PROVE  /\ Has(o, n) => IndexOf(o, n) \in 1..Len(propdefs[o]) /\ propdefs[o][IndexOf(o, n)] = n
           /\ ~ Has(o, n) => IndexOf(o, n) = 0
           /\ IndexOf(o, n) # 0 <=> Has(o, n)
           /\ Len(propdefs[o]) \in Nat
<1>1. propdefs[o] \in Seq(Names)
  BY DEF Lists
<1> DEFINE s == propdefs[o]
           k == IndexOf(o, n)
<1>2. /\ n \in Range(s) => k \in 1..Len(s) /\ s[k] = n
      /\ n \notin Range(s) => k = 0
  <2> DEFINE I == {i \in 1..Len(s) : s[i] = n}
  <2>1. k = IF I # {} THEN Min(I) ELSE 0
    BY DEF IndexOf, SelectInSeq
  <2>2. I \in SUBSET Nat /\ (I # {} <=> n \in Range(s))
    BY <1>1, RangeEquality, LenProperties
  <2>3. I # {} => Min(I) \in I
    <3> HIDE DEF I
    <3> QED  BY <2>2, MinIs
  <2> QED  BY <2>1, <2>2, <2>3
<1>3. Len(propdefs[o]) \in Nat
  BY <1>1, LenProperties
<1> QED  BY <1>2, <1>3 DEF Has

Finds == [definer : Oid \cup {NOTHING}, at : Nat]

LEMMA FindIs ==
    ASSUME Tree(parent), propdefs \in Lists, NEW n
    PROVE  \A x \in Oid :
              /\ Find(x, n) \in Finds
              /\ Find(x, n) = IF Has(x, n) THEN [definer |-> x, at |-> IndexOf(x, n)]
                              ELSE IF parent[x] = NOTHING \/ Find(parent[x], n) = NotFound
                              THEN NotFound
                              ELSE [definer |-> Find(parent[x], n).definer,
                                    at |-> Find(parent[x], n).at + Len(propdefs[x])]
<1> DEFINE down(x, h) == IF h = NotFound THEN NotFound ELSE [h EXCEPT !.at = @ + Len(propdefs[x])]
           base == [x \in Oid |-> IF Has(x, n) THEN [definer |-> x, at |-> IndexOf(x, n)] ELSE NotFound]
           step == [x \in Oid |-> [h \in Finds |->
                       IF Has(x, n) THEN [definer |-> x, at |-> IndexOf(x, n)] ELSE down(x, h)]]
           Rule(f) == f = [x \in Oid |->
                              IF IndexOf(x, n) # 0 THEN [definer |-> x, at |-> IndexOf(x, n)]
                              ELSE IF parent[x] = NOTHING THEN NotFound
                              ELSE LET h == f[parent[x]] IN down(x, h)]
           g == CHOOSE f : Rule(f)
<1>1. \A x \in Oid : Find(x, n) = g[x]
  BY DEF Find
<1>2. \A x \in Oid : /\ IndexOf(x, n) # 0 <=> Has(x, n)
                     /\ IndexOf(x, n) \in Nat /\ Len(propdefs[x]) \in Nat
  BY PlaceIs
<1>3. NotFound \in Finds
  BY DEF NotFound, Finds
<1>4. \A x \in Oid, h \in Finds : down(x, h) = IF h = NotFound THEN NotFound
                                  ELSE [definer |-> h.definer, at |-> h.at + Len(propdefs[x])]
  BY DEF Finds
<1>5. \A x \in Oid, h \in Finds : down(x, h) \in Finds
  BY <1>2, <1>3, <1>4 DEF Finds
<1> HIDE DEF down
<1>6. base \in [Oid -> Finds] /\ step \in [Oid -> [Finds -> Finds]]
  <2>1. \A x \in Oid : Has(x, n) => [definer |-> x, at |-> IndexOf(x, n)] \in Finds
    BY <1>2 DEF Finds
  <2> QED  BY <1>3, <1>5, <2>1
<1>7. PICK f : Told(f, parent, Finds, base, step)
  <2> HIDE DEF base, step
  <2> QED  BY <1>6, ToldFromParents
<1>8. \A x \in Oid : parent[x] # NOTHING => parent[x] \in Oid /\ f[parent[x]] \in Finds
  BY <1>7 DEF Tree, Links, Told
<1>9. f \in [Oid -> Finds] /\ Rule(f)
  <2>1. f \in [Oid -> Finds] /\ f = [x \in Oid |-> f[x]]
    BY <1>7 DEF Told
  <2>2. \A x \in Oid : f[x] = IF parent[x] = NOTHING THEN base[x] ELSE step[x][f[parent[x]]]
    <3> HIDE DEF base, step
    <3> QED  BY <1>7 DEF Told
  <2>3. \A x \in Oid : f[x] = IF IndexOf(x, n) # 0 THEN [definer |-> x, at |-> IndexOf(x, n)]
                              ELSE IF parent[x] = NOTHING THEN NotFound
                              ELSE down(x, f[parent[x]])
    BY <1>2, <1>8, <2>2
  <2> QED  BY <2>1, <2>3
<1>10. Rule(g)
  <2> HIDE DEF Rule
  <2> QED  BY <1>9
<1> HIDE DEF g
<1>11. \A x \in Oid : g[x] = IF IndexOf(x, n) # 0 THEN [definer |-> x, at |-> IndexOf(x, n)]
                             ELSE IF parent[x] = NOTHING THEN NotFound
                             ELSE down(x, g[parent[x]])
  BY <1>10
<1>12. \A x \in Oid : g[x] \in Finds
  <2> DEFINE S == {x \in Oid : g[x] \in Finds}
  <2>1. ASSUME NEW x \in Oid, parent[x] # NOTHING => parent[x] \in S  PROVE x \in S
    <3>1. [definer |-> x, at |-> IndexOf(x, n)] \in Finds
      BY <1>2 DEF Finds
    <3> QED  BY <1>3, <1>5, <1>11, <2>1, <3>1
  <2>2. \A x \in Oid : x \in S
    <3> HIDE DEF S
    <3> QED  BY <2>1, FromParents
  <2> QED  BY <2>2
<1>13. \A x \in Oid : parent[x] # NOTHING => parent[x] \in Oid
  BY DEF Tree, Links
<1>14. ASSUME NEW x \in Oid
       PROVE  g[x] = IF Has(x, n) THEN [definer |-> x, at |-> IndexOf(x, n)]
                     ELSE IF parent[x] = NOTHING \/ g[parent[x]] = NotFound
                     THEN NotFound
                     ELSE [definer |-> g[parent[x]].definer,
                           at |-> g[parent[x]].at + Len(propdefs[x])]
  <2>1. CASE Has(x, n) \/ parent[x] = NOTHING
    BY <1>2, <1>11, <2>1
  <2>2. CASE ~ Has(x, n) /\ parent[x] # NOTHING
    BY <1>2, <1>4, <1>11, <1>12, <1>13, <2>2
  <2> QED  BY <2>1, <2>2
<1> QED  BY <1>1, <1>12, <1>13, <1>14

\* It is found if the object or an ancestor defines it, and then at one that does.
LEMMA FoundIfHad ==
    ASSUME Tree(parent), propdefs \in Lists, NEW n, NEW o \in Oid
    PROVE  /\ Find(o, n) = NotFound <=> \A x \in Line(parent, o) : ~ Has(x, n)
           /\ Find(o, n) # NotFound => /\ Find(o, n).definer \in Line(parent, o)
                                       /\ Has(Find(o, n).definer, n)
<1> DEFINE Right(x) == /\ Find(x, n) = NotFound <=> \A y \in Line(parent, x) : ~ Has(y, n)
                       /\ Find(x, n) # NotFound => /\ Find(x, n).definer \in Line(parent, x)
                                                   /\ Has(Find(x, n).definer, n)
           S == {x \in Oid : Right(x)}
<1>1. ASSUME NEW x \in Oid, parent[x] # NOTHING => parent[x] \in S  PROVE Right(x)
  <2>1. Line(parent, x) = {x} \cup Line(parent, parent[x]) /\ Line(parent, NOTHING) = {}
    BY LineIs
  <2>2. \A y \in Oid : [definer |-> y, at |-> IndexOf(y, n)] # NotFound
    BY NothingIsNoOid DEF NotFound
  <2>3. CASE Has(x, n)
    <3>1. Find(x, n) = [definer |-> x, at |-> IndexOf(x, n)]
      BY <2>3, FindIs
    <3> QED  BY <2>1, <2>2, <2>3, <3>1
  <2>4. CASE ~ Has(x, n) /\ parent[x] = NOTHING
    BY <2>1, <2>4, FindIs
  <2>5. CASE ~ Has(x, n) /\ parent[x] # NOTHING
    <3>1. Right(parent[x]) /\ parent[x] \in Oid
      BY <1>1, <2>5
    <3>2. CASE Find(parent[x], n) = NotFound
      BY <2>1, <2>5, <3>1, <3>2, FindIs
    <3>3. CASE Find(parent[x], n) # NotFound
      <4>1. Find(x, n).definer = Find(parent[x], n).definer
        BY <2>5, <3>3, FindIs
      <4>2. Find(x, n).definer \in Oid
        BY <3>1, <3>3, <4>1, LineIs
      <4>3. Find(x, n) # NotFound
        BY <4>2, NothingIsNoOid DEF NotFound
      <4> QED  BY <2>1, <2>5, <3>1, <3>3, <4>1, <4>3
    <3> QED  BY <3>2, <3>3
  <2> QED  BY <2>3, <2>4, <2>5
<1> HIDE DEF Right
<1>2. \A x \in Oid : x \in S
  <2>1. \A x \in Oid : (parent[x] # NOTHING => parent[x] \in S) => x \in S
    BY <1>1
  <2> HIDE DEF S
  <2> QED  BY <2>1, FromParents
<1> QED  BY <1>2 DEF Right

-----------------------------------------------------------------------------
(* Names.                                                                  *)

\* Nothing is linked to what is not there, and that has no names.
Rooted ==
    /\ valid \subseteq Oid /\ Tree(parent) /\ propdefs \in Lists
    /\ \A x \in Oid : parent[x] # NOTHING => x \in valid /\ parent[x] \in valid
    /\ \A x \in Oid \ valid : propdefs[x] = <<>>

\* An object has a name once, and its ancestors do not have it.
Unmixed ==
    /\ \A x \in Oid : IsInjective(propdefs[x])
    /\ \A x \in Oid : \A y \in Line(parent, x) :
          y # x => \A n \in Names : ~ (Has(x, n) /\ Has(y, n))

NamesInv == Rooted /\ Unmixed

LEMMA HasIs ==
    ASSUME NEW o \in Oid, propdefs \in Lists
    PROVE  /\ propdefs[o] \in Seq(Names) /\ Len(propdefs[o]) \in Nat
           /\ DOMAIN propdefs[o] = 1..Len(propdefs[o])
           /\ \A n : Has(o, n) <=> \E i \in 1..Len(propdefs[o]) : propdefs[o][i] = n
           /\ \A n : Has(o, n) => n \in Names
<1> DEFINE s == propdefs[o]
<1>1. s \in Seq(Names)
  BY DEF Lists
<1>2. /\ Len(s) \in Nat /\ DOMAIN s = 1..Len(s) /\ Range(s) = {s[i] : i \in 1..Len(s)}
      /\ \A i \in 1..Len(s) : s[i] \in Names
  <2> HIDE DEF s
  <2> QED  BY <1>1, LenProperties, RangeEquality, ElementOfSeq
<1> QED  BY <1>1, <1>2 DEF Has

\* The guard of AddPropdef and RenamePropdef, for the names.
LEMMA MayDefineIs ==
    ASSUME Rooted, NEW o \in Oid, NEW n \in Names, MayDefine(o, n)
    PROVE  /\ \A x \in Line(parent, o) : ~ Has(x, n)
           /\ \A x \in Oid : o \in Line(parent, x) => ~ Has(x, n)
<1>1. Tree(parent) /\ propdefs \in Lists
  BY DEF Rooted
<1>2. \A x \in Line(parent, o) : ~ Has(x, n)
  BY <1>1, FoundIfHad DEF MayDefine
<1>3. \A x \in Oid : o \in Line(parent, x) => IndexOf(x, n) = 0
  BY DEF MayDefine, DefinedAtOrBelow, Below
<1> QED  BY <1>1, <1>2, <1>3, PlaceIs

\* The guard of Chparent and Recycle, for the names.
LEMMA NoConflictIs ==
    ASSUME Rooted, NEW o \in Oid, NEW p \in Oid \cup {NOTHING}, NoConflict(o, p),
           NEW x \in Oid, o \in Line(parent, x), NEW y \in Line(parent, p), NEW n
    PROVE  ~ (Has(x, n) /\ Has(y, n))
<1>1. Tree(parent) /\ propdefs \in Lists
  BY DEF Rooted
<1> SUFFICES ASSUME Has(x, n), Has(y, n)  PROVE FALSE
  OBVIOUS
<1>2. y \in Oid
  BY <1>1, LineIs
<1>3. PICK i \in DOMAIN propdefs[y] : propdefs[y][i] = n
  BY <1>1, <1>2, HasIs
<1>4. ~ DefinedAtOrBelow(n, o)
  BY <1>3 DEF NoConflict
<1>5. IndexOf(x, n) = 0
  BY <1>4 DEF DefinedAtOrBelow, Below
<1> QED  BY <1>1, <1>5, PlaceIs

\* What is not there is nobody's ancestor.
LEMMA NotAbove ==
    ASSUME Rooted, NEW o \in Oid, o \notin valid, NEW x \in Oid, o \in Line(parent, x)
    PROVE  x = o
<1>1. Tree(parent)
  BY DEF Rooted
<1> SUFFICES ASSUME x # o  PROVE FALSE
  OBVIOUS
<1> DEFINE T == Oid \ {o}
<1>2. \A y \in Oid : y \in T => parent[y] = NOTHING \/ parent[y] \in T
  BY DEF Rooted, Tree, Links
<1>3. Line(parent, x) \subseteq T
  BY <1>1, <1>2, LineLeast
<1> QED  BY <1>3

\* What changes of lists leave: no object gets a name, or only one that may be defined.
LEMMA StillUnmixed ==
    ASSUME NamesInv, parent' = parent, propdefs' \in Lists, NEW o \in Oid, NEW n \in Names,
           \A x \in Oid \ {o} : propdefs'[x] = propdefs[x],
           IsInjective(propdefs'[o]),
           \A m : Has(o, m)' => Has(o, m) \/ (m = n /\ MayDefine(o, n))
    PROVE  Unmixed'
<1>1. Tree(parent) /\ propdefs \in Lists
  BY DEF NamesInv, Rooted
<1>2. \A x \in Oid : IsInjective(propdefs'[x])
  BY DEF NamesInv, Unmixed
<1>3. ASSUME NEW x \in Oid, NEW y \in Line(parent, x), y # x, NEW m \in Names
      PROVE  ~ (Has(x, m)' /\ Has(y, m)')
  <2>1. y \in Oid
    BY <1>1, LineIs
  <2>2. \A z \in Oid \ {o} : Has(z, m)' <=> Has(z, m)
    BY DEF Has
  <2>3. ~ (Has(x, m) /\ Has(y, m))
    BY <1>3 DEF NamesInv, Unmixed
  <2>4. CASE x = o
    <3>1. MayDefine(o, n) => ~ Has(y, n)
      BY <1>3, <2>4, MayDefineIs DEF NamesInv
    <3>2. Has(y, m)' <=> Has(y, m)
      BY <1>3, <2>1, <2>2, <2>4
    <3> QED  BY <2>3, <2>4, <3>1, <3>2
  <2>5. CASE y = o
    <3>1. MayDefine(o, n) => ~ Has(x, n)
      BY <1>3, <2>5, MayDefineIs DEF NamesInv
    <3>2. Has(x, m)' <=> Has(x, m)
      BY <1>3, <2>2, <2>5
    <3> QED  BY <2>3, <2>5, <3>1, <3>2
  <2>6. CASE x # o /\ y # o
    BY <2>1, <2>2, <2>3, <2>6
  <2> QED  BY <2>4, <2>5, <2>6
<1>4. \A x \in Oid : \A y \in Line(parent, x) : y # x => \A m \in Names : ~ (Has(x, m)' /\ Has(y, m)')
  BY <1>3
<1>5. \A x \in Oid : Line(parent', x) = Line(parent, x)
  OBVIOUS
<1> QED  BY <1>2, <1>4, <1>5 DEF Unmixed

LEMMA AddNames ==
    ASSUME NamesInv, NEW o \in Oid, NEW n \in Names, NEW value, AddPropdef(o, n, value)
    PROVE  NamesInv'
<1>1. Tree(parent) /\ propdefs \in Lists /\ valid \subseteq Oid
  BY DEF NamesInv, Rooted
<1> DEFINE s == propdefs[o]
           t == Append(s, n)
<1>2. /\ o \in valid /\ MayDefine(o, n) /\ valid' = valid /\ parent' = parent
      /\ propdefs' = [propdefs EXCEPT ![o] = t]
  BY DEF AddPropdef
<1>3. /\ s \in Seq(Names) /\ Len(s) \in Nat /\ DOMAIN s = 1..Len(s)
      /\ \A m : Has(o, m) <=> \E i \in 1..Len(s) : s[i] = m
  BY <1>1, HasIs
<1> HIDE DEF s
<1>4. /\ t \in Seq(Names) /\ Len(t) = Len(s) + 1 /\ DOMAIN t = 1..Len(s) + 1
      /\ \A i \in 1..Len(s) + 1 : t[i] = IF i <= Len(s) THEN s[i] ELSE n
  BY <1>3, AppendProperties, LenProperties
<1> HIDE DEF t
<1>5. propdefs' \in Lists /\ propdefs'[o] = t /\ \A x \in Oid \ {o} : propdefs'[x] = propdefs[x]
  BY <1>1, <1>2, <1>4 DEF Lists
<1>6. \A m : Has(o, m)' => Has(o, m) \/ m = n
  <2>1. Range(t) = {t[i] : i \in 1..Len(s) + 1}
    BY <1>4, RangeEquality
  <2>2. \A m : Has(o, m)' <=> m \in Range(t)
    BY <1>5 DEF Has
  <2> QED  BY <1>3, <1>4, <2>1, <2>2
<1>7. IsInjective(t)
  <2>1. IsInjective(s)
    BY DEF NamesInv, Unmixed, s
  <2>2. \A i \in 1..Len(s) : s[i] # n
    <3>1. o \in Line(parent, o)
      BY <1>1, LineUp
    <3> QED  BY <1>2, <1>3, <3>1, MayDefineIs DEF NamesInv
  <2> QED  BY <1>3, <1>4, <2>1, <2>2 DEF IsInjective
<1>8. Unmixed'
  BY <1>2, <1>5, <1>6, <1>7, StillUnmixed
<1>9. Rooted'
  BY <1>1, <1>2, <1>5 DEF NamesInv, Rooted
<1> QED  BY <1>8, <1>9 DEF NamesInv

LEMMA DeleteNames ==
    ASSUME NamesInv, NEW o \in Oid, NEW n \in Names, DeletePropdef(o, n)
    PROVE  NamesInv'
<1>1. Tree(parent) /\ propdefs \in Lists /\ valid \subseteq Oid
  BY DEF NamesInv, Rooted
<1> DEFINE s == propdefs[o]
           k == IndexOf(o, n)
           t == RemoveAt(s, k)
<1>2. /\ o \in valid /\ k # 0 /\ valid' = valid /\ parent' = parent
      /\ propdefs' = [propdefs EXCEPT ![o] = t]
  BY DEF DeletePropdef
<1>3. /\ s \in Seq(Names) /\ Len(s) \in Nat /\ DOMAIN s = 1..Len(s)
      /\ \A m : Has(o, m) <=> \E i \in 1..Len(s) : s[i] = m
  BY <1>1, HasIs
<1>4. k \in 1..Len(s)
  BY <1>1, <1>2, PlaceIs
<1> HIDE DEF s, k
<1>5. /\ t \in Seq(Names) /\ Len(t) = Len(s) - 1 /\ DOMAIN t = 1..Len(s) - 1
      /\ \A i \in 1..Len(s) - 1 : t[i] = IF i < k THEN s[i] ELSE s[i + 1]
  <2>1. /\ t \in Seq(Names) /\ Len(t) = Len(s) - 1
        /\ \A i \in 1..Len(s) - 1 : t[i] = IF i < k THEN s[i] ELSE s[i + 1]
    BY <1>3, <1>4, RemoveAtIs
  <2> HIDE DEF t
  <2> QED  BY <2>1, LenProperties
<1> HIDE DEF t
<1>6. propdefs' \in Lists /\ propdefs'[o] = t /\ \A x \in Oid \ {o} : propdefs'[x] = propdefs[x]
  BY <1>1, <1>2, <1>5 DEF Lists
<1>7. \A m : Has(o, m)' => Has(o, m)
  <2>1. Range(t) = {t[i] : i \in 1..Len(s) - 1}
    BY <1>5, RangeEquality
  <2>2. \A m : Has(o, m)' <=> m \in Range(t)
    BY <1>6 DEF Has
  <2>3. \A i \in 1..Len(s) - 1 : \E j \in 1..Len(s) : t[i] = s[j]
    BY <1>3, <1>4, <1>5
  <2> QED  BY <1>3, <2>1, <2>2, <2>3
<1>8. IsInjective(t)
  <2>1. IsInjective(s)
    BY DEF NamesInv, Unmixed, s
  <2>2. \A i, j \in 1..Len(s) : s[i] = s[j] => i = j
    BY <1>3, <2>1 DEF IsInjective
  <2> SUFFICES ASSUME NEW i \in 1..Len(s) - 1, NEW j \in 1..Len(s) - 1, t[i] = t[j]  PROVE i = j
    BY <1>5 DEF IsInjective
  <2> DEFINE up(l) == IF l < k THEN l ELSE l + 1
  <2>3. up(i) \in 1..Len(s) /\ up(j) \in 1..Len(s) /\ t[i] = s[up(i)] /\ t[j] = s[up(j)]
    BY <1>3, <1>4, <1>5
  <2>4. up(i) = up(j)
    <3> HIDE DEF up
    <3> QED  BY <2>2, <2>3
  <2> QED  BY <1>3, <1>4, <2>4
<1>9. Unmixed'
  <2>1. IsInjective(propdefs'[o])
    BY <1>6, <1>8
  <2>2. \A m : Has(o, m)' => Has(o, m) \/ (m = n /\ MayDefine(o, n))
    BY <1>7
  <2> QED  BY <1>2, <1>6, <2>1, <2>2, StillUnmixed
<1>10. Rooted'
  BY <1>1, <1>2, <1>6 DEF NamesInv, Rooted
<1> QED  BY <1>9, <1>10 DEF NamesInv

LEMMA RenameNames ==
    ASSUME NamesInv, NEW o \in Oid, NEW old \in Names, NEW n \in Names, RenamePropdef(o, old, n)
    PROVE  NamesInv'
<1>1. Tree(parent) /\ propdefs \in Lists /\ valid \subseteq Oid
  BY DEF NamesInv, Rooted
<1> DEFINE s == propdefs[o]
           k == IndexOf(o, old)
           t == [s EXCEPT ![k] = n]
<1>2. /\ o \in valid /\ k # 0 /\ MayDefine(o, n) /\ valid' = valid /\ parent' = parent
      /\ propdefs' = [propdefs EXCEPT ![o] = t]
  BY DEF RenamePropdef
<1>3. /\ s \in Seq(Names) /\ Len(s) \in Nat /\ DOMAIN s = 1..Len(s)
      /\ \A m : Has(o, m) <=> \E i \in 1..Len(s) : s[i] = m
  BY <1>1, HasIs
<1>4. k \in 1..Len(s)
  BY <1>1, <1>2, PlaceIs
<1> HIDE DEF s, k
<1>5. /\ t \in Seq(Names) /\ Len(t) = Len(s) /\ DOMAIN t = 1..Len(s)
      /\ \A i \in 1..Len(s) : t[i] = IF i = k THEN n ELSE s[i]
  BY <1>3, <1>4, ExceptSeq, LenProperties
<1> HIDE DEF t
<1>6. propdefs' \in Lists /\ propdefs'[o] = t /\ \A x \in Oid \ {o} : propdefs'[x] = propdefs[x]
  BY <1>1, <1>2, <1>5 DEF Lists
<1>7. \A m : Has(o, m)' => Has(o, m) \/ m = n
  <2>1. Range(t) = {t[i] : i \in 1..Len(s)}
    BY <1>5, RangeEquality
  <2>2. \A m : Has(o, m)' <=> m \in Range(t)
    BY <1>6 DEF Has
  <2> QED  BY <1>3, <1>5, <2>1, <2>2
<1>8. IsInjective(t)
  <2>1. IsInjective(s)
    BY DEF NamesInv, Unmixed, s
  <2>2. \A i \in 1..Len(s) : s[i] # n
    <3>1. o \in Line(parent, o)
      BY <1>1, LineUp
    <3> QED  BY <1>2, <1>3, <3>1, MayDefineIs DEF NamesInv
  <2> QED  BY <1>3, <1>5, <2>1, <2>2 DEF IsInjective
<1>9. Unmixed'
  BY <1>2, <1>6, <1>7, <1>8, StillUnmixed
<1>10. Rooted'
  BY <1>1, <1>2, <1>6 DEF NamesInv, Rooted
<1> QED  BY <1>9, <1>10 DEF NamesInv

LEMMA ChparentNames ==
    ASSUME NamesInv, NEW o \in Oid, NEW p \in Oid \cup {NOTHING}, Chparent(o, p)
    PROVE  NamesInv'
<1>1. Tree(parent) /\ propdefs \in Lists /\ valid \subseteq Oid /\ Rooted
  BY DEF NamesInv, Rooted
<1>2. /\ o \in valid /\ p \in valid \cup {NOTHING} /\ o \notin Line(parent, p) /\ NoConflict(o, p)
      /\ parent' = [parent EXCEPT ![o] = p] /\ valid' = valid /\ propdefs' = propdefs
  BY DEF Chparent
<1>3. /\ Tree(parent')
      /\ \A x \in Oid : Line(parent', x) \subseteq
            Line(parent, x) \cup (IF o \in Line(parent, x) THEN Line(parent, p) ELSE {})
  BY <1>1, <1>2, Relinked
<1>4. Rooted'
  <2>1. \A x \in Oid : parent'[x] # NOTHING => x \in valid /\ parent'[x] \in valid
    BY <1>2 DEF NamesInv, Rooted, Tree, Links
  <2> QED  BY <1>2, <1>3, <2>1 DEF NamesInv, Rooted
<1>5. ASSUME NEW x \in Oid, NEW y \in Line(parent', x), y # x, NEW n \in Names
      PROVE  ~ (Has(x, n) /\ Has(y, n))
  <2>1. CASE y \in Line(parent, x)
    BY <1>5, <2>1 DEF NamesInv, Unmixed
  <2>2. CASE o \in Line(parent, x) /\ y \in Line(parent, p)
    BY <1>1, <1>2, <2>2, NoConflictIs
  <2> QED  BY <1>3, <2>1, <2>2
<1>6. \A x \in Oid : \A n \in Names : Has(x, n)' <=> Has(x, n)
  BY <1>2 DEF Has
<1>7. Unmixed'
  BY <1>2, <1>5, <1>6 DEF NamesInv, Unmixed, Has
<1> QED  BY <1>4, <1>7 DEF NamesInv

LEMMA CreateNames ==
    ASSUME NamesInv, NEW o \in Oid, NEW p \in Oid \cup {NOTHING}, Create(o, p)
    PROVE  NamesInv'
<1>1. Tree(parent) /\ propdefs \in Lists /\ valid \subseteq Oid /\ Rooted
  BY DEF NamesInv, Rooted
<1>2. /\ o \notin valid /\ p \in valid \cup {NOTHING}
      /\ parent' = [parent EXCEPT ![o] = p] /\ valid' = valid \cup {o} /\ propdefs' = propdefs
  BY DEF Create
<1>3. o \notin Line(parent, p)
  BY <1>1, <1>2, LineIs, NotAbove
<1>4. /\ Tree(parent')
      /\ \A x \in Oid : Line(parent', x) \subseteq
            Line(parent, x) \cup (IF o \in Line(parent, x) THEN Line(parent, p) ELSE {})
  BY <1>1, <1>2, <1>3, Relinked
<1>5. Rooted'
  <2>1. \A x \in Oid : parent'[x] # NOTHING => x \in valid' /\ parent'[x] \in valid'
    BY <1>2 DEF NamesInv, Rooted, Tree, Links
  <2> QED  BY <1>2, <1>4, <2>1 DEF NamesInv, Rooted
<1>6. ASSUME NEW x \in Oid, NEW y \in Line(parent', x), y # x, NEW n \in Names
      PROVE  ~ (Has(x, n) /\ Has(y, n))
  <2>1. CASE y \in Line(parent, x)
    BY <1>6, <2>1 DEF NamesInv, Unmixed
  <2>2. CASE o \in Line(parent, x)
    <3>1. propdefs[x] = <<>>
      BY <1>1, <1>2, <2>2, NotAbove DEF Rooted
    <3>2. ~ Has(x, n)
      BY <1>1, <3>1, HasIs
    <3> QED  BY <3>2
  <2> QED  BY <1>4, <2>1, <2>2
<1>7. Unmixed'
  BY <1>2, <1>6 DEF NamesInv, Unmixed, Has
<1> QED  BY <1>5, <1>7 DEF NamesInv

LEMMA RecycleNames ==
    ASSUME NamesInv, NEW o \in Oid, Recycle(o)
    PROVE  NamesInv'
<1>1. Tree(parent) /\ propdefs \in Lists /\ valid \subseteq Oid /\ Rooted /\ DOMAIN parent = Oid
  BY DEF NamesInv, Rooted, Tree, Links
<1>2. /\ o \in valid /\ valid' = valid \ {o}
      /\ parent' = [x \in Oid |-> IF x = o THEN NOTHING
                                  ELSE IF parent[x] = o THEN parent[o] ELSE parent[x]]
      /\ propdefs' = [propdefs EXCEPT ![o] = <<>>]
  BY <1>1 DEF Recycle
<1>3. Tree(parent') /\ \A x \in Oid : Line(parent', x) \subseteq Line(parent, x)
  BY <1>1, <1>2, Unlinked
<1>4. propdefs' \in Lists /\ propdefs'[o] = <<>> /\ \A x \in Oid \ {o} : propdefs'[x] = propdefs[x]
  BY <1>1, <1>2 DEF Lists
<1>5. Rooted'
  <2>1. \A x \in Oid : parent'[x] # NOTHING => x \in valid' /\ parent'[x] \in valid'
    <3>1. parent[o] # o
      <4>1. o \notin Line(parent, parent[o])
        BY <1>1, NoLoop
      <4>2. parent[o] \in Oid => parent[o] \in Line(parent, parent[o])
        BY <1>1, LineUp
      <4> QED  BY <4>1, <4>2
    <3>2. \A x \in Oid : parent'[x] = IF x = o THEN NOTHING
                                     ELSE IF parent[x] = o THEN parent[o] ELSE parent[x]
      BY <1>2
    <3>3. \A x \in Oid : parent[x] # NOTHING => x \in valid /\ parent[x] \in valid
      BY DEF NamesInv, Rooted
    <3> QED  BY <1>2, <3>1, <3>2, <3>3, NothingIsNoOid
  <2> QED  BY <1>2, <1>3, <1>4, <2>1 DEF NamesInv, Rooted
<1>6. \A n : (~ Has(o, n)') /\ \A x \in Oid \ {o} : Has(x, n)' <=> Has(x, n)
  <2>1. Range(<<>>) = {}
    BY DEF Range
  <2> QED  BY <1>4, <2>1 DEF Has
<1>7. ASSUME NEW x \in Oid, NEW y \in Line(parent', x), y # x, NEW n \in Names
      PROVE  ~ (Has(x, n)' /\ Has(y, n)')
  <2>1. y \in Line(parent, x) /\ y \in Oid
    BY <1>1, <1>3, LineIs
  <2>2. ~ (Has(x, n) /\ Has(y, n))
    BY <1>7, <2>1 DEF NamesInv, Unmixed
  <2> QED  BY <1>6, <2>1, <2>2
<1>8. IsInjective(<<>>)
  BY DEF IsInjective
<1>9. Unmixed'
  BY <1>4, <1>7, <1>8 DEF NamesInv, Unmixed
<1> QED  BY <1>5, <1>9 DEF NamesInv

LEMMA NamesInit == Init => NamesInv
<1> SUFFICES ASSUME Init  PROVE NamesInv
  OBVIOUS
<1>1. Tree(parent)
  BY NothingIsNoOid DEF Init, Tree, Links, Founded
<1>2. propdefs \in Lists /\ \A x \in Oid : propdefs[x] = <<>>
  BY DEF Init, Lists
<1>3. \A x \in Oid : \A n : ~ Has(x, n)
  BY <1>2, HasIs
<1>4. IsInjective(<<>>)
  BY DEF IsInjective
<1> QED  BY <1>1, <1>2, <1>3, <1>4 DEF Init, NamesInv, Rooted, Unmixed

LEMMA NamesNext == NamesInv /\ [Next]_vars => NamesInv'
<1> SUFFICES ASSUME NamesInv, [Next]_vars  PROVE NamesInv'
  OBVIOUS
<1>1. CASE UNCHANGED vars
  BY <1>1 DEF vars, NamesInv, Rooted, Unmixed, Has
<1>2. ASSUME NEW o \in Oid, Recycle(o)  PROVE NamesInv'
  BY <1>2, RecycleNames
<1>3. ASSUME NEW o \in Oid, NEW p \in Oid \cup {NOTHING}, Create(o, p) \/ Chparent(o, p)
      PROVE  NamesInv'
  BY <1>3, CreateNames, ChparentNames
<1>4. ASSUME NEW o \in Oid, NEW n \in Names, DeletePropdef(o, n)  PROVE NamesInv'
  BY <1>4, DeleteNames
<1>5. ASSUME NEW o \in Oid, NEW n \in Names, NEW new \in Names, RenamePropdef(o, n, new)
      PROVE  NamesInv'
  BY <1>5, RenameNames
<1>6. ASSUME NEW o \in Oid, NEW n \in Names, NEW value \in Values, AddPropdef(o, n, value)
      PROVE  NamesInv'
  BY <1>6, AddNames
<1>7. ASSUME NEW o \in Oid, NEW n \in Names, NEW value \in Values,
             ClearProperty(o, n) \/ SetProperty(o, n, value)
      PROVE  NamesInv'
  BY <1>7 DEF ClearProperty, SetProperty, NamesInv, Rooted, Unmixed, Has
<1>8. ASSUME NEW o \in Oid, NEW n \in Names, ClearProperty(o, n)  PROVE NamesInv'
  BY <1>8 DEF ClearProperty, NamesInv, Rooted, Unmixed, Has
<1> QED  BY <1>1, <1>2, <1>3, <1>4, <1>5, <1>6, <1>7, <1>8 DEF Next

LEMMA NamesAreApart == NamesInv => NamesApart
<1> SUFFICES ASSUME NamesInv, NEW o \in valid, NEW x \in Line(parent, o), NEW y \in Line(parent, o),
                    NEW i \in DOMAIN propdefs[x], NEW j \in DOMAIN propdefs[y],
                    propdefs[x][i] = propdefs[y][j]
             PROVE  x = y /\ i = j
  BY DEF NamesApart
<1>1. Tree(parent) /\ propdefs \in Lists /\ valid \subseteq Oid
  BY DEF NamesInv, Rooted
<1>2. x \in Oid /\ y \in Oid
  BY <1>1, LineIs
<1>3. x \in Line(parent, y) \/ y \in Line(parent, x)
  BY <1>1, LineUp
<1> DEFINE n == propdefs[x][i]
<1>4. Has(x, n) /\ Has(y, n) /\ n \in Names
  BY <1>1, <1>2, HasIs
<1>5. x = y
  <2> HIDE DEF n
  <2> QED  BY <1>2, <1>3, <1>4 DEF NamesInv, Unmixed
<1>6. IsInjective(propdefs[x])
  BY <1>2 DEF NamesInv, Unmixed
<1> QED  BY <1>5, <1>6 DEF IsInjective

\* No object has two properties of one name, whatever was added, renamed and
\* put under other parents.
THEOREM NamesStayApart == Spec => []NamesApart
<1> QED  BY NamesInit, NamesNext, NamesAreApart, PTL DEF Spec

-----------------------------------------------------------------------------
(* Values.                                                                 *)

LEMMA OffsetIs ==
    ASSUME Tree(parent), propdefs \in Lists, NEW root, NEW at \in Nat
    PROVE  \A x \in Oid :
              /\ Offset(root, at, x) \in Nat /\ Offset(root, at, x) >= at
              /\ Offset(root, at, x) = IF x = root \/ parent[x] = NOTHING THEN at
                                       ELSE Len(propdefs[x]) + Offset(root, at, parent[x])
<1> DEFINE base == [x \in Oid |-> at]
           step == [x \in Oid |-> [k \in Nat |-> IF x = root THEN at ELSE Len(propdefs[x]) + k]]
           Rule(f) == f = [x \in Oid |-> IF x = root \/ parent[x] = NOTHING THEN at
                                         ELSE Len(propdefs[x]) + f[parent[x]]]
           g == CHOOSE f : Rule(f)
<1>1. \A x \in Oid : Offset(root, at, x) = g[x]
  BY DEF Offset
<1>2. \A x \in Oid : Len(propdefs[x]) \in Nat /\ (parent[x] # NOTHING => parent[x] \in Oid)
  BY PlaceIs DEF Tree, Links
<1>3. \E f : Rule(f)
  <2>1. base \in [Oid -> Nat] /\ step \in [Oid -> [Nat -> Nat]]
    BY <1>2
  <2>2. PICK f : Told(f, parent, Nat, base, step)
    <3> HIDE DEF base, step
    <3> QED  BY <2>1, ToldFromParents
  <2>3. f \in [Oid -> Nat] /\ f = [x \in Oid |-> f[x]]
    BY <2>2 DEF Told
  <2>4. \A x \in Oid : f[x] = IF parent[x] = NOTHING THEN base[x] ELSE step[x][f[parent[x]]]
    <3> HIDE DEF base, step
    <3> QED  BY <2>2 DEF Told
  <2>5. \A x \in Oid : f[x] = IF x = root \/ parent[x] = NOTHING THEN at
                              ELSE Len(propdefs[x]) + f[parent[x]]
    BY <1>2, <2>3, <2>4
  <2> QED  BY <2>3, <2>5
<1>4. Rule(g)
  <2> HIDE DEF Rule
  <2> QED  BY <1>3
<1> HIDE DEF g
<1>5. \A x \in Oid : g[x] = IF x = root \/ parent[x] = NOTHING THEN at
                            ELSE Len(propdefs[x]) + g[parent[x]]
  BY <1>4
<1>6. \A x \in Oid : g[x] \in Nat /\ g[x] >= at
  <2> DEFINE S == {x \in Oid : g[x] \in Nat /\ g[x] >= at}
  <2>1. ASSUME NEW x \in Oid, parent[x] # NOTHING => parent[x] \in S  PROVE x \in S
    BY <1>2, <1>5, <2>1
  <2>2. \A x \in Oid : x \in S
    <3> HIDE DEF S
    <3> QED  BY <2>1, FromParents
  <2> QED  BY <2>2
<1> QED  BY <1>1, <1>2, <1>5, <1>6

\* In what is below root there is room for its own values before.
LEMMA OffsetBelow ==
    ASSUME Tree(parent), propdefs \in Lists, NEW root, NEW at \in Nat,
           NEW x \in Oid, root \in Line(parent, x), x # root
    PROVE  Offset(root, at, x) >= Len(propdefs[x]) + at
<1>1. parent[x] # NOTHING
  BY LineIs
<1>2. parent[x] \in Oid /\ Len(propdefs[x]) \in Nat
  BY <1>1, PlaceIs DEF Tree, Links
<1> QED  BY <1>1, <1>2, OffsetIs

LEMMA KidIs ==
    ASSUME Tree(parent), NEW o \in Oid, NEW x \in Oid, o \in Line(parent, x), x # o
    PROVE  \E k \in Oid : parent[k] = o /\ k \in Line(parent, x)
<1> DEFINE Good(y) == o \in Line(parent, y) /\ y # o => \E k \in Oid : parent[k] = o /\ k \in Line(parent, y)
           S == {y \in Oid : Good(y)}
<1>1. ASSUME NEW y \in Oid, parent[y] # NOTHING => parent[y] \in S, o \in Line(parent, y), y # o
      PROVE  \E k \in Oid : parent[k] = o /\ k \in Line(parent, y)
  <2>1. Line(parent, y) = {y} \cup Line(parent, parent[y]) /\ Line(parent, NOTHING) = {}
    BY LineIs
  <2>2. CASE parent[y] = o
    BY <2>1, <2>2
  <2>3. CASE parent[y] # o
    <3>1. Good(parent[y])
      BY <1>1, <2>1
    <3> QED  BY <1>1, <2>1, <2>3, <3>1
  <2> QED  BY <2>2, <2>3
<1>2. \A y \in Oid : y \in S
  <2>1. \A y \in Oid : (parent[y] # NOTHING => parent[y] \in S) => y \in S
    BY <1>1
  <2> HIDE DEF S
  <2> QED  BY <2>1, FromParents
<1> QED  BY <1>2

\* An object never falls back on its parent for a property that it defines.
OwnSet ==
    /\ DOMAIN propval = Oid
    /\ \A d \in Oid : \A i \in 1..Len(propdefs[d]) : At(propval[d], i) # CLEAR

ValuesInv == NamesInv /\ OwnSet

\* A value of its own that an object is left after its values were moved.
LEMMA KeptByFix ==
    ASSUME Rooted, OwnSet, NEW o \in Oid, NEW from, NEW to, NEW x \in Oid, o \in Line(parent, x),
           NEW i \in 1..Len(propdefs[x])
    PROVE  At(AfterChparent(o, from, to, x), i) # CLEAR
<1>1. Tree(parent) /\ propdefs \in Lists
  BY DEF Rooted
<1>2. Len(propdefs[x]) \in Nat /\ Len(propdefs[o]) \in Nat
  BY <1>1, PlaceIs
<1> DEFINE local == Offset(o, Len(propdefs[o]), x)
<1>3. local \in Nat /\ Len(propdefs[x]) <= local
  <2>1. local \in Nat
    BY <1>1, <1>2, OffsetIs
  <2>2. x = o => local = Len(propdefs[x])
    BY <1>1, <1>2, OffsetIs
  <2>3. x # o => local >= Len(propdefs[x]) + Len(propdefs[o])
    BY <1>1, <1>2, OffsetBelow
  <2> DEFINE l == Len(propdefs[x])
             r == Len(propdefs[o])
  <2>4. l \in Nat /\ r \in Nat /\ (x = o => local = l) /\ (x # o => local >= l + r)
    BY <1>2, <2>2, <2>3
  <2> HIDE DEF local, l, r
  <2>5. l <= local
    BY <2>1, <2>4
  <2> QED  BY <2>1, <2>5 DEF l
<1>4. PICK old, new, common : AfterChparent(o, from, to, x) = FixProps(x, local, old, new, common)
  BY DEF AfterChparent
<1> HIDE DEF local
<1>5. i <= local
  BY <1>2, <1>3
<1>6. At(FixProps(x, local, old, new, common), i) \in {At(propval[x], i), Garbage}
  BY <1>5 DEF At, FixProps
<1>7. At(propval[x], i) # CLEAR
  BY DEF OwnSet
<1> QED  BY <1>4, <1>6, <1>7, SpecialAssumption

LEMMA FoundAt ==
    ASSUME Tree(parent), propdefs \in Lists, NEW n, NEW o \in Oid, Find(o, n) # NotFound
    PROVE  /\ Find(o, n).at \in Nat /\ Find(o, n).at >= 1
           /\ Find(o, n).definer = o <=> Has(o, n)
           /\ Has(o, n) => Find(o, n).at = IndexOf(o, n)
           /\ ~ Has(o, n) => Find(o, n).at > Len(propdefs[o])
<1> DEFINE S == {x \in Oid : Find(x, n) # NotFound => Find(x, n).at >= 1}
<1>1. \A x \in Oid : /\ Find(x, n) \in Finds /\ Len(propdefs[x]) \in Nat
                     /\ Has(x, n) => IndexOf(x, n) \in 1..Len(propdefs[x])
                     /\ parent[x] # NOTHING => parent[x] \in Oid
  BY FindIs, PlaceIs DEF Tree, Links
<1>2. \A x \in Oid : Find(x, n).at \in Nat
  BY <1>1 DEF Finds
<1>3. ASSUME NEW x \in Oid, parent[x] # NOTHING => parent[x] \in S, Find(x, n) # NotFound
      PROVE  Find(x, n).at >= 1
  <2>1. CASE Has(x, n)
    <3>1. Find(x, n) = [definer |-> x, at |-> IndexOf(x, n)]
      BY <2>1, FindIs
    <3> QED  BY <1>1, <2>1, <3>1
  <2>2. CASE ~ Has(x, n)
    <3>1. /\ parent[x] # NOTHING /\ Find(parent[x], n) # NotFound
          /\ Find(x, n).at = Find(parent[x], n).at + Len(propdefs[x])
      BY <1>3, <2>2, FindIs
    <3> QED  BY <1>1, <1>2, <1>3, <3>1
  <2> QED  BY <2>1, <2>2
<1>4. \A x \in Oid : x \in S
  <2>1. \A x \in Oid : (parent[x] # NOTHING => parent[x] \in S) => x \in S
    BY <1>3
  <2> HIDE DEF S
  <2> QED  BY <2>1, FromParents
<1>5. CASE Has(o, n)
  BY <1>2, <1>4, <1>5, FindIs
<1>6. CASE ~ Has(o, n)
  <2>1. /\ parent[o] # NOTHING /\ Find(parent[o], n) # NotFound
        /\ Find(o, n).at = Find(parent[o], n).at + Len(propdefs[o])
    BY <1>6, FindIs
  <2>2. Find(parent[o], n).at >= 1 /\ Find(parent[o], n).at \in Nat
    BY <1>1, <1>2, <1>4, <2>1
  <2>3. Find(o, n).definer # o
    BY <1>6, FoundIfHad
  <2> DEFINE l == Len(propdefs[o])
             above == Find(parent[o], n).at
  <2>4. l \in Nat /\ above \in Nat /\ above >= 1 /\ Find(o, n).at = above + l
    BY <1>1, <2>1, <2>2
  <2> HIDE DEF l, above
  <2>5. Find(o, n).at >= 1 /\ Find(o, n).at > l /\ Find(o, n).at \in Nat
    BY <2>4
  <2> QED  BY <1>6, <2>3, <2>5 DEF l
<1> QED  BY <1>5, <1>6

LEMMA SetInit == Init => OwnSet
<1> SUFFICES ASSUME Init  PROVE OwnSet
  OBVIOUS
<1>1. Len(<<>>) = 0
  OBVIOUS
<1>2. \A d \in Oid : 1..Len(propdefs[d]) = {}
  BY <1>1 DEF Init
<1> QED  BY <1>2 DEF Init, OwnSet

\* Changing the parents of o's line, with the values of what is below o moved.
LEMMA SetAfterMove ==
    ASSUME Rooted, OwnSet, NEW o \in Oid, propdefs' = propdefs, DOMAIN propval' = Oid,
           \A x \in Oid : \/ propval'[x] = propval[x]
                          \/ /\ o \in Line(parent, x)
                             /\ \E from, to : propval'[x] = AfterChparent(o, from, to, x)
    PROVE  OwnSet'
<1>1. ASSUME NEW x \in Oid, NEW i \in 1..Len(propdefs[x])  PROVE At(propval'[x], i) # CLEAR
  <2>1. CASE propval'[x] = propval[x]
    BY <2>1 DEF OwnSet
  <2>2. CASE o \in Line(parent, x) /\ \E from, to : propval'[x] = AfterChparent(o, from, to, x)
    <3>1. PICK from, to : propval'[x] = AfterChparent(o, from, to, x)
      BY <2>2
    <3> QED  BY <2>2, <3>1, KeptByFix
  <2> QED  BY <2>1, <2>2
<1> QED  BY <1>1 DEF OwnSet, At

LEMMA ChparentSets ==
    ASSUME ValuesInv, NEW o \in Oid, NEW p \in Oid \cup {NOTHING}, Chparent(o, p)
    PROVE  OwnSet'
<1>1. Rooted /\ OwnSet
  BY DEF ValuesInv, NamesInv
<1>2. /\ propdefs' = propdefs
      /\ propval' = [x \in Oid |-> IF x \in Below(o) THEN AfterChparent(o, parent[o], p, x)
                                   ELSE propval[x]]
  BY DEF Chparent
<1>3. \A x \in Oid : \/ propval'[x] = propval[x]
                     \/ /\ o \in Line(parent, x)
                        /\ \E from, to : propval'[x] = AfterChparent(o, from, to, x)
  BY <1>2 DEF Below
<1>4. DOMAIN propval' = Oid
  BY <1>2
<1> QED  BY <1>1, <1>2, <1>3, <1>4, SetAfterMove

LEMMA CreateSets ==
    ASSUME ValuesInv, NEW o \in Oid, NEW p \in Oid \cup {NOTHING}, Create(o, p)
    PROVE  OwnSet'
<1>1. Rooted /\ OwnSet /\ Tree(parent)
  BY DEF ValuesInv, NamesInv, Rooted
<1>2. /\ propdefs' = propdefs
      /\ propval' = [propval EXCEPT ![o] = AfterChparent(o, NOTHING, p, o)]
  BY DEF Create
<1>3. o \in Line(parent, o)
  BY <1>1, LineUp
<1>4. DOMAIN propval' = Oid
  BY <1>1, <1>2 DEF OwnSet
<1>5. \A x \in Oid : \/ propval'[x] = propval[x]
                     \/ /\ o \in Line(parent, x)
                        /\ \E from, to : propval'[x] = AfterChparent(o, from, to, x)
  BY <1>1, <1>2, <1>3 DEF OwnSet
<1> QED  BY <1>1, <1>2, <1>4, <1>5, SetAfterMove

LEMMA RecycleSets ==
    ASSUME ValuesInv, NEW o \in Oid, Recycle(o)
    PROVE  OwnSet'
<1>1. Rooted /\ OwnSet /\ Tree(parent) /\ propdefs \in Lists
  BY DEF ValuesInv, NamesInv, Rooted
<1> DEFINE Kids == {x \in Oid : parent[x] = o}
           KidAbove(x) == CHOOSE k \in Kids : x \in Below(k)
<1>2. /\ propdefs' = [propdefs EXCEPT ![o] = <<>>]
      /\ propval' = [x \in Oid |->
                        IF x = o THEN <<>>
                        ELSE IF x \in Below(o) THEN AfterChparent(KidAbove(x), o, parent[o], x)
                        ELSE propval[x]]
  BY DEF Recycle
<1>3. ASSUME NEW x \in Oid \ {o}, x \in Below(o)
      PROVE  KidAbove(x) \in Oid /\ KidAbove(x) \in Line(parent, x)
  <2>1. \E k \in Kids : x \in Below(k)
    BY <1>1, <1>3, KidIs DEF Below
  <2>2. KidAbove(x) \in Kids /\ x \in Below(KidAbove(x))
    BY <2>1
  <2> QED  BY <2>2 DEF Below
<1> HIDE DEF KidAbove
<1>4. ASSUME NEW x \in Oid, NEW i \in 1..Len(propdefs'[x])  PROVE At(propval'[x], i) # CLEAR
  <2>1. CASE x = o
    <3>1. propdefs'[o] = <<>>
      BY <1>1, <1>2 DEF Lists
    <3> QED  BY <1>4, <2>1, <3>1
  <2>2. CASE x # o
    <3>1. propdefs'[x] = propdefs[x] /\ i \in 1..Len(propdefs[x])
      BY <1>1, <1>2, <1>4, <2>2 DEF Lists
    <3>2. CASE x \in Below(o)
      <4>1. propval'[x] = AfterChparent(KidAbove(x), o, parent[o], x)
        BY <1>2, <2>2, <3>2
      <4> QED  BY <1>1, <1>3, <2>2, <3>1, <3>2, <4>1, KeptByFix
    <3>3. CASE x \notin Below(o)
      BY <1>1, <1>2, <2>2, <3>1, <3>3 DEF OwnSet
    <3> QED  BY <3>2, <3>3
  <2> QED  BY <2>1, <2>2
<1>5. DOMAIN propval' = Oid
  BY <1>2
<1> QED  BY <1>4, <1>5 DEF OwnSet, At

LEMMA AddSets ==
    ASSUME ValuesInv, NEW o \in Oid, NEW n \in Names, NEW value \in Values, AddPropdef(o, n, value)
    PROVE  OwnSet'
<1>1. Rooted /\ OwnSet /\ Tree(parent) /\ propdefs \in Lists
  BY DEF ValuesInv, NamesInv, Rooted
<1> DEFINE at == Len(propdefs[o]) + 1
           pos(x) == Offset(o, at, x)
<1>2. /\ propdefs' = [propdefs EXCEPT ![o] = Append(@, n)]
      /\ propval' = [x \in Oid |->
            IF x \notin Below(o) THEN propval[x]
            ELSE [i \in 1..Count(parent, propdefs', x) |->
                     IF i < pos(x) THEN At(propval[x], i)
                     ELSE IF i > pos(x) THEN At(propval[x], i - 1)
                     ELSE IF x = o THEN value ELSE CLEAR]]
  BY DEF AddPropdef, InsertBelow
<1>3. at \in Nat /\ at >= 1 /\ \A x \in Oid : Len(propdefs[x]) \in Nat /\ pos(x) \in Nat
  BY <1>1, PlaceIs, OffsetIs
<1>4. pos(o) = at
  BY <1>1, <1>3, OffsetIs
<1>5. \A x \in Below(o) \ {o} : pos(x) > Len(propdefs[x])
  <2> SUFFICES ASSUME NEW x \in Below(o) \ {o}  PROVE pos(x) > Len(propdefs[x])
    OBVIOUS
  <2>1. x \in Oid /\ o \in Line(parent, x) /\ x # o
    BY DEF Below
  <2>2. pos(x) >= Len(propdefs[x]) + at
    BY <1>1, <1>3, <2>1, OffsetBelow
  <2> HIDE DEF pos, at
  <2> QED  BY <1>3, <2>1, <2>2
<1> HIDE DEF pos
<1>6. ASSUME NEW x \in Oid, NEW i \in 1..Len(propdefs'[x])  PROVE At(propval'[x], i) # CLEAR
  <2>0. \A j \in 1..Len(propdefs[x]) : At(propval[x], j) # CLEAR
    BY <1>1 DEF OwnSet
  <2>1. CASE x \notin Below(o)
    <3>1. propval'[x] = propval[x]
      BY <1>2, <2>1
    <3>2. o \in Below(o)
      BY <1>1, LineUp DEF Below
    <3>3. propdefs'[x] = propdefs[x]
      BY <1>1, <1>2, <2>1, <3>2 DEF Lists
    <3> QED  BY <1>6, <2>0, <3>1, <3>3
  <2>2. CASE x \in Below(o)
    <3> DEFINE v == IF i < pos(x) THEN At(propval[x], i)
                    ELSE IF i > pos(x) THEN At(propval[x], i - 1)
                    ELSE IF x = o THEN value ELSE CLEAR
    <3>1. At(propval'[x], i) \in {v, Garbage}
      BY <1>2, <2>2 DEF At
    <3>2. v # CLEAR
      <4>1. CASE x = o
        <5>1. propdefs[o] \in Seq(Names) /\ propdefs'[o] = Append(propdefs[o], n)
          BY <1>1, <1>2 DEF Lists
        <5>2. Len(propdefs'[o]) = Len(propdefs[o]) + 1
          BY <5>1, AppendProperties
        <5>3. i = pos(o) \/ i \in 1..Len(propdefs[o])
          BY <1>3, <1>4, <1>6, <4>1, <5>2
        <5>4. CASE i = pos(o)
          BY <1>3, <4>1, <5>4, SpecialAssumption
        <5>5. CASE i \in 1..Len(propdefs[o])
          <6>1. i < pos(x)
            BY <1>3, <1>4, <4>1, <5>5
          <6> QED  BY <2>0, <4>1, <5>5, <6>1
        <5> QED  BY <5>3, <5>4, <5>5
      <4>2. CASE x # o
        <5>1. i \in 1..Len(propdefs[x])
          BY <1>1, <1>2, <1>6, <4>2 DEF Lists
        <5>2. i < pos(x)
          BY <1>3, <1>5, <2>2, <4>2, <5>1
        <5> QED  BY <2>0, <5>1, <5>2
      <4> QED  BY <4>1, <4>2
    <3> HIDE DEF v
    <3> QED  BY <3>1, <3>2, SpecialAssumption
  <2> QED  BY <2>1, <2>2
<1>7. DOMAIN propval' = Oid
  BY <1>2
<1> QED  BY <1>6, <1>7 DEF OwnSet, At

LEMMA DeleteSets ==
    ASSUME ValuesInv, NEW o \in Oid, NEW n \in Names, DeletePropdef(o, n)
    PROVE  OwnSet'
<1>1. Rooted /\ OwnSet /\ Tree(parent) /\ propdefs \in Lists
  BY DEF ValuesInv, NamesInv, Rooted
<1> DEFINE at == IndexOf(o, n)
           pos(x) == Offset(o, at, x)
<1>2. /\ at # 0
      /\ propdefs' = [propdefs EXCEPT ![o] = RemoveAt(@, at)]
      /\ propval' = [x \in Oid |->
            IF x \notin Below(o) THEN propval[x]
            ELSE [i \in 1..Count(parent, propdefs', x) |->
                     At(propval[x], IF i < pos(x) THEN i ELSE i + 1)]]
  BY DEF DeletePropdef, RemoveBelow
<1>3. at \in 1..Len(propdefs[o])
  BY <1>1, <1>2, PlaceIs
<1>4. \A x \in Oid : Len(propdefs[x]) \in Nat
  BY <1>1, PlaceIs
<1> HIDE DEF at
<1>5. at \in Nat /\ at >= 1
  BY <1>3, <1>4
<1>6. \A x \in Oid : pos(x) \in Nat
  BY <1>1, <1>5, OffsetIs
<1>7. pos(o) = at
  BY <1>1, <1>5, OffsetIs
<1>8. \A x \in Below(o) \ {o} : pos(x) > Len(propdefs[x])
  <2> SUFFICES ASSUME NEW x \in Below(o) \ {o}  PROVE pos(x) > Len(propdefs[x])
    OBVIOUS
  <2>1. x \in Oid /\ o \in Line(parent, x) /\ x # o
    BY DEF Below
  <2>2. pos(x) >= Len(propdefs[x]) + at
    BY <1>1, <1>5, <2>1, OffsetBelow
  <2> HIDE DEF pos
  <2> QED  BY <1>4, <1>5, <1>6, <2>1, <2>2
<1> HIDE DEF pos
<1>9. ASSUME NEW x \in Oid, NEW i \in 1..Len(propdefs'[x])  PROVE At(propval'[x], i) # CLEAR
  <2>0. \A j \in 1..Len(propdefs[x]) : At(propval[x], j) # CLEAR
    BY <1>1 DEF OwnSet
  <2>1. CASE x \notin Below(o)
    <3>1. propval'[x] = propval[x]
      BY <1>2, <2>1
    <3>2. o \in Below(o)
      BY <1>1, LineUp DEF Below
    <3>3. propdefs'[x] = propdefs[x]
      BY <1>1, <1>2, <2>1, <3>2 DEF Lists
    <3> QED  BY <1>9, <2>0, <3>1, <3>3
  <2>2. CASE x \in Below(o)
    <3> DEFINE j == IF i < pos(x) THEN i ELSE i + 1
    <3>1. At(propval'[x], i) \in {At(propval[x], j), Garbage}
      BY <1>2, <2>2 DEF At
    <3>2. j \in 1..Len(propdefs[x])
      <4>1. CASE x = o
        <5>1. propdefs[o] \in Seq(Names) /\ propdefs'[o] = RemoveAt(propdefs[o], at)
          BY <1>1, <1>2 DEF Lists
        <5>2. Len(propdefs'[o]) = Len(propdefs[o]) - 1
          BY <1>3, <5>1, RemoveAtIs
        <5> QED  BY <1>4, <1>9, <4>1, <5>2
      <4>2. CASE x # o
        <5>1. i \in 1..Len(propdefs[x])
          BY <1>1, <1>2, <1>9, <4>2 DEF Lists
        <5>2. i < pos(x)
          BY <1>4, <1>6, <1>8, <2>2, <4>2, <5>1
        <5> QED  BY <5>1, <5>2
      <4> QED  BY <4>1, <4>2
    <3> HIDE DEF j
    <3> QED  BY <2>0, <3>1, <3>2, SpecialAssumption
  <2> QED  BY <2>1, <2>2
<1>10. DOMAIN propval' = Oid
  BY <1>2
<1> QED  BY <1>9, <1>10 DEF OwnSet, At

LEMMA RenameSets ==
    ASSUME ValuesInv, NEW o \in Oid, NEW old \in Names, NEW n \in Names, RenamePropdef(o, old, n)
    PROVE  OwnSet'
<1>1. Rooted /\ OwnSet /\ propdefs \in Lists
  BY DEF ValuesInv, NamesInv, Rooted
<1> DEFINE k == IndexOf(o, old)
<1>2. k # 0 /\ propdefs' = [propdefs EXCEPT ![o][k] = n] /\ propval' = propval
  BY DEF RenamePropdef
<1>3. k \in 1..Len(propdefs[o])
  BY <1>1, <1>2, PlaceIs
<1> HIDE DEF k
<1>4. ASSUME NEW x \in Oid  PROVE Len(propdefs'[x]) = Len(propdefs[x])
  <2>1. propdefs[x] \in Seq(Names)
    BY <1>1 DEF Lists
  <2>2. CASE x = o
    <3>1. propdefs'[o] = [propdefs[o] EXCEPT ![k] = n]
      BY <1>1, <1>2 DEF Lists
    <3> QED  BY <1>3, <2>1, <2>2, <3>1, ExceptSeq
  <2>3. CASE x # o
    BY <1>1, <1>2, <2>3 DEF Lists
  <2> QED  BY <2>2, <2>3
<1>5. \A d \in Oid : \A i \in 1..Len(propdefs'[d]) : At(propval[d], i) # CLEAR
  BY <1>1, <1>4 DEF OwnSet
<1> QED  BY <1>1, <1>2, <1>5 DEF OwnSet, At

\* Writing one place of one array.
LEMMA WriteSets ==
    ASSUME ValuesInv, NEW o \in Oid, NEW k, NEW value, propdefs' = propdefs,
           propval' = [propval EXCEPT ![o][k] = value],
           value = CLEAR => k \notin 1..Len(propdefs[o])
    PROVE  OwnSet'
<1>1. OwnSet
  BY DEF ValuesInv
<1>2. DOMAIN propval' = Oid
  BY <1>1 DEF OwnSet
<1>3. ASSUME NEW x \in Oid, NEW i \in 1..Len(propdefs[x])  PROVE At(propval'[x], i) # CLEAR
  <2>1. At(propval[x], i) # CLEAR
    BY <1>1 DEF OwnSet
  <2>2. CASE x = o
    <3>1. propval'[o] = [propval[o] EXCEPT ![k] = value]
      BY <1>1 DEF OwnSet
    <3>2. /\ DOMAIN propval'[o] = DOMAIN propval[o]
          /\ \A j \in DOMAIN propval[o] : propval'[o][j] = IF j = k THEN value ELSE propval[o][j]
      BY <3>1
    <3> QED  BY <1>3, <2>1, <2>2, <3>2 DEF At
  <2>3. CASE x # o
    BY <1>1, <2>1, <2>3 DEF OwnSet
  <2> QED  BY <2>2, <2>3
<1> QED  BY <1>2, <1>3 DEF OwnSet, At

LEMMA SetSets ==
    ASSUME ValuesInv, NEW o \in Oid, NEW n \in Names, NEW value \in Values, SetProperty(o, n, value)
    PROVE  OwnSet'
BY SpecialAssumption, WriteSets DEF SetProperty

LEMMA ClearSets ==
    ASSUME ValuesInv, NEW o \in Oid, NEW n \in Names, ClearProperty(o, n)
    PROVE  OwnSet'
<1>1. Tree(parent) /\ propdefs \in Lists
  BY DEF ValuesInv, NamesInv, Rooted
<1>2. /\ Find(o, n) # NotFound /\ Find(o, n).definer # o /\ propdefs' = propdefs
      /\ propval' = [propval EXCEPT ![o][Find(o, n).at] = CLEAR]
  BY DEF ClearProperty, MayClear
<1> DEFINE k == Find(o, n).at
<1>3. k \in Nat /\ k > Len(propdefs[o]) /\ Len(propdefs[o]) \in Nat
  BY <1>1, <1>2, FoundAt, PlaceIs
<1>4. k \notin 1..Len(propdefs[o])
  <2> HIDE DEF k
  <2> QED  BY <1>3
<1> QED  BY <1>2, <1>4, WriteSets

LEMMA ValuesInit == Init => ValuesInv
BY NamesInit, SetInit DEF ValuesInv

LEMMA ValuesNext == ValuesInv /\ [Next]_vars => ValuesInv'
<1> SUFFICES ASSUME ValuesInv, [Next]_vars  PROVE OwnSet'
  BY NamesNext DEF ValuesInv
<1>1. CASE UNCHANGED vars
  BY <1>1 DEF vars, ValuesInv, OwnSet, At
<1>2. ASSUME NEW o \in Oid, Recycle(o)  PROVE OwnSet'
  BY <1>2, RecycleSets
<1>3. ASSUME NEW o \in Oid, NEW p \in Oid \cup {NOTHING}, Create(o, p) \/ Chparent(o, p)
      PROVE  OwnSet'
  BY <1>3, CreateSets, ChparentSets
<1>4. ASSUME NEW o \in Oid, NEW n \in Names, DeletePropdef(o, n) \/ ClearProperty(o, n)
      PROVE  OwnSet'
  BY <1>4, DeleteSets, ClearSets
<1>5. ASSUME NEW o \in Oid, NEW n \in Names, NEW new \in Names, RenamePropdef(o, n, new)
      PROVE  OwnSet'
  BY <1>5, RenameSets
<1>6. ASSUME NEW o \in Oid, NEW n \in Names, NEW value \in Values,
             AddPropdef(o, n, value) \/ SetProperty(o, n, value)
      PROVE  OwnSet'
  BY <1>6, AddSets, SetSets
<1> QED  BY <1>1, <1>2, <1>3, <1>4, <1>5, <1>6 DEF Next


\* The value that an object has, or falls back on, for a place in its array.
LEMMA ValueAtIs ==
    ASSUME Tree(parent), propdefs \in Lists
    PROVE  \A x \in Oid, i \in Int :
              ValueAt(x, i) = IF At(propval[x], i) # CLEAR THEN At(propval[x], i)
                              ELSE IF parent[x] = NOTHING THEN Garbage
                              ELSE ValueAt(parent[x], i - Len(propdefs[x]))
<1> DEFINE V == {At(propval[x], i) : x \in Oid, i \in Int} \cup {Garbage}
           base == [x \in Oid |-> [i \in Int |->
                       IF At(propval[x], i) # CLEAR THEN At(propval[x], i) ELSE Garbage]]
           step == [x \in Oid |-> [above \in [Int -> V] |-> [i \in Int |->
                       IF At(propval[x], i) # CLEAR THEN At(propval[x], i)
                       ELSE above[i - Len(propdefs[x])]]]]
           Rule(f) == f = [x \in Oid |-> [i \in Int |->
                              IF At(propval[x], i) # CLEAR THEN At(propval[x], i)
                              ELSE IF parent[x] = NOTHING THEN Garbage
                              ELSE f[parent[x]][i - Len(propdefs[x])]]]
           g == CHOOSE f : Rule(f)
<1>1. \A x, i : ValueAt(x, i) = g[x][i]
  BY DEF ValueAt
<1>2. \A x \in Oid : Len(propdefs[x]) \in Nat /\ (parent[x] # NOTHING => parent[x] \in Oid)
  BY PlaceIs DEF Tree, Links
<1>3. \E f : Rule(f)
  <2>1. \A x \in Oid, i \in Int : At(propval[x], i) \in V
    OBVIOUS
  <2> HIDE DEF V
  <2>2. base \in [Oid -> [Int -> V]]
    <3>1. Garbage \in V
      BY DEF V
    <3> QED  BY <2>1, <3>1
  <2>3. step \in [Oid -> [[Int -> V] -> [Int -> V]]]
    BY <1>2, <2>1
  <2>4. PICK h : Told(h, parent, [Int -> V], base, step)
    <3> HIDE DEF base, step
    <3> QED  BY <2>2, <2>3, ToldFromParents
  <2>5. h \in [Oid -> [Int -> V]] /\ h = [x \in Oid |-> h[x]]
    BY <2>4 DEF Told
  <2>6. \A x \in Oid : h[x] = IF parent[x] = NOTHING THEN base[x] ELSE step[x][h[parent[x]]]
    <3> HIDE DEF base, step
    <3> QED  BY <2>4 DEF Told
  <2>7. ASSUME NEW x \in Oid
        PROVE  h[x] = [i \in Int |-> IF At(propval[x], i) # CLEAR THEN At(propval[x], i)
                                     ELSE IF parent[x] = NOTHING THEN Garbage
                                     ELSE h[parent[x]][i - Len(propdefs[x])]]
    <3>1. CASE parent[x] = NOTHING
      BY <2>6, <3>1
    <3>2. CASE parent[x] # NOTHING
      <4>1. h[parent[x]] \in [Int -> V]
        BY <1>2, <2>5, <3>2
      <4>2. h[x] = step[x][h[parent[x]]]
        <5> HIDE DEF step
        <5> QED  BY <2>6, <3>2
      <4> QED  BY <3>2, <4>1, <4>2
    <3> QED  BY <3>1, <3>2
  <2>8. Rule(h)
    BY <2>5, <2>7
  <2> QED  BY <2>8
<1>4. Rule(g)
  <2> HIDE DEF Rule
  <2> QED  BY <1>3
<1> HIDE DEF g
<1>5. \A x \in Oid, i \in Int :
         g[x][i] = IF At(propval[x], i) # CLEAR THEN At(propval[x], i)
                   ELSE IF parent[x] = NOTHING THEN Garbage
                   ELSE g[parent[x]][i - Len(propdefs[x])]
  BY <1>4
<1> QED  BY <1>1, <1>5

\* What is at the place of a property is what the nearest has that has a value of its own.
LEMMA ReadsAreNearest == ValuesInv => ReadsNearest
<1> SUFFICES ASSUME ValuesInv, NEW n \in Names  PROVE \A o \in valid : LET
                h  == Find(o, n)
                Own(x) == At(propval[x], Find(x, n).at)
                Having == {x \in Line(parent, o) : Find(x, n).definer = h.definer /\ Own(x) # CLEAR}
             IN h # NotFound =>
                   \E x \in Having : Having \subseteq Line(parent, x) /\ ValueAt(o, h.at) = Own(x)
  BY DEF ReadsNearest
<1>1. Tree(parent) /\ propdefs \in Lists /\ valid \subseteq Oid
  BY DEF ValuesInv, NamesInv, Rooted
<1> DEFINE Own(x) == At(propval[x], Find(x, n).at)
           Having(o) == {x \in Line(parent, o) :
                            Find(x, n).definer = Find(o, n).definer /\ Own(x) # CLEAR}
           Good(o) == Find(o, n) # NotFound =>
                         \E x \in Having(o) : /\ Having(o) \subseteq Line(parent, x)
                                              /\ ValueAt(o, Find(o, n).at) = Own(x)
           S == {o \in Oid : Good(o)}
<1>2. ASSUME NEW o \in Oid, parent[o] # NOTHING => parent[o] \in S, Find(o, n) # NotFound
      PROVE  \E x \in Having(o) : /\ Having(o) \subseteq Line(parent, x)
                                  /\ ValueAt(o, Find(o, n).at) = Own(x)
  <2> DEFINE at == Find(o, n).at
             p == parent[o]
  <2>1. at \in Nat
    BY <1>1, <1>2, FoundAt
  <2>2. CASE Own(o) # CLEAR
    <3>1. o \in Line(parent, o)
      BY <1>1, LineUp
    <3>2. ValueAt(o, at) = Own(o)
      BY <1>1, <2>1, <2>2, ValueAtIs
    <3> QED  BY <2>2, <3>1, <3>2
  <2>3. CASE Own(o) = CLEAR
    <3>1. ~ Has(o, n)
      <4> SUFFICES ASSUME Has(o, n)  PROVE FALSE
        OBVIOUS
      <4>1. at \in 1..Len(propdefs[o])
        BY <1>1, <1>2, FoundAt, PlaceIs
      <4> QED  BY <2>3, <4>1 DEF ValuesInv, OwnSet
    <3>2. /\ p # NOTHING /\ Find(p, n) # NotFound
          /\ Find(o, n).definer = Find(p, n).definer /\ at = Find(p, n).at + Len(propdefs[o])
      BY <1>1, <1>2, <3>1, FindIs
    <3>3. p \in Oid /\ Good(p)
      BY <1>2, <3>2
    <3>4. Find(p, n).at \in Nat /\ Len(propdefs[o]) \in Nat
      BY <1>1, <3>2, <3>3, FoundAt, PlaceIs
    <3>5. at - Len(propdefs[o]) = Find(p, n).at
      <4> DEFINE l == Len(propdefs[o])
                 k == Find(p, n).at
      <4>1. l \in Nat /\ k \in Nat /\ at = k + l
        BY <3>2, <3>4
      <4> HIDE DEF l, k, at
      <4>2. at - l = k
        BY <4>1
      <4> QED  BY <4>2 DEF l, k
    <3>6. ValueAt(o, at) = ValueAt(p, Find(p, n).at)
      BY <1>1, <2>1, <2>3, <3>2, <3>5, ValueAtIs
    <3>7. Line(parent, o) = {o} \cup Line(parent, p)
      BY <1>1, LineIs
    <3>8. Having(o) = Having(p)
      BY <2>3, <3>2, <3>7
    <3> HIDE DEF Having
    <3> QED  BY <3>2, <3>3, <3>6, <3>8
  <2> QED  BY <2>2, <2>3
<1>3. \A o \in Oid : o \in S
  <2>1. \A o \in Oid : (parent[o] # NOTHING => parent[o] \in S) => o \in S
    BY <1>2
  <2> HIDE DEF S
  <2> QED  BY <1>1, <2>1, FromParents
<1> QED  BY <1>1, <1>3

\* Reading a property never runs out of ancestors, and finds the value of the
\* nearest one, of those that have the property, that has a value of its own.
THEOREM ReadsAreRight == Spec => []ReadsNearest
<1> QED  BY ValuesInit, ValuesNext, ReadsAreNearest, PTL DEF Spec

-----------------------------------------------------------------------------
(* Positions.                                                              *)

LEMMA CountIs ==
    ASSUME NEW up, Tree(up), NEW defs \in Lists
    PROVE  /\ Count(up, defs, NOTHING) = 0
           /\ \A x \in Oid : /\ Count(up, defs, x) \in Nat /\ Len(defs[x]) \in Nat
                             /\ Count(up, defs, up[x]) \in Nat
                             /\ Count(up, defs, x) = Len(defs[x]) + Count(up, defs, up[x])
<1> DEFINE base == [x \in Oid |-> Len(defs[x])]
           step == [x \in Oid |-> [k \in Nat |-> Len(defs[x]) + k]]
           Rule(f) == f = [x \in Oid |-> Len(defs[x]) + IF up[x] = NOTHING THEN 0 ELSE f[up[x]]]
           g == CHOOSE f : Rule(f)
<1>1. \A x : Count(up, defs, x) = IF x = NOTHING THEN 0 ELSE g[x]
  BY DEF Count
<1>2. \A x \in Oid : Len(defs[x]) \in Nat /\ (up[x] # NOTHING => up[x] \in Oid)
  BY LenProperties DEF Tree, Links, Lists
<1>3. \E f : Rule(f)
  <2>1. base \in [Oid -> Nat] /\ step \in [Oid -> [Nat -> Nat]]
    BY <1>2
  <2>2. PICK f : Told(f, up, Nat, base, step)
    <3> HIDE DEF base, step
    <3> QED  BY <2>1, ToldFromParents
  <2>3. f \in [Oid -> Nat] /\ f = [x \in Oid |-> f[x]]
    BY <2>2 DEF Told
  <2>4. \A x \in Oid : f[x] = IF up[x] = NOTHING THEN base[x] ELSE step[x][f[up[x]]]
    <3> HIDE DEF base, step
    <3> QED  BY <2>2 DEF Told
  <2>5. ASSUME NEW x \in Oid  PROVE f[x] = Len(defs[x]) + IF up[x] = NOTHING THEN 0 ELSE f[up[x]]
    <3>1. CASE up[x] = NOTHING
      <4>1. f[x] = Len(defs[x])
        BY <2>4, <3>1
      <4> QED  BY <1>2, <3>1, <4>1
    <3>2. CASE up[x] # NOTHING
      <4>1. f[up[x]] \in Nat
        BY <1>2, <2>3, <3>2
      <4> QED  BY <2>4, <3>2, <4>1
    <3> QED  BY <3>1, <3>2
  <2> QED  BY <2>3, <2>5
<1>4. Rule(g)
  <2> HIDE DEF Rule
  <2> QED  BY <1>3
<1> HIDE DEF g
<1>5. \A x \in Oid : g[x] = Len(defs[x]) + IF up[x] = NOTHING THEN 0 ELSE g[up[x]]
  BY <1>4
<1>6. \A x \in Oid : g[x] \in Nat
  <2> DEFINE S == {x \in Oid : g[x] \in Nat}
  <2>1. ASSUME NEW x \in Oid, up[x] # NOTHING => up[x] \in S  PROVE x \in S
    BY <1>2, <1>5, <2>1
  <2>2. \A x \in Oid : x \in S
    <3> HIDE DEF S
    <3> QED  BY <2>1, FromParents
  <2> QED  BY <2>2
<1> QED  BY <1>1, <1>2, <1>5, <1>6, NothingIsNoOid

\* The number of values of an object, those of its ancestors last.
Room(x) == Count(parent, propdefs, x)

LEMMA RoomIs ==
    ASSUME Tree(parent), propdefs \in Lists
    PROVE  /\ Room(NOTHING) = 0
           /\ \A x \in Oid : /\ Room(x) \in Nat /\ Len(propdefs[x]) \in Nat /\ Room(parent[x]) \in Nat
                             /\ Room(x) = Len(propdefs[x]) + Room(parent[x])
BY CountIs DEF Room

LEMMA RoomAbove ==
    ASSUME Tree(parent), propdefs \in Lists
    PROVE  \A x \in Oid : \A y \in Line(parent, x) :
              /\ Room(y) \in Nat /\ Room(y) <= Room(x)
              /\ y # x => Room(y) + Len(propdefs[x]) <= Room(x)
<1> DEFINE Good(x) == \A y \in Line(parent, x) :
                         /\ Room(y) \in Nat /\ Room(y) <= Room(x)
                         /\ y # x => Room(y) + Len(propdefs[x]) <= Room(x)
           S == {x \in Oid : Good(x)}
<1>1. ASSUME NEW x \in Oid, parent[x] # NOTHING => parent[x] \in S, NEW y \in Line(parent, x)
      PROVE  /\ Room(y) \in Nat /\ Room(y) <= Room(x)
             /\ y # x => Room(y) + Len(propdefs[x]) <= Room(x)
  <2>1. Line(parent, x) = {x} \cup Line(parent, parent[x]) /\ Line(parent, NOTHING) = {}
    BY LineIs
  <2> DEFINE l == Len(propdefs[x])
             rx == Room(x)
             rp == Room(parent[x])
  <2>2. l \in Nat /\ rx \in Nat /\ rp \in Nat /\ rx = l + rp
    BY RoomIs
  <2>3. CASE y = x
    BY <2>2, <2>3
  <2>4. CASE y # x
    <3>1. parent[x] # NOTHING /\ y \in Line(parent, parent[x])
      BY <2>1, <2>4
    <3>2. Room(y) \in Nat /\ Room(y) <= rp
      BY <1>1, <3>1
    <3> HIDE DEF l, rx, rp
    <3>3. Room(y) <= rx /\ Room(y) + l <= rx
      BY <2>2, <3>2
    <3> QED  BY <3>2, <3>3 DEF l, rx
  <2> QED  BY <2>3, <2>4
<1>2. \A x \in Oid : x \in S
  <2>1. \A x \in Oid : (parent[x] # NOTHING => parent[x] \in S) => x \in S
    BY <1>1
  <2> HIDE DEF S
  <2> QED  BY <2>1, FromParents
<1> QED  BY <1>2

LEMMA OffsetRoom ==
    ASSUME Tree(parent), propdefs \in Lists, NEW root \in Oid, NEW at \in Nat
    PROVE  \A x \in Oid : root \in Line(parent, x) =>
              Offset(root, at, x) = (Room(x) - Room(root)) + at
<1> DEFINE S == {x \in Oid : root \in Line(parent, x) => Offset(root, at, x) = (Room(x) - Room(root)) + at}
<1>1. ASSUME NEW x \in Oid, parent[x] # NOTHING => parent[x] \in S, root \in Line(parent, x)
      PROVE  Offset(root, at, x) = (Room(x) - Room(root)) + at
  <2>1. Line(parent, x) = {x} \cup Line(parent, parent[x]) /\ Line(parent, NOTHING) = {}
    BY LineIs
  <2>2. Room(x) \in Nat /\ Room(root) \in Nat
    BY RoomIs
  <2>3. CASE x = root
    <3>1. Offset(root, at, x) = at
      BY <2>3, OffsetIs
    <3> QED  BY <2>2, <2>3, <3>1
  <2>4. CASE x # root
    <3> DEFINE l == Len(propdefs[x])
               rx == Room(x)
               rp == Room(parent[x])
               rr == Room(root)
               f == Offset(root, at, x)
    <3>1. parent[x] # NOTHING /\ root \in Line(parent, parent[x])
      BY <1>1, <2>1, <2>4
    <3>2. Offset(root, at, parent[x]) = (rp - rr) + at
      BY <1>1, <3>1
    <3>3. f = l + ((rp - rr) + at)
      BY <2>4, <3>1, <3>2, OffsetIs
    <3>4. l \in Nat /\ rp \in Nat /\ rr \in Nat /\ rx = l + rp
      BY <2>2, RoomIs
    <3> HIDE DEF l, rx, rp, rr, f
    <3>5. f = (rx - rr) + at
      BY <3>3, <3>4
    <3> QED  BY <3>5 DEF rx, rr, f
  <2> QED  BY <2>3, <2>4
<1>2. \A x \in Oid : x \in S
  <2>1. \A x \in Oid : (parent[x] # NOTHING => parent[x] \in S) => x \in S
    BY <1>1
  <2> HIDE DEF S
  <2> QED  BY <2>1, FromParents
<1> QED  BY <1>2

\* Where x has the value of the property m that d defines.
Place(x, d, m) == (Room(x) - Room(d)) + IndexOf(d, m)

\* The one definer of a property that an object has.
LEMMA OneDefiner ==
    ASSUME NamesInv, NEW x \in Oid, NEW m \in Names,
           NEW d \in Line(parent, x), Has(d, m), NEW e \in Line(parent, x), Has(e, m)
    PROVE  d = e
<1>1. Tree(parent)
  BY DEF NamesInv, Rooted
<1>2. d \in Oid /\ e \in Oid /\ (d \in Line(parent, e) \/ e \in Line(parent, d))
  BY <1>1, LineIs, LineUp
<1> QED  BY <1>2 DEF NamesInv, Unmixed

LEMMA PlaceWithin ==
    ASSUME NamesInv, NEW x \in Oid, NEW m, NEW d \in Line(parent, x), Has(d, m)
    PROVE  /\ d \in Oid /\ Place(x, d, m) \in 1..Room(x)
           /\ IndexOf(d, m) \in 1..Len(propdefs[d])
           /\ d # x => Place(x, d, m) > Len(propdefs[x])
           /\ Place(x, d, m) <= Room(x) - Room(parent[d])
<1>1. Tree(parent) /\ propdefs \in Lists
  BY DEF NamesInv, Rooted
<1>2. d \in Oid
  BY <1>1, LineIs
<1> DEFINE rx == Room(x)
           rd == Room(d)
           k == IndexOf(d, m)
           l == Len(propdefs[d])
           r == Room(parent[d])
           n == Len(propdefs[x])
<1>3. k \in 1..l /\ rx \in Nat /\ rd \in Nat /\ l \in Nat /\ r \in Nat /\ n \in Nat
  BY <1>1, <1>2, PlaceIs, RoomIs
<1>4. rd = l + r /\ rd <= rx /\ (d # x => rd + n <= rx)
  BY <1>1, <1>2, RoomIs, RoomAbove
<1>5. Place(x, d, m) = (rx - rd) + k
  BY DEF Place
<1> HIDE DEF rx, rd, k, l, r, n
<1>6. /\ Place(x, d, m) \in 1..rx /\ (d # x => Place(x, d, m) > n)
      /\ Place(x, d, m) <= rx - r
  BY <1>3, <1>4, <1>5
<1> QED  BY <1>2, <1>3, <1>6 DEF rx, k, l, r, n

LEMMA PlaceUp ==
    ASSUME NamesInv, NEW x \in Oid, NEW m, NEW d \in Oid
    PROVE  Place(x, d, m) = Place(parent[x], d, m) + Len(propdefs[x])
<1>1. Tree(parent) /\ propdefs \in Lists
  BY DEF NamesInv, Rooted
<1> DEFINE rx == Room(x)
           rp == Room(parent[x])
           rd == Room(d)
           k == IndexOf(d, m)
           l == Len(propdefs[x])
<1>2. k \in Nat
  BY <1>1, PlaceIs
<1>3. rx \in Nat /\ rp \in Nat /\ rd \in Nat /\ l \in Nat /\ rx = l + rp
  BY <1>1, RoomIs
<1> HIDE DEF rx, rp, rd, k, l
<1>4. ((rp - rd) + k) + l = (rx - rd) + k
  BY <1>2, <1>3
<1> QED  BY <1>4 DEF Place, rx, rp, rd, k, l

LEMMA FindPlace ==
    ASSUME NamesInv, NEW m \in Names
    PROVE  \A x \in Oid : \A d \in Line(parent, x) :
              Has(d, m) => Find(x, m) = [definer |-> d, at |-> Place(x, d, m)]
<1>1. Tree(parent) /\ propdefs \in Lists
  BY DEF NamesInv, Rooted
<1> DEFINE S == {x \in Oid : \A d \in Line(parent, x) :
                               Has(d, m) => Find(x, m) = [definer |-> d, at |-> Place(x, d, m)]}
<1>2. ASSUME NEW x \in Oid, parent[x] # NOTHING => parent[x] \in S,
             NEW d \in Line(parent, x), Has(d, m)
      PROVE  Find(x, m) = [definer |-> d, at |-> Place(x, d, m)]
  <2>1. Line(parent, x) = {x} \cup Line(parent, parent[x]) /\ Line(parent, NOTHING) = {}
    BY <1>1, LineIs
  <2>2. d \in Oid /\ IndexOf(d, m) \in Nat /\ Room(d) \in Nat /\ Room(x) \in Nat
    <3>1. d \in Oid
      BY <1>1, LineIs
    <3> QED  BY <1>1, <1>2, <3>1, PlaceIs, RoomIs
  <2>3. CASE d = x
    <3>1. Find(x, m) = [definer |-> x, at |-> IndexOf(x, m)]
      BY <1>1, <1>2, <2>3, FindIs
    <3>2. Place(x, x, m) = IndexOf(x, m)
      BY <2>2, <2>3 DEF Place
    <3> QED  BY <2>3, <3>1, <3>2
  <2>4. CASE d # x
    <3>1. parent[x] # NOTHING /\ d \in Line(parent, parent[x])
      BY <2>1, <2>4
    <3>2. ~ Has(x, m)
      BY <1>2, <2>4 DEF NamesInv, Unmixed
    <3> DEFINE p == parent[x]
    <3>3. Find(p, m) = [definer |-> d, at |-> Place(p, d, m)]
      BY <1>2, <3>1
    <3>4. Find(p, m) # NotFound
      BY <2>2, <3>3, NothingIsNoOid DEF NotFound
    <3>5. Find(x, m) = [definer |-> d, at |-> Place(p, d, m) + Len(propdefs[x])]
      BY <1>1, <3>1, <3>2, <3>3, <3>4, FindIs
    <3>6. Place(p, d, m) + Len(propdefs[x]) = Place(x, d, m)
      BY <2>2, PlaceUp
    <3> QED  BY <3>5, <3>6
  <2> QED  BY <2>3, <2>4
<1>3. \A x \in Oid : x \in S
  <2>1. \A x \in Oid : (parent[x] # NOTHING => parent[x] \in S) => x \in S
    BY <1>2
  <2> HIDE DEF S
  <2> QED  BY <1>1, <2>1, FromParents
<1> QED  BY <1>3

-----------------------------------------------------------------------------
(* What the arrays stand for.                                              *)

LEMMA LayoutStep ==
    ASSUME NamesInv
    PROVE  \A x \in Oid :
              /\ Layout[x] \in Seq(Names)
              /\ Layout[x] = propdefs[x] \o (IF parent[x] = NOTHING THEN <<>> ELSE Layout[parent[x]])
<1>1. Tree(parent) /\ propdefs \in Lists
  BY DEF NamesInv, Rooted
<1> DEFINE D == Seq(Names)
           base == [x \in Oid |-> propdefs[x] \o <<>>]
           step == [x \in Oid |-> [s \in D |-> propdefs[x] \o s]]
           Rule(f) == f = [x \in Oid |->
                              propdefs[x] \o (IF parent[x] = NOTHING THEN <<>> ELSE f[parent[x]])]
           g == CHOOSE f : Rule(f)
<1>2. Layout = g
  BY DEF Layout
<1>3. /\ <<>> \in D /\ \A s, t \in D : s \o t \in D
      /\ \A x \in Oid : propdefs[x] \in D /\ (parent[x] # NOTHING => parent[x] \in Oid)
  BY <1>1, ConcatProperties DEF Tree, Links, Lists
<1>4. \E f : Rule(f)
  <2> HIDE DEF D
  <2>1. base \in [Oid -> D] /\ step \in [Oid -> [D -> D]]
    BY <1>3
  <2>2. PICK f : Told(f, parent, D, base, step)
    <3> HIDE DEF base, step
    <3> QED  BY <1>1, <2>1, ToldFromParents
  <2>3. f \in [Oid -> D] /\ f = [x \in Oid |-> f[x]]
    BY <2>2 DEF Told
  <2>4. \A x \in Oid : f[x] = IF parent[x] = NOTHING THEN base[x] ELSE step[x][f[parent[x]]]
    <3> HIDE DEF base, step
    <3> QED  BY <2>2 DEF Told
  <2>5. \A x \in Oid : f[x] = propdefs[x] \o (IF parent[x] = NOTHING THEN <<>> ELSE f[parent[x]])
    BY <1>3, <2>3, <2>4
  <2> QED  BY <2>3, <2>5
<1>5. Rule(g)
  <2> HIDE DEF Rule
  <2> QED  BY <1>4
<1> HIDE DEF g
<1>6. \A x \in Oid : g[x] = propdefs[x] \o (IF parent[x] = NOTHING THEN <<>> ELSE g[parent[x]])
  BY <1>5
<1>7. \A x \in Oid : g[x] \in D
  <2> HIDE DEF D
  <2> DEFINE S == {x \in Oid : g[x] \in D}
  <2>1. ASSUME NEW x \in Oid, parent[x] # NOTHING => parent[x] \in S  PROVE x \in S
    BY <1>3, <1>6, <2>1
  <2>2. \A x \in Oid : x \in S
    <3> HIDE DEF S
    <3> QED  BY <1>1, <2>1, FromParents
  <2> QED  BY <2>2
<1> QED  BY <1>2, <1>6, <1>7

LEMMA LayoutIs ==
    ASSUME NamesInv
    PROVE  \A x \in Oid :
              /\ Layout[x] \in Seq(Names) /\ Len(Layout[x]) = Room(x)
              /\ \A d \in Line(parent, x) : \A m \in Names :
                    Has(d, m) => Layout[x][Place(x, d, m)] = m
              /\ \A i \in 1..Room(x) : \E d \in Line(parent, x) :
                    Has(d, Layout[x][i]) /\ Place(x, d, Layout[x][i]) = i
<1>1. Tree(parent) /\ propdefs \in Lists
  BY DEF NamesInv, Rooted
<1> DEFINE Good(x) == /\ Layout[x] \in Seq(Names) /\ Len(Layout[x]) = Room(x)
                      /\ \A d \in Line(parent, x) : \A m \in Names :
                            Has(d, m) => Layout[x][Place(x, d, m)] = m
                      /\ \A i \in 1..Room(x) : \E d \in Line(parent, x) :
                            Has(d, Layout[x][i]) /\ Place(x, d, Layout[x][i]) = i
           S == {x \in Oid : Good(x)}
<1>2. ASSUME NEW x \in Oid, parent[x] # NOTHING => parent[x] \in S  PROVE Good(x)
  <2> DEFINE p == parent[x]
             s == propdefs[x]
             u == IF p = NOTHING THEN <<>> ELSE Layout[p]
             t == Layout[x]
             l == Len(s)
             r == Room(p)
  <2>1. /\ Line(parent, x) = {x} \cup Line(parent, p) /\ Line(parent, NOTHING) = {}
        /\ (p # NOTHING => p \in Oid) /\ Line(parent, x) \subseteq Oid
    BY <1>1, LineIs DEF Tree, Links
  <2>2. u \in Seq(Names) /\ Len(u) = r
    <3>1. CASE p = NOTHING
      <4>1. Room(NOTHING) = 0 /\ <<>> \in Seq(Names) /\ Len(<<>>) = 0
        BY <1>1, RoomIs
      <4> QED  BY <3>1, <4>1
    <3>2. CASE p # NOTHING
      BY <1>2, <3>2
    <3> QED  BY <3>1, <3>2
  <2>3. /\ \A d \in Line(parent, p) : \A m \in Names :
              Has(d, m) => u[Place(p, d, m)] = m /\ Place(p, d, m) \in 1..r
        /\ \A i \in 1..r : \E d \in Line(parent, p) : Has(d, u[i]) /\ Place(p, d, u[i]) = i
    <3>1. CASE p = NOTHING
      <4>1. r = 0
        BY <1>1, <3>1, RoomIs
      <4> QED  BY <2>1, <3>1, <4>1
    <3>2. CASE p # NOTHING
      <4>1. Good(p) /\ p \in Oid
        BY <1>2, <2>1, <3>2
      <4>2. \A d \in Line(parent, p) : \A m \in Names : Has(d, m) => Place(p, d, m) \in 1..Room(p)
        BY <4>1, PlaceWithin
      <4> QED  BY <3>2, <4>1, <4>2
    <3> QED  BY <3>1, <3>2
  <2>4. s \in Seq(Names) /\ l \in Nat /\ r \in Nat /\ Room(x) = l + r
    BY <1>1, HasIs, RoomIs
  <2>5. t = s \o u
    BY LayoutStep
  <2>6. /\ IsInjective(s) /\ DOMAIN s = 1..l /\ \A i \in 1..l : s[i] \in Names /\ Has(x, s[i])
        /\ \A m : Has(x, m) => IndexOf(x, m) \in 1..l /\ s[IndexOf(x, m)] = m
    BY <1>1, HasIs, PlaceIs, ElementOfSeq DEF NamesInv, Unmixed
  <2>7. \A m : Place(x, x, m) = IndexOf(x, m)
    <3>1. \A m : IndexOf(x, m) \in Nat /\ Room(x) \in Nat
      BY <1>1, PlaceIs, RoomIs
    <3> QED  BY <3>1 DEF Place
  <2>8. \A d \in Line(parent, p) : \A m : d \in Oid /\ Place(x, d, m) = Place(p, d, m) + l
    BY <2>1, PlaceUp
  <2> HIDE DEF p, s, u, t, l, r
  <2>9. /\ t \in Seq(Names) /\ Len(t) = l + r
        /\ \A i \in 1..l + r : t[i] = IF i <= l THEN s[i] ELSE u[i - l]
    <3>1. /\ s \o u \in Seq(Names) /\ Len(s \o u) = Len(s) + Len(u)
          /\ \A i \in 1..Len(s) + Len(u) : (s \o u)[i] = IF i <= Len(s) THEN s[i] ELSE u[i - Len(s)]
      BY <2>2, <2>4, ConcatProperties
    <3> QED  BY <2>2, <2>5, <3>1 DEF l
  <2>10. ASSUME NEW d \in Line(parent, x), NEW m \in Names, Has(d, m)
         PROVE  t[Place(x, d, m)] = m
    <3>1. CASE d = x
      <4> DEFINE k == IndexOf(x, m)
      <4>1. k \in 1..l /\ s[k] = m /\ Place(x, d, m) = k
        BY <2>6, <2>7, <2>10, <3>1
      <4> HIDE DEF k
      <4>2. k \in 1..l + r /\ k <= l
        BY <2>4, <4>1
      <4> QED  BY <2>9, <4>1, <4>2
    <3>2. CASE d # x
      <4>1. d \in Line(parent, p)
        BY <2>1, <2>10, <3>2
      <4> DEFINE k == Place(p, d, m)
      <4>2. k \in 1..r /\ u[k] = m /\ Place(x, d, m) = k + l
        BY <2>3, <2>8, <2>10, <4>1
      <4> HIDE DEF k
      <4>3. k + l \in 1..l + r /\ ~ (k + l <= l) /\ (k + l) - l = k
        BY <2>4, <4>2
      <4> QED  BY <2>9, <4>2, <4>3
    <3> QED  BY <3>1, <3>2
  <2>11. ASSUME NEW i \in 1..l + r
         PROVE  \E d \in Line(parent, x) : Has(d, t[i]) /\ Place(x, d, t[i]) = i
    <3>1. CASE i <= l
      <4>1. i \in 1..l /\ t[i] = s[i]
        BY <2>4, <2>9, <3>1
      <4> DEFINE m == s[i]
      <4>2. Has(x, m) /\ IndexOf(x, m) \in 1..l /\ s[IndexOf(x, m)] = s[i]
        BY <2>6, <4>1
      <4>3. IndexOf(x, m) = i
        <5> DEFINE k == IndexOf(x, m)
        <5> HIDE DEF k
        <5>1. k \in 1..l /\ s[k] = s[i]
          BY <4>2 DEF k
        <5>2. k = i
          BY <2>6, <4>1, <5>1 DEF IsInjective
        <5> QED  BY <5>2 DEF k
      <4>4. x \in Line(parent, x)
        BY <2>1
      <4> QED  BY <2>7, <4>1, <4>2, <4>3, <4>4
    <3>2. CASE i > l
      <4> DEFINE j == i - l
      <4>1. j \in 1..r /\ j + l = i /\ t[i] = u[j]
        BY <2>4, <2>9, <3>2
      <4> HIDE DEF j
      <4>2. PICK d \in Line(parent, p) : Has(d, u[j]) /\ Place(p, d, u[j]) = j
        BY <2>3, <4>1
      <4> QED  BY <2>1, <2>8, <4>1, <4>2
    <3> QED  BY <2>4, <3>1, <3>2
  <2>12. Room(x) = l + r
    BY <2>4
  <2> QED  BY <2>9, <2>10, <2>11, <2>12 DEF t
<1> HIDE DEF Good
<1>3. \A x \in Oid : x \in S
  <2>1. \A x \in Oid : (parent[x] # NOTHING => parent[x] \in S) => x \in S
    BY <1>2
  <2> HIDE DEF S
  <2> QED  BY <1>1, <2>1, FromParents
<1> QED  BY <1>3 DEF Good

Slot(x, d, m) == At(propval[x], Place(x, d, m))

LEMMA OwnIs ==
    ASSUME NamesInv, NEW x \in Oid, NEW m \in Names
    PROVE  /\ (\A d \in Line(parent, x) : ~ Has(d, m)) => OwnValues[x][m] = Garbage
           /\ \A d \in Line(parent, x) : Has(d, m) => OwnValues[x][m] = Slot(x, d, m)
<1> DEFINE t == Layout[x]
           I == {i \in 1..Room(x) : t[i] = m}
<1>1. DOMAIN t = 1..Room(x)
  <2>1. t \in Seq(Names) /\ Len(t) = Room(x)
    BY LayoutIs
  <2> HIDE DEF t
  <2> QED  BY <2>1, LenProperties
<1>2. OwnValues[x][m] = IF \E i \in DOMAIN t : t[i] = m
                        THEN At(propval[x], CHOOSE i \in DOMAIN t : t[i] = m)
                        ELSE Garbage
  BY DEF OwnValues
<1>3. /\ \A d \in Line(parent, x) : Has(d, m) => t[Place(x, d, m)] = m /\ Place(x, d, m) \in 1..Room(x)
      /\ \A i \in 1..Room(x) : t[i] = m => \E d \in Line(parent, x) : Has(d, m) /\ Place(x, d, m) = i
  BY LayoutIs, PlaceWithin
<1> HIDE DEF t
<1>4. ASSUME \A d \in Line(parent, x) : ~ Has(d, m)  PROVE OwnValues[x][m] = Garbage
  BY <1>1, <1>2, <1>3, <1>4
<1>5. ASSUME NEW d \in Line(parent, x), Has(d, m)  PROVE OwnValues[x][m] = Slot(x, d, m)
  <2>1. \A i \in DOMAIN t : t[i] = m <=> i = Place(x, d, m)
    <3>1. \A e \in Line(parent, x) : Has(e, m) => e = d
      BY <1>5, OneDefiner
    <3> QED  BY <1>1, <1>3, <1>5, <3>1
  <2>2. Place(x, d, m) \in DOMAIN t
    BY <1>1, <1>3, <1>5
  <2>3. (CHOOSE i \in DOMAIN t : t[i] = m) = Place(x, d, m)
    BY <2>1, <2>2
  <2> QED  BY <1>2, <2>1, <2>2, <2>3 DEF Slot
<1> QED  BY <1>4, <1>5

OwnKnown ==
    \A x \in Oid, m \in Names :
       /\ (\A d \in Line(parent, x) : ~ Has(d, m)) => OwnValues[x][m] = Garbage
       /\ \A d \in Line(parent, x) : Has(d, m) => OwnValues[x][m] = Slot(x, d, m)

LEMMA OwnIsKnown == NamesInv => OwnKnown
BY OwnIs DEF OwnKnown

LEMMA OwnIsFunction ==
    OwnValues = [x \in Oid |-> [m \in Names |-> OwnValues[x][m]]]
BY DEF OwnValues

-----------------------------------------------------------------------------
(* What PropertyValues says of the same.                                   *)

LEMMA OwnIsFunctionNext ==
    OwnValues' = [x \in Oid |-> [m \in Names |-> OwnValues'[x][m]]]
BY DEF OwnValues

LEMMA SameLine == \A up, o : Abstract!Line(up, o) = Line(up, o)
BY DEF Abstract!Line, Line

LEMMA DefinesIs == \A x \in Oid : \A m : m \in Defines[x] <=> Has(x, m)
BY DEF Defines, Has, ToSet, Range

WhereFrom == Abstract!Definers(parent, Defines)

DefinersKnown ==
    \A x \in Oid, m \in Names :
       /\ (\A d \in Line(parent, x) : ~ Has(d, m)) => WhereFrom[x][m] = NOTHING
       /\ \A d \in Line(parent, x) : Has(d, m) => WhereFrom[x][m] = d

LEMMA DefinersAre == NamesInv => DefinersKnown
<1> SUFFICES ASSUME NamesInv, NEW x \in Oid, NEW m \in Names
             PROVE  /\ (\A d \in Line(parent, x) : ~ Has(d, m)) => WhereFrom[x][m] = NOTHING
                    /\ \A d \in Line(parent, x) : Has(d, m) => WhereFrom[x][m] = d
  BY DEF DefinersKnown
<1> DEFINE from == {y \in Line(parent, x) : m \in Defines[y]}
<1>1. WhereFrom[x][m] = IF from = {} THEN NOTHING ELSE CHOOSE y \in from : TRUE
  <2>1. Abstract!Line(parent, x) = Line(parent, x)
    BY SameLine
  <2> QED  BY <2>1 DEF WhereFrom, Abstract!Definers
<1>2. \A y \in Line(parent, x) : m \in Defines[y] <=> Has(y, m)
  <2>1. Line(parent, x) \subseteq Oid
    BY LineIs DEF NamesInv, Rooted
  <2> QED  BY <2>1, DefinesIs
<1>3. ASSUME NEW d \in Line(parent, x), Has(d, m)  PROVE from = {d}
  BY <1>2, <1>3, OneDefiner
<1> HIDE DEF from
<1>4. (\A d \in Line(parent, x) : ~ Has(d, m)) => from = {}
  BY <1>2 DEF from
<1>5. \A d : from = {d} => (CHOOSE y \in from : TRUE) = d
  OBVIOUS
<1> QED  BY <1>1, <1>3, <1>4, <1>5

Keeping == Abstract!Kept(parent', Defines')

LEMMA KeptIs ==
    ASSUME NamesInv, NamesInv', NEW x \in Oid, NEW m \in Names
    PROVE  /\ (\A d \in Line(parent', x) : ~ Has(d, m)') => Keeping[x][m] = Garbage
           /\ \A d \in Line(parent', x) : Has(d, m)' =>
                 Keeping[x][m] = IF d \in Line(parent, x) /\ Has(d, m) THEN OwnValues[x][m] ELSE CLEAR
<1>1. /\ (\A d \in Line(parent, x) : ~ Has(d, m)) => WhereFrom[x][m] = NOTHING
      /\ \A d \in Line(parent, x) : Has(d, m) => WhereFrom[x][m] = d
  BY DefinersAre DEF DefinersKnown
<1>2. DefinersKnown'
  <2>1. (NamesInv => DefinersKnown)'
    BY DefinersAre, PTL
  <2> QED  BY <2>1
<1>3. /\ (\A d \in Line(parent', x) : ~ Has(d, m)') => WhereFrom'[x][m] = NOTHING
      /\ \A d \in Line(parent', x) : Has(d, m)' => WhereFrom'[x][m] = d
  BY <1>2 DEF DefinersKnown
<1>4. Keeping[x][m] = IF WhereFrom'[x][m] = NOTHING THEN Garbage
                      ELSE IF WhereFrom'[x][m] = WhereFrom[x][m] THEN OwnValues[x][m]
                      ELSE CLEAR
  BY DEF Keeping, Abstract!Kept, WhereFrom
<1>5. \A d \in Line(parent', x) : d # NOTHING
  <2>1. Tree(parent')
    BY DEF NamesInv, Rooted
  <2> QED  BY <2>1, LineIs, NothingIsNoOid
<1>6. ASSUME NEW d \in Line(parent', x), Has(d, m)'
      PROVE  WhereFrom[x][m] = d <=> d \in Line(parent, x) /\ Has(d, m)
  <2>1. CASE \A e \in Line(parent, x) : ~ Has(e, m)
    BY <1>1, <1>5, <2>1
  <2>2. CASE \E e \in Line(parent, x) : Has(e, m)
    BY <1>1, <2>2
  <2> QED  BY <2>1, <2>2
<1> QED  BY <1>3, <1>4, <1>5, <1>6

LEMMA KeepingIsFunction == Keeping = [x \in Oid |-> [m \in Names |-> Keeping[x][m]]]
BY DEF Keeping, Abstract!Kept

\* What an object has a value for stays, and is clear when it has come from elsewhere.
Carried(x, m) ==
    \A d \in Line(parent', x) : Has(d, m)' =>
        Slot(x, d, m)' = IF d \in Line(parent, x) /\ Has(d, m) THEN Slot(x, d, m) ELSE CLEAR

LEMMA KeptThere ==
    ASSUME NamesInv, NamesInv', NEW x \in Oid, NEW m \in Names, Carried(x, m)
    PROVE  OwnValues'[x][m] = Keeping[x][m]
<1>1. /\ (\A d \in Line(parent, x) : ~ Has(d, m)) => OwnValues[x][m] = Garbage
      /\ \A d \in Line(parent, x) : Has(d, m) => OwnValues[x][m] = Slot(x, d, m)
  BY OwnIs
<1>2. /\ (\A d \in Line(parent', x) : ~ Has(d, m)') => OwnValues'[x][m] = Garbage
      /\ \A d \in Line(parent', x) : Has(d, m)' => OwnValues'[x][m] = Slot(x, d, m)'
  <2>1. (NamesInv => OwnKnown)'
    BY OwnIsKnown, PTL
  <2>2. OwnKnown'
    BY <2>1
  <2> QED  BY <2>2 DEF OwnKnown
<1>3. /\ (\A d \in Line(parent', x) : ~ Has(d, m)') => Keeping[x][m] = Garbage
      /\ \A d \in Line(parent', x) : Has(d, m)' =>
            Keeping[x][m] = IF d \in Line(parent, x) /\ Has(d, m) THEN OwnValues[x][m] ELSE CLEAR
  BY KeptIs
<1>4. CASE \A d \in Line(parent', x) : ~ Has(d, m)'
  BY <1>2, <1>3, <1>4
<1>5. ASSUME NEW d \in Line(parent', x), Has(d, m)'  PROVE OwnValues'[x][m] = Keeping[x][m]
  <2>1. Slot(x, d, m)' = IF d \in Line(parent, x) /\ Has(d, m) THEN Slot(x, d, m) ELSE CLEAR
    BY <1>5 DEF Carried
  <2> QED  BY <1>1, <1>2, <1>3, <1>5, <2>1
<1> QED  BY <1>4, <1>5

LEMMA AllKept ==
    ASSUME NamesInv, NamesInv', \A x \in Oid, m \in Names : Carried(x, m)
    PROVE  OwnValues' = Keeping
<1>1. \A x \in Oid, m \in Names : OwnValues'[x][m] = Keeping[x][m]
  BY KeptThere
<1>2. OwnValues' = [x \in Oid |-> [m \in Names |-> OwnValues'[x][m]]]
  <2>1. (OwnValues = [x \in Oid |-> [m \in Names |-> OwnValues[x][m]]])'
    BY OwnIsFunction, PTL
  <2> QED  BY <2>1
<1> QED  BY <1>1, <1>2, KeepingIsFunction

-----------------------------------------------------------------------------
(* What the built-ins do to the arrays.                                    *)

\* Every array has a value, its own or clear, for each name and nothing more.
Sized == \A x \in Oid : propval[x] \in [1..Room(x) -> Values \cup {CLEAR}]

ArraysInv == ValuesInv /\ Sized

LEMMA ArraysBasics ==
    ASSUME ArraysInv
    PROVE  /\ NamesInv /\ Rooted /\ OwnSet /\ Sized
           /\ Tree(parent) /\ propdefs \in Lists /\ valid \subseteq Oid
BY DEF ArraysInv, ValuesInv, NamesInv, Rooted

\* The names of one object become k more.
More(defs, o, k) ==
    /\ Len(defs[o]) = Len(propdefs[o]) + k
    /\ \A x \in Oid \ {o} : Len(defs[x]) = Len(propdefs[x])
MoreRoom(defs, o, k) ==
    \A x \in Oid : Count(parent, defs, x) = IF o \in Line(parent, x) THEN Room(x) + k ELSE Room(x)

LEMMA RoomWith ==
    ASSUME Tree(parent), propdefs \in Lists, NEW defs, defs \in Lists, NEW o \in Oid,
           NEW k \in Int, More(defs, o, k)
    PROVE  MoreRoom(defs, o, k)
<1> DEFINE Right(x) == Count(parent, defs, x) = IF o \in Line(parent, x) THEN Room(x) + k ELSE Room(x)
           S == {x \in Oid : Right(x)}
<1>1. ASSUME NEW x \in Oid, parent[x] # NOTHING => parent[x] \in S  PROVE Right(x)
  <2> DEFINE p == parent[x]
             l == Len(propdefs[x])
             ld == Len(defs[x])
             c == Count(parent, defs, x)
             cp == Count(parent, defs, p)
             r == Room(x)
             rp == Room(p)
  <2>1. Line(parent, x) = {x} \cup Line(parent, p) /\ Line(parent, NOTHING) = {}
    BY LineIs
  <2>2. l \in Nat /\ ld \in Nat /\ cp \in Nat /\ rp \in Nat /\ c = ld + cp /\ r = l + rp
    BY CountIs, RoomIs
  <2>3. x = o => ld = l + k /\ o \notin Line(parent, p)
    BY NoLoop DEF More
  <2>4. x # o => ld = l
    BY DEF More
  <2>5. cp = IF o \in Line(parent, p) THEN rp + k ELSE rp
    <3>1. CASE p = NOTHING
      BY <2>1, <3>1, CountIs, RoomIs
    <3>2. CASE p # NOTHING
      BY <1>1, <3>2
    <3> QED  BY <3>1, <3>2
  <2> HIDE DEF p, l, ld, c, cp, r, rp
  <2>6. c = IF o \in Line(parent, x) THEN r + k ELSE r
    <3>1. CASE x = o
      BY <2>1, <2>2, <2>3, <2>5, <3>1
    <3>2. CASE x # o /\ o \in Line(parent, p)
      BY <2>1, <2>2, <2>4, <2>5, <3>2
    <3>3. CASE x # o /\ o \notin Line(parent, p)
      BY <2>1, <2>2, <2>4, <2>5, <3>3
    <3> QED  BY <3>1, <3>2, <3>3
  <2> QED  BY <2>6 DEF c, r
<1> HIDE DEF Right
<1>2. \A x \in Oid : x \in S
  <2>1. \A x \in Oid : (parent[x] # NOTHING => parent[x] \in S) => x \in S
    BY <1>1
  <2> HIDE DEF S
  <2> QED  BY <2>1, FromParents
<1> QED  BY <1>2 DEF Right, MoreRoom

HasKnown ==
    \A d \in Oid : \A m : Has(d, m) => m \in Names /\ \E i \in 1..Len(propdefs[d]) : propdefs[d][i] = m

LEMMA HasIsKnown == NamesInv => HasKnown
BY HasIs DEF HasKnown, NamesInv, Rooted

\* A name has one place.
IndexKnown ==
    \A d \in Oid : \A i \in 1..Len(propdefs[d]) :
        Has(d, propdefs[d][i]) /\ IndexOf(d, propdefs[d][i]) = i

LEMMA IndexIs == NamesInv => IndexKnown
<1> SUFFICES ASSUME NamesInv, NEW d \in Oid, NEW i \in 1..Len(propdefs[d])
             PROVE  Has(d, propdefs[d][i]) /\ IndexOf(d, propdefs[d][i]) = i
  BY DEF IndexKnown
<1> DEFINE m == propdefs[d][i]
           k == IndexOf(d, m)
<1>1. propdefs \in Lists /\ IsInjective(propdefs[d])
  BY DEF NamesInv, Rooted, Unmixed
<1>2. Has(d, m) /\ DOMAIN propdefs[d] = 1..Len(propdefs[d])
  BY <1>1, HasIs
<1>3. k \in 1..Len(propdefs[d]) /\ propdefs[d][k] = m
  BY <1>1, <1>2, PlaceIs
<1> HIDE DEF k
<1>4. k = i
  BY <1>1, <1>2, <1>3 DEF IsInjective
<1> QED  BY <1>2, <1>4 DEF k

\* An ancestor of x that is below o has its values before o's, one above o after them.
LEMMA Sides ==
    ASSUME NamesInv, NEW x \in Oid, NEW o \in Oid, o \in Line(parent, x),
           NEW m, NEW d \in Line(parent, x), Has(d, m)
    PROVE  /\ o \in Line(parent, d) /\ d # o => Place(x, d, m) <= Room(x) - Room(o)
           /\ o \notin Line(parent, d) =>
                 /\ d \in Line(parent, o) /\ d # o
                 /\ Place(x, d, m) >= (Room(x) - Room(o)) + (Len(propdefs[o]) + 1)
<1>1. Tree(parent) /\ propdefs \in Lists
  BY DEF NamesInv, Rooted
<1>2. d \in Oid /\ IndexOf(d, m) \in 1..Len(propdefs[d])
  BY PlaceWithin
<1> DEFINE rx == Room(x)
           ro == Room(o)
           rd == Room(d)
           k == IndexOf(d, m)
           l == Len(propdefs[d])
           lo == Len(propdefs[o])
           i == Place(x, d, m)
<1>3. rx \in Nat /\ ro \in Nat /\ rd \in Nat /\ l \in Nat /\ lo \in Nat /\ k \in 1..l
  BY <1>1, <1>2, RoomIs
<1>4. i = (rx - rd) + k
  BY DEF Place
<1>5. CASE o \in Line(parent, d) /\ d # o
  <2>1. ro + l <= rd
    BY <1>1, <1>2, <1>5, RoomAbove
  <2> HIDE DEF rx, ro, rd, k, l, lo, i
  <2>2. i <= rx - ro
    BY <1>3, <1>4, <2>1
  <2> QED  BY <1>5, <2>2 DEF i, rx, ro
<1>6. CASE o \notin Line(parent, d)
  <2>1. d \in Line(parent, o) /\ d # o
    BY <1>1, <1>2, <1>6, LineUp
  <2>2. rd + lo <= ro
    BY <1>1, <2>1, RoomAbove
  <2> HIDE DEF rx, ro, rd, k, l, lo, i
  <2>3. i >= (rx - ro) + (lo + 1)
    BY <1>3, <1>4, <2>2
  <2> QED  BY <1>6, <2>1, <2>3 DEF i, rx, ro, lo
<1>7. CASE o \in Line(parent, d) /\ d = o
  BY <1>7
<1> QED  BY <1>5, <1>6, <1>7

\* The names of o change, and with them the values of what is below o.
Elsewhere(o) ==
    /\ parent' = parent
    /\ \A x \in Oid \ {o} : propdefs'[x] = propdefs[x]
    /\ \A x \in Oid : o \notin Line(parent, x) => propval'[x] = propval[x] /\ Room(x)' = Room(x)

LEMMA NamesElsewhere ==
    ASSUME NEW o \in Oid, Elsewhere(o), NEW d \in Oid \ {o}
    PROVE  \A m : (Has(d, m)' <=> Has(d, m)) /\ IndexOf(d, m)' = IndexOf(d, m)
<1>1. propdefs'[d] = propdefs[d]
  BY DEF Elsewhere
<1>2. \A m : Has(d, m)' <=> Has(d, m)
  BY <1>1 DEF Has
<1>3. \A m : IndexOf(d, m)' = IndexOf(d, m)
  BY <1>1 DEF IndexOf, SelectInSeq
<1> QED  BY <1>2, <1>3

LEMMA SameElsewhere ==
    ASSUME NamesInv, NEW o \in Oid, Elsewhere(o), NEW x \in Oid, o \notin Line(parent, x),
           NEW d \in Line(parent, x), NEW m
    PROVE  (Has(d, m)' <=> Has(d, m)) /\ Slot(x, d, m)' = Slot(x, d, m)
<1>1. Tree(parent)
  BY DEF NamesInv, Rooted
<1>2. d \in Oid /\ o \notin Line(parent, d) /\ d # o
  BY <1>1, LineIs, LineUp
<1>3. (Has(d, m)' <=> Has(d, m)) /\ IndexOf(d, m)' = IndexOf(d, m)
  BY <1>2, NamesElsewhere
<1>4. propval'[x] = propval[x] /\ Room(x)' = Room(x) /\ Room(d)' = Room(d)
  BY <1>2 DEF Elsewhere
<1>5. Place(x, d, m)' = Place(x, d, m)
  BY <1>3, <1>4 DEF Place
<1> QED  BY <1>3, <1>4, <1>5 DEF Slot, At

LEMMA CarriedElsewhere ==
    ASSUME NamesInv, NEW o \in Oid, Elsewhere(o), NEW x \in Oid, o \notin Line(parent, x), NEW m
    PROVE  Carried(x, m)
<1>1. parent' = parent
  BY DEF Elsewhere
<1>2. \A d \in Line(parent, x) : (Has(d, m)' <=> Has(d, m)) /\ Slot(x, d, m)' = Slot(x, d, m)
  BY SameElsewhere
<1> QED  BY <1>1, <1>2 DEF Carried

LEMMA NamesUnused ==
    ASSUME NamesInv, NEW o \in Oid, NEW n,
           \A x \in Line(parent, o) : ~ Has(x, n),
           \A x \in Oid : o \in Line(parent, x) => ~ Has(x, n)
    PROVE  Abstract!Unused(o, n)
<1>1. Abstract!Line(parent, o) = Line(parent, o)
  BY SameLine
<1>2. \A x \in Abstract!Below(parent, o) : x \in Oid /\ o \in Line(parent, x)
  BY SameLine DEF Abstract!Below
<1>3. \A x \in Line(parent, o) : x \in Oid
  BY LineIs DEF NamesInv, Rooted
<1> QED  BY <1>1, <1>2, <1>3, DefinesIs DEF Abstract!Unused, Abstract!NamesOf

LEMMA AddArrays ==
    ASSUME ArraysInv, NEW o \in Oid, NEW n \in Names, NEW value \in Values, AddPropdef(o, n, value)
    PROVE  Sized' /\ Abstract!Add(o, n, value)
<1>1. /\ NamesInv /\ Rooted /\ Sized /\ Tree(parent) /\ propdefs \in Lists /\ NamesInv'
  BY ArraysBasics, AddNames
<1> DEFINE l == Len(propdefs[o])
           pos(x) == Offset(o, l + 1, x)
<1>2. /\ o \in valid /\ MayDefine(o, n) /\ valid' = valid /\ parent' = parent
      /\ propdefs' = [propdefs EXCEPT ![o] = Append(@, n)]
      /\ propval' = [x \in Oid |->
            IF x \notin Below(o) THEN propval[x]
            ELSE [i \in 1..Count(parent, propdefs', x) |->
                     IF i < pos(x) THEN At(propval[x], i)
                     ELSE IF i > pos(x) THEN At(propval[x], i - 1)
                     ELSE IF x = o THEN value ELSE CLEAR]]
  BY DEF AddPropdef, InsertBelow
<1>3. /\ propdefs[o] \in Seq(Names) /\ l \in Nat
      /\ propdefs'[o] = Append(propdefs[o], n)
      /\ \A x \in Oid \ {o} : propdefs'[x] = propdefs[x]
      /\ propdefs' \in Lists
  <2>1. propdefs' \in Lists
    BY <1>1 DEF NamesInv, Rooted
  <2> QED  BY <1>1, <1>2, <2>1, PlaceIs DEF Lists
<1>4. /\ Len(propdefs'[o]) = l + 1
      /\ \A i \in 1..l + 1 : propdefs'[o][i] = IF i <= l THEN propdefs[o][i] ELSE n
  BY <1>3, AppendProperties
<1>5. \A x \in Oid : Room(x)' = IF o \in Line(parent, x) THEN Room(x) + 1 ELSE Room(x)
  <2>1. \A x \in Oid : Count(parent, propdefs', x) = IF o \in Line(parent, x) THEN Room(x) + 1 ELSE Room(x)
    <3>1. More(propdefs', o, 1)
      BY <1>3, <1>4 DEF More
    <3>2. MoreRoom(propdefs', o, 1)
      BY <1>1, <1>3, <3>1, RoomWith
    <3> QED  BY <3>2 DEF MoreRoom
  <2> QED  BY <1>2, <2>1 DEF Room
<1>6. \A x \in Oid : o \in Line(parent, x) => pos(x) = (Room(x) - Room(o)) + (l + 1)
  BY <1>1, <1>3, OffsetRoom
<1> HIDE DEF pos
<1>7. \A x \in Oid : Room(x) \in Nat /\ (o \in Line(parent, x) => Room(o) <= Room(x)) /\ l <= Room(o)
  <2>1. Room(o) = l + Room(parent[o]) /\ Room(parent[o]) \in Nat /\ Room(o) \in Nat
    BY <1>1, RoomIs
  <2>2. l <= Room(o)
    BY <1>3, <2>1
  <2> QED  BY <1>1, <2>2, RoomIs, RoomAbove
<1>8. Elsewhere(o)
  BY <1>2, <1>3, <1>5 DEF Elsewhere, Below
<1>9. ASSUME NEW x \in Oid, o \in Line(parent, x)
      PROVE  propval'[x] = [i \in 1..Room(x) + 1 |->
                               IF i < pos(x) THEN At(propval[x], i)
                               ELSE IF i > pos(x) THEN At(propval[x], i - 1)
                               ELSE IF x = o THEN value ELSE CLEAR]
  <2>1. Count(parent, propdefs', x) = Room(x) + 1
    BY <1>2, <1>5, <1>9 DEF Room
  <2> QED  BY <1>2, <1>9, <2>1 DEF Below
\* Every value is one.
<1>10. Sized'
  <2> SUFFICES ASSUME NEW x \in Oid  PROVE propval'[x] \in [1..Room(x)' -> Values \cup {CLEAR}]
    BY DEF Sized
  <2>1. propval[x] \in [1..Room(x) -> Values \cup {CLEAR}]
    BY <1>1 DEF Sized
  <2>2. CASE o \notin Line(parent, x)
    BY <1>8, <2>1, <2>2 DEF Elsewhere
  <2>3. CASE o \in Line(parent, x)
    <3> DEFINE r == Room(x)
               q == pos(x)
               v == propval[x]
    <3>1. r \in Nat /\ q \in 1..r + 1
      BY <1>3, <1>6, <1>7, <2>3
    <3>2. Room(x)' = r + 1
      BY <1>5, <2>3
    <3>3. propval'[x] = [i \in 1..r + 1 |->
                            IF i < q THEN At(v, i) ELSE IF i > q THEN At(v, i - 1)
                            ELSE IF x = o THEN value ELSE CLEAR]
      BY <1>9, <2>3
    <3>4. v \in [1..r -> Values \cup {CLEAR}]
      BY <2>1
    <3> HIDE DEF r, q, v
    <3>5. ASSUME NEW i \in 1..r + 1
          PROVE  (IF i < q THEN At(v, i) ELSE IF i > q THEN At(v, i - 1)
                  ELSE IF x = o THEN value ELSE CLEAR) \in Values \cup {CLEAR}
      <4>1. CASE i < q
        <5>1. i \in 1..r
          BY <3>1, <4>1
        <5> QED  BY <3>4, <4>1, <5>1 DEF At
      <4>2. CASE i > q
        <5>1. i - 1 \in 1..r /\ ~ (i < q)
          BY <3>1, <4>2
        <5> QED  BY <3>4, <4>2, <5>1 DEF At
      <4>3. CASE ~ (i < q) /\ ~ (i > q)
        BY <4>3
      <4> QED  BY <4>1, <4>2, <4>3
    <3> QED  BY <3>2, <3>3, <3>5
  <2> QED  BY <2>2, <2>3
\* Places of names.
<1>11. \A m : Has(o, m) => Has(o, m)' /\ IndexOf(o, m)' = IndexOf(o, m)
  <2>1. (NamesInv => IndexKnown)'
    BY IndexIs, PTL
  <2>2. IndexKnown'
    BY <1>1, <2>1
  <2> SUFFICES ASSUME NEW m, Has(o, m)  PROVE Has(o, m)' /\ IndexOf(o, m)' = IndexOf(o, m)
    OBVIOUS
  <2> DEFINE i == IndexOf(o, m)
  <2>3. i \in 1..l /\ propdefs[o][i] = m
    BY <1>1, PlaceIs
  <2> HIDE DEF i, l
  <2>4. i \in 1..l + 1 /\ i <= l
    BY <1>3, <2>3
  <2>5. propdefs'[o][i] = m
    BY <1>4, <2>3, <2>4
  <2>6. Has(o, m)' /\ IndexOf(o, m)' = i
    BY <1>4, <2>2, <2>4, <2>5 DEF IndexKnown
  <2> QED  BY <2>6 DEF i
<1>12. Has(o, n)' /\ IndexOf(o, n)' = l + 1
  <2>1. (NamesInv => IndexKnown)'
    BY IndexIs, PTL
  <2>2. IndexKnown'
    BY <1>1, <2>1
  <2>3. l + 1 \in 1..l + 1 /\ ~ (l + 1 <= l)
    BY <1>3
  <2>4. propdefs'[o][l + 1] = n
    BY <1>4, <2>3
  <2> QED  BY <1>4, <2>2, <2>3, <2>4 DEF IndexKnown
<1>13. \A m : Has(o, m)' => Has(o, m) \/ m = n
  <2> SUFFICES ASSUME NEW m, Has(o, m)'  PROVE Has(o, m) \/ m = n
    OBVIOUS
  <2>1. \E i \in 1..l + 1 : propdefs'[o][i] = m
    <3>1. (NamesInv => HasKnown)'
      BY HasIsKnown, PTL
    <3>2. HasKnown'
      BY <1>1, <3>1
    <3> QED  BY <1>4, <3>2 DEF HasKnown
  <2>2. PICK i \in 1..l + 1 : propdefs'[o][i] = m
    BY <2>1
  <2>3. CASE i <= l
    <3>1. i \in 1..l /\ propdefs[o][i] = m
      BY <1>3, <1>4, <2>2, <2>3
    <3> QED  BY <1>1, <3>1, HasIs
  <2>4. CASE ~ (i <= l)
    BY <1>4, <2>2, <2>4
  <2> QED  BY <2>3, <2>4
<1>14. /\ \A x \in Line(parent, o) : ~ Has(x, n)
       /\ \A x \in Oid : o \in Line(parent, x) => ~ Has(x, n)
  BY <1>1, <1>2, MayDefineIs
\* Values that an object has already, below o.
<1>15. ASSUME NEW x \in Oid, o \in Line(parent, x), NEW m \in Names,
              NEW d \in Line(parent, x), Has(d, m)
       PROVE  Slot(x, d, m)' = Slot(x, d, m)
  <2>1. d \in Oid /\ IndexOf(d, m)' = IndexOf(d, m) /\ Place(x, d, m) \in 1..Room(x)
    BY <1>1, <1>8, <1>11, <1>15, NamesElsewhere, PlaceWithin
  <2> DEFINE i == Place(x, d, m)
             j == Place(x, d, m)'
             k == IndexOf(d, m)
             rx == Room(x)
             rd == Room(d)
             ro == Room(o)
             q == pos(x)
             v == propval[x]
  <2>2. i = (rx - rd) + k /\ j = (Room(x)' - Room(d)') + k
    BY <2>1 DEF Place
  <2>3. rx \in Nat /\ rd \in Nat /\ ro \in Nat /\ k \in Nat /\ i \in 1..rx
    <3>1. k \in Nat
      BY <1>1, <2>1, PlaceIs
    <3> QED  BY <1>7, <2>1, <3>1
  <2>4. q = (rx - ro) + (l + 1)
    BY <1>6, <1>15
  <2>5. Room(x)' = rx + 1 /\ Room(d)' = IF o \in Line(parent, d) THEN rd + 1 ELSE rd
    BY <1>5, <1>15, <2>1
  <2>6. /\ o \in Line(parent, d) /\ d # o => i <= rx - ro
        /\ o \notin Line(parent, d) => i >= (rx - ro) + (l + 1)
    BY <1>1, <1>15, Sides
  <2>7. d = o => rd = ro /\ k <= l
    BY <1>1, <1>15, PlaceIs
  <2>8. propval'[x] = [h \in 1..rx + 1 |->
                          IF h < q THEN At(v, h) ELSE IF h > q THEN At(v, h - 1)
                          ELSE IF x = o THEN value ELSE CLEAR]
    BY <1>9, <1>15
  <2>9. Slot(x, d, m)' = At(propval'[x], j) /\ Slot(x, d, m) = At(v, i)
    BY DEF Slot, At
  <2> HIDE DEF i, j, k, rx, rd, ro, q, v
  <2>10. CASE o \in Line(parent, d)
    <3>1. j = i
      BY <2>2, <2>3, <2>5, <2>10
    <3>2. j < q /\ j \in 1..rx + 1
      BY <1>3, <2>2, <2>3, <2>4, <2>6, <2>7, <2>10, <3>1
    <3>3. At(propval'[x], j) = At(v, j)
      BY <2>8, <3>2 DEF At
    <3> QED  BY <2>9, <3>1, <3>3
  <2>11. CASE o \notin Line(parent, d)
    <3>1. j = i + 1
      BY <2>2, <2>3, <2>5, <2>11
    <3>2. j > q /\ ~ (j < q) /\ j \in 1..rx + 1 /\ j - 1 = i
      BY <1>3, <2>3, <2>4, <2>6, <2>11, <3>1
    <3>3. At(propval'[x], j) = At(v, j - 1)
      BY <2>8, <3>2 DEF At
    <3> QED  BY <2>9, <3>2, <3>3
  <2> QED  BY <2>10, <2>11
\* The new one.
<1>16. ASSUME NEW x \in Oid, o \in Line(parent, x)
       PROVE  Slot(x, o, n)' = IF x = o THEN value ELSE CLEAR
  <2> DEFINE j == Place(x, o, n)'
             rx == Room(x)
             ro == Room(o)
             q == pos(x)
             v == propval[x]
  <2>1. j = (Room(x)' - Room(o)') + (l + 1)
    BY <1>12 DEF Place
  <2>2. o \in Line(parent, o)
    BY <1>1, LineUp
  <2>3. Room(x)' = rx + 1 /\ Room(o)' = ro + 1 /\ rx \in Nat /\ ro \in Nat /\ ro <= rx /\ l <= ro
    BY <1>5, <1>7, <1>16, <2>2
  <2>4. q = (rx - ro) + (l + 1)
    BY <1>6, <1>16
  <2>5. propval'[x] = [h \in 1..rx + 1 |->
                          IF h < q THEN At(v, h) ELSE IF h > q THEN At(v, h - 1)
                          ELSE IF x = o THEN value ELSE CLEAR]
    BY <1>9, <1>16
  <2>6. Slot(x, o, n)' = At(propval'[x], j)
    BY DEF Slot, At
  <2> DEFINE nx == Room(x)'
             no == Room(o)'
  <2>0. j = (nx - no) + (l + 1) /\ nx = rx + 1 /\ no = ro + 1 /\ l \in Nat
    BY <1>3, <2>1, <2>3
  <2> HIDE DEF j, rx, ro, q, v, nx, no, l
  <2>7. j = q /\ j \in 1..rx + 1 /\ ~ (j < q) /\ ~ (j > q)
    BY <2>0, <2>3, <2>4
  <2> QED  BY <2>5, <2>6, <2>7 DEF At
<1>17. ASSUME NEW x \in Oid, NEW m \in Names, ~ (x = o /\ m = n)
       PROVE  Carried(x, m)
  <2>1. CASE o \notin Line(parent, x)
    BY <1>1, <1>8, <2>1, CarriedElsewhere
  <2>2. CASE o \in Line(parent, x)
    <3> SUFFICES ASSUME NEW d \in Line(parent, x), Has(d, m)'
                 PROVE  Slot(x, d, m)' = IF Has(d, m) THEN Slot(x, d, m) ELSE CLEAR
      BY <1>2 DEF Carried
    <3>1. CASE Has(d, m)
      BY <1>15, <2>2, <3>1
    <3>2. CASE ~ Has(d, m)
      <4>1. d \in Oid
        BY <1>1, LineIs
      <4>2. d = o /\ m = n
        BY <1>8, <1>13, <3>2, <4>1, NamesElsewhere
      <4> QED  BY <1>16, <1>17, <2>2, <3>2, <4>2
    <3> QED  BY <3>1, <3>2
  <2> QED  BY <2>1, <2>2
<1>18. OwnValues' = [Keeping EXCEPT ![o][n] = value]
  <2>1. \A x \in Oid, m \in Names : ~ (x = o /\ m = n) => OwnValues'[x][m] = Keeping[x][m]
    BY <1>1, <1>17, KeptThere
  <2>2. OwnValues'[o][n] = value
    <3>1. (NamesInv => OwnKnown)'
      BY OwnIsKnown, PTL
    <3>2. OwnKnown'
      BY <1>1, <3>1
    <3>3. o \in Line(parent, o)
      BY <1>1, LineUp
    <3>4. OwnValues'[o][n] = Slot(o, o, n)'
      BY <1>2, <1>12, <3>2, <3>3 DEF OwnKnown
    <3> QED  BY <1>16, <3>3, <3>4
  <2>3. OwnValues' = [x \in Oid |-> [m \in Names |-> OwnValues'[x][m]]]
    BY OwnIsFunctionNext
  <2>4. \A x \in Oid, m \in Names : [Keeping EXCEPT ![o][n] = value][x][m] =
                                       IF x = o /\ m = n THEN value ELSE Keeping[x][m]
    BY KeepingIsFunction
  <2>5. [Keeping EXCEPT ![o][n] = value] =
           [x \in Oid |-> [m \in Names |-> [Keeping EXCEPT ![o][n] = value][x][m]]]
    BY KeepingIsFunction
  <2> QED  BY <2>1, <2>2, <2>3, <2>4, <2>5
<1>19. Defines' = [Defines EXCEPT ![o] = @ \cup {n}]
  <2>1. \A x \in Oid : Defines'[x] = IF x = o THEN Defines[o] \cup {n} ELSE Defines[x]
    <3>1. \A m : m \in Defines[o] <=> Has(o, m)
      BY DefinesIs
    <3>2. \A m : m \in Defines'[o] <=> Has(o, m)'
      BY DEF Defines, Has, ToSet, Range
    <3>3. \A m : m \in Defines'[o] <=> m \in Defines[o] \cup {n}
      BY <1>11, <1>12, <1>13, <3>1, <3>2
    <3>4. \A x \in Oid \ {o} : Defines'[x] = Defines[x]
      BY <1>3 DEF Defines
    <3> QED  BY <3>3, <3>4
  <2>2. Defines = [x \in Oid |-> Defines[x]] /\ Defines' = [x \in Oid |-> Defines'[x]]
    BY DEF Defines
  <2> QED  BY <2>1, <2>2
<1>20. Abstract!Unused(o, n)
  BY <1>1, <1>14, NamesUnused
<1> QED  BY <1>2, <1>10, <1>18, <1>19, <1>20 DEF Abstract!Add, Keeping

LEMMA KnownNext ==
    ASSUME NamesInv'
    PROVE  IndexKnown' /\ HasKnown' /\ OwnKnown'
<1>1. (NamesInv => IndexKnown)'
  BY IndexIs, PTL
<1>2. (NamesInv => HasKnown)'
  BY HasIsKnown, PTL
<1>3. (NamesInv => OwnKnown)'
  BY OwnIsKnown, PTL
<1> QED  BY <1>1, <1>2, <1>3

\* Of the definitions, only those of o change.
LEMMA DefinesElsewhere ==
    ASSUME NEW o \in Oid, Elsewhere(o), NEW S, \A m : Has(o, m)' <=> m \in S
    PROVE  Defines' = [Defines EXCEPT ![o] = S]
<1>1. \A m : m \in Defines'[o] <=> Has(o, m)'
  BY DEF Defines, Has, ToSet, Range
<1>2. Defines'[o] = S
  BY <1>1
<1>3. \A x \in Oid \ {o} : Defines'[x] = Defines[x]
  BY DEF Defines, Elsewhere
<1>4. Defines = [x \in Oid |-> Defines[x]] /\ Defines' = [x \in Oid |-> Defines'[x]]
  BY DEF Defines
<1> QED  BY <1>2, <1>3, <1>4

LEMMA DeleteArrays ==
    ASSUME ArraysInv, NEW o \in Oid, NEW n \in Names, DeletePropdef(o, n)
    PROVE  Sized' /\ Abstract!Delete(o, n)
<1>1. /\ NamesInv /\ Rooted /\ Sized /\ Tree(parent) /\ propdefs \in Lists /\ NamesInv'
      /\ IndexKnown /\ IndexKnown' /\ HasKnown'
  BY ArraysBasics, DeleteNames, KnownNext, IndexIs
<1> DEFINE s == propdefs[o]
           l == Len(propdefs[o])
           t == propdefs'[o]
           k == IndexOf(o, n)
           pos(x) == Offset(o, k, x)
<1>2. /\ o \in valid /\ k # 0 /\ valid' = valid /\ parent' = parent
      /\ propdefs' = [propdefs EXCEPT ![o] = RemoveAt(@, k)]
      /\ propval' = [x \in Oid |->
            IF x \notin Below(o) THEN propval[x]
            ELSE [i \in 1..Count(parent, propdefs', x) |->
                     At(propval[x], IF i < pos(x) THEN i ELSE i + 1)]]
  BY DEF DeletePropdef, RemoveBelow
<1>3. /\ s \in Seq(Names) /\ l \in Nat /\ k \in 1..l /\ s[k] = n /\ Has(o, n)
      /\ t = RemoveAt(s, k)
      /\ \A x \in Oid \ {o} : propdefs'[x] = propdefs[x]
      /\ propdefs' \in Lists
  <2>1. propdefs' \in Lists
    BY <1>1 DEF NamesInv, Rooted
  <2> QED  BY <1>1, <1>2, <2>1, PlaceIs DEF Lists
<1> HIDE DEF k
<1>4. Len(t) = l - 1 /\ \A i \in 1..l - 1 : t[i] = IF i < k THEN s[i] ELSE s[i + 1]
  BY <1>3, RemoveAtIs
<1>5. \A x \in Oid : Room(x)' = IF o \in Line(parent, x) THEN Room(x) - 1 ELSE Room(x)
  <2>1. More(propdefs', o, -1)
    <3> HIDE DEF l
    <3>1. Len(t) = l + (-1)
      BY <1>3, <1>4
    <3> QED  BY <1>3, <3>1 DEF More, l
  <2>2. MoreRoom(propdefs', o, -1)
    BY <1>1, <1>3, <2>1, RoomWith
  <2>3. \A x \in Oid : Room(x) \in Nat
    BY <1>1, RoomIs
  <2>4. \A x \in Oid : Room(x)' = Count(parent, propdefs', x)
    BY <1>2 DEF Room
  <2>5. \A x \in Oid : Room(x) + (-1) = Room(x) - 1
    BY <2>3
  <2> QED  BY <2>2, <2>4, <2>5 DEF MoreRoom
<1>6. \A x \in Oid : o \in Line(parent, x) => pos(x) = (Room(x) - Room(o)) + k
  <2>1. k \in Nat
    BY <1>3
  <2> QED  BY <1>1, <2>1, OffsetRoom
<1> HIDE DEF pos
<1>7. \A x \in Oid : Room(x) \in Nat /\ (o \in Line(parent, x) => Room(o) <= Room(x)) /\ l <= Room(o)
  <2>1. Room(o) = l + Room(parent[o]) /\ Room(parent[o]) \in Nat /\ Room(o) \in Nat
    BY <1>1, RoomIs
  <2>2. l <= Room(o)
    BY <1>3, <2>1
  <2> QED  BY <1>1, <2>2, RoomIs, RoomAbove
<1>8. Elsewhere(o)
  BY <1>2, <1>3, <1>5 DEF Elsewhere, Below
<1>9. ASSUME NEW x \in Oid, o \in Line(parent, x)
      PROVE  propval'[x] = [i \in 1..Room(x) - 1 |->
                               At(propval[x], IF i < pos(x) THEN i ELSE i + 1)]
  <2>1. Count(parent, propdefs', x) = Room(x) - 1
    BY <1>2, <1>5, <1>9 DEF Room
  <2> QED  BY <1>2, <1>9, <2>1 DEF Below
\* Every value is one.
<1>10. Sized'
  <2> SUFFICES ASSUME NEW x \in Oid  PROVE propval'[x] \in [1..Room(x)' -> Values \cup {CLEAR}]
    BY DEF Sized
  <2>1. propval[x] \in [1..Room(x) -> Values \cup {CLEAR}]
    BY <1>1 DEF Sized
  <2>2. CASE o \notin Line(parent, x)
    BY <1>8, <2>1, <2>2 DEF Elsewhere
  <2>3. CASE o \in Line(parent, x)
    <3> DEFINE r == Room(x)
               q == pos(x)
               v == propval[x]
    <3>1. r \in Nat
      BY <1>7
    <3>2. Room(x)' = r - 1
      BY <1>5, <2>3
    <3>3. propval'[x] = [i \in 1..r - 1 |-> At(v, IF i < q THEN i ELSE i + 1)]
      BY <1>9, <2>3
    <3>4. v \in [1..r -> Values \cup {CLEAR}]
      BY <2>1
    <3> HIDE DEF r, q, v
    <3>5. ASSUME NEW i \in 1..r - 1
          PROVE  At(v, IF i < q THEN i ELSE i + 1) \in Values \cup {CLEAR}
      <4>1. i \in 1..r /\ i + 1 \in 1..r
        BY <3>1
      <4> QED  BY <3>4, <4>1 DEF At
    <3> QED  BY <3>2, <3>3, <3>5
  <2> QED  BY <2>2, <2>3
\* Places of names.
<1>11. ASSUME NEW m, Has(o, m), m # n
       PROVE  /\ Has(o, m)' /\ IndexOf(o, m) \in 1..l /\ IndexOf(o, m) # k
              /\ IndexOf(o, m)' = IF IndexOf(o, m) < k THEN IndexOf(o, m) ELSE IndexOf(o, m) - 1
  <2> DEFINE i == IndexOf(o, m)
             j == IF i < k THEN i ELSE i - 1
  <2>1. i \in 1..l /\ s[i] = m
    BY <1>1, <1>11, PlaceIs
  <2> HIDE DEF i, l
  <2>2. i # k
    BY <1>3, <1>11, <2>1
  <2>3. j \in 1..l - 1 /\ t[j] = m
    <3>1. CASE i < k
      <4>1. j = i /\ i \in 1..l - 1
        BY <1>3, <2>1, <3>1
      <4> QED  BY <1>4, <2>1, <3>1, <4>1
    <3>2. CASE ~ (i < k)
      <4>1. j = i - 1 /\ i - 1 \in 1..l - 1 /\ ~ (i - 1 < k) /\ (i - 1) + 1 = i
        BY <1>3, <2>1, <2>2, <3>2
      <4> QED  BY <1>4, <2>1, <4>1
    <3> QED  BY <3>1, <3>2
  <2> HIDE DEF j
  <2>4. Has(o, m)' /\ IndexOf(o, m)' = j
    BY <1>1, <1>4, <2>3 DEF IndexKnown
  <2> QED  BY <2>1, <2>2, <2>4 DEF i, j
<1>12. \A m : Has(o, m)' => Has(o, m) /\ m # n
  <2> SUFFICES ASSUME NEW m, Has(o, m)'  PROVE Has(o, m) /\ m # n
    OBVIOUS
  <2>1. PICK i \in 1..l - 1 : t[i] = m
    BY <1>1, <1>4 DEF HasKnown
  <2> DEFINE j == IF i < k THEN i ELSE i + 1
  <2>2. j \in 1..l /\ j # k /\ s[j] = m
    <3> HIDE DEF l
    <3> QED  BY <1>3, <1>4, <2>1
  <2> HIDE DEF j
  <2>3. Has(o, s[j]) /\ IndexOf(o, s[j]) = j
    BY <1>1, <2>2 DEF IndexKnown
  <2>4. IndexOf(o, n) = k
    BY DEF k
  <2> QED  BY <2>2, <2>3, <2>4
\* The values that objects below o keep.
<1>13. ASSUME NEW x \in Oid, o \in Line(parent, x), NEW m \in Names,
              NEW d \in Line(parent, x), Has(d, m), d = o => m # n
       PROVE  Slot(x, d, m)' = Slot(x, d, m)
  <2>1. d \in Oid /\ Place(x, d, m) \in 1..Room(x)
    BY <1>1, <1>13, PlaceWithin
  <2> DEFINE i == Place(x, d, m)
             j == Place(x, d, m)'
             h == IndexOf(d, m)
             hn == IndexOf(d, m)'
             rx == Room(x)
             rd == Room(d)
             ro == Room(o)
             rdn == Room(d)'
             q == pos(x)
             v == propval[x]
  <2>2. i = (rx - rd) + h /\ j = (Room(x)' - rdn) + hn
    BY DEF Place
  <2>3. rx \in Nat /\ rd \in Nat /\ ro \in Nat /\ h \in Nat /\ i \in 1..rx /\ ro <= rx /\ l <= ro
    <3>1. h \in Nat
      BY <1>1, <2>1, PlaceIs
    <3> QED  BY <1>7, <1>13, <2>1, <3>1
  <2>4. q = (rx - ro) + k
    BY <1>6, <1>13
  <2>5. Room(x)' = rx - 1 /\ rdn = IF o \in Line(parent, d) THEN rd - 1 ELSE rd
    BY <1>5, <1>13, <2>1
  <2>6. /\ o \in Line(parent, d) /\ d # o => i <= rx - ro
        /\ o \notin Line(parent, d) => i >= (rx - ro) + (l + 1)
    BY <1>1, <1>13, Sides
  <2>7. d # o => hn = h
    BY <1>8, <2>1, NamesElsewhere
  <2>8. d = o => rd = ro /\ h \in 1..l /\ h # k /\ hn = IF h < k THEN h ELSE h - 1
    BY <1>11, <1>13
  <2>9. propval'[x] = [e \in 1..rx - 1 |-> At(v, IF e < q THEN e ELSE e + 1)]
    BY <1>9, <1>13
  <2>10. Slot(x, d, m)' = At(propval'[x], j) /\ Slot(x, d, m) = At(v, i)
    BY DEF Slot, At
  <2>11. o \in Line(parent, o) /\ k \in 1..l /\ l \in Nat
    BY <1>1, <1>3, LineUp
  <2>12. j = ((rx - 1) - rdn) + hn
    BY <2>2, <2>5
  <2> HIDE DEF i, j, h, hn, rx, rd, ro, rdn, q, v, l
  <2>13. j \in 1..rx - 1 /\ (IF j < q THEN j ELSE j + 1) = i
    <3>1. CASE o \in Line(parent, d) /\ d # o
      <4>1. rdn = rd - 1 /\ hn = h /\ i <= rx - ro
        BY <2>5, <2>6, <2>7, <3>1
      <4>2. j = i /\ j < q
        BY <2>2, <2>3, <2>4, <2>11, <2>12, <4>1
      <4> QED  BY <2>3, <2>11, <4>1, <4>2
    <3>2. CASE d = o
      <4>1. rdn = rd - 1 /\ rd = ro /\ h \in 1..l /\ h # k /\ hn = IF h < k THEN h ELSE h - 1
        BY <2>5, <2>8, <2>11, <3>2
      <4>2. CASE h < k
        <5>1. j = i /\ j < q
          BY <2>2, <2>3, <2>4, <2>11, <2>12, <4>1, <4>2
        <5>2. i <= rx - 1
          BY <2>2, <2>3, <2>11, <4>1, <4>2
        <5> QED  BY <2>3, <5>1, <5>2
      <4>3. CASE ~ (h < k)
        <5>1. j = i - 1 /\ ~ (j < q) /\ j >= 1
          BY <2>2, <2>3, <2>4, <2>11, <2>12, <4>1, <4>3
        <5> QED  BY <2>3, <5>1
      <4> QED  BY <4>2, <4>3
    <3>3. CASE o \notin Line(parent, d)
      <4>1. d # o
        BY <2>11, <3>3
      <4>2. rdn = rd /\ hn = h /\ i >= (rx - ro) + (l + 1)
        BY <2>5, <2>6, <2>7, <3>3, <4>1
      <4>3. j = i - 1
        BY <2>2, <2>3, <2>12, <4>2
      <4>4. ~ (j < q) /\ j >= 1
        BY <2>3, <2>4, <2>11, <4>2, <4>3
      <4> QED  BY <2>3, <4>3, <4>4
    <3> QED  BY <3>1, <3>2, <3>3
  <2>14. At(propval'[x], j) = At(v, i)
    BY <2>9, <2>13 DEF At
  <2> QED  BY <2>10, <2>14
<1>14. \A x \in Oid, m \in Names : Carried(x, m)
  <2> SUFFICES ASSUME NEW x \in Oid, NEW m \in Names  PROVE Carried(x, m)
    OBVIOUS
  <2>1. CASE o \notin Line(parent, x)
    BY <1>1, <1>8, <2>1, CarriedElsewhere
  <2>2. CASE o \in Line(parent, x)
    <3> SUFFICES ASSUME NEW d \in Line(parent, x), Has(d, m)'
                 PROVE  Has(d, m) /\ Slot(x, d, m)' = Slot(x, d, m)
      BY <1>2 DEF Carried
    <3>1. d \in Oid
      BY <1>1, LineIs
    <3>2. Has(d, m) /\ (d = o => m # n)
      BY <1>8, <1>12, <3>1, NamesElsewhere
    <3> QED  BY <1>13, <2>2, <3>2
  <2> QED  BY <2>1, <2>2
<1>15. OwnValues' = Keeping
  BY <1>1, <1>14, AllKept
<1>16. Defines' = [Defines EXCEPT ![o] = @ \ {n}] /\ n \in Defines[o]
  <2>1. \A m : m \in Defines[o] <=> Has(o, m)
    BY DefinesIs
  <2>2. \A m : Has(o, m)' <=> m \in Defines[o] \ {n}
    BY <1>11, <1>12, <2>1
  <2> HIDE DEF t, s, l
  <2>3. Defines' = [Defines EXCEPT ![o] = Defines[o] \ {n}]
    BY <1>8, <2>2, DefinesElsewhere
  <2> QED  BY <1>3, <2>1, <2>3
<1> QED  BY <1>2, <1>10, <1>15, <1>16 DEF Abstract!Delete, Keeping

LEMMA OwnStays ==
    ASSUME NamesInv, NamesInv', parent' = parent, NEW x \in Oid, NEW m \in Names,
           \A d \in Line(parent, x) :
               /\ Has(d, m)' <=> Has(d, m)
               /\ Has(d, m) => Slot(x, d, m)' = Slot(x, d, m)
    PROVE  OwnValues'[x][m] = OwnValues[x][m]
<1>1. OwnKnown /\ OwnKnown'
  BY OwnIsKnown, KnownNext
<1>2. CASE \A d \in Line(parent, x) : ~ Has(d, m)
  BY <1>1, <1>2 DEF OwnKnown
<1>3. ASSUME NEW d \in Line(parent, x), Has(d, m)  PROVE OwnValues'[x][m] = OwnValues[x][m]
  BY <1>1, <1>3 DEF OwnKnown
<1> QED  BY <1>2, <1>3

LEMMA RenameArrays ==
    ASSUME ArraysInv, NEW o \in Oid, NEW old \in Names, NEW n \in Names, RenamePropdef(o, old, n)
    PROVE  Sized' /\ Abstract!Rename(o, old, n)
<1>1. /\ NamesInv /\ Rooted /\ Sized /\ Tree(parent) /\ propdefs \in Lists /\ NamesInv'
      /\ IndexKnown /\ IndexKnown' /\ HasKnown' /\ OwnKnown /\ OwnKnown'
  BY ArraysBasics, RenameNames, KnownNext, IndexIs, OwnIsKnown
<1> DEFINE s == propdefs[o]
           l == Len(propdefs[o])
           t == propdefs'[o]
           k == IndexOf(o, old)
<1>2. /\ o \in valid /\ k # 0 /\ MayDefine(o, n) /\ valid' = valid /\ parent' = parent
      /\ propdefs' = [propdefs EXCEPT ![o] = [s EXCEPT ![k] = n]] /\ propval' = propval
  BY DEF RenamePropdef
<1>3. /\ s \in Seq(Names) /\ l \in Nat /\ k \in 1..l /\ s[k] = old /\ Has(o, old)
      /\ t = [s EXCEPT ![k] = n]
      /\ \A x \in Oid \ {o} : propdefs'[x] = propdefs[x]
      /\ propdefs' \in Lists
  <2>1. propdefs' \in Lists
    BY <1>1 DEF NamesInv, Rooted
  <2> QED  BY <1>1, <1>2, <2>1, PlaceIs DEF Lists
<1> HIDE DEF k
<1>4. Len(t) = l /\ \A i \in 1..l : t[i] = IF i = k THEN n ELSE s[i]
  BY <1>3, ExceptSeq
<1>5. \A x \in Oid : Room(x)' = Room(x)
  <2>1. More(propdefs', o, 0)
    <3> HIDE DEF l
    <3>1. Len(t) = l + 0
      BY <1>3, <1>4
    <3> QED  BY <1>3, <3>1 DEF More, l
  <2>2. MoreRoom(propdefs', o, 0)
    BY <1>1, <1>3, <2>1, RoomWith
  <2>3. \A x \in Oid : Room(x) \in Nat
    BY <1>1, RoomIs
  <2>4. \A x \in Oid : Room(x)' = Count(parent, propdefs', x)
    BY <1>2 DEF Room
  <2>5. \A x \in Oid : Room(x) + 0 = Room(x)
    BY <2>3
  <2> QED  BY <2>2, <2>4, <2>5 DEF MoreRoom
<1>6. Sized'
  BY <1>1, <1>2, <1>5 DEF Sized
<1>7. Elsewhere(o)
  BY <1>2, <1>3, <1>5 DEF Elsewhere
<1>8. /\ \A x \in Line(parent, o) : ~ Has(x, n)
      /\ \A x \in Oid : o \in Line(parent, x) => ~ Has(x, n)
  BY <1>1, <1>2, MayDefineIs
<1>9. o \in Line(parent, o) /\ old # n
  BY <1>1, <1>3, <1>8, LineUp
\* Places of names.
<1>10. \A m : Has(o, m) /\ m # old => Has(o, m)' /\ IndexOf(o, m)' = IndexOf(o, m)
  <2> SUFFICES ASSUME NEW m, Has(o, m), m # old  PROVE Has(o, m)' /\ IndexOf(o, m)' = IndexOf(o, m)
    OBVIOUS
  <2> DEFINE i == IndexOf(o, m)
  <2>1. i \in 1..l /\ s[i] = m
    BY <1>1, PlaceIs
  <2> HIDE DEF i
  <2>2. t[i] = m
    BY <1>3, <1>4, <2>1
  <2>3. Has(o, m)' /\ IndexOf(o, m)' = i
    BY <1>1, <1>4, <2>1, <2>2 DEF IndexKnown
  <2> QED  BY <2>3 DEF i
<1>11. Has(o, n)' /\ IndexOf(o, n)' = k
  <2>1. t[k] = n
    BY <1>3, <1>4
  <2> QED  BY <1>1, <1>3, <1>4, <2>1 DEF IndexKnown
<1>12. \A m : Has(o, m)' => m = n \/ (Has(o, m) /\ m # old)
  <2> SUFFICES ASSUME NEW m, Has(o, m)', m # n  PROVE Has(o, m) /\ m # old
    OBVIOUS
  <2>1. PICK i \in 1..l : t[i] = m
    BY <1>1, <1>4 DEF HasKnown
  <2>2. i # k /\ s[i] = m
    BY <1>4, <2>1
  <2>3. Has(o, s[i]) /\ IndexOf(o, s[i]) = i
    BY <1>1, <2>1 DEF IndexKnown
  <2>4. IndexOf(o, old) = k
    BY DEF k
  <2> QED  BY <2>2, <2>3, <2>4
\* Other objects have neither name, above o or below it.
<1>13. ASSUME NEW x \in Oid, o \in Line(parent, x), NEW d \in Line(parent, x), d # o
       PROVE  ~ Has(d, n) /\ ~ Has(d, old)
  <2>1. ~ Has(d, old)
    BY <1>1, <1>3, <1>13, OneDefiner
  <2>2. d \in Oid /\ (d \in Line(parent, o) \/ o \in Line(parent, d))
    BY <1>1, <1>13, LineIs, LineUp
  <2> QED  BY <1>8, <2>1, <2>2
\* Values stay where they are.
<1>14. ASSUME NEW x \in Oid, NEW d \in Line(parent, x), NEW m, IndexOf(d, m)' = IndexOf(d, m)
       PROVE  Slot(x, d, m)' = Slot(x, d, m)
  <2>1. d \in Oid
    BY <1>1, LineIs
  <2>2. Place(x, d, m)' = Place(x, d, m)
    BY <1>5, <1>14, <2>1 DEF Place
  <2> QED  BY <1>2, <2>2 DEF Slot
<1>15. ASSUME NEW x \in Oid, NEW m \in Names, o \in Line(parent, x) => m \notin {old, n}
       PROVE  OwnValues'[x][m] = OwnValues[x][m]
  <2>1. CASE o \notin Line(parent, x)
    <3>1. \A d \in Line(parent, x) : (Has(d, m)' <=> Has(d, m)) /\ Slot(x, d, m)' = Slot(x, d, m)
      BY <1>1, <1>7, <2>1, SameElsewhere
    <3> QED  BY <1>1, <1>2, <3>1, OwnStays
  <2>2. CASE o \in Line(parent, x)
    <3>1. ASSUME NEW d \in Line(parent, x)
          PROVE  (Has(d, m)' <=> Has(d, m)) /\ (Has(d, m) => IndexOf(d, m)' = IndexOf(d, m))
      <4>1. d \in Oid
        BY <1>1, LineIs
      <4>2. CASE d = o
        BY <1>10, <1>12, <1>15, <2>2, <4>2
      <4>3. CASE d # o
        BY <1>7, <4>1, <4>3, NamesElsewhere
      <4> QED  BY <4>2, <4>3
    <3>2. \A d \in Line(parent, x) : (Has(d, m)' <=> Has(d, m)) /\ (Has(d, m) => Slot(x, d, m)' = Slot(x, d, m))
      BY <1>14, <3>1
    <3> QED  BY <1>1, <1>2, <3>2, OwnStays
  <2> QED  BY <2>1, <2>2
<1>16. ASSUME NEW x \in Oid, o \in Line(parent, x)
       PROVE  OwnValues'[x][n] = OwnValues[x][old] /\ OwnValues'[x][old] = Garbage
  <2>1. OwnValues'[x][n] = Slot(x, o, n)' /\ OwnValues[x][old] = Slot(x, o, old)
    BY <1>1, <1>2, <1>3, <1>11, <1>16 DEF OwnKnown
  <2>2. Place(x, o, n)' = Place(x, o, old)
    BY <1>5, <1>11 DEF Place, k
  <2>3. Slot(x, o, n)' = Slot(x, o, old)
    BY <1>2, <2>2 DEF Slot
  <2>4. \A d \in Line(parent, x) : ~ Has(d, old)'
    <3> SUFFICES ASSUME NEW d \in Line(parent, x)  PROVE ~ Has(d, old)'
      OBVIOUS
    <3>1. d \in Oid
      BY <1>1, LineIs
    <3>2. CASE d = o
      BY <1>9, <1>12, <3>2
    <3>3. CASE d # o
      BY <1>7, <1>13, <1>16, <3>1, <3>3, NamesElsewhere
    <3> QED  BY <3>2, <3>3
  <2>5. OwnValues'[x][old] = Garbage
    BY <1>1, <1>2, <2>4 DEF OwnKnown
  <2> QED  BY <2>1, <2>3, <2>5
<1> DEFINE new == [x \in Oid |-> IF x \in Abstract!Below(parent, o)
                                 THEN [OwnValues[x] EXCEPT ![n] = OwnValues[x][old], ![old] = Garbage]
                                 ELSE OwnValues[x]]
<1>17. OwnValues' = new
  <2>1. \A x \in Oid : x \in Abstract!Below(parent, o) <=> o \in Line(parent, x)
    BY SameLine DEF Abstract!Below
  <2>2. ASSUME NEW x \in Oid
        PROVE  /\ new[x] = [m \in Names |-> new[x][m]]
               /\ \A m \in Names : OwnValues'[x][m] = new[x][m]
    <3>1. OwnValues[x] = [m \in Names |-> OwnValues[x][m]]
      BY OwnIsFunction
    <3>2. CASE o \notin Line(parent, x)
      <4>1. new[x] = OwnValues[x]
        BY <2>1, <3>2
      <4> HIDE DEF new
      <4> QED  BY <1>15, <3>1, <3>2, <4>1
    <3>3. CASE o \in Line(parent, x)
      <4>1. new[x] = [OwnValues[x] EXCEPT ![n] = OwnValues[x][old], ![old] = Garbage]
        BY <2>1, <3>3
      <4> HIDE DEF new
      <4>2. /\ new[x] = [m \in Names |-> new[x][m]]
            /\ \A m \in Names : new[x][m] = IF m = old THEN Garbage
                                            ELSE IF m = n THEN OwnValues[x][old] ELSE OwnValues[x][m]
        BY <3>1, <4>1
      <4> QED  BY <1>9, <1>15, <1>16, <3>3, <4>2
    <3> QED  BY <3>2, <3>3
  <2>3. OwnValues' = [x \in Oid |-> [m \in Names |-> OwnValues'[x][m]]]
    BY OwnIsFunctionNext
  <2>4. new = [x \in Oid |-> new[x]]
    OBVIOUS
  <2> HIDE DEF new
  <2>5. \A x \in Oid : OwnValues'[x] = new[x]
    BY <2>2, <2>3
  <2>6. OwnValues' = [x \in Oid |-> OwnValues'[x]]
    BY <2>3
  <2> QED  BY <2>4, <2>5, <2>6
<1>18. Defines' = [Defines EXCEPT ![o] = (@ \ {old}) \cup {n}] /\ old \in Defines[o]
  <2>1. \A m : m \in Defines[o] <=> Has(o, m)
    BY DefinesIs
  <2>2. \A m : Has(o, m)' <=> m \in (Defines[o] \ {old}) \cup {n}
    BY <1>10, <1>11, <1>12, <2>1
  <2> HIDE DEF t, s, l
  <2>3. Defines' = [Defines EXCEPT ![o] = (Defines[o] \ {old}) \cup {n}]
    BY <1>7, <2>2, DefinesElsewhere
  <2> QED  BY <1>3, <2>1, <2>3
<1>19. Abstract!Unused(o, n)
  BY <1>1, <1>8, NamesUnused
<1> QED  BY <1>2, <1>6, <1>17, <1>18, <1>19 DEF Abstract!Rename

\* Writing the value of one name.
LEMMA WriteArrays ==
    ASSUME ArraysInv, NamesInv', NEW o \in Oid, NEW n \in Names, NEW value \in Values \cup {CLEAR},
           parent' = parent, propdefs' = propdefs, Find(o, n) # NotFound,
           propval' = [propval EXCEPT ![o][Find(o, n).at] = value]
    PROVE  /\ Sized' /\ Defines' = Defines
           /\ OwnValues[o][n] # Garbage
           /\ OwnValues' = [OwnValues EXCEPT ![o][n] = value]
<1>1. /\ NamesInv /\ OwnSet /\ Sized /\ Tree(parent) /\ propdefs \in Lists
      /\ OwnKnown /\ OwnKnown'
  BY ArraysBasics, KnownNext, OwnIsKnown
<1> DEFINE k == Find(o, n).at
           v == propval[o]
<1>2. PICK d \in Line(parent, o) : Has(d, n) /\ Find(o, n).definer = d
  BY <1>1, FoundIfHad
<1>3. k = Place(o, d, n)
  <2>1. Find(o, n) = [definer |-> d, at |-> Place(o, d, n)]
    BY <1>1, <1>2, FindPlace
  <2> QED  BY <2>1
<1>4. k \in 1..Room(o)
  BY <1>1, <1>2, <1>3, PlaceWithin
<1> HIDE DEF k
<1>5. propval' = [propval EXCEPT ![o][k] = value]
  BY DEF k
<1>6. /\ \A x \in Oid : Room(x)' = Room(x)
      /\ \A x, m : Has(x, m)' <=> Has(x, m)
      /\ \A x, m : IndexOf(x, m)' = IndexOf(x, m)
  <2>1. \A x, m : IndexOf(x, m)' = IndexOf(x, m)
    BY DEF IndexOf, SelectInSeq
  <2>2. \A x : Room(x)' = Room(x)
    BY DEF Room
  <2> QED  BY <2>1, <2>2 DEF Has
<1>7. /\ DOMAIN propval = Oid /\ v \in [1..Room(o) -> Values \cup {CLEAR}]
      /\ propval'[o] = [v EXCEPT ![k] = value]
      /\ \A x \in Oid \ {o} : propval'[x] = propval[x]
  <2>1. DOMAIN propval = Oid
    BY <1>1 DEF OwnSet
  <2>2. v \in [1..Room(o) -> Values \cup {CLEAR}]
    BY <1>1 DEF Sized
  <2> QED  BY <1>5, <2>1, <2>2
<1>8. Sized'
  <2> SUFFICES ASSUME NEW x \in Oid  PROVE propval'[x] \in [1..Room(x)' -> Values \cup {CLEAR}]
    BY DEF Sized
  <2>1. CASE x = o
    <3> HIDE DEF v
    <3>1. propval'[o] \in [1..Room(o) -> Values \cup {CLEAR}]
      BY <1>7
    <3> QED  BY <1>6, <2>1, <3>1
  <2>2. CASE x # o
    BY <1>1, <1>6, <1>7, <2>2 DEF Sized
  <2> QED  BY <2>1, <2>2
<1>9. ASSUME NEW x \in Oid, NEW e \in Line(parent, x), NEW m
      PROVE  Place(x, e, m)' = Place(x, e, m)
  <2>1. e \in Oid
    BY <1>1, LineIs
  <2> QED  BY <1>6, <2>1 DEF Place
<1>10. ASSUME NEW x \in Oid, NEW m \in Names, ~ (x = o /\ m = n)
       PROVE  OwnValues'[x][m] = OwnValues[x][m]
  <2>1. ASSUME NEW e \in Line(parent, x), Has(e, m)  PROVE Slot(x, e, m)' = Slot(x, e, m)
    <3>1. CASE x # o
      BY <1>7, <1>9, <3>1 DEF Slot
    <3>2. CASE x = o
      <4>1. Layout[o][Place(o, e, m)] = m /\ Layout[o][Place(o, d, n)] = n
        BY <1>1, <1>2, <2>1, <3>2, LayoutIs
      <4>2. Place(o, e, m) # k
        BY <1>3, <1>10, <3>2, <4>1
      <4> DEFINE i == Place(o, e, m)
      <4>3. Slot(o, e, m)' = At(propval'[o], i) /\ Slot(o, e, m) = At(v, i)
        BY <1>9, <2>1, <3>2 DEF Slot, At
      <4> HIDE DEF i, v
      <4>4. i # k
        BY <4>2 DEF i
      <4>5. At(propval'[o], i) = At(v, i)
        BY <1>7, <4>4 DEF At
      <4> QED  BY <3>2, <4>3, <4>5
    <3> QED  BY <3>1, <3>2
  <2>2. \A e \in Line(parent, x) : (Has(e, m)' <=> Has(e, m)) /\ (Has(e, m) => Slot(x, e, m)' = Slot(x, e, m))
    BY <1>6, <2>1
  <2> QED  BY <1>1, <2>2, OwnStays
<1>11. OwnValues'[o][n] = value /\ OwnValues[o][n] # Garbage
  <2>1. OwnValues'[o][n] = Slot(o, d, n)' /\ OwnValues[o][n] = Slot(o, d, n)
    BY <1>1, <1>2, <1>6 DEF OwnKnown
  <2>2. Place(o, d, n)' = k /\ Place(o, d, n) = k
    BY <1>2, <1>3, <1>9
  <2>3. Slot(o, d, n)' = At(propval'[o], k) /\ Slot(o, d, n) = At(v, k)
    BY <2>2 DEF Slot, At
  <2> HIDE DEF v
  <2>4. At(propval'[o], k) = value /\ At(v, k) \in Values \cup {CLEAR}
    BY <1>4, <1>7 DEF At
  <2> QED  BY <2>1, <2>3, <2>4, SpecialAssumption
<1> DEFINE new == [OwnValues EXCEPT ![o][n] = value]
<1>12. OwnValues' = new
  <2>1. OwnValues = [x \in Oid |-> [m \in Names |-> OwnValues[x][m]]]
    BY OwnIsFunction
  <2>2. /\ \A x \in Oid, m \in Names : new[x][m] = IF x = o /\ m = n THEN value ELSE OwnValues[x][m]
        /\ new = [x \in Oid |-> [m \in Names |-> new[x][m]]]
    BY <2>1
  <2>3. OwnValues' = [x \in Oid |-> [m \in Names |-> OwnValues'[x][m]]]
    BY OwnIsFunctionNext
  <2> HIDE DEF new
  <2> QED  BY <1>10, <1>11, <2>2, <2>3
<1>13. Defines' = Defines
  BY DEF Defines
<1> QED  BY <1>8, <1>11, <1>12, <1>13

LEMMA SetArrays ==
    ASSUME ArraysInv, NEW o \in Oid, NEW n \in Names, NEW value \in Values, SetProperty(o, n, value)
    PROVE  Sized' /\ Abstract!Set(o, n, value)
<1>1. NamesInv'
  <2>1. NamesInv /\ Next
    BY ArraysBasics DEF Next
  <2> QED  BY <2>1, NamesNext
<1>2. /\ UNCHANGED <<valid, parent, propdefs>> /\ Find(o, n) # NotFound
      /\ propval' = [propval EXCEPT ![o][Find(o, n).at] = value]
  BY DEF SetProperty
<1>3. /\ Sized' /\ Defines' = Defines
      /\ OwnValues[o][n] # Garbage
      /\ OwnValues' = [OwnValues EXCEPT ![o][n] = value]
  BY <1>1, <1>2, WriteArrays
<1> QED  BY <1>2, <1>3 DEF Abstract!Set

LEMMA ClearArrays ==
    ASSUME ArraysInv, NEW o \in Oid, NEW n \in Names, ClearProperty(o, n)
    PROVE  Sized' /\ Abstract!Clear(o, n)
<1>1. NamesInv' /\ Tree(parent) /\ propdefs \in Lists
  <2>1. NamesInv /\ Next
    BY ArraysBasics DEF Next
  <2> QED  BY <2>1, NamesNext, ArraysBasics
<1>2. /\ UNCHANGED <<valid, parent, propdefs>>
      /\ Find(o, n) # NotFound /\ Find(o, n).definer # o
      /\ propval' = [propval EXCEPT ![o][Find(o, n).at] = CLEAR]
  BY DEF ClearProperty, MayClear
<1>3. /\ Sized' /\ Defines' = Defines
      /\ OwnValues[o][n] # Garbage
      /\ OwnValues' = [OwnValues EXCEPT ![o][n] = CLEAR]
  BY <1>1, <1>2, WriteArrays
<1>4. n \notin Defines[o]
  <2>1. ~ Has(o, n)
    BY <1>1, <1>2, FoundAt
  <2> QED  BY <2>1, DefinesIs
<1> QED  BY <1>2, <1>3, <1>4 DEF Abstract!Clear

-----------------------------------------------------------------------------
(* What becomes of the arrays when parents change.                         *)

\* The nearest ancestor that two objects have in common.
Common(a, b) ==
    LET both == Line(parent, a) \cap Line(parent, b)
    IN  IF both = {} THEN NOTHING ELSE CHOOSE x \in both : both \subseteq Line(parent, x)

LEMMA CommonIs ==
    ASSUME Tree(parent), NEW a \in Oid \cup {NOTHING}, NEW b \in Oid \cup {NOTHING}
    PROVE  /\ Common(a, b) \in Oid \cup {NOTHING}
           /\ Line(parent, Common(a, b)) = Line(parent, a) \cap Line(parent, b)
<1> DEFINE both(y) == Line(parent, y) \cap Line(parent, b)
           Met(y) == both(y) # {} => \E c \in both(y) : both(y) \subseteq Line(parent, c)
           S == {y \in Oid : Met(y)}
<1>1. ASSUME NEW y \in Oid, parent[y] # NOTHING => parent[y] \in S  PROVE Met(y)
  <2>1. Line(parent, y) = {y} \cup Line(parent, parent[y]) /\ Line(parent, NOTHING) = {}
    BY LineIs
  <2>2. CASE y \in Line(parent, b)
    <3>1. y \in both(y) /\ both(y) \subseteq Line(parent, y)
      BY <2>1, <2>2
    <3> QED  BY <3>1
  <2>3. CASE y \notin Line(parent, b)
    <3>1. both(y) = both(parent[y])
      BY <2>1, <2>3
    <3>2. CASE parent[y] = NOTHING
      BY <2>1, <3>1, <3>2
    <3>3. CASE parent[y] # NOTHING
      <4>1. Met(parent[y])
        BY <1>1, <3>3
      <4> HIDE DEF both
      <4> QED  BY <3>1, <4>1
    <3> QED  BY <3>2, <3>3
  <2> QED  BY <2>2, <2>3
<1>2. \A y \in Oid : y \in S
  <2>1. \A y \in Oid : (parent[y] # NOTHING => parent[y] \in S) => y \in S
    BY <1>1
  <2> HIDE DEF S
  <2> QED  BY <2>1, FromParents
<1>3. Met(a)
  <2>1. CASE a = NOTHING
    BY <2>1, LineIs
  <2>2. CASE a \in Oid
    BY <1>2, <2>2
  <2> QED  BY <2>1, <2>2
<1> DEFINE c == Common(a, b)
<1>4. CASE both(a) = {}
  <2>1. c = NOTHING
    BY <1>4 DEF Common
  <2> HIDE DEF c
  <2> QED  BY <1>4, <2>1, LineIs DEF c
<1>5. CASE both(a) # {}
  <2>1. c \in both(a) /\ both(a) \subseteq Line(parent, c)
    <3>1. c = CHOOSE x \in both(a) : both(a) \subseteq Line(parent, x)
      BY <1>5 DEF Common
    <3> HIDE DEF c, both
    <3> QED  BY <1>3, <1>5, <3>1
  <2> HIDE DEF c
  <2>2. a \in Oid /\ b \in Oid
    BY <1>5, LineIs
  <2>3. Line(parent, c) \subseteq both(a) /\ c \in Oid
    BY <2>1, <2>2, LineIs, LineUp
  <2> QED  BY <2>1, <2>3 DEF c
<1> QED  BY <1>4, <1>5

\* What o and the objects below it have of o and above it moves to p's.
LEMMA LineMoved ==
    ASSUME NEW up, Tree(up), NEW o \in Oid, NEW p \in Oid \cup {NOTHING}, o \notin Line(up, p),
           NEW new, new = [up EXCEPT ![o] = p]
    PROVE  /\ \A x \in Oid : o \in Line(up, x) =>
                 Line(new, x) \subseteq {y \in Line(up, x) : o \in Line(up, y)} \cup Line(up, p)
           /\ \A x \in Oid : o \notin Line(up, x) => Line(new, x) \subseteq Line(up, x)
<1>1. /\ Tree(new)
      /\ \A x \in Oid : Line(new, x) \subseteq
                           Line(up, x) \cup (IF o \in Line(up, x) THEN Line(up, p) ELSE {})
  BY Relinked
<1>2. new[o] = p /\ \A y \in Oid \ {o} : new[y] = up[y]
  BY DEF Tree, Links
<1>3. ASSUME NEW x \in Oid, o \in Line(up, x)
      PROVE  Line(new, x) \subseteq {y \in Line(up, x) : o \in Line(up, y)} \cup Line(up, p)
  <2> DEFINE T == {y \in Line(up, x) : o \in Line(up, y)} \cup Line(up, p)
  <2>1. ASSUME NEW y \in Oid, y \in T  PROVE new[y] = NOTHING \/ new[y] \in T
    <3>1. /\ Line(up, y) = {y} \cup Line(up, up[y]) /\ Line(up, NOTHING) = {}
          /\ up[y] \in Oid \cup {NOTHING}
      BY LineIs DEF Tree, Links
    <3>2. CASE y = o
      <4>1. p # NOTHING => p \in Line(up, p)
        BY LineUp
      <4> QED  BY <1>2, <3>2, <4>1
    <3>3. CASE y # o /\ y \in Line(up, x) /\ o \in Line(up, y)
      <4>1. o \in Line(up, up[y])
        BY <3>1, <3>3
      <4>2. up[y] \in Oid
        BY <3>1, <4>1
      <4>3. up[y] \in Line(up, up[y]) /\ Line(up, y) \subseteq Line(up, x)
        BY <3>3, <4>2, LineUp
      <4> QED  BY <1>2, <3>1, <3>3, <4>1, <4>3
    <3>4. CASE y # o /\ y \in Line(up, p)
      <4>1. p \in Oid
        BY <3>4, LineIs
      <4>2. Line(up, y) \subseteq Line(up, p)
        BY <3>4, <4>1, LineUp
      <4>3. up[y] # NOTHING => up[y] \in Line(up, up[y])
        BY <3>1, LineUp
      <4> QED  BY <1>2, <3>1, <3>4, <4>2, <4>3
    <3> QED  BY <2>1, <3>2, <3>3, <3>4
  <2>2. x \in T
    BY <1>3, LineUp
  <2> HIDE DEF T
  <2>3. Line(new, x) \subseteq T
    BY <1>1, <2>1, <2>2, LineLeast
  <2> QED  BY <2>3 DEF T
<1> QED  BY <1>1, <1>3

RoomsMove(up, new, defs, o, p) ==
    \A x \in Oid :
        /\ o \notin Line(up, x) => Count(new, defs, x) = Count(up, defs, x)
        /\ o \in Line(up, x) =>
              Count(new, defs, x) = (Count(up, defs, x) - Count(up, defs, up[o])) + Count(up, defs, p)

LEMMA RoomMoved ==
    ASSUME NEW up, Tree(up), NEW o \in Oid, NEW p \in Oid \cup {NOTHING}, o \notin Line(up, p),
           NEW new, new = [up EXCEPT ![o] = p], NEW defs, defs \in Lists
    PROVE  RoomsMove(up, new, defs, o, p)
<1>1. Tree(new)
  BY Relinked
<1>2. new[o] = p /\ \A y \in Oid \ {o} : new[y] = up[y]
  BY DEF Tree, Links
<1> DEFINE n(x) == Count(new, defs, x)
           c(x) == Count(up, defs, x)
           l(x) == Len(defs[x])
           Off(x) == o \notin Line(up, x) => n(x) = c(x)
           S == {x \in Oid : Off(x)}
           On(x) == o \in Line(up, x) => n(x) = (c(x) - c(up[o])) + c(p)
           T == {x \in Oid : On(x)}
<1>3. /\ n(NOTHING) = 0 /\ c(NOTHING) = 0
      /\ \A x \in Oid : /\ n(x) \in Nat /\ c(x) \in Nat /\ l(x) \in Nat
                        /\ n(x) = l(x) + n(new[x]) /\ c(x) = l(x) + c(up[x])
                        /\ n(new[x]) \in Nat /\ c(up[x]) \in Nat
  BY <1>1, CountIs
<1>4. /\ Line(up, NOTHING) = {}
      /\ \A x \in Oid : Line(up, x) = {x} \cup Line(up, up[x]) /\ up[x] \in Oid \cup {NOTHING}
  BY LineIs DEF Tree, Links
<1> HIDE DEF n, c, l
<1>5. ASSUME NEW x \in Oid, up[x] # NOTHING => up[x] \in S  PROVE Off(x)
  <2> SUFFICES ASSUME o \notin Line(up, x)  PROVE n(x) = c(x)
    OBVIOUS
  <2>1. x # o /\ o \notin Line(up, up[x])
    BY <1>4
  <2>2. new[x] = up[x]
    BY <1>2, <2>1
  <2>3. n(up[x]) = c(up[x])
    BY <1>3, <1>5, <2>1
  <2> QED  BY <1>3, <2>2, <2>3
<1>6. \A x \in Oid : Off(x)
  <2>1. \A x \in Oid : (up[x] # NOTHING => up[x] \in S) => x \in S
    BY <1>5
  <2>2. \A x \in Oid : x \in S
    <3> HIDE DEF S
    <3> QED  BY <2>1, FromParents
  <2> QED  BY <2>2
<1>7. n(p) = c(p) /\ c(p) \in Nat
  BY <1>3, <1>6
<1>8. ASSUME NEW x \in Oid, up[x] # NOTHING => up[x] \in T  PROVE On(x)
  <2> SUFFICES ASSUME o \in Line(up, x)  PROVE n(x) = (c(x) - c(up[o])) + c(p)
    OBVIOUS
  <2>1. CASE x = o
    <3>1. n(o) = l(o) + n(p) /\ c(o) = l(o) + c(up[o]) /\ l(o) \in Nat /\ c(up[o]) \in Nat
      BY <1>2, <1>3
    <3>2. n(o) = (c(o) - c(up[o])) + c(p)
      <4> DEFINE cu == c(up[o])
      <4> HIDE DEF cu
      <4> QED  BY <1>7, <3>1 DEF cu
    <3> QED  BY <2>1, <3>2
  <2>2. CASE x # o
    <3>1. new[x] = up[x] /\ o \in Line(up, up[x]) /\ up[x] # NOTHING
      BY <1>2, <1>4, <2>2
    <3>2. n(up[x]) = (c(up[x]) - c(up[o])) + c(p)
      BY <1>8, <3>1
    <3>3. n(x) = l(x) + n(up[x]) /\ c(x) = l(x) + c(up[x]) /\ l(x) \in Nat /\ c(up[x]) \in Nat /\ c(up[o]) \in Nat
      BY <1>3, <3>1
    <3> DEFINE cu == c(up[o])
               cx == c(up[x])
               nx == n(up[x])
    <3> HIDE DEF cu, cx, nx
    <3> QED  BY <1>7, <3>2, <3>3 DEF cu, cx, nx
  <2> QED  BY <2>1, <2>2
<1>9. \A x \in Oid : On(x)
  <2>1. \A x \in Oid : (up[x] # NOTHING => up[x] \in T) => x \in T
    BY <1>8
  <2>2. \A x \in Oid : x \in T
    <3> HIDE DEF T
    <3> QED  BY <2>1, FromParents
  <2> QED  BY <2>2
<1> QED  BY <1>6, <1>9 DEF n, c, RoomsMove

\* The arrays that fix_props() makes of one object x, when the part of its line
\* up to r is put on the line of "to".
Moved(r, to, x) ==
    /\ Line(parent', x) \subseteq {y \in Line(parent, x) : r \in Line(parent, y)} \cup Line(parent, to)
    /\ \A y \in Line(parent', x) : propdefs'[y] = propdefs[y]
    /\ \A y \in Line(parent, to) : Room(y)' = Room(y)
    /\ \A y \in Line(parent, x) : r \in Line(parent, y) =>
          Room(y)' = (Room(y) - Room(parent[r])) + Room(to)
    /\ propval'[x] = AfterChparent(r, parent[r], to, x)

LEMMA FixedIs ==
    ASSUME ArraysInv, NEW r \in Oid, NEW to \in Oid \cup {NOTHING}, NEW x \in Oid,
           r \in Line(parent, x), NEW c, c = Common(parent[r], to)
    PROVE  AfterChparent(r, parent[r], to, x) =
              FixProps(x, Room(x) - Room(parent[r]), Room(parent[r]) - Room(c), Room(to) - Room(c), Room(c))
<1>1. Tree(parent) /\ propdefs \in Lists
  BY ArraysBasics
<1>2. AfterChparent(r, parent[r], to, x) =
         FixProps(x, Offset(r, Len(propdefs[r]), x), Room(parent[r]) - Room(c), Room(to) - Room(c), Room(c))
  BY DEF AfterChparent, Common, Room
<1>3. Offset(r, Len(propdefs[r]), x) = Room(x) - Room(parent[r])
  <2> DEFINE l == Len(propdefs[r])
             ra == Room(parent[r])
             rr == Room(r)
             rx == Room(x)
  <2>1. l \in Nat /\ ra \in Nat /\ rr = l + ra /\ rx \in Nat
    BY <1>1, RoomIs
  <2>2. Offset(r, l, x) = (rx - rr) + l
    BY <1>1, <2>1, OffsetRoom
  <2> HIDE DEF l, ra, rr, rx
  <2>3. Offset(r, l, x) = rx - ra
    BY <2>1, <2>2
  <2> QED  BY <2>3 DEF l, ra, rx
<1> QED  BY <1>2, <1>3

\* The counts that fix_props() is called with.
LEMMA MovedRooms ==
    ASSUME ArraysInv, NEW r \in Oid, NEW to \in Oid \cup {NOTHING}, NEW x \in Oid,
           r \in Line(parent, x), NEW c, c = Common(parent[r], to)
    PROVE  /\ Room(x) \in Nat /\ Room(parent[r]) \in Nat /\ Room(to) \in Nat /\ Room(c) \in Nat
           /\ Room(parent[r]) <= Room(x) /\ Room(c) <= Room(parent[r]) /\ Room(c) <= Room(to)
           /\ c \in Oid \cup {NOTHING}
           /\ Line(parent, c) = Line(parent, parent[r]) \cap Line(parent, to)
<1>1. Tree(parent) /\ propdefs \in Lists /\ parent[r] \in Oid \cup {NOTHING}
  BY ArraysBasics DEF Tree, Links
<1>2. c \in Oid \cup {NOTHING} /\ Line(parent, c) = Line(parent, parent[r]) \cap Line(parent, to)
  BY <1>1, CommonIs
<1>3. Room(NOTHING) = 0 /\ \A y \in Oid : Room(y) \in Nat
  BY <1>1, RoomIs
<1>4. \A y \in Oid \cup {NOTHING} : Room(y) \in Nat
  BY <1>3
<1>5. Room(parent[r]) <= Room(x)
  <2>1. Room(r) = Len(propdefs[r]) + Room(parent[r]) /\ Len(propdefs[r]) \in Nat
    BY <1>1, RoomIs
  <2>2. Room(r) <= Room(x)
    BY <1>1, RoomAbove
  <2> DEFINE ra == Room(parent[r])
             rr == Room(r)
             rx == Room(x)
             l == Len(propdefs[r])
  <2>3. ra \in Nat /\ rx \in Nat /\ rr = l + ra /\ l \in Nat /\ rr <= rx
    BY <1>1, <1>4, <2>1, <2>2
  <2> HIDE DEF ra, rr, rx, l
  <2>4. ra <= rx
    BY <2>3
  <2> QED  BY <2>4 DEF ra, rx
<1>6. Room(c) <= Room(parent[r]) /\ Room(c) <= Room(to)
  <2>1. CASE c = NOTHING
    BY <1>1, <1>3, <1>4, <2>1
  <2>2. CASE c # NOTHING
    <3>1. c \in Line(parent, c)
      BY <1>1, <1>2, <2>2, LineUp
    <3>2. c \in Line(parent, parent[r]) /\ c \in Line(parent, to) /\ parent[r] \in Oid /\ to \in Oid
      BY <1>1, <1>2, <3>1, LineIs
    <3> QED  BY <1>1, <3>2, RoomAbove
  <2> QED  BY <2>1, <2>2
<1> QED  BY <1>1, <1>2, <1>4, <1>5, <1>6

LEMMA MovedSized ==
    ASSUME ArraysInv, NEW r \in Oid, NEW to \in Oid \cup {NOTHING}, NEW x \in Oid,
           r \in Line(parent, x), Moved(r, to, x)
    PROVE  propval'[x] \in [1..Room(x)' -> Values \cup {CLEAR}]
<1> DEFINE c == Common(parent[r], to)
           rx == Room(x)
           ra == Room(parent[r])
           rt == Room(to)
           rc == Room(c)
           local == rx - ra
           old == ra - rc
           new == rt - rc
           v == propval[x]
<1>1. rx \in Nat /\ ra \in Nat /\ rt \in Nat /\ rc \in Nat /\ ra <= rx /\ rc <= ra /\ rc <= rt
  BY MovedRooms
<1>2. propval'[x] = FixProps(x, local, old, new, rc)
  BY FixedIs DEF Moved
<1>3. Room(x)' = (rx - ra) + rt
  BY ArraysBasics, LineUp DEF Moved
<1>4. v \in [1..rx -> Values \cup {CLEAR}]
  BY ArraysBasics DEF Sized
<1> HIDE DEF c, rx, ra, rt, rc, v
<1>5. Room(x)' = local + new + rc
  BY <1>1, <1>3
<1>6. propval'[x] = [i \in 1..local + new + rc |->
                        IF i <= local THEN At(v, i)
                        ELSE IF i <= local + new THEN CLEAR
                        ELSE At(v, i - new + old)]
  BY <1>2 DEF FixProps, v
<1>7. ASSUME NEW i \in 1..local + new + rc
      PROVE  (IF i <= local THEN At(v, i)
              ELSE IF i <= local + new THEN CLEAR
              ELSE At(v, i - new + old)) \in Values \cup {CLEAR}
  <2>1. CASE i <= local
    <3>1. i \in 1..rx
      BY <1>1, <2>1
    <3> HIDE DEF local, old, new
    <3> QED  BY <1>4, <2>1, <3>1 DEF At
  <2>2. CASE ~ (i <= local) /\ i <= local + new
    <3> HIDE DEF local, old, new
    <3> QED  BY <2>2
  <2>3. CASE ~ (i <= local) /\ ~ (i <= local + new)
    <3>1. i - new + old \in 1..rx
      BY <1>1, <2>3
    <3> HIDE DEF local, old, new
    <3> QED  BY <1>4, <2>3, <3>1 DEF At
  <2> QED  BY <2>1, <2>2, <2>3
<1> HIDE DEF local, old, new
<1> QED  BY <1>5, <1>6, <1>7

LEMMA MovedCarried ==
    ASSUME ArraysInv, NamesInv', NEW r \in Oid, NEW to \in Oid \cup {NOTHING}, NEW x \in Oid,
           r \in Line(parent, x), r \notin Line(parent, to), Moved(r, to, x), NEW m \in Names
    PROVE  Carried(x, m)
<1> SUFFICES ASSUME NEW d \in Line(parent', x), Has(d, m)'
             PROVE  Slot(x, d, m)' = IF d \in Line(parent, x) /\ Has(d, m) THEN Slot(x, d, m) ELSE CLEAR
  BY DEF Carried
<1>1. NamesInv /\ Tree(parent) /\ propdefs \in Lists /\ parent[r] \in Oid \cup {NOTHING}
  BY ArraysBasics DEF Tree, Links
<1>2. Has(d, m) /\ IndexOf(d, m)' = IndexOf(d, m)
  <2>1. propdefs'[d] = propdefs[d]
    BY DEF Moved
  <2>2. IndexOf(d, m)' = IndexOf(d, m)
    BY <2>1 DEF IndexOf, SelectInSeq
  <2> QED  BY <2>1, <2>2 DEF Has
<1> DEFINE c == Common(parent[r], to)
           rx == Room(x)
           ra == Room(parent[r])
           rt == Room(to)
           rc == Room(c)
           rd == Room(d)
           h == IndexOf(d, m)
           local == rx - ra
           old == ra - rc
           new == rt - rc
           v == propval[x]
           i == Place(x, d, m)
           j == Place(x, d, m)'
<1>3. /\ rx \in Nat /\ ra \in Nat /\ rt \in Nat /\ rc \in Nat /\ ra <= rx /\ rc <= ra /\ rc <= rt
      /\ c \in Oid \cup {NOTHING}
      /\ Line(parent, c) = Line(parent, parent[r]) \cap Line(parent, to)
  BY MovedRooms
<1>4. propval'[x] = FixProps(x, local, old, new, rc)
  BY FixedIs DEF Moved
<1>5. (r \in Line(parent, d) /\ d \in Line(parent, x)) \/ d \in Line(parent, to)
  BY <1>1, LineIs DEF Moved
<1>6. d \in Oid
  BY <1>1, <1>5, LineIs
<1>7. h \in 1..Len(propdefs[d]) /\ rd = Len(propdefs[d]) + Room(parent[d])
      /\ Len(propdefs[d]) \in Nat /\ Room(parent[d]) \in Nat /\ rd \in Nat
  BY <1>1, <1>2, <1>6, PlaceIs, RoomIs
<1>8. i = (rx - rd) + h /\ j = (Room(x)' - Room(d)') + h
  BY <1>2 DEF Place
<1>9. Room(x)' = (rx - ra) + rt
  BY <1>1, LineUp DEF Moved
<1>10. Slot(x, d, m)' = At(propval'[x], j) /\ Slot(x, d, m) = At(v, i)
  BY DEF Slot, At
<1>11. propval'[x] = [e \in 1..local + new + rc |->
                         IF e <= local THEN At(v, e)
                         ELSE IF e <= local + new THEN CLEAR
                         ELSE At(v, e - new + old)]
  <2> HIDE DEF local, old, new, rc
  <2> QED  BY <1>4 DEF FixProps
<1>12. CASE r \in Line(parent, d) /\ d \in Line(parent, x)
  <2>1. Room(d)' = (rd - ra) + rt
    BY <1>12 DEF Moved
  <2>2. i \in 1..rx /\ i <= rx - Room(parent[d])
    BY <1>1, <1>2, <1>12, PlaceWithin
  <2>3. ra <= Room(parent[d])
    <3>1. CASE d = r
      BY <1>3, <3>1
    <3>2. CASE d # r
      <4>1. r \in Line(parent, parent[d])
        BY <1>1, <1>6, <1>12, <3>2, LineIs
      <4>2. parent[d] \in Oid
        BY <1>1, <1>6, <4>1, LineIs DEF Tree, Links
      <4> QED  BY <4>1, <4>2, MovedRooms
    <3> QED  BY <3>1, <3>2
  <2> DEFINE rpd == Room(parent[d])
             nx == Room(x)'
             nd == Room(d)'
  <2>4. nd = (rd - ra) + rt /\ nx = (rx - ra) + rt /\ j = (nx - nd) + h /\ i <= rx - rpd /\ ra <= rpd
        /\ rpd \in Nat /\ rd \in Nat /\ h \in Nat
    BY <1>7, <1>8, <1>9, <2>1, <2>2, <2>3
  <2> HIDE DEF c, rx, ra, rt, rc, rd, h, v, i, j, rpd, nx, nd
  <2>5. j = i
    BY <1>3, <1>8, <2>4
  <2>6. i <= local /\ i \in 1..local + new + rc
    BY <1>3, <2>2, <2>4
  <2>7. At(propval'[x], j) = At(v, i)
    <3> HIDE DEF local, new, old
    <3> QED  BY <1>11, <2>5, <2>6 DEF At
  <2> QED  BY <1>2, <1>10, <1>12, <2>7
<1>13. CASE d \in Line(parent, to) /\ d \in Line(parent, parent[r])
  <2>1. Room(d)' = rd
    BY <1>13 DEF Moved
  <2>2. d \in Line(parent, c) /\ c \in Oid
    BY <1>1, <1>3, <1>13, LineIs
  <2>3. rd <= rc
    BY <1>1, <2>2, RoomAbove
  <2>4. d \in Line(parent, x)
    <3>1. Line(parent, parent[r]) \subseteq Line(parent, r) /\ Line(parent, r) \subseteq Line(parent, x)
      BY <1>1, LineIs, LineUp
    <3> QED  BY <1>13, <3>1
  <2>5. i \in 1..rx
    BY <1>1, <1>2, <2>4, PlaceWithin
  <2> DEFINE nx == Room(x)'
             nd == Room(d)'
             l == Len(propdefs[d])
             rpd == Room(parent[d])
  <2>6. /\ nd = rd /\ nx = (rx - ra) + rt /\ j = (nx - nd) + h /\ rd <= rc /\ rd \in Nat
        /\ h \in 1..l /\ l \in Nat /\ rd = l + rpd /\ rpd \in Nat
    BY <1>7, <1>8, <1>9, <2>1, <2>3
  <2> HIDE DEF c, rx, ra, rt, rc, rd, h, v, i, j, nx, nd, l, rpd
  <2>7. j - new + old = i
    BY <1>3, <1>8, <2>6
  <2>8. ~ (j <= local) /\ ~ (j <= local + new) /\ j \in 1..local + new + rc
    BY <1>3, <2>6
  <2>9. At(propval'[x], j) = At(v, i)
    <3> HIDE DEF local, new, old
    <3> QED  BY <1>11, <2>7, <2>8 DEF At
  <2> QED  BY <1>2, <1>10, <2>4, <2>9
<1>14. CASE d \in Line(parent, to) /\ d \notin Line(parent, parent[r])
  <2>1. Room(d)' = rd
    BY <1>14 DEF Moved
  <2>2. to \in Oid
    BY <1>1, <1>14, LineIs
  <2>3. d \notin Line(parent, x)
    <3> SUFFICES ASSUME d \in Line(parent, x)  PROVE FALSE
      OBVIOUS
    <3>1. r \in Line(parent, d) \/ d \in Line(parent, r)
      BY <1>1, LineUp
    <3>2. r \notin Line(parent, d)
      BY <1>1, <1>14, <2>2, LineUp
    <3>3. d # r
      BY <1>14
    <3> QED  BY <1>1, <1>14, <3>1, <3>2, <3>3, LineIs
  <2>4. rc + Len(propdefs[d]) <= rd
    <3>1. CASE c = NOTHING
      <4>1. rc = 0
        BY <1>1, <3>1, RoomIs
      <4> DEFINE l == Len(propdefs[d])
                 rpd == Room(parent[d])
      <4>2. rd = l + rpd /\ l \in Nat /\ rpd \in Nat
        BY <1>7
      <4> HIDE DEF rc, rd, l, rpd
      <4>3. rc + l <= rd
        BY <4>1, <4>2
      <4> QED  BY <4>3 DEF l
    <3>2. CASE c # NOTHING
      <4>1. c \in Oid /\ c \in Line(parent, c)
        BY <1>1, <1>3, <3>2, LineUp
      <4>2. c \in Line(parent, to) /\ c \in Line(parent, parent[r])
        BY <1>3, <4>1
      <4>3. c \in Line(parent, d) \/ d \in Line(parent, c)
        BY <1>1, <1>14, <2>2, <4>2, LineUp
      <4>4. d \notin Line(parent, c)
        BY <1>3, <1>14
      <4>5. c # d
        BY <4>1, <4>4
      <4> QED  BY <1>1, <1>6, <4>3, <4>4, <4>5, RoomAbove
    <3> QED  BY <3>1, <3>2
  <2>5. rd <= rt
    BY <1>1, <1>14, <2>2, RoomAbove
  <2> DEFINE nx == Room(x)'
             nd == Room(d)'
             l == Len(propdefs[d])
  <2>6. /\ nd = rd /\ nx = (rx - ra) + rt /\ j = (nx - nd) + h /\ rc + l <= rd /\ rd <= rt
        /\ rd \in Nat /\ h \in 1..l /\ l \in Nat
    BY <1>7, <1>8, <1>9, <2>1, <2>4, <2>5
  <2> HIDE DEF c, rx, ra, rt, rc, rd, h, v, i, j, nx, nd, l
  <2>7. ~ (j <= local) /\ j <= local + new /\ j \in 1..local + new + rc
    BY <1>3, <2>6
  <2>8. At(propval'[x], j) = CLEAR
    <3> HIDE DEF local, new, old
    <3> QED  BY <1>11, <2>7 DEF At
  <2> QED  BY <1>10, <2>3, <2>8
<1> QED  BY <1>5, <1>12, <1>13, <1>14

LEMMA StillElsewhere ==
    ASSUME ArraysInv, NamesInv', NEW x \in Oid, Line(parent', x) \subseteq Line(parent, x),
           \A y \in Line(parent, x) : propdefs'[y] = propdefs[y] /\ Room(y)' = Room(y),
           propval'[x] = propval[x]
    PROVE  /\ propval'[x] \in [1..Room(x)' -> Values \cup {CLEAR}]
           /\ \A m \in Names : Carried(x, m)
<1>1. Tree(parent) /\ x \in Line(parent, x) /\ Sized
  BY ArraysBasics, LineUp
<1>2. propval'[x] \in [1..Room(x)' -> Values \cup {CLEAR}]
  BY <1>1 DEF Sized
<1>3. ASSUME NEW m \in Names, NEW d \in Line(parent', x), Has(d, m)'
      PROVE  d \in Line(parent, x) /\ Has(d, m) /\ Slot(x, d, m)' = Slot(x, d, m)
  <2>1. d \in Line(parent, x) /\ propdefs'[d] = propdefs[d] /\ Room(d)' = Room(d) /\ Room(x)' = Room(x)
    BY <1>1
  <2>2. Has(d, m)
    BY <1>3, <2>1 DEF Has
  <2>3. IndexOf(d, m)' = IndexOf(d, m)
    BY <2>1 DEF IndexOf, SelectInSeq
  <2>4. Place(x, d, m)' = Place(x, d, m)
    BY <2>1, <2>3 DEF Place
  <2> QED  BY <2>1, <2>2, <2>4 DEF Slot
<1>4. \A m \in Names : Carried(x, m)
  BY <1>3 DEF Carried
<1> QED  BY <1>2, <1>4

\* One object is put elsewhere, with what is below it.
LEMMA MoveArrays ==
    ASSUME ArraysInv, NamesInv', NEW o \in Oid, NEW p \in Oid \cup {NOTHING}, o \notin Line(parent, p),
           parent' = [parent EXCEPT ![o] = p], propdefs' = propdefs,
           \A x \in Oid : propval'[x] = IF o \in Line(parent, x) THEN AfterChparent(o, parent[o], p, x)
                                        ELSE propval[x]
    PROVE  Sized' /\ OwnValues' = Keeping /\ Defines' = Defines
<1>1. NamesInv /\ Tree(parent) /\ propdefs \in Lists
  BY ArraysBasics
<1>2. /\ \A x \in Oid : o \in Line(parent, x) =>
            Line(parent', x) \subseteq {y \in Line(parent, x) : o \in Line(parent, y)} \cup Line(parent, p)
      /\ \A x \in Oid : o \notin Line(parent, x) => Line(parent', x) \subseteq Line(parent, x)
  BY <1>1, LineMoved
<1>3. \A x \in Oid :
         /\ o \notin Line(parent, x) => Room(x)' = Room(x)
         /\ o \in Line(parent, x) => Room(x)' = (Room(x) - Room(parent[o])) + Room(p)
  <2>1. RoomsMove(parent, parent', propdefs, o, p)
    BY <1>1, RoomMoved
  <2>2. \A x \in Oid : Room(x)' = Count(parent', propdefs, x)
    BY DEF Room
  <2> QED  BY <2>1, <2>2 DEF Room, RoomsMove
<1>4. ASSUME NEW x \in Oid, NEW y \in Line(parent, x), o \notin Line(parent, x)
      PROVE  y \in Oid /\ o \notin Line(parent, y)
  BY <1>1, <1>4, LineIs, LineUp
<1>5. ASSUME NEW x \in Oid, o \notin Line(parent, x)
      PROVE  /\ propval'[x] \in [1..Room(x)' -> Values \cup {CLEAR}]
             /\ \A m \in Names : Carried(x, m)
  <2>1. Line(parent', x) \subseteq Line(parent, x)
    BY <1>2, <1>5
  <2>2. \A y \in Line(parent, x) : propdefs'[y] = propdefs[y] /\ Room(y)' = Room(y)
    BY <1>3, <1>4, <1>5
  <2>3. propval'[x] = propval[x]
    BY <1>5
  <2> QED  BY <2>1, <2>2, <2>3, StillElsewhere
<1>6. ASSUME NEW x \in Oid, o \in Line(parent, x)  PROVE Moved(o, p, x)
  <2>1. Line(parent', x) \subseteq {y \in Line(parent, x) : o \in Line(parent, y)} \cup Line(parent, p)
    BY <1>2, <1>6
  <2>2. \A y \in Line(parent, p) : Room(y)' = Room(y)
    <3> SUFFICES ASSUME NEW y \in Line(parent, p)  PROVE Room(y)' = Room(y)
      OBVIOUS
    <3>1. p \in Oid
      BY <1>1, LineIs
    <3> QED  BY <1>3, <1>4, <3>1
  <2>3. \A y \in Line(parent, x) : o \in Line(parent, y) => Room(y)' = (Room(y) - Room(parent[o])) + Room(p)
    BY <1>1, <1>3, LineIs
  <2> QED  BY <1>6, <2>1, <2>2, <2>3 DEF Moved
<1>7. ASSUME NEW x \in Oid, o \in Line(parent, x)
      PROVE  /\ propval'[x] \in [1..Room(x)' -> Values \cup {CLEAR}]
             /\ \A m \in Names : Carried(x, m)
  BY <1>6, <1>7, MovedSized, MovedCarried
<1>8. Sized'
  BY <1>5, <1>7 DEF Sized
<1>9. OwnValues' = Keeping
  <2>1. \A x \in Oid, m \in Names : Carried(x, m)
    BY <1>5, <1>7
  <2> QED  BY <1>1, <2>1, AllKept
<1> QED  BY <1>8, <1>9 DEF Defines

LEMMA ChparentArrays ==
    ASSUME ArraysInv, NEW o \in Oid, NEW p \in Oid \cup {NOTHING}, Chparent(o, p)
    PROVE  Sized' /\ Abstract!Chparent(o, p)
<1>1. NamesInv /\ Rooted /\ NamesInv' /\ Tree(parent)
  BY ArraysBasics, ChparentNames
<1>2. /\ o \in valid /\ p \in valid \cup {NOTHING} /\ o \notin Line(parent, p) /\ NoConflict(o, p)
      /\ parent' = [parent EXCEPT ![o] = p] /\ valid' = valid /\ propdefs' = propdefs
      /\ \A x \in Oid : propval'[x] = IF o \in Line(parent, x) THEN AfterChparent(o, parent[o], p, x)
                                      ELSE propval[x]
  BY DEF Chparent, Below
<1>3. Sized' /\ OwnValues' = Keeping /\ Defines' = Defines
  BY <1>1, <1>2, MoveArrays
<1>4. Abstract!NamesOf(Line(parent, p)) \cap Abstract!NamesOf(Abstract!Below(parent, o)) = {}
  <2> SUFFICES ASSUME NEW y \in Line(parent, p), NEW x \in Abstract!Below(parent, o),
                      NEW m, m \in Defines[y], m \in Defines[x]
               PROVE  FALSE
    BY DEF Abstract!NamesOf
  <2>1. x \in Oid /\ o \in Line(parent, x)
    BY SameLine DEF Abstract!Below
  <2>2. y \in Oid
    BY <1>1, LineIs
  <2>3. Has(x, m) /\ Has(y, m)
    BY <2>1, <2>2, DefinesIs
  <2> QED  BY <1>1, <1>2, <2>1, <2>3, NoConflictIs
<1>5. Abstract!Line(parent, p) = Line(parent, p)
  BY SameLine
<1> QED  BY <1>2, <1>3, <1>4, <1>5 DEF Abstract!Chparent, Keeping

LEMMA CreateArrays ==
    ASSUME ArraysInv, NEW o \in Oid, NEW p \in Oid \cup {NOTHING}, Create(o, p)
    PROVE  Sized' /\ Abstract!Create(o, p)
<1>1. NamesInv /\ Rooted /\ NamesInv' /\ Tree(parent) /\ OwnSet
  BY ArraysBasics, CreateNames
<1>2. /\ o \notin valid /\ p \in valid \cup {NOTHING} /\ valid' = valid \cup {o}
      /\ parent' = [parent EXCEPT ![o] = p] /\ propdefs' = propdefs
      /\ propval' = [propval EXCEPT ![o] = AfterChparent(o, NOTHING, p, o)]
  BY DEF Create
\* o has neither ancestors nor descendants.
<1>3. parent[o] = NOTHING /\ o \in Line(parent, o) /\ \A x \in Oid : o \in Line(parent, x) => x = o
  BY <1>1, <1>2, LineUp, NotAbove DEF Rooted
<1>4. o \notin Line(parent, p)
  <2>1. CASE p = NOTHING
    BY <1>1, <2>1, LineIs
  <2>2. CASE p \in Oid
    BY <1>2, <1>3, <2>2, NothingIsNoOid
  <2> QED  BY <2>1, <2>2
<1>5. \A x \in Oid : propval'[x] = IF o \in Line(parent, x) THEN AfterChparent(o, parent[o], p, x)
                                   ELSE propval[x]
  <2>1. DOMAIN propval = Oid
    BY <1>1 DEF OwnSet
  <2> QED  BY <1>2, <1>3, <2>1
<1>6. Sized' /\ OwnValues' = Keeping /\ Defines' = Defines
  BY <1>1, <1>2, <1>4, <1>5, MoveArrays
<1> QED  BY <1>2, <1>6 DEF Abstract!Create, Keeping

\* The children of o are given its parent.
Unlinks(up, new, o) ==
    new = [x \in Oid |-> IF x = o THEN NOTHING ELSE IF up[x] = o THEN up[o] ELSE up[x]]

LEMMA LineWithout ==
    ASSUME NEW up, Tree(up), NEW o \in Oid, NEW new, Unlinks(up, new, o)
    PROVE  /\ Tree(new) /\ Line(new, o) = {o}
           /\ \A x \in Oid : Line(new, x) \subseteq Line(up, x)
           /\ \A x \in Oid \ {o} : o \notin Line(new, x)
<1>1. Tree(new) /\ \A x \in Oid : Line(new, x) \subseteq Line(up, x)
  BY Unlinked DEF Unlinks
<1>2. Line(new, o) = {o}
  <2>1. new[o] = NOTHING
    BY DEF Unlinks
  <2> QED  BY <1>1, <2>1, LineIs
<1>3. ASSUME NEW x \in Oid \ {o}  PROVE o \notin Line(new, x)
  <2> DEFINE T == Oid \ {o}
  <2>1. up[o] # o /\ up[o] \in Oid \cup {NOTHING}
    <3>1. o \notin Line(up, up[o])
      BY NoLoop
    <3>2. up[o] = o => o \in Line(up, up[o])
      BY LineUp
    <3> QED  BY <3>1, <3>2 DEF Tree, Links
  <2>2. \A y \in Oid : y \in T => new[y] = NOTHING \/ new[y] \in T
    BY <2>1 DEF Unlinks, Tree, Links
  <2>3. x \in T
    OBVIOUS
  <2> HIDE DEF T
  <2>4. Line(new, x) \subseteq T
    BY <1>1, <2>2, <2>3, LineLeast
  <2> QED  BY <2>4 DEF T
<1> QED  BY <1>1, <1>2, <1>3

RoomsWithout(up, new, defs, after, o) ==
    /\ Count(new, after, o) = 0
    /\ \A x \in Oid \ {o} :
          Count(new, after, x) = IF o \in Line(up, x) THEN Count(up, defs, x) - Len(defs[o])
                                 ELSE Count(up, defs, x)

LEMMA RoomWithout ==
    ASSUME NEW up, Tree(up), NEW o \in Oid, NEW new, Unlinks(up, new, o),
           NEW defs, defs \in Lists, NEW after, after \in Lists, after[o] = <<>>,
           \A x \in Oid \ {o} : after[x] = defs[x]
    PROVE  RoomsWithout(up, new, defs, after, o)
<1>1. Tree(new)
  BY LineWithout
<1>2. new[o] = NOTHING /\ \A y \in Oid \ {o} : new[y] = IF up[y] = o THEN up[o] ELSE up[y]
  BY DEF Unlinks
<1> DEFINE n(x) == Count(new, after, x)
           c(x) == Count(up, defs, x)
           l(x) == Len(defs[x])
           Off(x) == o \notin Line(up, x) => n(x) = c(x)
           S == {x \in Oid : Off(x)}
           On(x) == x # o /\ o \in Line(up, x) => n(x) = c(x) - l(o)
           T == {x \in Oid : On(x)}
<1>3. /\ n(NOTHING) = 0 /\ c(NOTHING) = 0 /\ n(o) = 0
      /\ \A x \in Oid : /\ n(x) \in Nat /\ c(x) \in Nat /\ l(x) \in Nat
                        /\ x # o => n(x) = l(x) + n(new[x])
                        /\ c(x) = l(x) + c(up[x])
                        /\ n(new[x]) \in Nat /\ c(up[x]) \in Nat
  <2>1. Len(after[o]) = 0
    OBVIOUS
  <2>2. n(NOTHING) = 0 /\ \A x \in Oid : n(x) \in Nat /\ n(new[x]) \in Nat /\ n(x) = Len(after[x]) + n(new[x])
    BY <1>1, CountIs
  <2>3. /\ c(NOTHING) = 0
        /\ \A x \in Oid : c(x) \in Nat /\ l(x) \in Nat /\ c(up[x]) \in Nat /\ c(x) = l(x) + c(up[x])
    BY CountIs
  <2>4. \A x \in Oid \ {o} : Len(after[x]) = l(x)
    OBVIOUS
  <2>5. n(o) = Len(after[o]) + n(NOTHING)
    BY <1>2, <2>2
  <2> HIDE DEF n, c, l
  <2>6. n(o) = 0
    BY <2>1, <2>2, <2>5
  <2>7. ASSUME NEW x \in Oid, x # o  PROVE n(x) = l(x) + n(new[x])
    <3>1. n(x) = Len(after[x]) + n(new[x]) /\ Len(after[x]) = l(x)
      BY <2>2, <2>4, <2>7
    <3> HIDE DEF l
    <3> QED  BY <3>1
  <2> QED  BY <2>2, <2>3, <2>6, <2>7
<1>4. /\ Line(up, NOTHING) = {}
      /\ \A x \in Oid : Line(up, x) = {x} \cup Line(up, up[x]) /\ up[x] \in Oid \cup {NOTHING}
      /\ o \notin Line(up, up[o])
  BY LineIs, NoLoop DEF Tree, Links
<1> HIDE DEF n, c, l
<1>5. ASSUME NEW x \in Oid, up[x] # NOTHING => up[x] \in S  PROVE Off(x)
  <2> SUFFICES ASSUME o \notin Line(up, x)  PROVE n(x) = c(x)
    OBVIOUS
  <2>1. x # o /\ o \notin Line(up, up[x])
    BY <1>4
  <2>2. up[x] # o
    BY <2>1, LineUp
  <2>3. new[x] = up[x]
    BY <1>2, <2>1, <2>2
  <2>4. n(up[x]) = c(up[x])
    BY <1>3, <1>5, <2>1
  <2> QED  BY <1>3, <2>1, <2>3, <2>4
<1>6. \A x \in Oid : Off(x)
  <2>1. \A x \in Oid : (up[x] # NOTHING => up[x] \in S) => x \in S
    BY <1>5
  <2>2. \A x \in Oid : x \in S
    <3> HIDE DEF S
    <3> QED  BY <2>1, FromParents
  <2> QED  BY <2>2
<1>7. n(up[o]) = c(up[o])
  BY <1>3, <1>4, <1>6
<1>8. ASSUME NEW x \in Oid, up[x] # NOTHING => up[x] \in T  PROVE On(x)
  <2> SUFFICES ASSUME x # o, o \in Line(up, x)  PROVE n(x) = c(x) - l(o)
    OBVIOUS
  <2>1. n(x) = l(x) + n(new[x]) /\ c(x) = l(x) + c(up[x]) /\ l(x) \in Nat /\ c(up[x]) \in Nat /\ l(o) \in Nat
    BY <1>3
  <2> DEFINE lx == l(x)
             lo == l(o)
             cu == c(up[x])
             nx == n(new[x])
             co == c(up[o])
  <2>2. CASE up[x] = o
    <3>1. nx = co /\ cu = lo + co /\ co \in Nat
      BY <1>2, <1>3, <1>7, <2>2
    <3> HIDE DEF lx, lo, cu, nx, co
    <3> QED  BY <2>1, <3>1 DEF lx, lo, cu, nx
  <2>3. CASE up[x] # o
    <3>1. new[x] = up[x] /\ o \in Line(up, up[x]) /\ up[x] # NOTHING
      BY <1>2, <1>4, <2>3
    <3>2. nx = cu - lo
      BY <1>8, <2>3, <3>1
    <3> HIDE DEF lx, lo, cu, nx, co
    <3> QED  BY <2>1, <3>2 DEF lx, lo, cu, nx
  <2> QED  BY <2>2, <2>3
<1>9. \A x \in Oid : On(x)
  <2>1. \A x \in Oid : (up[x] # NOTHING => up[x] \in T) => x \in T
    BY <1>8
  <2>2. \A x \in Oid : x \in T
    <3> HIDE DEF T
    <3> QED  BY <2>1, FromParents
  <2> QED  BY <2>2
<1> QED  BY <1>3, <1>6, <1>9 DEF n, c, l, RoomsWithout

LEMMA NoValues == \A S : <<>> \in [1..0 -> S]
<1> SUFFICES ASSUME NEW S  PROVE <<>> \in [1..0 -> S]
  OBVIOUS
<1>1. <<>> \in Seq(S) /\ Len(<<>>) = 0
  OBVIOUS
<1> QED  BY <1>1, LenProperties

LEMMA RecycleArrays ==
    ASSUME ArraysInv, NEW o \in Oid, Recycle(o)
    PROVE  Sized' /\ Abstract!Recycle(o)
<1>1. NamesInv /\ Rooted /\ Tree(parent) /\ propdefs \in Lists /\ NamesInv'
  BY ArraysBasics, RecycleNames
<1> DEFINE Kids == {x \in Oid : parent[x] = o}
           KidAbove(x) == CHOOSE k \in Kids : x \in Below(k)
<1>2. /\ o \in valid /\ valid' = valid \ {o}
      /\ parent' = [x \in Oid |-> IF x = o THEN NOTHING
                                  ELSE IF parent[x] = o THEN parent[o] ELSE parent[x]]
      /\ propdefs' = [propdefs EXCEPT ![o] = <<>>]
      /\ propval' = [x \in Oid |->
                        IF x = o THEN <<>>
                        ELSE IF x \in Below(o) THEN AfterChparent(KidAbove(x), o, parent[o], x)
                        ELSE propval[x]]
  BY DEF Recycle
<1>3. propdefs'[o] = <<>> /\ propdefs' \in Lists /\ \A x \in Oid \ {o} : propdefs'[x] = propdefs[x]
  <2>1. propdefs' \in Lists
    BY <1>1 DEF NamesInv, Rooted
  <2> QED  BY <1>1, <1>2, <2>1 DEF Lists
<1>4. Unlinks(parent, parent', o)
  BY <1>2 DEF Unlinks
<1>5. /\ Line(parent', o) = {o}
      /\ \A x \in Oid : Line(parent', x) \subseteq Line(parent, x)
      /\ \A x \in Oid \ {o} : o \notin Line(parent', x)
  BY <1>1, <1>4, LineWithout
<1>6. /\ Room(o)' = 0
      /\ \A x \in Oid \ {o} : Room(x)' = IF o \in Line(parent, x) THEN Room(x) - Len(propdefs[o])
                                         ELSE Room(x)
  <2>1. RoomsWithout(parent, parent', propdefs, propdefs', o)
    BY <1>1, <1>3, <1>4, RoomWithout
  <2>2. \A x \in Oid : Room(x)' = Count(parent', propdefs', x)
    BY DEF Room
  <2> QED  BY <2>1, <2>2 DEF RoomsWithout, Room
<1>7. parent[o] \in Oid \cup {NOTHING} /\ o \notin Line(parent, parent[o])
      /\ Line(parent, o) = {o} \cup Line(parent, parent[o])
  BY <1>1, NoLoop, LineIs DEF Tree, Links
\* The object itself has nothing any more.
<1>8. /\ propval'[o] \in [1..Room(o)' -> Values \cup {CLEAR}]
      /\ \A m \in Names : Carried(o, m)
  <2>1. propval'[o] = <<>>
    BY <1>2
  <2>2. \A m : ~ Has(o, m)'
    <3>1. Range(<<>>) = {}
      BY DEF Range
    <3> QED  BY <1>3, <3>1 DEF Has
  <2>3. \A m \in Names : Carried(o, m)
    BY <1>5, <2>2 DEF Carried
  <2> QED  BY <1>6, <2>1, <2>3, NoValues
\* Others, not below it, stay.
<1>9. ASSUME NEW x \in Oid, o \notin Line(parent, x)
      PROVE  /\ propval'[x] \in [1..Room(x)' -> Values \cup {CLEAR}]
             /\ \A m \in Names : Carried(x, m)
  <2>1. \A y \in Line(parent, x) : y \in Oid \ {o} /\ o \notin Line(parent, y)
    BY <1>1, <1>9, LineIs, LineUp
  <2>2. \A y \in Line(parent, x) : propdefs'[y] = propdefs[y] /\ Room(y)' = Room(y)
    BY <1>3, <1>6, <2>1
  <2>3. propval'[x] = propval[x]
    <3>1. x # o /\ x \notin Below(o)
      BY <1>1, <1>9, LineUp DEF Below
    <3> QED  BY <1>2, <3>1
  <2> QED  BY <1>1, <1>5, <2>2, <2>3, StillElsewhere
\* Below a child, values are moved as by chparent() of the child.
<1>10. ASSUME NEW x \in Oid, o \in Line(parent, x), x # o
       PROVE  \E k \in Oid : /\ k \in Line(parent, x) /\ k \notin Line(parent, parent[o])
                             /\ Moved(k, parent[o], x)
  <2> DEFINE k == KidAbove(x)
  <2>1. k \in Oid /\ parent[k] = o /\ k \in Line(parent, x)
    <3>1. \E y \in Kids : x \in Below(y)
      BY <1>1, <1>10, KidIs DEF Below
    <3>2. k \in Kids /\ x \in Below(k)
      BY <3>1
    <3> QED  BY <3>2 DEF Below
  <2>2. propval'[x] = AfterChparent(k, parent[k], parent[o], x)
    <3>1. x \in Below(o)
      BY <1>10 DEF Below
    <3>2. propval'[x] = AfterChparent(k, o, parent[o], x)
      BY <1>2, <1>10, <3>1
    <3> HIDE DEF k
    <3> QED  BY <2>1, <3>2
  <2> HIDE DEF k
  <2>3. Line(parent, k) = {k} \cup Line(parent, o) /\ o \in Line(parent, k)
    BY <1>1, <2>1, LineIs, LineUp
  <2>4. k \notin Line(parent, parent[o])
    <3>1. k \notin Line(parent, o)
      BY <1>1, <2>1, NoLoop
    <3> QED  BY <1>7, <3>1
  <2>5. Line(parent', x) \subseteq {y \in Line(parent, x) : k \in Line(parent, y)} \cup Line(parent, parent[o])
    <3> SUFFICES ASSUME NEW y \in Line(parent', x), k \notin Line(parent, y)
                 PROVE  y \in Line(parent, parent[o])
      BY <1>5
    <3>1. y \in Line(parent, x) /\ y # o
      BY <1>5, <1>10
    <3>2. y \in Line(parent, k)
      BY <1>1, <2>1, <3>1, LineUp
    <3>3. y # k
      BY <1>1, <2>1, LineUp
    <3> QED  BY <1>7, <2>3, <3>1, <3>2, <3>3
  <2>6. \A y \in Line(parent', x) : propdefs'[y] = propdefs[y]
    <3>1. \A y \in Line(parent', x) : y \in Oid /\ y # o
      BY <1>1, <1>5, <1>10, LineIs
    <3> QED  BY <1>3, <3>1
  <2>7. \A y \in Line(parent, parent[o]) : Room(y)' = Room(y)
    <3> SUFFICES ASSUME NEW y \in Line(parent, parent[o])  PROVE Room(y)' = Room(y)
      OBVIOUS
    <3>1. parent[o] \in Oid
      BY <1>1, <1>7, LineIs
    <3>2. y \in Oid /\ o \notin Line(parent, y)
      BY <1>1, <1>7, <3>1, LineIs, LineUp
    <3>3. y # o
      BY <1>7
    <3> QED  BY <1>6, <3>2, <3>3
  <2>8. \A y \in Line(parent, x) : k \in Line(parent, y) =>
            Room(y)' = (Room(y) - Room(parent[k])) + Room(parent[o])
    <3> SUFFICES ASSUME NEW y \in Line(parent, x), k \in Line(parent, y)
                 PROVE  Room(y)' = (Room(y) - Room(o)) + Room(parent[o])
      BY <2>1
    <3>1. y \in Oid
      BY <1>1, LineIs
    <3>2. o \in Line(parent, y)
      BY <1>1, <2>3, <3>1, LineUp
    <3>3. y # o
      <4>1. k \notin Line(parent, o)
        BY <1>1, <2>1, NoLoop
      <4> QED  BY <4>1
    <3> DEFINE ry == Room(y)
               ro == Room(o)
               rp == Room(parent[o])
               l == Len(propdefs[o])
    <3>4. Room(y)' = ry - l
      BY <1>6, <3>1, <3>2, <3>3
    <3>5. ry \in Nat /\ ro = l + rp /\ l \in Nat /\ rp \in Nat
      BY <1>1, <3>1, RoomIs
    <3> HIDE DEF ry, ro, rp, l
    <3>6. ry - l = (ry - ro) + rp
      BY <3>5
    <3> QED  BY <3>4, <3>6 DEF ry, ro, rp
  <2>9. Moved(k, parent[o], x)
    BY <2>2, <2>5, <2>6, <2>7, <2>8 DEF Moved
  <2> QED  BY <2>1, <2>4, <2>9
<1>11. ASSUME NEW x \in Oid, o \in Line(parent, x), x # o
       PROVE  /\ propval'[x] \in [1..Room(x)' -> Values \cup {CLEAR}]
              /\ \A m \in Names : Carried(x, m)
  <2> DEFINE to == parent[o]
  <2>1. to \in Oid \cup {NOTHING}
    BY <1>7
  <2>2. PICK k \in Oid : k \in Line(parent, x) /\ k \notin Line(parent, to) /\ Moved(k, to, x)
    BY <1>10, <1>11
  <2> HIDE DEF to
  <2> QED  BY <1>1, <2>1, <2>2, MovedSized, MovedCarried
<1>12. Sized'
  BY <1>8, <1>9, <1>11 DEF Sized
<1>13. OwnValues' = Keeping
  <2>1. \A x \in Oid, m \in Names : Carried(x, m)
    BY <1>8, <1>9, <1>11
  <2> QED  BY <1>1, <2>1, AllKept
<1>14. Defines' = [Defines EXCEPT ![o] = {}]
  <2>1. Defines'[o] = {}
    BY <1>3 DEF Defines, ToSet
  <2>2. \A x \in Oid \ {o} : Defines'[x] = Defines[x]
    BY <1>3 DEF Defines
  <2>3. Defines = [x \in Oid |-> Defines[x]] /\ Defines' = [x \in Oid |-> Defines'[x]]
    BY DEF Defines
  <2> QED  BY <2>1, <2>2, <2>3
<1> QED  BY <1>2, <1>12, <1>13, <1>14 DEF Abstract!Recycle, Keeping

LEMMA ArraysInit == Init => ArraysInv /\ Abstract!Init
<1> SUFFICES ASSUME Init  PROVE ArraysInv /\ Abstract!Init
  OBVIOUS
<1>1. ValuesInv /\ NamesInv /\ OwnKnown /\ Tree(parent) /\ propdefs \in Lists
  BY ValuesInit, OwnIsKnown DEF ValuesInv, NamesInv, Rooted
<1>2. \A x \in Oid : parent[x] = NOTHING /\ propdefs[x] = <<>> /\ propval[x] = <<>>
  BY DEF Init
<1>3. \A x \in Oid : Room(x) = 0
  <2> SUFFICES ASSUME NEW x \in Oid  PROVE Room(x) = 0
    OBVIOUS
  <2>1. Room(x) = Len(propdefs[x]) + Room(NOTHING) /\ Room(NOTHING) = 0
    BY <1>1, <1>2, RoomIs
  <2>2. Len(propdefs[x]) = 0
    BY <1>2
  <2> QED  BY <2>1, <2>2
<1>4. ArraysInv
  BY <1>1, <1>2, <1>3, NoValues DEF ArraysInv, Sized
<1>5. \A x \in Oid : \A m : ~ Has(x, m)
  <2>1. Range(<<>>) = {}
    BY DEF Range
  <2> QED  BY <1>2, <2>1 DEF Has
<1>6. Defines = [x \in Oid |-> {}]
  <2>1. \A x \in Oid : Defines[x] = {}
    BY <1>5, DefinesIs
  <2> QED  BY <2>1 DEF Defines
<1>7. OwnValues = [x \in Oid |-> [m \in Names |-> Garbage]]
  <2>1. \A x \in Oid : Line(parent, x) \subseteq Oid
    BY <1>1, LineIs
  <2>2. \A x \in Oid, m \in Names : OwnValues[x][m] = Garbage
    BY <1>1, <1>5, <2>1 DEF OwnKnown
  <2> QED  BY <2>2, OwnIsFunction
<1>8. Abstract!Init
  BY <1>6, <1>7 DEF Init, Abstract!Init, Abstract!Blank
<1> QED  BY <1>4, <1>8

\* Each step of Properties is one of PropertyValues.
LEMMA ArraysNext ==
    ASSUME ArraysInv, [Next]_vars
    PROVE  ArraysInv' /\ [Abstract!Next]_<<valid, parent, Defines, OwnValues>>
<1>1. ValuesInv'
  BY ValuesNext DEF ArraysInv
<1>2. CASE UNCHANGED vars
  <2>1. Defines' = Defines /\ OwnValues' = OwnValues
    BY <1>2 DEF vars, Defines, OwnValues, Layout
  <2>2. Sized'
    BY <1>2 DEF vars, ArraysInv, Sized, Room
  <2> QED  BY <1>1, <1>2, <2>1, <2>2 DEF vars, ArraysInv
<1>3. ASSUME NEW o \in Oid, Recycle(o)  PROVE Sized' /\ Abstract!Next
  BY <1>3, RecycleArrays DEF Abstract!Next
<1>4. ASSUME NEW o \in Oid, NEW p \in Oid \cup {NOTHING}, Create(o, p) \/ Chparent(o, p)
      PROVE  Sized' /\ Abstract!Next
  BY <1>4, CreateArrays, ChparentArrays DEF Abstract!Next
<1>5. ASSUME NEW o \in Oid, NEW n \in Names, DeletePropdef(o, n)  PROVE Sized' /\ Abstract!Next
  BY <1>5, DeleteArrays DEF Abstract!Next
<1>6. ASSUME NEW o \in Oid, NEW n \in Names, NEW new \in Names, RenamePropdef(o, n, new)
      PROVE  Sized' /\ Abstract!Next
  BY <1>6, RenameArrays DEF Abstract!Next
<1>7. ASSUME NEW o \in Oid, NEW n \in Names, NEW value \in Values, AddPropdef(o, n, value)
      PROVE  Sized' /\ Abstract!Next
  BY <1>7, AddArrays DEF Abstract!Next
<1>8. ASSUME NEW o \in Oid, NEW n \in Names, NEW value \in Values, SetProperty(o, n, value)
      PROVE  Sized' /\ Abstract!Next
  BY <1>8, SetArrays DEF Abstract!Next
<1>9. ASSUME NEW o \in Oid, NEW n \in Names, ClearProperty(o, n)  PROVE Sized' /\ Abstract!Next
  BY <1>9, ClearArrays DEF Abstract!Next
<1>10. CASE Next
  <2>1. Sized' /\ Abstract!Next
    BY <1>3, <1>4, <1>5, <1>6, <1>7, <1>8, <1>9, <1>10 DEF Next
  <2> QED  BY <1>1, <2>1 DEF ArraysInv
<1> QED  BY <1>2, <1>10

\* insert_prop_recursively() and remove_prop_recursively() move values in the
\* arrays of all the objects below one, and fix_props() makes arrays anew from
\* counts alone.  Yet each object keeps its own value of each property, by its
\* name, for as long as it has it from the same definer; one that it gets from
\* elsewhere is clear; and no value is lost or given to another name.
THEOREM ValuesAreKept == Spec => ValuesKept
<1>1. Init => ArraysInv /\ Abstract!Init
  BY ArraysInit
<1>2. ArraysInv /\ [Next]_vars => ArraysInv' /\ [Abstract!Next]_<<valid, parent, Defines, OwnValues>>
  BY ArraysNext
<1> QED  BY <1>1, <1>2, PTL DEF Spec, ValuesKept, Abstract!Spec
=============================================================================
