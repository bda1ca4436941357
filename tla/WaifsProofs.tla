---------------------------- MODULE WaifsProofs -----------------------------
(***************************************************************************)
(* Proofs about Waifs, for any numbers of objects and waifs and any names  *)
(* and values: the list of names that a class holds is that of its         *)
(* properties, and every waif keeps what was put for the names it has.     *)
(* They rest on what ObjectTreeProofs proves of the links of the objects.  *)
(***************************************************************************)
EXTENDS ObjectTreeProofs, Waifs

-----------------------------------------------------------------------------
(* The names that an object defines and has.                               *)

\* No way up goes round, so each ends.
LEMMA LinksEnd ==
  ASSUME NEW link \in Links, Acyclic(link)
  PROVE  Founded(link)
<1> SUFFICES ASSUME NEW S \in SUBSET Oid, S # {}  PROVE \E x \in S : link[x] \notin S
  BY DEF Founded, Links
<1> DEFINE T == {Up(link, x) : x \in S}
<1>1. IsWellFoundedOn(StrictSubsetOrdering(Oid), FiniteSubsetsOf(Oid))
  BY FS_StrictSubsetOrderingWellFounded
<1>2. T \subseteq FiniteSubsetsOf(Oid) /\ T # {}
  <2>1. IsFiniteSet(Oid)
    BY MaxOidAssumption, FS_Interval DEF Oid
  <2>2. \A x \in S : Up(link, x) \in SUBSET Oid /\ IsFiniteSet(Up(link, x))
    BY <2>1, UpOK, FS_Subset
  <2> QED
    BY <2>2 DEF FiniteSubsetsOf
<1>3. PICK U \in T : \A V \in T : ~ (<<V, U>> \in StrictSubsetOrdering(Oid))
  <2> HIDE DEF T
  <2> QED
    BY <1>1, <1>2, WFMin
<1>4. PICK x \in S : U = Up(link, x)
  BY <1>3
<1>5. link[x] \notin S
  <2> SUFFICES ASSUME link[x] \in S PROVE FALSE
    OBVIOUS
  <2>1. x \in Oid /\ link[x] \in Oid /\ link[x] # NOTHING
    BY NothingIsNoOid
  <2>2. x \in Up(link, x) /\ Up(link, x) \in SUBSET Oid /\ ClosedUp(link, Up(link, x))
    BY <2>1, UpOK
  <2>3. link[x] \in Up(link, x) /\ x \notin Up(link, link[x])
    BY <2>1, <2>2 DEF ClosedUp, Acyclic
  <2>4. Up(link, link[x]) \subseteq Up(link, x) /\ Up(link, link[x]) # Up(link, x)
    BY <2>1, <2>2, <2>3, UpTransitive
  <2>5. Up(link, link[x]) \in T
    OBVIOUS
  <2> QED
    BY <1>3, <1>4, <2>2, <2>4, <2>5 DEF StrictSubsetOrdering
<1> QED
  BY <1>5

\* What holds of an object if it holds of its parent holds of all.
LEMMA FromParents ==
  ASSUME NEW link \in Links, Acyclic(link), NEW S,
         \A x \in Oid : (link[x] # NOTHING => link[x] \in S) => x \in S
  PROVE  Oid \subseteq S
<1>1. DOMAIN link = Oid /\ \A x \in Oid : link[x] # NOTHING <=> link[x] \in Oid
  BY NothingIsNoOid DEF Links, OidOrNothing
<1>2. \A x \in DOMAIN link : (link[x] \in DOMAIN link => link[x] \in S) => x \in S
  BY <1>1
<1> QED
  BY <1>1, <1>2, LinksEnd, FromTheRoots

\* A function told from that of the parent.
Told(f, link, D, base, step) ==
  /\ f \in [Oid -> D]
  /\ f = [x \in Oid |-> IF link[x] = NOTHING THEN base[x] ELSE step[x][f[link[x]]]]

LEMMA ToldFromParents ==
  ASSUME NEW link \in Links, Acyclic(link), NEW D,
         NEW base \in [Oid -> D], NEW step \in [Oid -> [D -> D]]
  PROVE  \E f : Told(f, link, D, base, step)
<1>1. DOMAIN link = Oid /\ \A x \in Oid : link[x] \in Oid <=> link[x] # NOTHING
  BY NothingIsNoOid DEF Links, OidOrNothing
<1>2. \E f : Grown(f, link, D, base, step)
  BY <1>1, LinksEnd, BuiltFromRoots
<1>3. PICK f : Grown(f, link, D, base, step)
  BY <1>2
<1>4. /\ f \in [Oid -> D]
      /\ \A x \in Oid : f[x] = IF link[x] = NOTHING THEN base[x] ELSE step[x][f[link[x]]]
  BY <1>1, <1>3 DEF Grown
<1>5. f = [x \in Oid |-> f[x]]
  BY <1>4
<1>6. Told(f, link, D, base, step)
  BY <1>4, <1>5 DEF Told
<1> QED
  BY <1>6

\* A walk up by Line() is one by Up().
LEMMA LineIsUp ==
  ASSUME NEW link \in Links, Acyclic(link)
  PROVE  \A o \in OidOrNothing : Line(link, o) = Up(link, o)
<1> DEFINE g == [x \in Oid |-> Up(link, x)]
           Upto(f) == f = [x \in Oid |-> {x} \cup (IF link[x] = NOTHING THEN {} ELSE f[link[x]])]
           h == CHOOSE f : Upto(f)
<1>1. \A o : Line(link, o) = IF o = NOTHING THEN {} ELSE h[o]
  BY DEF Line
<1>2. \A x \in Oid : Up(link, x) = {x} \cup (IF link[x] = NOTHING THEN {} ELSE Up(link, link[x]))
  <2> SUFFICES ASSUME NEW x \in Oid
               PROVE  Up(link, x) = {x} \cup (IF link[x] = NOTHING THEN {} ELSE Up(link, link[x]))
    OBVIOUS
  <2>1. x \in Up(link, x) /\ ClosedUp(link, Up(link, x)) /\ Up(link, x) \subseteq {x} \cup Up(link, link[x])
    BY UpOK, UpStep
  <2>2. CASE link[x] = NOTHING
    BY <2>1, <2>2, UpNothing
  <2>3. CASE link[x] # NOTHING
    <3>1. link[x] \in Up(link, x)
      BY <2>1, <2>3 DEF ClosedUp
    <3>2. Up(link, link[x]) \subseteq Up(link, x)
      BY <3>1, UpTransitive
    <3> QED
      BY <2>1, <2>3, <3>2
  <2> QED
    BY <2>2, <2>3
<1>3. \A x \in Oid : link[x] # NOTHING => link[x] \in Oid
  BY DEF Links, OidOrNothing
<1>4. Upto(g)
  BY <1>2, <1>3
<1>5. Upto(h)
  <2> HIDE DEF Upto, g
  <2> QED
    BY <1>4
<1>6. Oid \subseteq {x \in Oid : h[x] = Up(link, x)}
  <2> DEFINE S == {x \in Oid : h[x] = Up(link, x)}
  <2> HIDE DEF h, g
  <2>1. \A x \in Oid : (link[x] # NOTHING => link[x] \in S) => x \in S
    BY <1>2, <1>5
  <2> HIDE DEF S
  <2> QED
    BY <2>1, FromParents DEF S
<1> HIDE DEF h
<1> QED
  BY <1>1, <1>6, UpNothing DEF OidOrNothing

\* The names of waifs' properties among those that an object defines.
LEMMA ForWaifsIs ==
  ASSUME NEW s \in Seq(Names)
  PROVE  \E f \in [0..Len(s) -> Seq(Names)] :
            /\ \A i \in 0..Len(s) :
                  f[i] = IF i = 0 THEN <<>>
                         ELSE IF s[i] \in Plain THEN f[i - 1] ELSE Append(f[i - 1], s[i])
            /\ ForWaifs(s) = f[Len(s)]
<1> DEFINE n == Len(s)
           D == Seq(Names)
           step == [i \in 1..n |-> [d \in D |-> IF s[i] \in Plain THEN d ELSE Append(d, s[i])]]
           Upto(f) == f = [i \in 0..n |-> IF i = 0 THEN <<>>
                             ELSE IF s[i] \in Plain THEN f[i - 1] ELSE Append(f[i - 1], s[i])]
           h == CHOOSE f : Upto(f)
<1>0. n \in Nat /\ \A i \in 1..n : s[i] \in Names
  BY LenProperties, ElementOfSeq
<1>1. Steps(n, D, <<>>, step)
  BY <1>0, AppendProperties, EmptySeq DEF Steps
<1>2. PICK f : Built(f, n, D, <<>>, step)
  <2> HIDE DEF n, D, step
  <2> QED
    BY <1>1, StepByStep
<1>3. f \in [0..n -> D]
  BY <1>2 DEF Built
<1>4. \A i \in 0..n : f[i] = IF i = 0 THEN <<>>
                             ELSE IF s[i] \in Plain THEN f[i - 1] ELSE Append(f[i - 1], s[i])
  <2> SUFFICES ASSUME NEW i \in 0..n
               PROVE  f[i] = IF i = 0 THEN <<>>
                             ELSE IF s[i] \in Plain THEN f[i - 1] ELSE Append(f[i - 1], s[i])
    OBVIOUS
  <2>1. CASE i = 0
    BY <1>2, <2>1 DEF Built
  <2>2. CASE i # 0
    <3>1. i \in 1..n /\ i - 1 \in 0..n
      BY <1>0, <2>2
    <3>2. f[i] = step[i][f[i - 1]] /\ f[i - 1] \in D
      BY <1>2, <1>3, <3>1 DEF Built
    <3> QED
      BY <2>2, <3>1, <3>2
  <2> QED
    BY <2>1, <2>2
<1>5. Upto(f)
  <2>1. f = [i \in 0..n |-> f[i]]
    BY <1>3
  <2> QED
    BY <1>4, <2>1
<1>6. Upto(h)
  <2> HIDE DEF Upto
  <2> QED
    BY <1>5
<1>7. ForWaifs(s) = h[n]
  BY DEF ForWaifs
<1> DEFINE S == {i \in 0..n : h[i] = f[i]}
<1>8. 0..n \subseteq S
  <2>1. \A i \in 0..n : h[i] = IF i = 0 THEN <<>>
                             ELSE IF s[i] \in Plain THEN h[i - 1] ELSE Append(h[i - 1], s[i])
    <3> HIDE DEF h
    <3> QED
      BY <1>6
  <2> HIDE DEF h, n
  <2>2. 0 \in S /\ \A m \in 0..n - 1 : m \in S => m + 1 \in S
    BY <1>0, <1>4, <2>1
  <2> HIDE DEF S
  <2> QED
    BY <1>0, <2>2, CountingUp
<1>9. ForWaifs(s) = f[n]
  <2> HIDE DEF h
  <2> QED
    BY <1>0, <1>7, <1>8
<1> QED
  BY <1>3, <1>4, <1>9

\* A list and another, or one more name, at its end.
Joined(s, t) == s \o t
Added(s, x) == Append(s, x)

\* A list in which a name is replaced by another.
IsRenamed(s, t, old, new) ==
  /\ t \in Seq(Names) /\ Len(t) = Len(s)
  /\ \A i \in 1..Len(s) : t[i] = IF s[i] = old THEN new ELSE s[i]

LEMMA RenameIs ==
  ASSUME NEW s \in Seq(Names), NEW old \in Names, NEW new \in Names,
         NEW t, t = Rename(s, old, new)
  PROVE  IsRenamed(s, t, old, new)
<1>1. Len(s) \in Nat /\ DOMAIN s = 1..Len(s) /\ s \in [1..Len(s) -> Names]
  BY LenProperties
<1>2. t = [i \in 1..Len(s) |-> IF s[i] = old THEN new ELSE s[i]]
  BY <1>1 DEF Rename
<1>3. t \in [1..Len(s) -> Names]
  BY <1>1, <1>2
<1>4. t \in Seq(Names) /\ Len(t) = Len(s)
  BY <1>1, <1>3
<1>5. \A i \in 1..Len(s) : t[i] = IF s[i] = old THEN new ELSE s[i]
  BY <1>2
<1> QED
  BY <1>4, <1>5 DEF IsRenamed

LEMMA RenamedOnce ==
  ASSUME NEW s \in Seq(Names), NEW old, NEW new,
         NEW t, NEW u, IsRenamed(s, t, old, new), IsRenamed(s, u, old, new)
  PROVE  t = u
<1>1. /\ t \in Seq(Names) /\ u \in Seq(Names) /\ Len(t) = Len(u)
      /\ \A i \in 1..Len(t) : t[i] = u[i]
  BY DEF IsRenamed
<1> QED
  BY <1>1, SeqEqual

LEMMA NotRenamed ==
  ASSUME NEW s \in Seq(Names), NEW old \in Names, NEW new \in Names, old \notin ToSet(s)
  PROVE  Rename(s, old, new) = s
<1>1. \A i \in 1..Len(s) : s[i] # old
  BY LenProperties DEF ToSet
<1>2. IsRenamed(s, s, old, new)
  BY <1>1 DEF IsRenamed
<1> QED
  BY <1>2, RenameIs, RenamedOnce

LEMMA RenamedHas ==
  ASSUME NEW s \in Seq(Names), NEW old \in Names, NEW new \in Names,
         NEW t, t = Rename(s, old, new)
  PROVE  ToSet(t) \subseteq (ToSet(s) \ {old}) \cup {new}
<1>1. IsRenamed(s, t, old, new)
  BY RenameIs
<1>2. DOMAIN s = 1..Len(s) /\ DOMAIN t = 1..Len(s)
  BY <1>1, LenProperties DEF IsRenamed
<1> QED
  BY <1>1, <1>2 DEF ToSet, IsRenamed

LEMMA RenameAppended ==
  ASSUME NEW s \in Seq(Names), NEW old \in Names, NEW new \in Names, NEW x \in Names,
         NEW y \in Names, y = IF x = old THEN new ELSE x
  PROVE  Rename(Added(s, x), old, new) = Added(Rename(s, old, new), y)
<1> USE DEF Added
<1>1. PICK a : a = Append(s, x)
  OBVIOUS
<1>2. PICK t : t = Rename(s, old, new)
  OBVIOUS
<1>3. PICK b : b = Append(t, y)
  OBVIOUS
<1>4. /\ a \in Seq(Names) /\ Len(a) = Len(s) + 1
      /\ \A i \in 1..Len(s) : a[i] = s[i]
      /\ a[Len(s) + 1] = x
  BY <1>1, AppendProperties
<1>5. t \in Seq(Names) /\ Len(t) = Len(s) /\ \A i \in 1..Len(s) : t[i] = IF s[i] = old THEN new ELSE s[i]
  <2>1. IsRenamed(s, t, old, new)
    BY <1>2, RenameIs
  <2> QED
    BY <2>1 DEF IsRenamed
<1>7. /\ b \in Seq(Names) /\ Len(b) = Len(t) + 1
      /\ \A i \in 1..Len(t) : b[i] = t[i]
      /\ b[Len(t) + 1] = y
  BY <1>3, <1>5, AppendProperties
<1>8. Len(s) \in Nat
  BY LenProperties
<1>9. ASSUME NEW i \in 1..Len(a)  PROVE b[i] = IF a[i] = old THEN new ELSE a[i]
  <2>1. CASE i = Len(s) + 1
    BY <1>4, <1>5, <1>7, <2>1
  <2>2. CASE i # Len(s) + 1
    <3>1. i \in 1..Len(s)
      BY <1>4, <1>8, <2>2
    <3> QED
      BY <1>4, <1>5, <1>7, <3>1
  <2> QED
    BY <2>1, <2>2
<1>10. IsRenamed(a, b, old, new)
  BY <1>4, <1>5, <1>7, <1>9 DEF IsRenamed
<1>11. IsRenamed(a, Rename(a, old, new), old, new)
  BY <1>4, RenameIs
<1> QED
  BY <1>1, <1>2, <1>3, <1>4, <1>10, <1>11, RenamedOnce

LEMMA RenameJoined ==
  ASSUME NEW s \in Seq(Names), NEW t \in Seq(Names), NEW old \in Names, NEW new \in Names
  PROVE  Rename(Joined(s, t), old, new) = Joined(Rename(s, old, new), Rename(t, old, new))
<1> USE DEF Joined
<1>1. PICK a : a = s \o t
  OBVIOUS
<1>2. PICK u : u = Rename(s, old, new)
  OBVIOUS
<1>3. PICK v : v = Rename(t, old, new)
  OBVIOUS
<1>4. PICK b : b = u \o v
  OBVIOUS
<1>5. /\ a \in Seq(Names) /\ Len(a) = Len(s) + Len(t)
      /\ \A i \in 1..Len(s) + Len(t) : a[i] = IF i <= Len(s) THEN s[i] ELSE t[i - Len(s)]
  BY <1>1, ConcatProperties
<1>6. u \in Seq(Names) /\ Len(u) = Len(s) /\ \A i \in 1..Len(s) : u[i] = IF s[i] = old THEN new ELSE s[i]
  <2>1. IsRenamed(s, u, old, new)
    BY <1>2, RenameIs
  <2> QED
    BY <2>1 DEF IsRenamed
<1>7. v \in Seq(Names) /\ Len(v) = Len(t) /\ \A i \in 1..Len(t) : v[i] = IF t[i] = old THEN new ELSE t[i]
  <2>1. IsRenamed(t, v, old, new)
    BY <1>3, RenameIs
  <2> QED
    BY <2>1 DEF IsRenamed
<1>8. /\ b \in Seq(Names) /\ Len(b) = Len(u) + Len(v)
      /\ \A i \in 1..Len(u) + Len(v) : b[i] = IF i <= Len(u) THEN u[i] ELSE v[i - Len(u)]
  <2>1. u \in Seq(Names) /\ v \in Seq(Names)
    BY <1>6, <1>7
  <2> QED
    BY <1>4, <2>1, ConcatProperties
<1>9. Len(s) \in Nat /\ Len(t) \in Nat
  BY LenProperties
<1>10. ASSUME NEW i \in 1..Len(a)  PROVE b[i] = IF a[i] = old THEN new ELSE a[i]
  <2>0. i \in 1..Len(s) + Len(t) /\ i \in 1..Len(u) + Len(v)
    BY <1>5, <1>6, <1>7
  <2>1. CASE i <= Len(s)
    <3>1. i \in 1..Len(s) /\ i <= Len(u)
      BY <1>6, <1>9, <2>0, <2>1
    <3>2. b[i] = u[i] /\ a[i] = s[i]
      BY <1>5, <1>8, <2>0, <2>1, <3>1
    <3> QED
      BY <1>6, <3>1, <3>2
  <2>2. CASE ~ (i <= Len(s))
    <3>1. i - Len(s) \in 1..Len(t) /\ ~ (i <= Len(u)) /\ i - Len(u) = i - Len(s)
      BY <1>6, <1>9, <2>0, <2>2
    <3>2. b[i] = v[i - Len(s)] /\ a[i] = t[i - Len(s)]
      BY <1>5, <1>8, <2>0, <2>2, <3>1
    <3> QED
      BY <1>7, <3>1, <3>2
  <2> QED
    BY <2>1, <2>2
<1>11. IsRenamed(a, b, old, new)
  BY <1>5, <1>6, <1>7, <1>8, <1>10 DEF IsRenamed
<1>12. IsRenamed(a, Rename(a, old, new), old, new)
  BY <1>5, RenameIs
<1> QED
  BY <1>1, <1>2, <1>3, <1>4, <1>5, <1>11, <1>12, RenamedOnce

LEMMA AppendedHas ==
  ASSUME NEW s \in Seq(Names), NEW x \in Names
  PROVE  ToSet(Append(s, x)) = ToSet(s) \cup {x}
<1>1. PICK a : a = Append(s, x)
  OBVIOUS
<1>2. /\ a \in Seq(Names) /\ Len(a) = Len(s) + 1
      /\ \A i \in 1..Len(s) : a[i] = s[i]
      /\ a[Len(s) + 1] = x
      /\ Len(s) \in Nat
  BY <1>1, AppendProperties, LenProperties
<1>3. DOMAIN a = 1..Len(s) + 1 /\ DOMAIN s = 1..Len(s)
  BY <1>2, LenProperties
<1>4. \A i : i \in 1..Len(s) + 1 <=> i \in 1..Len(s) \/ i = Len(s) + 1
  BY <1>2
<1>5. {a[i] : i \in DOMAIN a} = {s[i] : i \in DOMAIN s} \cup {x}
  BY <1>2, <1>3, <1>4
<1> QED
  BY <1>1, <1>5 DEF ToSet

LEMMA JoinedHas ==
  ASSUME NEW s \in Seq(Names), NEW t \in Seq(Names)
  PROVE  ToSet(s \o t) = ToSet(s) \cup ToSet(t)
<1>1. \A u : Range(u) = ToSet(u)
  BY DEF Range, ToSet
<1> QED
  BY <1>1, RangeConcatenation

\* What is done to the names of waifs' properties is done to the names.
LEMMA ForWaifsHas ==
  ASSUME NEW s \in Seq(Names)
  PROVE  ForWaifs(s) \in Seq(Names) /\ ToSet(ForWaifs(s)) = ToSet(s) \ Plain
<1>1. PICK f \in [0..Len(s) -> Seq(Names)] :
            /\ \A i \in 0..Len(s) :
                  f[i] = IF i = 0 THEN <<>>
                         ELSE IF s[i] \in Plain THEN f[i - 1] ELSE Append(f[i - 1], s[i])
            /\ ForWaifs(s) = f[Len(s)]
  BY ForWaifsIs
<1>2. Len(s) \in Nat /\ DOMAIN s = 1..Len(s) /\ \A i \in 1..Len(s) : s[i] \in Names
  BY LenProperties, ElementOfSeq
<1> DEFINE S == {i \in 0..Len(s) : ToSet(f[i]) = {s[j] : j \in 1..i} \ Plain}
<1>3. 0 \in S
  BY <1>1, <1>2 DEF ToSet
<1>4. ASSUME NEW m \in 0..Len(s) - 1, m \in S PROVE m + 1 \in S
  <2> DEFINE k == m + 1
  <2>1. k \in 1..Len(s) /\ k - 1 = m /\ k # 0 /\ k \in 0..Len(s)
    BY <1>2
  <2>2. {s[j] : j \in 1..k} = {s[j] : j \in 1..m} \cup {s[k]}
    <3>1. \A j : j \in 1..k <=> j \in 1..m \/ j = k
      BY <1>2
    <3> HIDE DEF k
    <3> QED
      BY <3>1
  <2>3. f[m] \in Seq(Names) /\ s[k] \in Names
    BY <1>1, <1>2, <2>1
  <2>4. f[k] = IF s[k] \in Plain THEN f[m] ELSE Append(f[m], s[k])
    BY <1>1, <2>1
  <2>5. ToSet(Append(f[m], s[k])) = ToSet(f[m]) \cup {s[k]}
    BY <2>3, AppendedHas
  <2> HIDE DEF k
  <2>6. ToSet(f[k]) = {s[j] : j \in 1..k} \ Plain
    BY <1>4, <2>2, <2>4, <2>5
  <2>7. k \in S
    BY <2>1, <2>6
  <2> QED
    BY <2>7 DEF k
<1>5. 0..Len(s) \subseteq S
  <2> HIDE DEF S
  <2> QED
    BY <1>2, <1>3, <1>4, CountingUp
<1>6. ToSet(s) = {s[j] : j \in 1..Len(s)}
  BY <1>2 DEF ToSet
<1>7. Len(s) \in 0..Len(s) /\ Len(s) \in S
  <2>1. Len(s) \in 0..Len(s)
    BY <1>2
  <2> QED
    BY <1>5, <2>1
<1>8. ToSet(f[Len(s)]) = ToSet(s) \ Plain
  BY <1>6, <1>7
<1>9. f[Len(s)] \in Seq(Names)
  BY <1>2, <1>7
<1> QED
  BY <1>1, <1>8, <1>9

LEMMA ForWaifsRenamed ==
  ASSUME NEW s \in Seq(Names), NEW old \in Names \ Plain, NEW new \in Names \ Plain
  PROVE  ForWaifs(Rename(s, old, new)) = Rename(ForWaifs(s), old, new)
<1> DEFINE t == Rename(s, old, new)
           n == Len(s)
<1>1. n \in Nat /\ DOMAIN s = 1..n /\ \A i \in 1..n : s[i] \in Names
  BY LenProperties, ElementOfSeq
<1>2. t \in Seq(Names) /\ Len(t) = n /\ \A i \in 1..n : t[i] = IF s[i] = old THEN new ELSE s[i]
  BY RenameIs DEF IsRenamed
<1> HIDE DEF t
<1>3. PICK f \in [0..n -> Seq(Names)] :
            /\ \A i \in 0..n :
                  f[i] = IF i = 0 THEN <<>>
                         ELSE IF s[i] \in Plain THEN f[i - 1] ELSE Append(f[i - 1], s[i])
            /\ ForWaifs(s) = f[n]
  BY ForWaifsIs
<1>4. PICK g \in [0..n -> Seq(Names)] :
            /\ \A i \in 0..n :
                  g[i] = IF i = 0 THEN <<>>
                         ELSE IF t[i] \in Plain THEN g[i - 1] ELSE Append(g[i - 1], t[i])
            /\ ForWaifs(t) = g[n]
  BY <1>2, ForWaifsIs
<1> HIDE DEF n
<1> DEFINE S == {i \in 0..n : g[i] = Rename(f[i], old, new)}
<1>5. 0 \in S
  <2>1. f[0] = <<>> /\ g[0] = <<>>
    BY <1>1, <1>3, <1>4
  <2>2. Rename(<<>>, old, new) = <<>>
    <3>1. <<>> \in Seq(Names) /\ old \notin ToSet(<<>>)
      BY DEF ToSet
    <3> QED
      BY <3>1, NotRenamed
  <2> QED
    BY <1>1, <2>1, <2>2
<1>6. ASSUME NEW m \in 0..n - 1, m \in S PROVE m + 1 \in S
  <2> DEFINE k == m + 1
  <2>1. k \in 1..n /\ k - 1 = m /\ k # 0 /\ k \in 0..n /\ m \in 0..n
    BY <1>1
  <2> HIDE DEF k
  <2>2. f[k] = IF s[k] \in Plain THEN f[m] ELSE Append(f[m], s[k])
    BY <1>3, <2>1
  <2>3. g[k] = IF t[k] \in Plain THEN g[m] ELSE Append(g[m], t[k])
    BY <1>4, <2>1
  <2>4. g[m] = Rename(f[m], old, new) /\ f[m] \in Seq(Names) /\ s[k] \in Names
    BY <1>1, <1>3, <1>6, <2>1
  <2>5. t[k] = IF s[k] = old THEN new ELSE s[k]
    BY <1>2, <2>1
  <2>6. t[k] \in Plain <=> s[k] \in Plain
    BY <2>5
  <2>7. Rename(Append(f[m], s[k]), old, new) = Append(Rename(f[m], old, new), t[k])
    <3>1. t[k] \in Names
      BY <2>4, <2>5
    <3>2. PICK d, x, y : d = f[m] /\ x = s[k] /\ y = t[k]
      OBVIOUS
    <3>3. d \in Seq(Names) /\ x \in Names /\ y \in Names /\ y = IF x = old THEN new ELSE x
      BY <2>4, <2>5, <3>1, <3>2
    <3>4. Rename(Added(d, x), old, new) = Added(Rename(d, old, new), y)
      BY <3>3, RenameAppended
    <3> QED
      BY <3>2, <3>4 DEF Added
  <2>8. g[k] = Rename(f[k], old, new)
    BY <2>2, <2>3, <2>4, <2>6, <2>7
  <2>9. k \in S
    BY <2>1, <2>8
  <2> QED
    BY <2>9 DEF k
<1>7. 0..n \subseteq S
  <2> HIDE DEF S
  <2> QED
    BY <1>1, <1>5, <1>6, CountingUp
<1> QED
  BY <1>1, <1>3, <1>4, <1>7 DEF t

-----------------------------------------------------------------------------
(* The names that an object has, its own and those of its ancestors.       *)

LEMMA InheritedIs ==
  ASSUME NEW names \in [Oid -> Seq(Names)], NEW link \in Links, Acyclic(link)
  PROVE  \A x \in Oid :
            /\ Inherited(names, link, x) \in Seq(Names)
            /\ Inherited(names, link, x)
                  = ForWaifs(names[x]) \o IF link[x] = NOTHING THEN <<>>
                                          ELSE Inherited(names, link, link[x])
<1> DEFINE own == [x \in Oid |-> ForWaifs(names[x])]
           D == Seq(Names)
           base == [x \in Oid |-> own[x] \o <<>>]
           step == [x \in Oid |-> [d \in D |-> own[x] \o d]]
           Upto(f) == f = [x \in Oid |-> ForWaifs(names[x]) \o IF link[x] = NOTHING THEN <<>> ELSE f[link[x]]]
           h == CHOOSE f : Upto(f)
<1>1. own \in [Oid -> D] /\ <<>> \in D
  BY ForWaifsHas
<1>2. base \in [Oid -> D] /\ step \in [Oid -> [D -> D]]
  <2> HIDE DEF own
  <2> QED
    BY <1>1, ConcatProperties
<1>3. PICK f : Told(f, link, D, base, step)
  <2> HIDE DEF base, step, D
  <2> QED
    BY <1>2, ToldFromParents
<1>4. \A x \in Oid : link[x] # NOTHING => link[x] \in Oid
  BY DEF Links, OidOrNothing
<1>5. f \in [Oid -> D] /\ Upto(f)
  <2>1. f \in [Oid -> D] /\ f = [x \in Oid |-> IF link[x] = NOTHING THEN base[x] ELSE step[x][f[link[x]]]]
    BY <1>3 DEF Told
  <2>2. \A x \in Oid : f[x] = ForWaifs(names[x]) \o IF link[x] = NOTHING THEN <<>> ELSE f[link[x]]
    BY <1>4, <2>1
  <2>3. f = [x \in Oid |-> f[x]]
    BY <2>1
  <2> QED
    BY <2>1, <2>2, <2>3
<1>6. Upto(h)
  <2> HIDE DEF Upto
  <2> QED
    BY <1>5
<1>7. \A x : Inherited(names, link, x) = h[x]
  BY DEF Inherited
<1> HIDE DEF h, own, base, step
<1>8. Oid \subseteq {x \in Oid : h[x] = f[x]}
  <2> DEFINE S == {x \in Oid : h[x] = f[x]}
  <2>1. \A x \in Oid : (link[x] # NOTHING => link[x] \in S) => x \in S
    BY <1>5, <1>6
  <2> HIDE DEF S
  <2> QED
    BY <2>1, FromParents DEF S
<1>9. ASSUME NEW x \in Oid
      PROVE  h[x] \in D /\ h[x] = ForWaifs(names[x]) \o IF link[x] = NOTHING THEN <<>> ELSE h[link[x]]
  BY <1>5, <1>6, <1>8
<1> QED
  BY <1>7, <1>9

\* Objects that take others' numbers, and the rest that do not change, have the
\* names they had.
Carried(names, link, names2, link2, S, r) ==
  /\ S \subseteq Oid /\ ClosedUp(link, S) /\ r \in [S -> Oid]
  /\ \A x \in S : /\ names2[r[x]] = names[x]
                  /\ link2[r[x]] = IF link[x] = NOTHING THEN NOTHING ELSE r[link[x]]

LEMMA InheritedCarried ==
  ASSUME NEW names \in [Oid -> Seq(Names)], NEW link \in Links, Acyclic(link),
         NEW names2 \in [Oid -> Seq(Names)], NEW link2 \in Links, Acyclic(link2),
         NEW S, NEW r, Carried(names, link, names2, link2, S, r)
  PROVE  \A x \in S : Inherited(names2, link2, r[x]) = Inherited(names, link, x)
<1> USE DEF Carried
<1> DEFINE T == {x \in Oid : x \in S => Inherited(names2, link2, r[x]) = Inherited(names, link, x)}
<1>1. ASSUME NEW x \in Oid, link[x] # NOTHING => link[x] \in T  PROVE x \in T
  <2> SUFFICES ASSUME x \in S  PROVE Inherited(names2, link2, r[x]) = Inherited(names, link, x)
    OBVIOUS
  <2>1. /\ r[x] \in Oid /\ names2[r[x]] = names[x]
        /\ link2[r[x]] = IF link[x] = NOTHING THEN NOTHING ELSE r[link[x]]
    OBVIOUS
  <2>2. Inherited(names, link, x)
           = ForWaifs(names[x]) \o IF link[x] = NOTHING THEN <<>> ELSE Inherited(names, link, link[x])
    BY InheritedIs
  <2>3. PICK y : y = r[x]
    OBVIOUS
  <2>4. Inherited(names2, link2, y)
           = ForWaifs(names2[y]) \o IF link2[y] = NOTHING THEN <<>> ELSE Inherited(names2, link2, link2[y])
    BY <2>1, <2>3, InheritedIs
  <2>5. link[x] # NOTHING => link[x] \in S /\ link[x] \in Oid /\ r[link[x]] \in Oid
    BY DEF ClosedUp
  <2>6. link[x] # NOTHING => Inherited(names2, link2, r[link[x]]) = Inherited(names, link, link[x])
    BY <1>1, <2>5
  <2> QED
    BY <2>1, <2>2, <2>3, <2>4, <2>5, <2>6, NothingIsNoOid
<1>2. Oid \subseteq T
  <2> HIDE DEF T
  <2> QED
    BY <1>1, FromParents
<1> QED
  BY <1>2

CarriedOver(names, link, names2, link2, S, r) ==
  /\ names \in [Oid -> Seq(Names)] /\ names2 \in [Oid -> Seq(Names)]
  /\ link \in Links /\ link2 \in Links /\ Acyclic(link) /\ Acyclic(link2)
  /\ Carried(names, link, names2, link2, S, r)
SameInherited(names, link, names2, link2, S, r) ==
  \A x \in S : Inherited(names2, link2, r[x]) = Inherited(names, link, x)
LEMMA AllCarried ==
  ASSUME NEW names, NEW link, NEW names2, NEW link2, NEW S, NEW r,
         CarriedOver(names, link, names2, link2, S, r)
  PROVE  SameInherited(names, link, names2, link2, S, r)
<1>1. /\ names \in [Oid -> Seq(Names)] /\ names2 \in [Oid -> Seq(Names)]
      /\ link \in Links /\ link2 \in Links /\ Acyclic(link) /\ Acyclic(link2)
      /\ Carried(names, link, names2, link2, S, r)
  BY DEF CarriedOver
<1>2. \A x \in S : Inherited(names2, link2, r[x]) = Inherited(names, link, x)
  BY <1>1, InheritedCarried
<1> QED
  BY <1>2 DEF SameInherited

\* A name that no other object above x defines is renamed in what x has.
OneRenamed(names, oid, old, new) == [names EXCEPT ![oid] = Rename(@, old, new)]
NotElsewhere(names, link, oid, old, o) == \A y \in Up(link, o) \ {oid} : old \notin ToSet(names[y])
LEMMA InheritedRenamed ==
  ASSUME NEW names \in [Oid -> Seq(Names)], NEW link \in Links, Acyclic(link),
         NEW oid \in Oid, NEW old \in Names \ Plain, NEW new \in Names \ Plain,
         NEW names2, names2 = OneRenamed(names, oid, old, new),
         NEW o \in Oid, NotElsewhere(names, link, oid, old, o)
  PROVE  Inherited(names2, link, o) = Rename(Inherited(names, link, o), old, new)
<1> DEFINE Good(x) == Inherited(names2, link, x) = Rename(Inherited(names, link, x), old, new)
           T == {x \in Oid : x \in Up(link, o) => Good(x)}
<1>0. /\ names2 = [names EXCEPT ![oid] = Rename(names[oid], old, new)]
      /\ \A y \in Up(link, o) \ {oid} : old \notin ToSet(names[y])
  BY DEF OneRenamed, NotElsewhere
<1>1. names2 \in [Oid -> Seq(Names)]
  BY <1>0, RenameIs DEF IsRenamed
<1>2. o \in Up(link, o) /\ Up(link, o) \subseteq Oid /\ ClosedUp(link, Up(link, o))
  BY UpOK
<1>3. ASSUME NEW x \in Oid, link[x] # NOTHING => link[x] \in T  PROVE x \in T
  <2> SUFFICES ASSUME x \in Up(link, o)  PROVE Good(x)
    OBVIOUS
  <2>1. names[x] \in Seq(Names) /\ ForWaifs(names[x]) \in Seq(Names)
    BY ForWaifsHas
  <2>2. ForWaifs(names2[x]) = Rename(ForWaifs(names[x]), old, new)
    <3>1. CASE x = oid
      <4>1. names2[x] = Rename(names[x], old, new)
        BY <1>0, <3>1
      <4> QED
        BY <2>1, <4>1, ForWaifsRenamed
    <3>2. CASE x # oid
      <4>1. names2[x] = names[x] /\ old \notin ToSet(names[x])
        BY <1>0, <3>2
      <4>2. old \notin ToSet(ForWaifs(names[x]))
        BY <2>1, <4>1, ForWaifsHas
      <4> QED
        BY <2>1, <4>1, <4>2, NotRenamed
    <3> QED
      BY <3>1, <3>2
  <2>3. PICK d : d = IF link[x] = NOTHING THEN <<>> ELSE Inherited(names, link, link[x])
    OBVIOUS
  <2>4. PICK e : e = IF link[x] = NOTHING THEN <<>> ELSE Inherited(names2, link, link[x])
    OBVIOUS
  <2>5. link[x] # NOTHING => link[x] \in Up(link, o) /\ link[x] \in Oid
    BY <1>2 DEF ClosedUp
  <2>6. d \in Seq(Names)
    <3>1. <<>> \in Seq(Names)
      OBVIOUS
    <3> QED
      BY <2>3, <2>5, <3>1, InheritedIs
  <2>7. e = Rename(d, old, new)
    <3>1. CASE link[x] = NOTHING
      <4>1. <<>> \in Seq(Names) /\ old \notin ToSet(<<>>)
        BY DEF ToSet
      <4>2. Rename(<<>>, old, new) = <<>>
        BY <4>1, NotRenamed
      <4> QED
        BY <2>3, <2>4, <3>1, <4>2
    <3>2. CASE link[x] # NOTHING
      <4>1. Good(link[x])
        BY <1>3, <2>5, <3>2
      <4> QED
        BY <2>3, <2>4, <3>2, <4>1
    <3> QED
      BY <3>1, <3>2
  <2>8. Inherited(names, link, x) = ForWaifs(names[x]) \o d
    BY <2>3, InheritedIs
  <2>9. Inherited(names2, link, x) = ForWaifs(names2[x]) \o e
    BY <1>1, <2>4, InheritedIs
  <2>10. PICK f : f = ForWaifs(names[x])
    OBVIOUS
  <2>11. Rename(Joined(f, d), old, new) = Joined(Rename(f, old, new), Rename(d, old, new))
    BY <2>1, <2>6, <2>10, RenameJoined
  <2> QED
    BY <2>2, <2>7, <2>8, <2>9, <2>10, <2>11 DEF Joined
<1>4. Oid \subseteq T
  <2> HIDE DEF T
  <2> QED
    BY <1>3, FromParents
<1> QED
  BY <1>2, <1>4

-----------------------------------------------------------------------------
(* Who holds which list, and the counts of the lists.                      *)

Holder == Oid \cup Waif
Holds == [Holder -> Address \cup {Null}]
Held(of, ws) == [x \in Holder |-> IF x \in Oid THEN of[x] ELSE ws[x].propdefs]
HoldersOf(H, a) == {x \in Holder : H[x] = a}
Count(H, a) == Cardinality(HoldersOf(H, a))
ListRec == [refcount : Nat, defs : Seq(Names)]
CountRight(l, n) == l.refcount = n /\ (n = 0 => l = NoList)
Counted(L, H) ==
  /\ L \in [Address -> ListRec] /\ H \in Holds
  /\ \A a \in Address : CountRight(L[a], Count(H, a))

LEMMA HoldersFinite ==
  /\ IsFiniteSet(Holder) /\ Cardinality(Holder) = Cardinality(Oid) + Cardinality(Waif)
  /\ Cardinality(Oid) \in Nat /\ Cardinality(Waif) \in Nat
  /\ Address = 1..Cardinality(Holder) /\ Null \notin Address
  /\ \A S \in SUBSET Holder : IsFiniteSet(S) /\ Cardinality(S) \in Nat
<1>1. IsFiniteSet(Oid)
  BY MaxOidAssumption, FS_Interval DEF Oid
<1>2. IsFiniteSet(Waif) /\ Oid \cap Waif = {} /\ Null \notin Address
  BY WaifAssumption
<1>3. /\ IsFiniteSet(Holder)
      /\ Cardinality(Holder) = Cardinality(Oid) + Cardinality(Waif) - Cardinality({})
  BY <1>1, <1>2, FS_Union DEF Holder
<1>4. Cardinality(Oid) \in Nat /\ Cardinality(Waif) \in Nat /\ Cardinality({}) = 0
  BY <1>1, <1>2, FS_CardinalityType, FS_EmptySet
<1>5. \A S \in SUBSET Holder : IsFiniteSet(S) /\ Cardinality(S) \in Nat
  BY <1>3, FS_Subset, FS_CardinalityType
<1> QED
  BY <1>2, <1>3, <1>4, <1>5 DEF Address

LEMMA NoListIs == NoList \in ListRec /\ NoList.refcount = 0 /\ CountRight(NoList, 0)
<1>1. <<>> \in Seq(Names)
  OBVIOUS
<1> QED
  BY <1>1 DEF NoList, ListRec, CountRight

\* One holder less, and one more.
Lessened(H, H2, x) ==
  \A a \in Address : Count(H2, a) = IF H[x] = a THEN Count(H, a) - 1 ELSE Count(H, a)
Increased(H, H2, b) ==
  \A a \in Address : Count(H2, a) = IF a = b THEN Count(H, a) + 1 ELSE Count(H, a)

LEMMA CountType ==
  ASSUME NEW H, NEW a
  PROVE  /\ HoldersOf(H, a) \in SUBSET Holder /\ IsFiniteSet(HoldersOf(H, a))
         /\ Count(H, a) \in Nat
         /\ Count(H, a) = 0 <=> HoldersOf(H, a) = {}
<1>1. HoldersOf(H, a) \in SUBSET Holder
  BY DEF HoldersOf
<1>2. IsFiniteSet(HoldersOf(H, a)) /\ Count(H, a) \in Nat
  BY <1>1, HoldersFinite DEF Count
<1>3. Count(H, a) = 0 <=> HoldersOf(H, a) = {}
  BY <1>2, FS_EmptySet DEF Count
<1> QED
  BY <1>1, <1>2, <1>3

LEMMA OneLess ==
  ASSUME NEW H \in Holds, NEW x \in Holder, NEW H2, H2 = [H EXCEPT ![x] = Null]
  PROVE  H2 \in Holds /\ Lessened(H, H2, x)
<1>1. H2 \in Holds
  BY DEF Holds
<1>2. ASSUME NEW a \in Address
      PROVE  Count(H2, a) = IF H[x] = a THEN Count(H, a) - 1 ELSE Count(H, a)
  <2>1. a # Null
    BY HoldersFinite
  <2>2. HoldersOf(H2, a) = HoldersOf(H, a) \ {x}
    <3>1. \A y \in Holder : H2[y] = IF y = x THEN Null ELSE H[y]
      BY DEF Holds
    <3>2. \A y : y \in HoldersOf(H2, a) <=> y \in HoldersOf(H, a) \ {x}
      BY <2>1, <3>1 DEF HoldersOf
    <3> QED
      BY <3>2
  <2>3. x \in HoldersOf(H, a) <=> H[x] = a
    BY DEF HoldersOf
  <2>4. IsFiniteSet(HoldersOf(H, a)) /\ Count(H, a) \in Nat
    BY CountType
  <2>5. Cardinality(HoldersOf(H, a) \ {x})
           = IF x \in HoldersOf(H, a) THEN Cardinality(HoldersOf(H, a)) - 1
             ELSE Cardinality(HoldersOf(H, a))
    BY <2>4, FS_RemoveElement
  <2>6. CASE H[x] = a
    BY <2>2, <2>3, <2>5, <2>6 DEF Count
  <2>7. CASE H[x] # a
    BY <2>2, <2>3, <2>5, <2>7 DEF Count
  <2> QED
    BY <2>6, <2>7
<1> QED
  BY <1>1, <1>2 DEF Lessened

LEMMA OneMore ==
  ASSUME NEW H \in Holds, NEW x \in Holder, H[x] = Null, NEW b \in Address,
         NEW H2, H2 = [H EXCEPT ![x] = b]
  PROVE  H2 \in Holds /\ Increased(H, H2, b)
<1>1. H2 \in Holds
  BY DEF Holds
<1>2. ASSUME NEW a \in Address
      PROVE  Count(H2, a) = IF a = b THEN Count(H, a) + 1 ELSE Count(H, a)
  <2>1. a # Null
    BY HoldersFinite
  <2>2. x \notin HoldersOf(H, a)
    BY <2>1 DEF HoldersOf
  <2>3. \A y \in Holder : H2[y] = IF y = x THEN b ELSE H[y]
    BY DEF Holds
  <2>4. IsFiniteSet(HoldersOf(H, a)) /\ Count(H, a) \in Nat
    BY CountType
  <2>5. Cardinality(HoldersOf(H, a) \cup {x}) = Cardinality(HoldersOf(H, a)) + 1
    BY <2>2, <2>4, FS_AddElement
  <2>6. CASE a = b
    <3>1. \A y : y \in HoldersOf(H2, a) <=> y \in HoldersOf(H, a) \cup {x}
      BY <2>3, <2>6 DEF HoldersOf
    <3>2. HoldersOf(H2, a) = HoldersOf(H, a) \cup {x}
      BY <3>1
    <3> QED
      BY <2>5, <2>6, <3>2 DEF Count
  <2>7. CASE a # b
    <3>1. \A y : y \in HoldersOf(H2, a) <=> y \in HoldersOf(H, a)
      BY <2>1, <2>3, <2>7 DEF HoldersOf
    <3>2. HoldersOf(H2, a) = HoldersOf(H, a)
      BY <3>1
    <3> QED
      BY <2>7, <3>2 DEF Count
  <2> QED
    BY <2>6, <2>7
<1> QED
  BY <1>1, <1>2 DEF Increased

LEMMA CountsOf ==
  ASSUME NEW L, NEW H, Counted(L, H), NEW a \in Address
  PROVE  /\ L[a] \in ListRec /\ L[a].refcount \in Nat /\ L[a].defs \in Seq(Names)
         /\ L[a].refcount = Count(H, a)
         /\ L[a] = NoList <=> L[a].refcount = 0
         /\ L[a].refcount = 0 <=> HoldersOf(H, a) = {}
         /\ \A x \in Holder : H[x] = a => L[a].refcount > 0
<1>1. L[a] \in ListRec /\ L[a].refcount \in Nat /\ L[a].defs \in Seq(Names)
  BY DEF Counted, ListRec
<1>2. /\ L[a].refcount = Count(H, a)
      /\ L[a].refcount = 0 => L[a] = NoList
  BY DEF Counted, CountRight
<1>4. L[a].refcount = 0 <=> HoldersOf(H, a) = {}
  BY <1>2, CountType
<1>5. \A x \in Holder : H[x] = a => x \in HoldersOf(H, a)
  BY DEF HoldersOf
<1> QED
  BY <1>1, <1>2, <1>4, <1>5, NoListIs

\* free_waif_propdefs(), of the lists.
FreedList(L, a) ==
  IF a = Null THEN L
  ELSE IF L[a].refcount > 1 THEN [L EXCEPT ![a].refcount = @ - 1]
  ELSE [L EXCEPT ![a] = NoList]
\* ref_waif_propdefs(), and the count of 1 of a list that is made.
Taken(L, b, d) == [L EXCEPT ![b] = [refcount |-> L[b].refcount + 1, defs |-> d]]
Holding(H, x, b) == [H EXCEPT ![x] = b]
OnlyThere(L, L2, b, d) == L2[b].defs = d /\ \A a \in Address \ {b} : L2[a] = L[a]
\* The lists that are still held have the names they had.
KeepNames(L, L2, H2) ==
  \A a \in Address : HoldersOf(H2, a) # {} => L2[a].defs = L[a].defs

LEMMA Freeing ==
  ASSUME NEW L, NEW H, Counted(L, H), NEW x \in Holder,
         NEW L2, L2 = FreedList(L, H[x]), NEW H2, H2 = Holding(H, x, Null)
  PROVE  Counted(L2, H2) /\ KeepNames(L, L2, H2)
<1>1. /\ H \in Holds /\ H[x] \in Address \cup {Null} /\ L \in [Address -> ListRec]
      /\ Null \notin Address
  BY HoldersFinite DEF Counted, Holds
<1>2. /\ H2 \in Holds
      /\ Lessened(H, H2, x)
  BY <1>1, OneLess DEF Holding
<1>3. ASSUME NEW a \in Address
      PROVE  /\ L2[a] \in ListRec
             /\ CountRight(L2[a], Count(H2, a))
             /\ Count(H2, a) # 0 => L2[a].defs = L[a].defs
  <2> PICK n : n = Count(H, a)
    OBVIOUS
  <2> PICK m : m = Count(H2, a)
    OBVIOUS
  <2>5. n \in Nat /\ m \in Nat /\ m = IF H[x] = a THEN n - 1 ELSE n
    BY <1>2, CountType DEF Lessened
  <2>1. /\ L[a] \in ListRec /\ L[a].refcount \in Nat
        /\ L[a].refcount = n /\ CountRight(L[a], n)
        /\ L[a] = NoList <=> L[a].refcount = 0
        /\ H[x] = a => L[a].refcount > 0
    BY CountsOf DEF Counted
  <2>2. CASE H[x] # a
    <3>1. L2[a] = L[a]
      BY <1>1, <2>2 DEF FreedList
    <3> QED
      BY <2>1, <2>2, <2>5, <3>1
  <2>3. CASE H[x] = a /\ L[a].refcount > 1
    <3>1. L2 = [L EXCEPT ![a].refcount = @ - 1]
      BY <1>1, <2>3 DEF FreedList
    <3>2. L2[a] = [L[a] EXCEPT !.refcount = @ - 1]
      BY <1>1, <3>1
    <3>3. L2[a] \in ListRec /\ L2[a].refcount = L[a].refcount - 1 /\ L2[a].defs = L[a].defs
      BY <2>1, <2>3, <3>2 DEF ListRec
    <3> QED
      BY <2>1, <2>3, <2>5, <3>3 DEF CountRight
  <2>4. CASE H[x] = a /\ ~ (L[a].refcount > 1)
    <3>1. L2[a] = NoList
      BY <1>1, <2>4 DEF FreedList
    <3>2. L[a].refcount = 1
      BY <2>1, <2>4
    <3> QED
      BY <2>1, <2>4, <2>5, <3>1, <3>2, NoListIs
  <2> QED
    BY <2>2, <2>3, <2>4
<1>4. L2 \in [Address -> ListRec]
  <2>1. L2 = [a \in Address |-> L2[a]]
    BY <1>1 DEF FreedList
  <2> QED
    BY <1>3, <2>1
<1>5. Counted(L2, H2)
  BY <1>2, <1>3, <1>4 DEF Counted
<1>6. \A a \in Address : HoldersOf(H2, a) # {} => Count(H2, a) # 0
  BY CountType
<1> QED
  BY <1>3, <1>5, <1>6 DEF KeepNames

LEMMA Taking ==
  ASSUME NEW L, NEW H, Counted(L, H), NEW x \in Holder, H[x] = Null, NEW b \in Address,
         NEW d \in Seq(Names),
         NEW L2, L2 = Taken(L, b, d), NEW H2, H2 = Holding(H, x, b)
  PROVE  Counted(L2, H2) /\ OnlyThere(L, L2, b, d)
<1>1. H \in Holds /\ L \in [Address -> ListRec]
  BY DEF Counted
<1>2. /\ H2 \in Holds
      /\ Increased(H, H2, b)
  BY <1>1, OneMore DEF Holding
<1>3. L2[b].defs = d /\ \A a \in Address \ {b} : L2[a] = L[a]
  BY <1>1 DEF Taken
<1>4. ASSUME NEW a \in Address
      PROVE  L2[a] \in ListRec /\ CountRight(L2[a], Count(H2, a))
  <2> PICK n : n = Count(H, a)
    OBVIOUS
  <2> PICK m : m = Count(H2, a)
    OBVIOUS
  <2>5. n \in Nat /\ m \in Nat /\ m = IF a = b THEN n + 1 ELSE n
    BY <1>2, CountType DEF Increased
  <2>1. /\ L[a] \in ListRec /\ L[a].refcount \in Nat
        /\ L[a].refcount = n /\ CountRight(L[a], n)
        /\ L[a] = NoList <=> L[a].refcount = 0
    BY CountsOf DEF Counted
  <2>2. CASE a = b
    <3>1. L2[a] = [refcount |-> L[a].refcount + 1, defs |-> d]
      BY <1>1, <2>2 DEF Taken
    <3>2. L2[a] \in ListRec /\ L2[a].refcount = L[a].refcount + 1
      BY <2>1, <3>1 DEF ListRec
    <3> QED
      BY <2>1, <2>2, <2>5, <3>2 DEF CountRight
  <2>3. CASE a # b
    BY <1>3, <2>1, <2>3, <2>5
  <2> QED
    BY <2>2, <2>3
<1>5. L2 \in [Address -> ListRec]
  BY <1>1, <1>4 DEF Taken
<1> QED
  BY <1>2, <1>3, <1>4, <1>5 DEF Counted, OnlyThere

\* Whoever holds no list finds an address for one.
IsFirstFree(L, a) == L[a] = NoList /\ \A b \in 1..a - 1 : L[b] # NoList
LEMMA FreeAddress ==
  ASSUME NEW L, NEW H, Counted(L, H), NEW x \in Holder, H[x] = Null
  PROVE  \E a \in Address : IsFirstFree(L, a)
<1> DEFINE F == {a \in Address : L[a] = NoList}
<1>1. F # {}
  <2> SUFFICES ASSUME F = {} PROVE FALSE
    OBVIOUS
  <2>1. ASSUME NEW a \in Address PROVE \E y \in Holder \ {x} : H[y] = a
    <3>1. HoldersOf(H, a) # {}
      BY CountsOf
    <3> QED
      BY <3>1, HoldersFinite DEF HoldersOf
  <2> DEFINE h == [a \in Address |-> CHOOSE y \in Holder \ {x} : H[y] = a]
  <2>2. \A a \in Address : h[a] \in Holder \ {x} /\ H[h[a]] = a
    BY <2>1
  <2>3. h \in [Address -> Holder \ {x}]
    BY <2>2
  <2> HIDE DEF h
  <2>4. h \in Injection(Address, Holder \ {x})
    BY <2>2, <2>3 DEF Injection, IsInjective
  <2>5. IsFiniteSet(Holder \ {x}) /\ Cardinality(Holder \ {x}) = Cardinality(Holder) - 1
    BY HoldersFinite, FS_RemoveElement
  <2>6. Cardinality(Address) <= Cardinality(Holder \ {x})
    BY <2>4, <2>5, FS_Injection
  <2>7. Cardinality(Holder) \in Nat /\ Cardinality(Address) = Cardinality(Holder)
    <3>1. Cardinality(Holder) \in Nat
      BY HoldersFinite
    <3>2. PICK n \in Nat : n = Cardinality(Holder)
      BY <3>1
    <3>3. Cardinality(1..n) = n
      BY <3>2, FS_Interval
    <3> QED
      BY <3>1, <3>2, <3>3, HoldersFinite
  <2> QED
    BY <2>5, <2>6, <2>7
<1>2. Address \subseteq Nat
  BY HoldersFinite
<1>3. PICK a \in F : \A b \in F : a <= b
  <2>1. F \in SUBSET Nat
    BY <1>2
  <2> HIDE DEF F
  <2> QED
    BY <1>1, <2>1, Least
<1>4. ASSUME NEW b \in 1..a - 1 PROVE L[b] # NoList
  <2>1. b \in Address /\ b < a
    BY <1>2, <1>3, HoldersFinite DEF Address
  <2> QED
    BY <1>2, <1>3, <2>1
<1> QED
  BY <1>3, <1>4 DEF IsFirstFree
\* The list a is given up and the list b is shared.
SharedList(L, b) == [L EXCEPT ![b] = [refcount |-> L[b].refcount + 1, defs |-> L[b].defs]]
LEMMA Exchanging ==
  ASSUME NEW L, NEW H, Counted(L, H), NEW x \in Holder, NEW b \in Address, H[x] # b,
         NEW M, M = SharedList(L, b), NEW L2, L2 = FreedList(M, H[x]),
         NEW H2, H2 = Holding(H, x, b)
  PROVE  Counted(L2, H2) /\ KeepNames(L, L2, H2)
<1>1. /\ H \in Holds /\ H[x] \in Address \cup {Null} /\ L \in [Address -> ListRec]
      /\ Null \notin Address
  BY HoldersFinite DEF Counted, Holds
<1> PICK d : d = L[b].defs
  OBVIOUS
<1> PICK L1 : L1 = FreedList(L, H[x])
  OBVIOUS
<1> PICK H1 : H1 = Holding(H, x, Null)
  OBVIOUS
<1>2. Counted(L1, H1) /\ KeepNames(L, L1, H1)
  BY Freeing
<1>3. L1[b] = L[b] /\ d \in Seq(Names)
  <2>1. L1[b] = L[b]
    BY <1>1 DEF FreedList
  <2> QED
    BY <2>1, CountsOf
<1>4. H1[x] = Null /\ H2 = Holding(H1, x, b)
  BY <1>1 DEF Holds, Holding
<1>5. L2 = Taken(L1, b, d)
  <2>1. CASE H[x] = Null
    <3>1. L1 = L /\ L2 = M
      BY <2>1 DEF FreedList
    <3> QED
      BY <1>3, <3>1 DEF SharedList, Taken
  <2>2. CASE H[x] \in Address
    <3> PICK c : c = H[x]
      OBVIOUS
    <3>1. c \in Address /\ c # Null /\ c # b /\ M[c] = L[c]
      BY <1>1, <2>2 DEF SharedList
    <3> PICK l : l = [refcount |-> L[b].refcount + 1, defs |-> L[b].defs]
      OBVIOUS
    <3>2. M = [L EXCEPT ![b] = l]
      BY DEF SharedList
    <3>3. CASE L[c].refcount > 1
      <4> PICK k : k = [L[c] EXCEPT !.refcount = @ - 1]
        OBVIOUS
      <4>1. L1 = [L EXCEPT ![c] = k]
        BY <3>1, <3>3 DEF FreedList
      <4>2. L2 = [M EXCEPT ![c] = k]
        BY <3>1, <3>3 DEF FreedList
      <4>3. L2 = [L1 EXCEPT ![b] = l]
        BY <1>1, <3>1, <3>2, <4>1, <4>2
      <4> QED
        BY <1>3, <4>3 DEF Taken
    <3>4. CASE ~ (L[c].refcount > 1)
      <4>1. L1 = [L EXCEPT ![c] = NoList]
        BY <3>1, <3>4 DEF FreedList
      <4>2. L2 = [M EXCEPT ![c] = NoList]
        BY <3>1, <3>4 DEF FreedList
      <4>3. L2 = [L1 EXCEPT ![b] = l]
        BY <1>1, <3>1, <3>2, <4>1, <4>2
      <4> QED
        BY <1>3, <4>3 DEF Taken
    <3> QED
      BY <3>3, <3>4
  <2> QED
    BY <1>1, <2>1, <2>2
<1>6. Counted(L2, H2) /\ OnlyThere(L1, L2, b, d)
  BY <1>2, <1>3, <1>4, <1>5, Taking
<1>7. ASSUME NEW a \in Address, HoldersOf(H2, a) # {}
      PROVE  L2[a].defs = L[a].defs
  <2>1. CASE a = b
    BY <1>6, <2>1 DEF OnlyThere
  <2>2. CASE a # b
    <3>1. PICK y \in Holder : H2[y] = a
      BY <1>7 DEF HoldersOf
    <3>2. y # x /\ H1[y] = a
      BY <1>1, <2>2, <3>1 DEF Holds, Holding
    <3>3. HoldersOf(H1, a) # {}
      BY <3>2 DEF HoldersOf
    <3>4. L1[a].defs = L[a].defs
      BY <1>2, <3>3 DEF KeepNames
    <3> QED
      BY <1>6, <2>2, <3>4 DEF OnlyThere
  <2> QED
    BY <2>1, <2>2
<1> QED
  BY <1>6, <1>7 DEF KeepNames
-----------------------------------------------------------------------------
(* The memory of the waifs.                                                *)

IsRec(r) ==
  r = [class |-> r.class, propdefs |-> r.propdefs, propvals |-> r.propvals, map |-> r.map]
IsWaif(r) ==
  /\ IsRec(r)
  /\ r.class \in OidOrNothing /\ r.propdefs \in Address \cup {Null}
  /\ r.class = NOTHING => r.propdefs = Null
WaifsOK(ws) == ws = [w \in Waif |-> ws[w]] /\ \A w \in Waif : IsWaif(ws[w])
IsMem(m) == m = [lists |-> m.lists, of |-> m.of, waifs |-> m.waifs]
Lists == [Address -> ListRec]
Ofs == [Oid -> Address \cup {Null}]
OneEach(of) == \A x, y \in Oid : of[x] = of[y] /\ of[x] # Null => x = y
MemOK(m) ==
  /\ IsMem(m) /\ m.of \in Ofs /\ OneEach(m.of) /\ WaifsOK(m.waifs)
  /\ m.lists \in Lists /\ Counted(m.lists, Held(m.of, m.waifs))

\* What ListsCurrent says of the names, of those that d gives the objects in V.
CurrentIn(m, V, d) ==
  \A o \in Oid : m.of[o] # Null => o \in V /\ m.lists[m.of[o]].defs = d[o]
SameClasses(m, m2) == \A w \in Waif : m2.waifs[w].class = m.waifs[w].class

\* Records, and fields of them that are set.
Mem(L, of, ws) == [lists |-> L, of |-> of, waifs |-> ws]
WaifRec(c, p, v, map) == [class |-> c, propdefs |-> p, propvals |-> v, map |-> map]
LEMMA MemIs ==
  ASSUME NEW L, NEW of, NEW ws, NEW m, m = Mem(L, of, ws)
  PROVE  IsMem(m) /\ m.lists = L /\ m.of = of /\ m.waifs = ws
BY DEF IsMem, Mem
LEMMA RecIs ==
  ASSUME NEW c, NEW p, NEW v, NEW map
  PROVE  /\ IsRec(WaifRec(c, p, v, map))
         /\ WaifRec(c, p, v, map).class = c /\ WaifRec(c, p, v, map).propdefs = p
         /\ WaifRec(c, p, v, map).propvals = v /\ WaifRec(c, p, v, map).map = map
BY DEF IsRec, WaifRec
LEMMA FieldsSet ==
  ASSUME NEW r, IsRec(r), NEW x
  PROVE  /\ [r EXCEPT !.propdefs = x] = WaifRec(r.class, x, r.propvals, r.map)
         /\ [r EXCEPT !.propvals = x] = WaifRec(r.class, r.propdefs, x, r.map)
         /\ [r EXCEPT !.map = x] = WaifRec(r.class, r.propdefs, r.propvals, x)
<1>1. ASSUME NEW c, NEW p, NEW v, NEW map
      PROVE  /\ [WaifRec(c, p, v, map) EXCEPT !.propdefs = x] = WaifRec(c, x, v, map)
             /\ [WaifRec(c, p, v, map) EXCEPT !.propvals = x] = WaifRec(c, p, x, map)
             /\ [WaifRec(c, p, v, map) EXCEPT !.map = x] = WaifRec(c, p, v, x)
  BY DEF WaifRec
<1> PICK c, p, v, map : c = r.class /\ p = r.propdefs /\ v = r.propvals /\ map = r.map
  OBVIOUS
<1>2. r = WaifRec(c, p, v, map)
  BY DEF IsRec, WaifRec
<1> QED
  BY <1>1, <1>2

LEMMA ListsSet ==
  ASSUME NEW m, IsMem(m), NEW x
  PROVE  [m EXCEPT !.lists = x] = Mem(x, m.of, m.waifs)
<1>1. ASSUME NEW L, NEW of, NEW ws
      PROVE  [Mem(L, of, ws) EXCEPT !.lists = x] = Mem(x, of, ws)
  BY DEF Mem
<1>2. m = Mem(m.lists, m.of, m.waifs)
  BY DEF IsMem, Mem
<1> QED
  BY <1>1, <1>2

LEMMA WaifsSet ==
  ASSUME NEW m, IsMem(m), NEW x
  PROVE  [m EXCEPT !.waifs = x] = Mem(m.lists, m.of, x)
<1>1. ASSUME NEW L, NEW of, NEW ws
      PROVE  [Mem(L, of, ws) EXCEPT !.waifs = x] = Mem(L, of, x)
  BY DEF Mem
<1>2. m = Mem(m.lists, m.of, m.waifs)
  BY DEF IsMem, Mem
<1> QED
  BY <1>1, <1>2

With(ws, w, r) == [ws EXCEPT ![w] = r]
SetPropdefs(m, w, x) == [m EXCEPT !.waifs[w].propdefs = x]
SetPropvals(m, w, x) == [m EXCEPT !.waifs[w].propvals = x]
SetMap(m, w, x) == [m EXCEPT !.waifs[w].map = x]
SharedOnce(m, b) == [m EXCEPT !.lists[b].refcount = @ + 1]
CountedOnce(L, b) == [L EXCEPT ![b].refcount = @ + 1]
WithPropdefs(r, x) == WaifRec(r.class, x, r.propvals, r.map)
WithPropvals(r, x) == WaifRec(r.class, r.propdefs, x, r.map)
WithMap(r, x) == WaifRec(r.class, r.propdefs, r.propvals, x)
SetTo(m, w, r) == Mem(m.lists, m.of, With(m.waifs, w, r))
LEMMA OneFieldSet ==
  ASSUME NEW m, IsMem(m), NEW w, IsRec(m.waifs[w]), NEW x
  PROVE  /\ SetPropdefs(m, w, x) = SetTo(m, w, WithPropdefs(m.waifs[w], x))
         /\ SetPropvals(m, w, x) = SetTo(m, w, WithPropvals(m.waifs[w], x))
         /\ SetMap(m, w, x) = SetTo(m, w, WithMap(m.waifs[w], x))
<1> PICK r : r = m.waifs[w]
  OBVIOUS
<1>1. /\ [r EXCEPT !.propdefs = x] = WithPropdefs(r, x)
      /\ [r EXCEPT !.propvals = x] = WithPropvals(r, x)
      /\ [r EXCEPT !.map = x] = WithMap(r, x)
  BY FieldsSet DEF WithPropdefs, WithPropvals, WithMap
<1> QED
  BY <1>1, WaifsSet DEF SetPropdefs, SetPropvals, SetMap, With, SetTo

LEMMA SetAgain ==
  ASSUME NEW m, NEW w, w \in DOMAIN m.waifs, NEW r, NEW s, NEW n, n = SetTo(m, w, r)
  PROVE  n.waifs[w] = r /\ IsMem(n) /\ SetTo(n, w, s) = SetTo(m, w, s)
<1>1. n.lists = m.lists /\ n.of = m.of /\ n.waifs = With(m.waifs, w, r) /\ IsMem(n)
  BY MemIs DEF SetTo
<1>2. With(m.waifs, w, r)[w] = r /\ With(With(m.waifs, w, r), w, s) = With(m.waifs, w, s)
  BY DEF With
<1> QED
  BY <1>1, <1>2 DEF SetTo

LEMMA TwoFieldsSet ==
  ASSUME NEW m, IsMem(m), NEW w, w \in DOMAIN m.waifs,
         NEW r, r = m.waifs[w], IsRec(r), NEW x, NEW y
  PROVE  /\ SetPropvals(SetPropdefs(m, w, x), w, y)
               = SetTo(m, w, WaifRec(r.class, x, y, r.map))
         /\ SetPropvals(SetMap(m, w, x), w, y)
               = SetTo(m, w, WaifRec(r.class, r.propdefs, y, x))
<1>1. SetPropvals(SetPropdefs(m, w, x), w, y) = SetTo(m, w, WaifRec(r.class, x, y, r.map))
  <2> PICK n, s : n = SetPropdefs(m, w, x) /\ s = WithPropdefs(r, x)
    OBVIOUS
  <2>1. n = SetTo(m, w, s)
    BY OneFieldSet
  <2>2. n.waifs[w] = s /\ IsMem(n)
    BY <2>1, SetAgain
  <2>3. IsRec(s) /\ WithPropvals(s, y) = WaifRec(r.class, x, y, r.map)
    BY RecIs DEF WithPropdefs, WithPropvals
  <2>4. SetPropvals(n, w, y) = SetTo(n, w, WithPropvals(s, y))
    BY <2>2, <2>3, OneFieldSet
  <2>5. SetTo(n, w, WithPropvals(s, y)) = SetTo(m, w, WithPropvals(s, y))
    BY <2>1, SetAgain
  <2> QED
    BY <2>3, <2>4, <2>5
<1>2. SetPropvals(SetMap(m, w, x), w, y) = SetTo(m, w, WaifRec(r.class, r.propdefs, y, x))
  <2> PICK n, s : n = SetMap(m, w, x) /\ s = WithMap(r, x)
    OBVIOUS
  <2>1. n = SetTo(m, w, s)
    BY OneFieldSet
  <2>2. n.waifs[w] = s /\ IsMem(n)
    BY <2>1, SetAgain
  <2>3. IsRec(s) /\ WithPropvals(s, y) = WaifRec(r.class, r.propdefs, y, x)
    BY RecIs DEF WithMap, WithPropvals
  <2>4. SetPropvals(n, w, y) = SetTo(n, w, WithPropvals(s, y))
    BY <2>2, <2>3, OneFieldSet
  <2>5. SetTo(n, w, WithPropvals(s, y)) = SetTo(m, w, WithPropvals(s, y))
    BY <2>1, SetAgain
  <2> QED
    BY <2>3, <2>4, <2>5
<1> QED
  BY <1>1, <1>2
LEMMA HeldIs ==
  ASSUME NEW of \in Ofs, NEW ws, WaifsOK(ws)
  PROVE  /\ Held(of, ws) \in Holds
         /\ \A o \in Oid : o \in Holder /\ Held(of, ws)[o] = of[o]
         /\ \A w \in Waif : w \in Holder /\ w \notin Oid /\ Held(of, ws)[w] = ws[w].propdefs
BY WaifAssumption DEF Held, Holds, Holder, Ofs, WaifsOK, IsWaif

LEMMA HoldingIs ==
  ASSUME NEW H \in Holds, NEW x \in Holder, NEW a \in Address \cup {Null}
  PROVE  /\ Holding(H, x, a) \in Holds
         /\ \A y \in Holder : Holding(H, x, a)[y] = IF y = x THEN a ELSE H[y]
BY DEF Holds, Holding

LEMMA SameHolders ==
  ASSUME NEW F \in Holds, NEW G \in Holds, \A x \in Holder : F[x] = G[x] PROVE F = G
BY DEF Holds

\* A waif changes.
OnlyWaif(ws, ws2, w, r) == ws2[w] = r /\ \A v \in Waif \ {w} : ws2[v] = ws[v]
LEMMA HeldByWaif ==
  ASSUME NEW of \in Ofs, NEW ws, WaifsOK(ws), NEW w \in Waif, NEW r, IsWaif(r),
         NEW ws2, ws2 = With(ws, w, r)
  PROVE  /\ WaifsOK(ws2) /\ Held(of, ws2) = Holding(Held(of, ws), w, r.propdefs)
         /\ OnlyWaif(ws, ws2, w, r)
<1>1. ws2[w] = r /\ \A v \in Waif \ {w} : ws2[v] = ws[v]
  BY DEF WaifsOK, With
<1>2. ws2 = [v \in Waif |-> ws2[v]]
  BY DEF WaifsOK, With
<1>3. WaifsOK(ws2)
  BY <1>1, <1>2 DEF WaifsOK
<1>4. w \in Holder /\ w \notin Oid
  BY HeldIs
<1>5. \A x \in Holder : IF x \in Oid THEN TRUE ELSE x \in Waif
  BY DEF Holder
<1>6. ASSUME NEW x \in Holder
      PROVE  Held(of, ws2)[x] = Holding(Held(of, ws), w, r.propdefs)[x]
  BY <1>1, <1>4, <1>5 DEF Held, Holding
<1>7. Held(of, ws2) = Holding(Held(of, ws), w, r.propdefs)
  <2>1. Held(of, ws2) \in Holds /\ Held(of, ws) \in Holds
    BY <1>3, HeldIs
  <2>2. r.propdefs \in Address \cup {Null}
    BY DEF IsWaif
  <2>3. Holding(Held(of, ws), w, r.propdefs) \in Holds
    BY <1>4, <2>1, <2>2, HoldingIs
  <2> QED
    BY <1>6, <2>1, <2>3, SameHolders
<1> QED
  BY <1>1, <1>3, <1>7 DEF OnlyWaif

\* An object gets another list.
OnlyObject(of, of2, o, a) == of2[o] = a /\ \A y \in Oid \ {o} : of2[y] = of[y]
LEMMA HeldByObject ==
  ASSUME NEW of \in Ofs, NEW ws, WaifsOK(ws), NEW o \in Oid, NEW a \in Address \cup {Null},
         NEW of2, of2 = [of EXCEPT ![o] = a]
  PROVE  /\ of2 \in Ofs /\ Held(of2, ws) = Holding(Held(of, ws), o, a)
         /\ OnlyObject(of, of2, o, a)
<1>1. of2 \in Ofs /\ of2[o] = a /\ \A y \in Oid \ {o} : of2[y] = of[y]
  BY DEF Ofs
<1>2. o \in Holder
  BY HeldIs
<1>3. ASSUME NEW x \in Holder
      PROVE  Held(of2, ws)[x] = Holding(Held(of, ws), o, a)[x]
  BY <1>1, <1>2 DEF Held, Holding
<1>4. Held(of2, ws) = Holding(Held(of, ws), o, a)
  <2>1. Held(of2, ws) \in Holds /\ Held(of, ws) \in Holds
    BY <1>1, HeldIs
  <2>2. Holding(Held(of, ws), o, a) \in Holds
    BY <1>2, <2>1, HoldingIs
  <2> QED
    BY <1>3, <2>1, <2>2, SameHolders
<1> QED
  BY <1>1, <1>4 DEF OnlyObject

LEMMA FreePropdefsIs ==
  ASSUME NEW m, IsMem(m), m.lists \in Lists, NEW a \in Address \cup {Null},
         NEW f, f = FreePropdefs(m, a)
  PROVE  IsMem(f) /\ f.lists = FreedList(m.lists, a) /\ f.of = m.of /\ f.waifs = m.waifs
<1> PICK L : L = m.lists
  OBVIOUS
<1> PICK of : of = m.of
  OBVIOUS
<1> PICK ws : ws = m.waifs
  OBVIOUS
<1>1. m = [lists |-> L, of |-> of, waifs |-> ws]
  BY DEF IsMem
<1>2. Null \notin Address
  BY HoldersFinite
<1>3. f = [lists |-> FreedList(L, a), of |-> of, waifs |-> ws]
  <2>1. CASE a = Null
    BY <1>1, <2>1 DEF FreePropdefs, FreedList
  <2>2. CASE a # Null /\ L[a].refcount > 1
    BY <1>1, <2>2 DEF FreePropdefs, FreedList
  <2>3. CASE a # Null /\ ~ (L[a].refcount > 1)
    BY <1>1, <2>3 DEF FreePropdefs, FreedList
  <2> QED
    BY <2>1, <2>2, <2>3
<1> QED
  BY <1>3 DEF IsMem
\* free_waif_propdefs() of a waif's list; the waif becomes r, which has none.
LEMMA LetGoOfWaif ==
  ASSUME NEW m, MemOK(m), NEW w \in Waif, NEW f, f = FreePropdefs(m, m.waifs[w].propdefs),
         NEW r, IsWaif(r), r.propdefs = Null,
         NEW m2, m2 = SetTo(f, w, r)
  PROVE  /\ MemOK(m2) /\ m2.of = m.of
         /\ OnlyWaif(m.waifs, m2.waifs, w, r)
         /\ KeepNames(m.lists, m2.lists, Held(m2.of, m2.waifs))
<1> PICK L : L = m.lists
  OBVIOUS
<1> PICK of : of = m.of
  OBVIOUS
<1> PICK ws : ws = m.waifs
  OBVIOUS
<1> PICK H : H = Held(of, ws)
  OBVIOUS
<1> PICK a : a = ws[w].propdefs
  OBVIOUS
<1>1. /\ IsMem(m) /\ L \in Lists /\ of \in Ofs /\ WaifsOK(ws) /\ OneEach(of)
      /\ Counted(L, H)
  BY DEF MemOK
<1>2. w \in Holder /\ H[w] = a
  BY <1>1, HeldIs
<1>3. a \in Address \cup {Null}
  BY <1>1 DEF WaifsOK, IsWaif
<1>4. f.lists = FreedList(L, a) /\ f.of = of /\ f.waifs = ws
  BY <1>1, <1>3, FreePropdefsIs
<1> PICK L2 : L2 = FreedList(L, a)
  OBVIOUS
<1> PICK ws2 : ws2 = With(ws, w, r)
  OBVIOUS
<1> PICK H2 : H2 = Holding(H, w, Null)
  OBVIOUS
<1>5. WaifsOK(ws2) /\ Held(of, ws2) = H2 /\ OnlyWaif(ws, ws2, w, r)
  BY <1>1, HeldByWaif
<1>6. Counted(L2, H2) /\ KeepNames(L, L2, H2)
  BY <1>1, <1>2, Freeing
<1>7. L2 \in Lists
  BY <1>6 DEF Counted, Lists
<1>8. m2.lists = L2 /\ m2.of = of /\ m2.waifs = ws2 /\ IsMem(m2)
  BY <1>4, MemIs DEF SetTo
<1> QED
  BY <1>1, <1>5, <1>6, <1>7, <1>8 DEF MemOK

\* What a waif's doing does to the names that objects have.
LEMMA StillCurrent ==
  ASSUME NEW m, MemOK(m), NEW m2, MemOK(m2), m2.of = m.of,
         KeepNames(m.lists, m2.lists, Held(m2.of, m2.waifs)),
         NEW V, NEW d, CurrentIn(m, V, d)
  PROVE  CurrentIn(m2, V, d)
<1> SUFFICES ASSUME NEW o \in Oid, m2.of[o] # Null
             PROVE  o \in V /\ m2.lists[m2.of[o]].defs = d[o]
  BY DEF CurrentIn
<1>1. o \in V /\ m.lists[m.of[o]].defs = d[o]
  BY DEF CurrentIn
<1> PICK a : a = m2.of[o]
  OBVIOUS
<1> PICK H : H = Held(m2.of, m2.waifs)
  OBVIOUS
<1>2. a \in Address
  BY DEF MemOK, Ofs
<1>3. o \in Holder /\ H[o] = a
  BY HeldIs DEF MemOK
<1>4. HoldersOf(H, a) # {}
  BY <1>3 DEF HoldersOf
<1>5. m2.lists[a].defs = m.lists[a].defs
  BY <1>2, <1>4 DEF KeepNames
<1> QED
  BY <1>1, <1>5
\* The waif w becomes r, which has the list b in place of the one w has.
LEMMA AnotherList ==
  ASSUME NEW m, MemOK(m), NEW w \in Waif, NEW b \in Address, m.waifs[w].propdefs # b,
         NEW r, IsWaif(r), r.propdefs = b,
         NEW m2, m2 = Mem(FreedList(SharedList(m.lists, b), m.waifs[w].propdefs), m.of,
                          With(m.waifs, w, r))
  PROVE  /\ MemOK(m2) /\ m2.of = m.of
         /\ OnlyWaif(m.waifs, m2.waifs, w, r)
         /\ KeepNames(m.lists, m2.lists, Held(m2.of, m2.waifs))
<1> PICK L : L = m.lists
  OBVIOUS
<1> PICK of : of = m.of
  OBVIOUS
<1> PICK ws : ws = m.waifs
  OBVIOUS
<1> PICK H : H = Held(of, ws)
  OBVIOUS
<1>1. /\ L \in Lists /\ of \in Ofs /\ WaifsOK(ws) /\ OneEach(of) /\ Counted(L, H)
  BY DEF MemOK
<1>2. w \in Holder /\ H[w] = m.waifs[w].propdefs
  BY <1>1, HeldIs
<1> PICK M : M = SharedList(L, b)
  OBVIOUS
<1> PICK L2 : L2 = FreedList(M, H[w])
  OBVIOUS
<1> PICK ws2 : ws2 = With(ws, w, r)
  OBVIOUS
<1> PICK H2 : H2 = Holding(H, w, b)
  OBVIOUS
<1>3. WaifsOK(ws2) /\ Held(of, ws2) = H2 /\ OnlyWaif(ws, ws2, w, r)
  BY <1>1, HeldByWaif
<1>4. Counted(L2, H2) /\ KeepNames(L, L2, H2)
  BY <1>1, <1>2, Exchanging
<1>5. L2 \in Lists
  BY <1>4 DEF Counted, Lists
<1>6. m2.lists = L2 /\ m2.of = of /\ m2.waifs = ws2 /\ IsMem(m2)
  BY <1>2, MemIs
<1> QED
  BY <1>1, <1>3, <1>4, <1>5, <1>6 DEF MemOK

\* Only its values change.
LEMMA SameList ==
  ASSUME NEW m, MemOK(m), NEW w \in Waif, NEW r, IsWaif(r), r.propdefs = m.waifs[w].propdefs,
         NEW m2, m2 = SetTo(m, w, r)
  PROVE  /\ MemOK(m2) /\ m2.of = m.of /\ m2.lists = m.lists
         /\ OnlyWaif(m.waifs, m2.waifs, w, r)
<1> PICK L : L = m.lists
  OBVIOUS
<1> PICK of : of = m.of
  OBVIOUS
<1> PICK ws : ws = m.waifs
  OBVIOUS
<1> PICK H : H = Held(of, ws)
  OBVIOUS
<1>1. /\ L \in Lists /\ of \in Ofs /\ WaifsOK(ws) /\ OneEach(of) /\ Counted(L, H)
      /\ m = [lists |-> L, of |-> of, waifs |-> ws]
  BY DEF MemOK, IsMem
<1>2. w \in Holder /\ H[w] = r.propdefs /\ H \in Holds
  BY <1>1, HeldIs
<1> PICK ws2 : ws2 = With(ws, w, r)
  OBVIOUS
<1>3. WaifsOK(ws2) /\ Held(of, ws2) = Holding(H, w, r.propdefs) /\ OnlyWaif(ws, ws2, w, r)
  BY <1>1, HeldByWaif
<1>4. Holding(H, w, r.propdefs) = H
  BY <1>2 DEF Holding, Holds
<1>6. m2.lists = L /\ m2.of = of /\ m2.waifs = ws2 /\ IsMem(m2)
  BY MemIs DEF SetTo
<1> QED
  BY <1>1, <1>3, <1>4, <1>6 DEF MemOK

LEMMA WaifOf ==
  ASSUME NEW m, MemOK(m), NEW w \in Waif
  PROVE  /\ IsWaif(m.waifs[w]) /\ IsRec(m.waifs[w]) /\ w \in DOMAIN m.waifs
         /\ m.waifs[w].class \in OidOrNothing /\ m.waifs[w].propdefs \in Address \cup {Null}
         /\ IsMem(m) /\ m.lists \in Lists
         /\ m.waifs[w].class = NOTHING => m.waifs[w].propdefs = Null
BY DEF MemOK, WaifsOK, IsWaif

LEMMA MadeWaif ==
  ASSUME NEW c \in OidOrNothing, NEW p \in Address \cup {Null}, c = NOTHING => p = Null,
         NEW v, NEW map
  PROVE  IsWaif(WaifRec(c, p, v, map))
BY RecIs DEF IsWaif

LEMMA SharedLists ==
  ASSUME NEW L \in Lists, NEW b \in Address
  PROVE  SharedList(L, b) \in Lists /\ CountedOnce(L, b) = SharedList(L, b)
<1> PICK l : l = L[b]
  OBVIOUS
<1>1. l \in ListRec
  BY DEF Lists
<1>2. [l EXCEPT !.refcount = @ + 1] = [refcount |-> l.refcount + 1, defs |-> l.defs]
  BY <1>1 DEF ListRec
<1>3. [refcount |-> l.refcount + 1, defs |-> l.defs] \in ListRec
  BY <1>1 DEF ListRec
<1> QED
  BY <1>2, <1>3 DEF SharedList, CountedOnce, Lists

LEMMA SharingIs ==
  ASSUME NEW m, IsMem(m), m.lists \in Lists, NEW w, IsRec(m.waifs[w]),
         NEW b \in Address, b = m.of[m.waifs[w].class], NEW s, s = Sharing(m, w)
  PROVE  s = Mem(SharedList(m.lists, b), m.of,
                 With(m.waifs, w, WithPropdefs(m.waifs[w], b)))
<1> PICK n : n = SetPropdefs(m, w, b)
  OBVIOUS
<1>1. n = SetTo(m, w, WithPropdefs(m.waifs[w], b))
  BY OneFieldSet
<1>2. /\ n.lists = m.lists /\ n.of = m.of
      /\ n.waifs = With(m.waifs, w, WithPropdefs(m.waifs[w], b)) /\ IsMem(n)
  BY <1>1, MemIs DEF SetTo
<1>3. s = SharedOnce(n, b)
  BY DEF Sharing, SetPropdefs, SharedOnce
<1>4. CountedOnce(m.lists, b) = SharedList(m.lists, b)
  BY SharedLists
<1>5. SharedOnce(n, b) = Mem(CountedOnce(n.lists, b), n.of, n.waifs)
  BY <1>2, ListsSet DEF SharedOnce, CountedOnce
<1> QED
  BY <1>2, <1>3, <1>4, <1>5

\* gen_waif_propdefs()
NewList(m, g, o, b, d) ==
  /\ MemOK(g) /\ g.waifs = m.waifs /\ b \in Address /\ g.of[o] = b
  /\ \A y \in Oid \ {o} : g.of[y] = m.of[y]
  /\ m.lists[b] = NoList /\ HoldersOf(Held(m.of, m.waifs), b) = {}
  /\ OnlyThere(m.lists, g.lists, b, d)

LEMMA GeneratedIs ==
  ASSUME NEW m, MemOK(m), NEW o \in Oid, m.of[o] = Null, NEW d, d = DefsOf(o), d \in Seq(Names),
         NEW g, g = Generated(m, o)
  PROVE  \E b : NewList(m, g, o, b, d)
<1> PICK L : L = m.lists
  OBVIOUS
<1> PICK of : of = m.of
  OBVIOUS
<1> PICK ws : ws = m.waifs
  OBVIOUS
<1> PICK H : H = Held(of, ws)
  OBVIOUS
<1>1. /\ L \in Lists /\ of \in Ofs /\ WaifsOK(ws) /\ OneEach(of) /\ Counted(L, H)
      /\ m = [lists |-> L, of |-> of, waifs |-> ws]
  BY DEF MemOK, IsMem
<1>2. o \in Holder /\ H[o] = Null
  BY <1>1, HeldIs
<1>3. PICK b : b = CHOOSE a \in Address : L[a] = NoList /\ \A c \in 1..a - 1 : L[c] # NoList
  OBVIOUS
<1>4. b \in Address /\ L[b] = NoList
  <2>1. \E a \in Address : IsFirstFree(L, a)
    BY <1>1, <1>2, FreeAddress
  <2> QED
    BY <1>3, <2>1 DEF IsFirstFree
<1>5. L[b].refcount = 0 /\ HoldersOf(H, b) = {}
  BY <1>1, <1>4, CountsOf
<1> PICK L2 : L2 = Taken(L, b, d)
  OBVIOUS
<1> PICK of2 : of2 = [of EXCEPT ![o] = b]
  OBVIOUS
<1> PICK H2 : H2 = Holding(H, o, b)
  OBVIOUS
<1>6. g = [lists |-> L2, of |-> of2, waifs |-> ws]
  <2>1. g = [[lists |-> L, of |-> of, waifs |-> ws]
                EXCEPT !.of[o] = b, !.lists[b] = [refcount |-> 1, defs |-> d]]
    BY <1>1, <1>3 DEF Generated
  <2>2. L2 = [L EXCEPT ![b] = [refcount |-> 1, defs |-> d]]
    BY <1>5 DEF Taken
  <2> QED
    BY <2>1, <2>2
<1>7. of2 \in Ofs /\ Held(of2, ws) = H2 /\ OnlyObject(of, of2, o, b)
  BY <1>1, <1>4, HeldByObject
<1>8. Counted(L2, H2) /\ OnlyThere(L, L2, b, d)
  BY <1>1, <1>2, <1>4, Taking
<1>9. OneEach(of2)
  <2>1. \A y \in Oid : y \in Holder /\ H[y] = of[y]
    BY <1>1, HeldIs
  <2>2. \A y \in Oid : of[y] # b
    BY <1>5, <2>1 DEF HoldersOf
  <2> QED
    BY <1>1, <1>7, <2>2 DEF OneEach, OnlyObject
<1>10. L2 \in Lists
  BY <1>8 DEF Counted, Lists
<1>11. MemOK(g)
  BY <1>1, <1>6, <1>7, <1>8, <1>9, <1>10 DEF MemOK, IsMem
<1> QED
  BY <1>4, <1>5, <1>6, <1>7, <1>8, <1>11 DEF NewList, OnlyObject

LEMMA NewListCurrent ==
  ASSUME NEW m, MemOK(m), NEW g, NEW o \in Oid, NEW b, NEW d, NewList(m, g, o, b, d),
         NEW V, o \in V, NEW e, e[o] = d, CurrentIn(m, V, e)
  PROVE  CurrentIn(g, V, e)
<1> SUFFICES ASSUME NEW x \in Oid, g.of[x] # Null
             PROVE  x \in V /\ g.lists[g.of[x]].defs = e[x]
  BY DEF CurrentIn
<1>1. CASE x = o
  BY <1>1 DEF NewList, OnlyThere
<1>2. CASE x # o
  <2>1. g.of[x] = m.of[x] /\ m.of[x] \in Address
    BY <1>2 DEF NewList, MemOK, Ofs
  <2>2. x \in V /\ m.lists[m.of[x]].defs = e[x]
    BY <2>1 DEF CurrentIn
  <2>3. m.of[x] # b
    <3>1. x \in Holder /\ Held(m.of, m.waifs)[x] = m.of[x]
      BY HeldIs DEF MemOK
    <3> QED
      BY <3>1 DEF NewList, HoldersOf
  <2>4. g.lists[m.of[x]] = m.lists[m.of[x]]
    BY <2>1, <2>3 DEF NewList, OnlyThere
  <2> QED
    BY <2>1, <2>2, <2>4
<1> QED
  BY <1>1, <1>2
\* update_waif_propdefs()
DefsAre(d) == \A o \in Oid : d[o] = DefsOf(o) /\ d[o] \in Seq(Names)

LEMMA GeneratedOK ==
  ASSUME NEW m, MemOK(m), NEW d, DefsAre(d), CurrentIn(m, valid, d), NEW o \in Oid, o \in valid,
         NEW g, g = Generated(m, o)
  PROVE  /\ MemOK(g) /\ CurrentIn(g, valid, d) /\ g.waifs = m.waifs /\ g.of[o] \in Address
         /\ m.of[o] # Null => g = m
         /\ m.of[o] = Null => HoldersOf(Held(m.of, m.waifs), g.of[o]) = {}
<1>1. m.of[o] \in Address \cup {Null}
  BY DEF MemOK, Ofs
<1>2. CASE m.of[o] # Null
  <2>1. g = m
    BY <1>2 DEF Generated
  <2> QED
    BY <1>1, <1>2, <2>1
<1>3. CASE m.of[o] = Null
  <2> PICK e : e = d[o]
    OBVIOUS
  <2>1. e = DefsOf(o) /\ e \in Seq(Names)
    BY DEF DefsAre
  <2>2. PICK b : NewList(m, g, o, b, e)
    BY <1>3, <2>1, GeneratedIs
  <2>3. CurrentIn(g, valid, d)
    BY <2>2, NewListCurrent
  <2> QED
    BY <1>3, <2>2, <2>3 DEF NewList
<1> QED
  BY <1>2, <1>3

\* The waif w is changed, and no object gets or loses a list.
Kept(m, u) ==
  /\ MemOK(u) /\ u.of = m.of /\ SameClasses(m, u)
  /\ KeepNames(m.lists, u.lists, Held(u.of, u.waifs))

LEMMA KeptBy ==
  ASSUME NEW m, NEW u, NEW w \in Waif, NEW r, OnlyWaif(m.waifs, u.waifs, w, r),
         r.class = m.waifs[w].class
  PROVE  SameClasses(m, u)
BY DEF OnlyWaif, SameClasses

LEMMA InvalidOK ==
  ASSUME NEW m, MemOK(m), NEW w \in Waif, NEW u, u = Invalid(m, w)
  PROVE  /\ Kept(m, u)
         /\ OnlyWaif(m.waifs, u.waifs, w, WaifRec(m.waifs[w].class, Null, Null, m.waifs[w].map))
<1> PICK waif : waif = m.waifs[w]
  OBVIOUS
<1>1. /\ IsWaif(waif) /\ IsRec(waif) /\ w \in DOMAIN m.waifs
      /\ waif.class \in OidOrNothing /\ waif.propdefs \in Address \cup {Null}
      /\ IsMem(m) /\ m.lists \in Lists
  BY WaifOf
<1> PICK f : f = FreePropdefs(m, waif.propdefs)
  OBVIOUS
<1>2. IsMem(f) /\ f.waifs = m.waifs
  BY <1>1, FreePropdefsIs
<1> PICK r : r = WaifRec(waif.class, Null, Null, waif.map)
  OBVIOUS
<1>3. IsWaif(r) /\ r.propdefs = Null /\ r.class = waif.class
  BY <1>1, MadeWaif, RecIs
<1>4. u = SetTo(f, w, r)
  <2> PICK n : n = Null
    OBVIOUS
  <2>1. f.waifs[w] = waif /\ w \in DOMAIN f.waifs
    BY <1>1, <1>2
  <2>2. SetPropvals(SetPropdefs(f, w, n), w, n) = SetTo(f, w, r)
    BY <1>1, <1>2, <2>1, TwoFieldsSet
  <2>3. u = SetPropvals(SetPropdefs(f, w, n), w, n)
    BY DEF Invalid, SetPropdefs, SetPropvals
  <2> QED
    BY <2>2, <2>3
<1>5. /\ MemOK(u) /\ u.of = m.of /\ OnlyWaif(m.waifs, u.waifs, w, r)
      /\ KeepNames(m.lists, u.lists, Held(u.of, u.waifs))
  BY <1>3, <1>4, LetGoOfWaif
<1>6. SameClasses(m, u)
  BY <1>3, <1>5, KeptBy
<1> QED
  BY <1>5, <1>6 DEF Kept

LEMMA SharedOK ==
  ASSUME NEW g, MemOK(g), NEW w \in Waif, NEW b \in Address, b = g.of[g.waifs[w].class],
         g.waifs[w].propdefs # b, g.waifs[w].class # NOTHING, NEW x, NEW y,
         NEW u, u = FreePropdefs(SetPropvals(SetMap(Sharing(g, w), w, x), w, y),
                                 g.waifs[w].propdefs)
  PROVE  Kept(g, u) /\ OnlyWaif(g.waifs, u.waifs, w, WaifRec(g.waifs[w].class, b, y, x))
<1>1. PICK waif : waif = g.waifs[w]
  OBVIOUS
<1>2. /\ IsRec(waif) /\ w \in DOMAIN g.waifs
      /\ waif.class \in OidOrNothing /\ waif.propdefs \in Address \cup {Null}
      /\ IsMem(g) /\ g.lists \in Lists
  BY <1>1, WaifOf
<1>3. PICK r1 : r1 = WithPropdefs(waif, b)
  OBVIOUS
<1>4. PICK r : r = WaifRec(waif.class, b, y, x)
  OBVIOUS
<1>5. IsRec(r1) /\ r1.class = waif.class /\ r1.propdefs = b
  BY <1>3, RecIs DEF WithPropdefs
<1>6. IsWaif(r) /\ r.propdefs = b /\ r.class = waif.class
  BY <1>1, <1>2, <1>4, MadeWaif, RecIs
<1>7. PICK L, of, ws, ws1 : /\ L = SharedList(g.lists, b) /\ of = g.of
                            /\ ws = With(g.waifs, w, r1) /\ ws1 = With(g.waifs, w, r)
  OBVIOUS
<1>8. PICK s : s = Sharing(g, w)
  OBVIOUS
<1>9. PICK v : v = SetPropvals(SetMap(s, w, x), w, y)
  OBVIOUS
<1>10. s = Mem(L, of, ws)
  BY <1>1, <1>2, <1>3, <1>7, <1>8, SharingIs
<1>11. /\ IsMem(s) /\ s.lists = L /\ s.of = of /\ s.waifs = ws
  BY <1>10, MemIs
<1>12. ws[w] = r1 /\ w \in DOMAIN ws /\ With(ws, w, r) = ws1
  BY <1>2, <1>7 DEF With
<1>13. v = SetTo(s, w, r)
  BY <1>4, <1>5, <1>9, <1>11, <1>12, TwoFieldsSet
<1>14. v = Mem(L, of, ws1)
  BY <1>11, <1>12, <1>13 DEF SetTo
<1>15. IsMem(v) /\ v.lists = L /\ v.of = of /\ v.waifs = ws1
  BY <1>14, MemIs
<1>16. L \in Lists
  BY <1>2, <1>7, SharedLists
<1>17. IsMem(u) /\ u.lists = FreedList(L, waif.propdefs) /\ u.of = of /\ u.waifs = ws1
  BY <1>1, <1>2, <1>8, <1>9, <1>15, <1>16, FreePropdefsIs
<1>18. u = Mem(FreedList(SharedList(g.lists, b), waif.propdefs), g.of, With(g.waifs, w, r))
  BY <1>7, <1>17 DEF IsMem, Mem
<1>19. /\ MemOK(u) /\ u.of = g.of /\ OnlyWaif(g.waifs, u.waifs, w, r)
       /\ KeepNames(g.lists, u.lists, Held(u.of, u.waifs))
  BY <1>1, <1>6, <1>18, AnotherList
<1>20. SameClasses(g, u)
  BY <1>1, <1>6, <1>19, KeptBy
<1> QED
  BY <1>1, <1>4, <1>19, <1>20 DEF Kept

LEMMA UpdatedOK ==
  ASSUME NEW m, MemOK(m), NEW d, DefsAre(d), CurrentIn(m, valid, d), valid \subseteq Oid,
         NEW w \in Waif, NEW u, u = Updated(m, w)
  PROVE  MemOK(u) /\ CurrentIn(u, valid, d) /\ SameClasses(m, u)
<1> PICK o : o = m.waifs[w].class
  OBVIOUS
<1> PICK old : old = m.waifs[w].propdefs
  OBVIOUS
<1>1. CASE o \notin valid
  <2>1. u = Invalid(m, w)
    BY <1>1 DEF Updated
  <2>2. Kept(m, u)
    BY <2>1, InvalidOK
  <2>3. CurrentIn(u, valid, d)
    BY <2>2, StillCurrent DEF Kept
  <2> QED
    BY <2>2, <2>3 DEF Kept
<1>2. CASE o \in valid /\ old = m.of[o]
  BY <1>2 DEF Updated, SameClasses
<1>3. CASE o \in valid /\ old # m.of[o]
  <2> PICK g : g = Generated(m, o)
    OBVIOUS
  <2> PICK b : b = g.of[o]
    OBVIOUS
  <2>1. /\ MemOK(g) /\ CurrentIn(g, valid, d) /\ g.waifs = m.waifs /\ b \in Address
        /\ m.of[o] # Null => g = m
        /\ m.of[o] = Null => HoldersOf(Held(m.of, m.waifs), b) = {}
    BY <1>3, GeneratedOK
  <2>2. old # b
    <3>1. CASE m.of[o] # Null
      BY <1>3, <2>1, <3>1
    <3>2. CASE m.of[o] = Null
      <4>1. w \in Holder /\ Held(m.of, m.waifs)[w] = old
        BY HeldIs DEF MemOK
      <4> QED
        BY <2>1, <3>2, <4>1 DEF HoldersOf
    <3> QED
      BY <3>1, <3>2
  <2>3. PICK x, y : u = FreePropdefs(SetPropvals(SetMap(Sharing(g, w), w, x), w, y), old)
    BY <1>3 DEF Updated, SetMap, SetPropvals
  <2>5. o # NOTHING
    BY <1>3, NothingIsNoOid
  <2>6. Kept(g, u)
    BY <2>1, <2>2, <2>3, <2>5, SharedOK
  <2>7. CurrentIn(u, valid, d)
    BY <2>1, <2>6, StillCurrent DEF Kept
  <2>8. SameClasses(m, u)
    BY <2>1, <2>6 DEF Kept, SameClasses
  <2> QED
    BY <2>6, <2>7, <2>8 DEF Kept
<1> QED
  BY <1>1, <1>2, <1>3
-----------------------------------------------------------------------------
(* What holds of the objects, the names that they define and the lists.    *)

Tree(V, link) ==
  /\ V \subseteq Oid /\ link \in Links /\ Acyclic(link)
  /\ \A o \in V : Up(link, o) \subseteq V
  /\ \A o \in Oid \ V : link[o] = NOTHING

\* No object defines a name that an object above it defines.
NamesOnce(names, link) ==
  \A o \in Oid : \A x \in Up(link, o) \ {o} : ToSet(names[o]) \cap ToSet(names[x]) = {}
Names0(V, link, names) ==
  /\ names \in [Oid -> Seq(Names)] /\ \A o \in Oid \ V : names[o] = <<>>
  /\ NamesOnce(names, link)
Defs(names, link) == [o \in Oid |-> Inherited(names, link, o)]
WaifsRight(V, link, names, m) ==
  Names0(V, link, names) /\ MemOK(m) /\ CurrentIn(m, V, Defs(names, link))

\* The invariant.
WInv == IInv /\ WaifsRight(valid, Parent, propdefs, Memory)

LEMMA TreeNow == ASSUME IInv PROVE Tree(valid, Parent)
<1>1. Sound(obj, valid) /\ Parent = ParentOf(obj)
  BY IInvFacts
<1>2. obj \in [Oid -> Object] /\ valid \subseteq Oid /\ Acyclic(Parent)
  BY <1>1 DEF Sound
<1>3. Parent \in Links /\ \A o \in Oid : Parent[o] = obj[o].parent
  BY <1>1, <1>2, LinksOf
<1>4. \A o \in valid : Up(Parent, o) \subseteq valid
  BY <1>1, UpIsValid
<1>5. \A o \in Oid \ valid : Parent[o] = NOTHING
  BY <1>1, <1>3, FreshIs DEF Sound
<1> QED
  BY <1>2, <1>3, <1>4, <1>5 DEF Tree

TreeRight == Tree(valid, Parent)
LEMMA TreeIsRight == IInv => TreeRight
  BY TreeNow DEF TreeRight
LEMMA TreeNext == ASSUME IInv' PROVE Tree(valid', Parent')
<1>2. (IInv => TreeRight)'
  BY TreeIsRight, PTL
<1> QED
  BY <1>2 DEF TreeRight

LEMMA MemoryIs ==
  /\ IsMem(Memory) /\ Memory.lists = lists /\ Memory.of = waif_propdefs /\ Memory.waifs = waifs
<1>1. Memory = Mem(lists, waif_propdefs, waifs)
  BY DEF Mem, Memory
<1> QED
  BY <1>1, MemIs

LEMMA BecomesIs ==
  ASSUME NEW m, IsMem(m), Becomes(m)
  PROVE  Memory' = m
BY DEF Becomes, Memory, IsMem

LEMMA WInvIs ==
  ASSUME WInv
  PROVE  ListsCurrent
<1>1. MemOK(Memory) /\ CurrentIn(Memory, valid, Defs(propdefs, Parent))
  BY DEF WInv, WaifsRight
<1> DEFINE Holders(a) == {o \in Oid : waif_propdefs[o] = a} \cup {w \in Waif : waifs[w].propdefs = a}
<1> PICK H : H = Held(waif_propdefs, waifs)
  OBVIOUS
<1>2. Counted(lists, H) /\ waif_propdefs \in Ofs /\ WaifsOK(waifs)
  BY <1>1, MemoryIs DEF MemOK
<1>3. ASSUME NEW a \in Address
      PROVE  /\ lists[a].refcount = Cardinality(Holders(a))
             /\ lists[a].refcount = 0 => lists[a] = NoList
  <2>1. Holders(a) = HoldersOf(H, a)
    BY <1>2, HeldIs DEF HoldersOf, Holder
  <2> HIDE DEF Holders
  <2> QED
    BY <1>2, <2>1, CountsOf DEF Count
<1>4. ASSUME NEW o \in Oid, waif_propdefs[o] # Null
      PROVE  o \in valid /\ lists[waif_propdefs[o]].defs = DefsOf(o)
  BY <1>1, <1>4, MemoryIs DEF CurrentIn, Defs, DefsOf
<1> QED
  BY <1>3, <1>4 DEF ListsCurrent
\* The next state, when only waifs are touched.
LEMMA OnlyWaifs ==
  ASSUME WInv, UNCHANGED <<vars, propdefs>>, NEW m, Becomes(m), MemOK(m),
         CurrentIn(m, valid, Defs(propdefs, Parent))
  PROVE  WInv'
<1>1. Memory' = m
  BY BecomesIs DEF MemOK
<1>2. Parent' = Parent /\ valid' = valid /\ propdefs' = propdefs
  BY DEF vars, Parent
<1>3. IInv'
  BY NextOK DEF WInv
<1> QED
  BY <1>1, <1>2, <1>3 DEF WInv, WaifsRight

LEMMA DefsAreThese ==
  ASSUME IInv, NEW m, WaifsRight(valid, Parent, propdefs, m)
  PROVE  DefsAre(Defs(propdefs, Parent))
<1>1. Parent \in Links /\ Acyclic(Parent) /\ propdefs \in [Oid -> Seq(Names)]
  BY TreeNow DEF Tree, WaifsRight, Names0
<1>2. \A o \in Oid : Inherited(propdefs, Parent, o) \in Seq(Names)
  BY <1>1, InheritedIs
<1> QED
  BY <1>2 DEF DefsAre, Defs, DefsOf

LEMMA WInvFacts ==
  ASSUME WInv
  PROVE  /\ IInv /\ MemOK(Memory) /\ DefsAre(Defs(propdefs, Parent))
         /\ CurrentIn(Memory, valid, Defs(propdefs, Parent))
         /\ Tree(valid, Parent) /\ valid \subseteq Oid /\ Names0(valid, Parent, propdefs)
BY TreeNow, DefsAreThese DEF WInv, WaifsRight, Tree

LEMMA LookOK ==
  ASSUME WInv, NEW w \in Waif, Look(w)
  PROVE  WInv'
<1> PICK m : m = Updated(Memory, w)
  OBVIOUS
<1>1. Becomes(m) /\ UNCHANGED <<vars, propdefs>>
  BY DEF Look
<1> PICK d : d = Defs(propdefs, Parent)
  OBVIOUS
<1>2. MemOK(m) /\ CurrentIn(m, valid, d)
  <2> PICK n : n = Memory
    OBVIOUS
  <2> QED
    BY WInvFacts, UpdatedOK
<1> QED
  BY <1>1, <1>2, OnlyWaifs

LEMMA FreeWaifOK ==
  ASSUME WInv, NEW w \in Waif, FreeWaif(w)
  PROVE  WInv'
<1>a. PICK m, d : m = Memory /\ d = Defs(propdefs, Parent)
  OBVIOUS
<1>b. PICK f : f = FreePropdefs(m, m.waifs[w].propdefs)
  OBVIOUS
<1>c. PICK r : r = NoWaif
  OBVIOUS
<1>d. PICK u : u = SetTo(f, w, r)
  OBVIOUS
<1>1. MemOK(m) /\ CurrentIn(m, valid, d)
  BY <1>a, WInvFacts
<1>2. IsMem(f)
  BY <1>b, <1>1, WaifOf, FreePropdefsIs
<1>3. IsWaif(r) /\ r.propdefs = Null
  <2>1. NOTHING \in OidOrNothing /\ Null \in Address \cup {Null}
    BY DEF OidOrNothing
  <2>2. r = WaifRec(NOTHING, Null, Null, {})
    BY <1>c DEF NoWaif, WaifRec
  <2> QED
    BY <2>1, <2>2, MadeWaif, RecIs
<1>4. Becomes(u) /\ UNCHANGED <<vars, propdefs>>
  <2>1. u = [f EXCEPT !.waifs[w] = r]
    BY <1>2, <1>d, WaifsSet DEF SetTo, With
  <2> QED
    BY <2>1, <1>a, <1>b, <1>c, MemoryIs DEF FreeWaif
<1>6. /\ MemOK(u) /\ u.of = m.of /\ OnlyWaif(m.waifs, u.waifs, w, r)
      /\ KeepNames(m.lists, u.lists, Held(u.of, u.waifs))
  BY <1>b, <1>d, <1>1, <1>3, LetGoOfWaif
<1>7. CurrentIn(u, valid, d)
  BY <1>1, <1>6, StillCurrent
<1> QED
  BY <1>a, <1>4, <1>6, <1>7, OnlyWaifs
LEMMA SharingBy ==
  ASSUME NEW n, IsMem(n), n.lists \in Lists, NEW w, NEW r, n.waifs[w] = r, IsRec(r),
         NEW b \in Address, n.of[r.class] = b, NEW s, s = Sharing(n, w)
  PROVE  s = Mem(SharedList(n.lists, b), n.of, With(n.waifs, w, WithPropdefs(r, b)))
<1>1. IsRec(n.waifs[w]) /\ b = n.of[n.waifs[w].class]
  OBVIOUS
<1>2. s = Mem(SharedList(n.lists, b), n.of, With(n.waifs, w, WithPropdefs(n.waifs[w], b)))
  BY <1>1, SharingIs
<1> QED
  BY <1>2

LEMMA NewWaifMakes ==
  ASSUME NEW g, MemOK(g), NEW w \in Waif, g.waifs[w].propdefs = Null, NEW c \in Oid,
         NEW b \in Address, b = g.of[c], NEW v, NEW map, NEW new, new = WaifRec(c, b, v, map),
         NEW n, n = SetTo(g, w, new), NEW s, s = Sharing(n, w)
  PROVE  /\ MemOK(s) /\ s.of = g.of /\ KeepNames(g.lists, s.lists, Held(s.of, s.waifs))
         /\ OnlyWaif(g.waifs, s.waifs, w, new)
<1>1. IsMem(g) /\ w \in DOMAIN g.waifs /\ g.lists \in Lists /\ b # Null
  BY WaifOf, HoldersFinite
<1>2. /\ IsMem(n) /\ n.lists = g.lists /\ n.of = g.of /\ n.waifs = With(g.waifs, w, new)
  BY MemIs DEF SetTo
<1>4. n.waifs[w] = new /\ With(n.waifs, w, new) = With(g.waifs, w, new)
  BY <1>1, <1>2 DEF With
<1>5. /\ IsRec(new) /\ new.class = c /\ new.propdefs = b /\ WithPropdefs(new, b) = new
  BY RecIs DEF WithPropdefs
<1>6. IsWaif(new)
  <2>1. c \in OidOrNothing /\ c # NOTHING /\ b \in Address \cup {Null}
    BY NothingIsNoOid DEF OidOrNothing
  <2> QED
    BY <2>1, MadeWaif
<1>7. s = Mem(SharedList(n.lists, b), n.of, With(n.waifs, w, WithPropdefs(new, b)))
  <2>1. n.of[new.class] = b /\ n.lists \in Lists
    BY <1>1, <1>2, <1>5
  <2> QED
    BY <1>2, <1>4, <1>5, <2>1, SharingBy
<1>8. s = Mem(FreedList(SharedList(g.lists, b), g.waifs[w].propdefs), g.of, With(g.waifs, w, new))
  BY <1>2, <1>4, <1>5, <1>7 DEF FreedList
<1>9. g.waifs[w].propdefs # b
  BY <1>1
<1> QED
  BY <1>5, <1>6, <1>8, <1>9, AnotherList

LEMMA NewWaifOK ==
  ASSUME WInv, NEW w \in Waif, NEW c \in Oid, NewWaif(w, c)
  PROVE  WInv'
<1>a. PICK m, d : m = Memory /\ d = Defs(propdefs, Parent)
  OBVIOUS
<1>b. PICK g : g = Generated(m, c)
  OBVIOUS
<1>1. MemOK(m) /\ CurrentIn(m, valid, d) /\ DefsAre(d)
  BY <1>a, WInvFacts
<1>2. c \in valid /\ m.waifs[w].class = NOTHING /\ UNCHANGED <<vars, propdefs>>
  BY <1>a, MemoryIs DEF NewWaif, There
<1>3. MemOK(g) /\ CurrentIn(g, valid, d) /\ g.waifs = m.waifs /\ g.of[c] \in Address
  BY <1>b, <1>1, <1>2, GeneratedOK
<1>4. g.waifs[w].propdefs = Null
  BY <1>1, <1>2, <1>3, WaifOf
<1>c. PICK b : b = g.of[c]
  OBVIOUS
<1>5. PICK v, new : /\ new = WaifRec(c, b, v, {})
                    /\ Becomes(Sharing([g EXCEPT !.waifs[w] = new], w))
  BY <1>a, <1>b, <1>c DEF NewWaif, WaifRec
<1>d. PICK n : n = SetTo(g, w, new)
  OBVIOUS
<1>e. PICK s : s = Sharing(n, w)
  OBVIOUS
<1>8. n = [g EXCEPT !.waifs[w] = new]
  <2>1. IsMem(g)
    BY <1>3, WaifOf
  <2> QED
    BY <2>1, <1>d, WaifsSet DEF SetTo, With
<1>6. MemOK(s) /\ s.of = g.of /\ KeepNames(g.lists, s.lists, Held(s.of, s.waifs))
  BY <1>3, <1>4, <1>5, <1>c, <1>d, <1>e, NewWaifMakes
<1>7. CurrentIn(s, valid, d)
  BY <1>3, <1>6, StillCurrent
<1> QED
  BY <1>a, <1>e, <1>8, <1>2, <1>5, <1>6, <1>7, OnlyWaifs
ValuesSet(r, x) == [r EXCEPT !.propvals = x]
MapSet(r, x) == [r EXCEPT !.map = x]
LEMMA EitherSet ==
  ASSUME NEW r, IsRec(r), NEW x
  PROVE  /\ ValuesSet(r, x) = WaifRec(r.class, r.propdefs, x, r.map)
         /\ MapSet(r, x) = WaifRec(r.class, r.propdefs, r.propvals, x)
BY FieldsSet DEF ValuesSet, MapSet

LEMMA PlacedIs ==
  ASSUME NEW r, IsRec(r), NEW i
  PROVE  \E map, v : WithPlace(r, i) = WaifRec(r.class, r.propdefs, v, map)
<1>1. PICK x, y : WithPlace(r, i) = ValuesSet(MapSet(r, x), y)
  BY DEF WithPlace, ValuesSet, MapSet
<1>2. PICK s : s = MapSet(r, x)
  OBVIOUS
<1>3. s = WaifRec(r.class, r.propdefs, r.propvals, x)
  BY <1>2, EitherSet
<1>4. IsRec(s) /\ s.class = r.class /\ s.propdefs = r.propdefs /\ s.map = x
  BY <1>3, RecIs
<1>5. ValuesSet(s, y) = WaifRec(r.class, r.propdefs, y, x)
  BY <1>4, EitherSet
<1> QED
  BY <1>1, <1>2, <1>5

\* waif_put_prop() changes nothing but values and the map.
LEMMA PutMakes ==
  ASSUME NEW w, NEW n, NEW value, PutProp(w, n, value),
         NEW u, u = Updated(Memory, w), IsMem(u), NEW waif, waif = u.waifs[w], IsRec(waif)
  PROVE  \E map, v : Becomes(SetTo(u, w, WaifRec(waif.class, waif.propdefs, v, map)))
<1> DEFINE i == IF waif.propdefs = Null THEN 0
                ELSE SelectInSeq(u.lists[waif.propdefs].defs, LAMBDA m : m = n)
           placed == IF Offset_InMap(waif.map, i) = 0 THEN WithPlace(waif, i) ELSE waif
           at == Offset_InMap(placed.map, i)
           x == SubSeq(placed.propvals, 1, at - 1) \o <<value>>
                   \o SubSeq(placed.propvals, at + 1, Len(placed.propvals))
<1>1. Becomes([u EXCEPT !.waifs[w] = [placed EXCEPT !.propvals = x]])
  BY DEF PutProp
<1>2. PICK map, v : placed = WaifRec(waif.class, waif.propdefs, v, map)
  <2>1. CASE placed = waif
    BY <2>1 DEF IsRec, WaifRec
  <2>2. CASE placed = WithPlace(waif, i)
    <3> HIDE DEF i, placed
    <3> QED
      BY <2>2, PlacedIs
  <2> QED
    BY <2>1, <2>2
<1> HIDE DEF placed, x
<1>3. /\ IsRec(placed) /\ placed.class = waif.class /\ placed.propdefs = waif.propdefs
      /\ placed.map = map
  BY <1>2, RecIs
<1>4. [placed EXCEPT !.propvals = x] = WaifRec(waif.class, waif.propdefs, x, map)
  <2>1. PICK s, y : s = placed /\ y = x
    OBVIOUS
  <2>2. ValuesSet(s, y) = WaifRec(s.class, s.propdefs, y, s.map)
    BY <1>3, <2>1, EitherSet
  <2> QED
    BY <1>3, <2>1, <2>2 DEF ValuesSet
<1>5. PICK r : r = WaifRec(waif.class, waif.propdefs, x, map)
  OBVIOUS
<1>6. [u EXCEPT !.waifs[w] = r] = SetTo(u, w, r)
  BY WaifsSet DEF SetTo, With
<1> QED
  BY <1>1, <1>4, <1>5, <1>6

LEMMA PutPropOK ==
  ASSUME WInv, NEW w \in Waif, NEW n, NEW value, PutProp(w, n, value)
  PROVE  WInv'
<1>a. PICK m, d : m = Memory /\ d = Defs(propdefs, Parent)
  OBVIOUS
<1>b. PICK u : u = Updated(m, w)
  OBVIOUS
<1>c. PICK waif : waif = u.waifs[w]
  OBVIOUS
<1>1. MemOK(m) /\ CurrentIn(m, valid, d) /\ DefsAre(d) /\ valid \subseteq Oid
  BY <1>a, WInvFacts
<1>2. MemOK(u) /\ CurrentIn(u, valid, d)
  BY <1>b, <1>1, UpdatedOK
<1>3. /\ IsMem(u) /\ IsRec(waif) /\ waif.class \in OidOrNothing
      /\ waif.propdefs \in Address \cup {Null}
      /\ waif.class = NOTHING => waif.propdefs = Null
  BY <1>c, <1>2, WaifOf
<1>4. PICK map, v : Becomes(SetTo(u, w, WaifRec(waif.class, waif.propdefs, v, map)))
  BY <1>a, <1>b, <1>c, <1>3, PutMakes
<1>d. PICK r : r = WaifRec(waif.class, waif.propdefs, v, map)
  OBVIOUS
<1>e. PICK s : s = SetTo(u, w, r)
  OBVIOUS
<1>5. IsWaif(r) /\ r.propdefs = waif.propdefs
  BY <1>d, <1>3, MadeWaif, RecIs
<1>6. MemOK(s) /\ s.of = u.of /\ s.lists = u.lists
  BY <1>c, <1>e, <1>2, <1>5, SameList
<1>7. KeepNames(u.lists, s.lists, Held(s.of, s.waifs))
  BY <1>6 DEF KeepNames
<1>8. CurrentIn(s, valid, d)
  BY <1>2, <1>6, <1>7, StillCurrent
<1>9. UNCHANGED <<vars, propdefs>> /\ Becomes(s)
  BY <1>d, <1>e, <1>4 DEF PutProp
<1> QED
  BY <1>a, <1>6, <1>8, <1>9, OnlyWaifs
-----------------------------------------------------------------------------
(* Objects let go of their lists.                                          *)

LetGoMade(m, m2, B) ==
  /\ MemOK(m2) /\ m2.waifs = m.waifs
  /\ \A o \in Oid : m2.of[o] = IF o \in B THEN Null ELSE m.of[o]
  /\ KeepNames(m.lists, m2.lists, Held(m2.of, m2.waifs))

LeftTo(of, B) == [o \in Oid |-> IF o \in B THEN Null ELSE of[o]]
Lost(of, B, a) == Cardinality({o \in B : of[o] = a})
LEMMA HeldLeft ==
  ASSUME NEW of \in Ofs, NEW ws, WaifsOK(ws), NEW B \in SUBSET Oid,
         NEW of2, of2 = LeftTo(of, B), NEW a \in Address
  PROVE  /\ of2 \in Ofs
         /\ Count(Held(of2, ws), a) = Count(Held(of, ws), a) - Lost(of, B, a)
<1> USE DEF LeftTo
<1>1. of2 \in Ofs /\ a # Null
  BY HoldersFinite DEF Ofs
<1> DEFINE H == Held(of, ws)
           H2 == Held(of2, ws)
           G == {o \in B : of[o] = a}
<1>2. /\ \A o \in Oid : o \in Holder /\ H[o] = of[o] /\ H2[o] = of2[o]
      /\ \A w \in Waif : w \in Holder /\ w \notin Oid /\ H[w] = H2[w]
  BY <1>1, HeldIs
<1>3. \A x \in Holder : x \in Oid \/ x \in Waif
  BY DEF Holder
<1> HIDE DEF H, H2
<1>4. HoldersOf(H2, a) = HoldersOf(H, a) \ G
  <2>1. ASSUME NEW x \in Holder PROVE H2[x] = a <=> H[x] = a /\ x \notin G
    BY <1>1, <1>2, <1>3
  <2> HIDE DEF G
  <2> QED
    BY <2>1 DEF HoldersOf
<1>5. HoldersOf(H, a) \cap G = G
  <2>1. \A x \in G : x \in Holder /\ H[x] = a
    BY <1>2
  <2> QED
    BY <2>1 DEF HoldersOf
<1> HIDE DEF G
<1>6. IsFiniteSet(HoldersOf(H, a))
  BY CountType
<1>7. Cardinality(HoldersOf(H, a) \ G) = Cardinality(HoldersOf(H, a)) - Cardinality(HoldersOf(H, a) \cap G)
  BY <1>6, FS_Difference
<1> QED
  BY <1>1, <1>4, <1>5, <1>7 DEF Count, H, H2, G, Lost

LEMMA LetGoOK ==
  ASSUME MemOK(Memory), NEW B \in SUBSET Oid, NEW m2, m2 = LetGo(B)
  PROVE  LetGoMade(Memory, m2, B)
<1>a. PICK L, of, ws : L = lists /\ of = waif_propdefs /\ ws = waifs
  OBVIOUS
<1>b. PICK of2 : of2 = LeftTo(of, B)
  OBVIOUS
<1>c. PICK H, H2 : H = Held(of, ws) /\ H2 = Held(of2, ws)
  OBVIOUS
<1> DEFINE left(a) == L[a].refcount - Lost(of, B, a)
<1>d. PICK L2 : L2 = [a \in Address |-> IF left(a) <= 0 THEN NoList
                                        ELSE [L[a] EXCEPT !.refcount = left(a)]]
  OBVIOUS
<1>1. /\ L \in Lists /\ of \in Ofs /\ WaifsOK(ws) /\ OneEach(of) /\ Counted(L, H)
      /\ Null \notin Address
  BY <1>a, <1>c, MemoryIs, HoldersFinite DEF MemOK
<1>2. m2 = Mem(L2, of2, ws)
  <2>1. m2 = [[lists |-> L, of |-> of, waifs |-> ws] EXCEPT !.lists = L2, !.of = of2]
    BY <1>a, <1>b, <1>d DEF LetGo, Memory, LeftTo, Lost
  <2> QED
    BY <2>1 DEF Mem
<1>3. IsMem(m2) /\ m2.lists = L2 /\ m2.of = of2 /\ m2.waifs = ws
  BY <1>2, MemIs
<1>4. of2 \in Ofs /\ \A o \in Oid : of2[o] = IF o \in B THEN Null ELSE of[o]
  BY <1>1, <1>b DEF Ofs, LeftTo
<1>5. OneEach(of2)
  BY <1>1, <1>4 DEF OneEach
<1>6. H2 \in Holds
  BY <1>1, <1>4, <1>c, HeldIs
<1>7. ASSUME NEW a \in Address
      PROVE  /\ L2[a] \in ListRec
             /\ CountRight(L2[a], Count(H2, a))
             /\ HoldersOf(H2, a) # {} => L2[a].defs = L[a].defs
  <2>1. /\ L[a] \in ListRec /\ L[a].refcount = Count(H, a) /\ Count(H, a) \in Nat
        /\ Count(H2, a) \in Nat /\ (Count(H2, a) = 0 <=> HoldersOf(H2, a) = {})
    BY <1>1, CountsOf, CountType
  <2>2. left(a) = Count(H2, a)
    <3>1. Count(H2, a) = Count(H, a) - Lost(of, B, a)
      BY <1>1, <1>b, <1>c, HeldLeft
    <3> QED
      BY <2>1, <3>1
  <2> HIDE DEF left
  <2>a. PICK l, n : l = L[a] /\ n = left(a)
    OBVIOUS
  <2>3. L2[a] = IF n <= 0 THEN NoList ELSE [l EXCEPT !.refcount = n]
    BY <1>d, <2>a
  <2>4. CASE n <= 0
    <3>1. n = 0 /\ L2[a] = NoList
      BY <2>1, <2>2, <2>3, <2>4, <2>a
    <3> QED
      BY <2>1, <2>2, <2>a, <3>1, NoListIs
  <2>5. CASE ~ (n <= 0)
    <3>1. L2[a] = [l EXCEPT !.refcount = n] /\ l \in ListRec /\ n \in Nat /\ n # 0
      BY <2>1, <2>2, <2>3, <2>5, <2>a
    <3>2. L2[a] \in ListRec /\ L2[a].refcount = n /\ L2[a].defs = l.defs
      BY <3>1 DEF ListRec
    <3> QED
      BY <2>2, <2>a, <3>1, <3>2 DEF CountRight
  <2> QED
    BY <2>4, <2>5
<1>8. L2 \in Lists
  BY <1>d, <1>7 DEF Lists
<1>9. Counted(L2, H2)
  BY <1>6, <1>7, <1>8 DEF Counted, Lists
<1>10. KeepNames(L, L2, H2)
  BY <1>7 DEF KeepNames
<1>11. MemOK(m2)
  BY <1>1, <1>3, <1>4, <1>5, <1>8, <1>9, <1>c DEF MemOK
<1> QED
  BY <1>3, <1>4, <1>10, <1>11, <1>a, <1>c, MemoryIs DEF LetGoMade

LEMMA NoneLetGo ==
  ASSUME NEW m, MemOK(m)
  PROVE  LetGoMade(m, m, {})
BY DEF LetGoMade, KeepNames

\* Those that keep their lists keep their names and those above them.
KeepWays(V, link, names, V2, link2, names2, B) ==
  \A o \in V \ B : o \in V2 /\ \A y \in Up(link, o) : names2[y] = names[y] /\ link2[y] = link[y]

LEMMA LetGoKept ==
  ASSUME NEW V, NEW link, NEW names, NEW m, Tree(V, link), WaifsRight(V, link, names, m),
         NEW B, NEW m2, LetGoMade(m, m2, B),
         NEW V2, NEW link2, NEW names2, Tree(V2, link2), Names0(V2, link2, names2),
         KeepWays(V, link, names, V2, link2, names2, B)
  PROVE  WaifsRight(V2, link2, names2, m2)
<1>1. ASSUME NEW o \in Oid, m2.of[o] # Null
      PROVE  o \in V2 /\ m2.lists[m2.of[o]].defs = Defs(names2, link2)[o]
  <2>1. o \notin B /\ m2.of[o] = m.of[o] /\ MemOK(m2)
    BY <1>1 DEF LetGoMade
  <2>2. o \in V /\ m.lists[m.of[o]].defs = Inherited(names, link, o)
    BY <1>1, <2>1 DEF WaifsRight, CurrentIn, Defs
  <2>3. m2.lists[m2.of[o]].defs = m.lists[m.of[o]].defs
    <3>1. m2.of[o] \in Address
      BY <1>1, <2>1 DEF MemOK, Ofs
    <3>2. o \in Holder /\ Held(m2.of, m2.waifs)[o] = m2.of[o]
      BY <2>1, HeldIs DEF MemOK
    <3>3. HoldersOf(Held(m2.of, m2.waifs), m2.of[o]) # {}
      BY <3>2 DEF HoldersOf
    <3> QED
      BY <2>1, <3>1, <3>3 DEF LetGoMade, KeepNames
  <2>4. o \in V2 /\ \A y \in Up(link, o) : names2[y] = names[y] /\ link2[y] = link[y]
    BY <2>1, <2>2 DEF KeepWays
  <2>5. Inherited(names2, link2, o) = Inherited(names, link, o)
    <3>a. PICK S : S = Up(link, o)
      OBVIOUS
    <3>b. PICK r : r = [x \in S |-> x]
      OBVIOUS
    <3>1. link \in Links /\ link2 \in Links /\ Acyclic(link) /\ Acyclic(link2)
      BY DEF Tree
    <3>2. names \in [Oid -> Seq(Names)] /\ names2 \in [Oid -> Seq(Names)]
      BY DEF WaifsRight, Names0
    <3>3. o \in S /\ S \subseteq Oid /\ ClosedUp(link, S)
      BY <3>1, <3>a, UpOK
    <3>4. Carried(names, link, names2, link2, S, r)
      BY <2>4, <3>3, <3>a, <3>b DEF Carried, ClosedUp
    <3>5. CarriedOver(names, link, names2, link2, S, r)
      BY <3>1, <3>2, <3>4 DEF CarriedOver
    <3>6. SameInherited(names, link, names2, link2, S, r)
      BY <3>5, AllCarried
    <3> QED
      BY <3>3, <3>6, <3>b DEF SameInherited
  <2> QED
    BY <2>2, <2>3, <2>4, <2>5 DEF Defs
<1>2. CurrentIn(m2, V2, Defs(names2, link2))
  BY <1>1 DEF CurrentIn
<1> QED
  BY <1>2 DEF WaifsRight, LetGoMade

\* The next state, when lists are let go of.
LEMMA LetGoNext ==
  ASSUME WInv, IInv', NEW B \in SUBSET Oid, NEW m2, LetGoMade(Memory, m2, B), Becomes(m2),
         Names0(valid', Parent', propdefs'),
         KeepWays(valid, Parent, propdefs, valid', Parent', propdefs', B)
  PROVE  WInv'
<1>1. Tree(valid, Parent) /\ Tree(valid', Parent') /\ WaifsRight(valid, Parent, propdefs, Memory)
  BY TreeNow, TreeNext DEF WInv
<1>2. WaifsRight(valid', Parent', propdefs', m2)
  <2>a. PICK V, link, names, m : V = valid /\ link = Parent /\ names = propdefs /\ m = Memory
    OBVIOUS
  <2>b. PICK V2, link2, names2 : V2 = valid' /\ link2 = Parent' /\ names2 = propdefs'
    OBVIOUS
  <2>1. WaifsRight(V2, link2, names2, m2)
    BY <1>1, <2>a, <2>b, LetGoKept
  <2> QED
    BY <2>1, <2>b
<1>3. Memory' = m2
  BY BecomesIs DEF LetGoMade, MemOK
<1> QED
  BY <1>2, <1>3 DEF WInv
-----------------------------------------------------------------------------
(* That no object defines what one above it does.                          *)

\* Fewer names, or names of one object that those above and below do not have.
LEMMA FewerNames ==
  ASSUME NEW names, NEW link, NamesOnce(names, link), NEW names2, NEW link2,
         \A o \in Oid : Up(link2, o) \subseteq Up(link, o) /\ Up(link2, o) \subseteq Oid,
         \A o \in Oid : ToSet(names2[o]) \subseteq ToSet(names[o])
  PROVE  NamesOnce(names2, link2)
<1> SUFFICES ASSUME NEW o \in Oid, NEW x \in Up(link2, o) \ {o}
             PROVE  ToSet(names2[o]) \cap ToSet(names2[x]) = {}
  BY DEF NamesOnce
<1>1. x \in Up(link, o) \ {o} /\ x \in Oid
  OBVIOUS
<1>2. ToSet(names[o]) \cap ToSet(names[x]) = {}
  BY <1>1 DEF NamesOnce
<1>3. ToSet(names2[o]) \subseteq ToSet(names[o]) /\ ToSet(names2[x]) \subseteq ToSet(names[x])
  BY <1>1
<1> QED
  BY <1>2, <1>3

\* The names in N are those that oid comes to have.
Unheard(V, link, names, oid, N) ==
  \A x \in V : x \in Up(link, oid) \/ oid \in Up(link, x) => ToSet(names[x]) \cap N = {}

LEMMA OneDefines ==
  ASSUME NEW V, NEW link, Tree(V, link), NEW names, Names0(V, link, names), NEW oid \in V,
         NEW s \in Seq(Names), NEW N, ToSet(s) \subseteq ToSet(names[oid]) \cup N,
         Unheard(V, link, names, oid, N),
         NEW names2, names2 = [names EXCEPT ![oid] = s]
  PROVE  Names0(V, link, names2)
<1>1. /\ names \in [Oid -> Seq(Names)] /\ oid \in Oid /\ names2 \in [Oid -> Seq(Names)]
      /\ link \in Links
  BY DEF Names0, Tree
<1>2. names2[oid] = s /\ \A x \in Oid \ {oid} : names2[x] = names[x]
  BY <1>1
<1>3. \A x \in Oid \ V : names[x] = <<>> /\ ToSet(names[x]) = {}
  BY DEF Names0, ToSet
<1>4. \A x \in Oid : Up(link, x) \subseteq Oid
  BY <1>1, UpOK
<1>5. ASSUME NEW o \in Oid, NEW x \in Up(link, o) \ {o}
      PROVE  ToSet(names2[o]) \cap ToSet(names2[x]) = {}
  <2>1. x \in Oid /\ ToSet(names[o]) \cap ToSet(names[x]) = {}
    BY <1>4 DEF Names0, NamesOnce
  <2>2. CASE o = oid
    <3>1. x \in V
      BY <2>2 DEF Tree
    <3>2. ToSet(names[x]) \cap N = {} /\ names2[x] = names[x]
      BY <1>2, <2>1, <2>2, <3>1 DEF Unheard
    <3> QED
      BY <1>2, <2>1, <2>2, <3>2
  <2>3. CASE o # oid /\ x = oid
    <3>1. ToSet(names[o]) \cap N = {} /\ names2[o] = names[o]
      BY <1>2, <1>3, <2>3 DEF Unheard
    <3> QED
      BY <1>2, <2>1, <2>3, <3>1
  <2>4. CASE o # oid /\ x # oid
    BY <1>2, <2>1, <2>4
  <2> QED
    BY <2>2, <2>3, <2>4
<1>6. NamesOnce(names2, link)
  BY <1>5 DEF NamesOnce
<1>7. \A x \in Oid \ V : names2[x] = <<>>
  BY <1>2, <1>3
<1> QED
  BY <1>1, <1>6, <1>7 DEF Names0

\* An object comes under another parent.
Apart2(V, link, names, oid, p) ==
  \A x \in Up(link, p) : \A y \in V : oid \in Up(link, y) => ToSet(names[x]) \cap ToSet(names[y]) = {}

LEMMA OneMoves ==
  ASSUME NEW V, NEW link, Tree(V, link), NEW names, Names0(V, link, names), NEW oid \in V,
         NEW p \in V \cup {NOTHING}, oid \notin Up(link, p), Apart2(V, link, names, oid, p),
         NEW link2 \in Links, link2[oid] = p, \A x \in Oid \ {oid} : link2[x] = link[x]
  PROVE  Names0(V, link2, names)
<1>1. link \in Links /\ oid \in Oid /\ V \subseteq Oid
  BY DEF Tree
<1>2. \A x \in Oid \ V : names[x] = <<>> /\ ToSet(names[x]) = {}
  BY DEF Names0, ToSet
<1>3. Up(link, p) \subseteq Oid /\ ClosedUp(link, Up(link, p)) /\ (p # NOTHING => p \in Up(link, p))
  BY <1>1, UpOK, UpNothing DEF ClosedUp
<1>4. ASSUME NEW o \in Oid, NEW x \in Up(link2, o) \ {o}
      PROVE  ToSet(names[o]) \cap ToSet(names[x]) = {}
  <2>1. Up(link, o) \subseteq Oid /\ o \in Up(link, o) /\ ClosedUp(link, Up(link, o))
    BY <1>1, UpOK
  <2>2. CASE oid \notin Up(link, o)
    <3>1. \A y \in Up(link, o) : link2[y] = link[y]
      BY <2>1, <2>2
    <3>2. Up(link2, o) = Up(link, o)
      BY <1>1, <2>1, <3>1, UpSame
    <3> QED
      BY <3>2 DEF Names0, NamesOnce
  <2>3. CASE oid \in Up(link, o)
    <3> DEFINE S == {y \in Up(link, o) : oid \in Up(link, y)} \cup Up(link, p)
    <3>1. o \in S /\ S \subseteq Oid
      BY <1>3, <2>1, <2>3
    <3>2. ASSUME NEW y \in S, link2[y] # NOTHING  PROVE link2[y] \in S
      <4>1. CASE y = oid
        BY <1>3, <3>2, <4>1
      <4>2. CASE y \in Up(link, p)
        <5>1. link2[y] = link[y]
          BY <1>3, <4>2
        <5> QED
          BY <1>3, <3>2, <4>2, <5>1 DEF ClosedUp
      <4>3. CASE y # oid /\ y \in Up(link, o) /\ oid \in Up(link, y)
        <5>1. y \in Oid /\ link2[y] = link[y]
          BY <2>1, <4>3
        <5>2. oid \in Up(link, link[y])
          BY <1>1, <4>3, <5>1, UpStep
        <5>3. link[y] \in Up(link, o)
          BY <2>1, <3>2, <4>3, <5>1 DEF ClosedUp
        <5> QED
          BY <5>1, <5>2, <5>3
      <4> QED
        BY <4>1, <4>2, <4>3
    <3>3. ClosedUp(link2, S)
      BY <3>2 DEF ClosedUp
    <3>4. x \in S
      <4> HIDE DEF S
      <4> QED
        BY <3>1, <3>3, UpOK
    <3>5. CASE x \in Up(link, o)
      BY <3>5 DEF Names0, NamesOnce
    <3>6. CASE x \in Up(link, p)
      <4>1. o \in V => ToSet(names[o]) \cap ToSet(names[x]) = {}
        BY <2>3, <3>6 DEF Apart2
      <4> QED
        BY <1>2, <4>1
    <3> QED
      BY <3>4, <3>5, <3>6
  <2> QED
    BY <2>2, <2>3
<1>5. NamesOnce(names, link2)
  BY <1>4 DEF NamesOnce
<1> QED
  BY <1>5 DEF Names0

\* Objects take their names with them to other numbers.
NamesAt(names2, V, V2, r) == \A o \in Oid : names2[o] # <<>> => o \in V2 /\ \E x \in V : r[x] = o
LEMMA NamesMove ==
  ASSUME NEW V, NEW link, Tree(V, link), NEW names, Names0(V, link, names),
         NEW V2 \in SUBSET Oid, NEW link2 \in Links, NEW names2 \in [Oid -> Seq(Names)],
         NEW r, Carried(names, link, names2, link2, V, r),
         NamesAt(names2, V, V2, r)
  PROVE  Names0(V2, link2, names2)
<1> USE DEF NamesAt
<1>1. link \in Links /\ V \subseteq Oid
  BY DEF Tree
<1>2. ASSUME NEW o \in Oid, NEW x \in Up(link2, o) \ {o}
      PROVE  ToSet(names2[o]) \cap ToSet(names2[x]) = {}
  <2>1. CASE names2[o] = <<>>
    BY <2>1 DEF ToSet
  <2>2. CASE names2[o] # <<>>
    <3>1. PICK u \in V : r[u] = o
      BY <2>2
    <3> DEFINE S == {r[y] : y \in Up(link, u)}
    <3>2. Up(link, u) \subseteq V /\ u \in Up(link, u) /\ ClosedUp(link, Up(link, u))
      BY <1>1, UpOK DEF Tree
    <3>3. o \in S /\ S \in SUBSET Oid
      BY <3>1, <3>2 DEF Carried
    <3>4. ASSUME NEW y \in Up(link, u), link2[r[y]] # NOTHING PROVE link2[r[y]] \in S
      <4>1. link2[r[y]] = IF link[y] = NOTHING THEN NOTHING ELSE r[link[y]]
        BY <3>2 DEF Carried
      <4>2. link[y] \in Up(link, u)
        BY <3>2, <3>4, <4>1 DEF ClosedUp
      <4> QED
        BY <3>4, <4>1, <4>2
    <3>5. ClosedUp(link2, S)
      BY <3>4 DEF ClosedUp
    <3>6. x \in S
      <4> HIDE DEF S
      <4> QED
        BY <3>3, <3>5, UpOK
    <3>7. PICK y \in Up(link, u) : x = r[y]
      BY <3>6
    <3>8. y # u /\ u \in Oid /\ y \in V
      BY <1>1, <3>1, <3>2, <3>7
    <3>9. ToSet(names[u]) \cap ToSet(names[y]) = {}
      BY <3>8 DEF Names0, NamesOnce
    <3>10. names2[o] = names[u] /\ names2[x] = names[y]
      BY <3>1, <3>7, <3>8 DEF Carried
    <3> QED
      BY <3>9, <3>10
  <2> QED
    BY <2>1, <2>2
<1>3. NamesOnce(names2, link2)
  BY <1>2 DEF NamesOnce
<1> QED
  BY <1>3 DEF Names0
-----------------------------------------------------------------------------
(* Objects change.                                                         *)

LEMMA BelowIs ==
  ASSUME IInv
  PROVE  /\ \A oid \in Oid : Below(oid) = {x \in valid : oid \in Up(Parent, x)}
         /\ \A oid : Below(oid) \in SUBSET Oid
         /\ \A o \in OidOrNothing : Line(Parent, o) = Up(Parent, o)
         /\ \A oid \in valid : oid \in Oid /\ oid \in OidOrNothing /\ oid \in Below(oid)
<1>1. Tree(valid, Parent)
  BY TreeNow
<1>2. Parent \in Links /\ Acyclic(Parent) /\ valid \subseteq Oid
  BY <1>1 DEF Tree
<1>3. \A o \in OidOrNothing : Line(Parent, o) = Up(Parent, o)
  BY <1>2, LineIsUp
<1>4. \A oid : Below(oid) = {x \in valid : oid \in Up(Parent, x)}
  BY <1>2, <1>3 DEF Below, OidOrNothing
<1>5. \A oid \in Oid : oid \in Up(Parent, oid)
  BY <1>2, UpOK
<1> QED
  BY <1>2, <1>3, <1>4, <1>5 DEF OidOrNothing

\* Names of an object are others, and all below let go of their lists.
LEMMA DefineOK ==
  ASSUME WInv, UNCHANGED vars, NEW oid \in valid, NEW s \in Seq(Names), NEW N,
         ToSet(s) \subseteq ToSet(propdefs[oid]) \cup N,
         Unheard(valid, Parent, propdefs, oid, N),
         propdefs' = [propdefs EXCEPT ![oid] = s], Becomes(LetGo(Below(oid)))
  PROVE  WInv'
<1>a. PICK B, m2 : B = Below(oid) /\ m2 = LetGo(B)
  OBVIOUS
<1>1. valid' = valid /\ Parent' = Parent /\ IInv'
  BY NextOK DEF WInv, vars, Parent
<1>2. /\ IInv /\ MemOK(Memory) /\ Tree(valid, Parent) /\ Names0(valid, Parent, propdefs)
      /\ valid \subseteq Oid
  BY WInvFacts
<1>3. B \in SUBSET Oid /\ B = {x \in valid : oid \in Up(Parent, x)}
  BY <1>2, <1>a, BelowIs
<1>4. LetGoMade(Memory, m2, B)
  BY <1>2, <1>3, <1>a, LetGoOK
<1>5. Names0(valid, Parent, propdefs')
  <2>a. PICK V, link, names, names2 : V = valid /\ link = Parent /\ names = propdefs /\ names2 = propdefs'
    OBVIOUS
  <2> QED
    BY <1>2, <2>a, OneDefines
<1>6. KeepWays(valid, Parent, propdefs, valid', Parent', propdefs', B)
  <2>1. \A x \in Oid \ {oid} : propdefs'[x] = propdefs[x]
    BY <1>2 DEF Names0
  <2>2. \A o \in valid : Up(Parent, o) \subseteq Oid
    BY <1>2 DEF Tree
  <2> QED
    BY <1>1, <1>3, <2>1, <2>2 DEF KeepWays
<1> QED
  BY <1>1, <1>3, <1>4, <1>5, <1>6, <1>a, LetGoNext

LEMMA MayDefineIs ==
  ASSUME IInv, NEW oid \in valid, NEW n, MayDefine(oid, n)
  PROVE  Unheard(valid, Parent, propdefs, oid, {n})
BY BelowIs DEF MayDefine, Unheard

LEMMA AddPropdefOK ==
  ASSUME WInv, NEW oid \in Oid, NEW n \in Names, AddPropdef(oid, n)
  PROVE  WInv'
<1>a. PICK s : s = Append(propdefs[oid], n)
  OBVIOUS
<1>1. /\ oid \in valid /\ MayDefine(oid, n) /\ propdefs' = [propdefs EXCEPT ![oid] = s]
      /\ Becomes(LetGo(Below(oid))) /\ UNCHANGED vars
  <2>1. propdefs' = [propdefs EXCEPT ![oid] = Append(propdefs[oid], n)]
    BY DEF AddPropdef
  <2> QED
    BY <2>1, <1>a DEF AddPropdef
<1>2. IInv /\ propdefs[oid] \in Seq(Names)
  BY WInvFacts DEF Names0
<1>3. s \in Seq(Names) /\ ToSet(s) = ToSet(propdefs[oid]) \cup {n}
  BY <1>2, <1>a, AppendedHas, AppendProperties
<1>4. Unheard(valid, Parent, propdefs, oid, {n})
  BY <1>1, <1>2, MayDefineIs
<1>b. PICK N : N = {n}
  OBVIOUS
<1> QED
  BY <1>1, <1>3, <1>4, <1>b, DefineOK

LEMMA RemovedHas ==
  ASSUME NEW s \in Seq(Names), NEW n
  PROVE  RemoveFirst(s, n) \in Seq(Names) /\ ToSet(RemoveFirst(s, n)) \subseteq ToSet(s)
<1>1. PICK t : t = RemoveFirst(s, n)
  OBVIOUS
<1>2. Len(s) \in Nat /\ DOMAIN s = 1..Len(s) /\ \A i \in 1..Len(s) : s[i] \in Names
  BY LenProperties, ElementOfSeq
<1>3. CASE \E i \in 1..Len(s) : s[i] = n
  <2> DEFINE I == {i \in 1..Len(s) : s[i] = n}
  <2>0. PICK k : k = SelectInSeq(s, LAMBDA v : v = n)
    OBVIOUS
  <2>1. k \in 1..Len(s) /\ t = RemoveAt(s, k)
    <3>1. k = Min(I) /\ I # {}
      BY <1>3, <2>0 DEF SelectInSeq
    <3>2. I \subseteq Nat
      BY <1>2
    <3>3. \E x \in I : \A y \in I : x <= y
      <4> HIDE DEF I
      <4> QED
        BY <3>1, <3>2, Least
    <3>4. k \in I
      <4> HIDE DEF I
      <4> QED
        BY <3>1, <3>3 DEF Min
    <3>5. t = RemoveAt(s, k)
      BY <1>1, <1>3, <2>0 DEF RemoveFirst
    <3> QED
      BY <3>4, <3>5
  <2>2. k \in Nat /\ k >= 1 /\ k <= Len(s)
    BY <1>2, <2>1
  <2>3. PICK a, b : a = SubSeq(s, 1, k - 1) /\ b = SubSeq(s, k + 1, Len(s))
    OBVIOUS
  <2>4. t = a \o b
    BY <2>1, <2>3 DEF RemoveAt
  <2>5. a \in Seq(Names) /\ Len(a) = k - 1 /\ \A i \in 1..k - 1 : a[i] = s[i]
    BY <1>2, <2>2, <2>3, SubSeqProperties
  <2>6. b \in Seq(Names) /\ Len(b) = Len(s) - k /\ \A i \in 1..Len(s) - k : b[i] = s[k + i]
    <3>1. PICK l, p : l = Len(s) /\ p = k + 1
      OBVIOUS
    <3>2. l \in Int /\ p \in Int /\ \A i \in p..l : s[i] \in Names
      BY <1>2, <2>2, <3>1
    <3>3. b = SubSeq(s, p, l)
      BY <2>3, <3>1
    <3>4. /\ b \in Seq(Names)
          /\ Len(b) = IF p <= l THEN l - p + 1 ELSE 0
          /\ \A i \in 1..l - p + 1 : b[i] = s[p + i - 1]
      BY <3>2, <3>3, SubSeqProperties
    <3>5. k + 1 = p /\ l = Len(s) /\ k \in Nat /\ l \in Nat /\ k <= l
      BY <1>2, <2>2, <3>1
    <3>6. Len(b) = l - k /\ \A i \in 1..l - k : b[i] = s[k + i]
      <4>1. p \in Nat /\ l - p + 1 = l - k /\ \A i \in Int : p + i - 1 = k + i
        BY <3>5
      <4>2. Len(b) = l - p + 1
        BY <3>4, <3>5
      <4>3. ASSUME NEW i \in 1..l - k  PROVE b[i] = s[k + i]
        <5>1. i \in Int /\ i \in 1..l - p + 1
          BY <3>5, <4>1
        <5>2. b[i] = s[p + i - 1]
          BY <3>4, <5>1
        <5>3. p + i - 1 = k + i
          BY <4>1, <5>1
        <5> QED
          BY <5>2, <5>3
      <4> QED
        BY <4>1, <4>2, <4>3
    <3> QED
      BY <3>4, <3>5, <3>6
  <2>7. ToSet(a) \subseteq ToSet(s)
    BY <1>2, <2>2, <2>5, LenProperties DEF ToSet
  <2>8. ToSet(b) \subseteq ToSet(s)
    <3>1. DOMAIN b = 1..Len(s) - k
      BY <2>6, LenProperties
    <3>2. ASSUME NEW i \in 1..Len(s) - k PROVE b[i] = s[k + i] /\ k + i \in DOMAIN s
      BY <1>2, <2>2, <2>6
    <3> QED
      BY <3>1, <3>2 DEF ToSet
  <2>9. t \in Seq(Names) /\ ToSet(t) = ToSet(a) \cup ToSet(b)
    BY <2>4, <2>5, <2>6, JoinedHas, ConcatProperties
  <2> QED
    BY <1>1, <2>7, <2>8, <2>9
<1>4. CASE ~ \E i \in 1..Len(s) : s[i] = n
  BY <1>1, <1>4 DEF RemoveFirst
<1> QED
  BY <1>3, <1>4

LEMMA DeletePropdefOK ==
  ASSUME WInv, NEW oid \in Oid, NEW n \in Names, DeletePropdef(oid, n)
  PROVE  WInv'
<1>a. PICK s, N : s = RemoveFirst(propdefs[oid], n) /\ N = {}
  OBVIOUS
<1>1. /\ oid \in valid /\ propdefs' = [propdefs EXCEPT ![oid] = s]
      /\ Becomes(LetGo(Below(oid))) /\ UNCHANGED vars
  <2>1. propdefs' = [propdefs EXCEPT ![oid] = RemoveFirst(propdefs[oid], n)]
    BY DEF DeletePropdef
  <2> QED
    BY <2>1, <1>a DEF DeletePropdef
<1>2. IInv /\ propdefs[oid] \in Seq(Names)
  BY WInvFacts DEF Names0
<1>3. s \in Seq(Names) /\ ToSet(s) \subseteq ToSet(propdefs[oid])
  BY <1>2, <1>a, RemovedHas
<1>4. Unheard(valid, Parent, propdefs, oid, N)
  BY <1>a DEF Unheard
<1> QED
  BY <1>1, <1>3, <1>4, DefineOK
\* Of two objects on a way up, one is above the other.
LEMMA OneIsAbove ==
  ASSUME NEW link \in Links, NEW o \in Oid, NEW x \in Up(link, o), NEW y \in Up(link, o)
  PROVE  x \in Up(link, y) \/ y \in Up(link, x)
<1>a. PICK S : S = {x, y}
  OBVIOUS
<1>1. x \in Up(link, o) \cap S /\ y \in Up(link, o) \cap S /\ Up(link, o) \cap S # {}
  BY <1>a
<1>2. PICK z \in Up(link, o) \cap S : Up(link, o) \cap S \subseteq Up(link, z)
  BY <1>1, FirstMet
<1> QED
  BY <1>1, <1>2, <1>a

DefsRenamed(l, old, new) == [l EXCEPT !.defs = Rename(@, old, new)]
InPlace(L, held, old, new) ==
  [a \in Address |-> IF a \notin held THEN L[a] ELSE DefsRenamed(L[a], old, new)]

AllHeld(m, held) == \A a \in held \cap Address : \E o \in Oid : m.of[o] = a
HeldOf(m, B) == {m.of[x] : x \in B}
AllAt(V, link, oid) == {x \in V : oid \in Up(link, x)}

LEMMA InPlaceOK ==
  ASSUME NEW m, MemOK(m), NEW held, AllHeld(m, held),
         NEW old \in Names, NEW new \in Names,
         NEW L2, L2 = InPlace(m.lists, held, old, new), NEW m2, m2 = Mem(L2, m.of, m.waifs)
  PROVE  /\ MemOK(m2) /\ m2.of = m.of /\ m2.waifs = m.waifs
         /\ \A a \in Address : m2.lists[a].defs = IF a \in held THEN Rename(m.lists[a].defs, old, new)
                                                  ELSE m.lists[a].defs
<1>a. PICK L, H : L = m.lists /\ H = Held(m.of, m.waifs)
  OBVIOUS
<1>1. L \in Lists /\ m.of \in Ofs /\ WaifsOK(m.waifs) /\ OneEach(m.of) /\ Counted(L, H)
  BY <1>a DEF MemOK
<1>2. IsMem(m2) /\ m2.lists = L2 /\ m2.of = m.of /\ m2.waifs = m.waifs
  BY MemIs
<1>3. ASSUME NEW a \in Address
      PROVE  /\ L2[a] \in ListRec /\ CountRight(L2[a], Count(H, a))
             /\ L2[a].defs = IF a \in held THEN Rename(L[a].defs, old, new) ELSE L[a].defs
  <2>1. L[a] \in ListRec /\ L[a].refcount = Count(H, a) /\ CountRight(L[a], Count(H, a))
    BY <1>1, CountsOf DEF Counted
  <2>2. CASE a \notin held
    <3>1. L2[a] = L[a]
      BY <1>a, <2>2 DEF InPlace
    <3> QED
      BY <2>1, <2>2, <3>1
  <2>3. CASE a \in held
    <3>a. PICK l, d : l = L[a] /\ d = Rename(L[a].defs, old, new)
      OBVIOUS
    <3>1. L2[a] = DefsRenamed(l, old, new)
      BY <1>a, <2>3, <3>a DEF InPlace
    <3>2. L2[a] = [l EXCEPT !.defs = d]
      BY <3>1, <3>a DEF DefsRenamed
    <3>3. d \in Seq(Names)
      <4>1. l.defs \in Seq(Names)
        BY <2>1, <3>a DEF ListRec
      <4> QED
        BY <3>a, <4>1, RenameIs DEF IsRenamed
    <3>4. L2[a] \in ListRec /\ L2[a].refcount = l.refcount /\ L2[a].defs = d
      BY <2>1, <3>2, <3>3, <3>a DEF ListRec
    <3>5. Count(H, a) # 0
      <4>1. PICK o \in Oid : m.of[o] = a
        BY <2>3 DEF AllHeld
      <4>2. o \in Holder /\ H[o] = a
        BY <1>1, <1>a, <4>1, HeldIs
      <4> QED
        BY <1>1, <4>2, CountsOf
    <3> QED
      BY <2>1, <2>3, <3>4, <3>5, <3>a DEF CountRight
  <2> QED
    BY <2>2, <2>3
<1>4. L2 \in Lists
  BY <1>3 DEF Lists, InPlace
<1>5. Counted(L2, H)
  BY <1>1, <1>3, <1>4 DEF Counted, Lists
<1>6. MemOK(m2)
  BY <1>1, <1>2, <1>4, <1>5, <1>a DEF MemOK
<1> QED
  BY <1>2, <1>3, <1>6, <1>a

\* waif_rename_propdef() keeps the lists of all below right.
LEMMA RenamedOK ==
  ASSUME NEW V, NEW link, Tree(V, link), NEW names, NEW m, WaifsRight(V, link, names, m),
         NEW oid \in V, NEW old \in Names \ Plain, NEW new \in Names \ Plain,
         old \in ToSet(names[oid]), Unheard(V, link, names, oid, {new}),
         NEW B, B = AllAt(V, link, oid), NEW held, held = HeldOf(m, B),
         NEW names2, names2 = OneRenamed(names, oid, old, new),
         NEW m2, m2 = Mem(InPlace(m.lists, held, old, new), m.of, m.waifs)
  PROVE  WaifsRight(V, link, names2, m2)
<1>1. /\ link \in Links /\ Acyclic(link) /\ V \subseteq Oid /\ oid \in Oid
      /\ names \in [Oid -> Seq(Names)] /\ NamesOnce(names, link)
  BY DEF Tree, WaifsRight, Names0
<1>2. Names0(V, link, names2)
  <2>a. PICK s, N : s = Rename(names[oid], old, new) /\ N = {new}
    OBVIOUS
  <2>1. s \in Seq(Names) /\ ToSet(s) \subseteq ToSet(names[oid]) \cup N
    BY <1>1, <2>a, RenameIs, RenamedHas DEF IsRenamed
  <2>2. names2 = [names EXCEPT ![oid] = s]
    BY <2>a DEF OneRenamed
  <2>3. Names0(V, link, names) /\ Unheard(V, link, names, oid, N)
    BY <2>a DEF WaifsRight
  <2> QED
    BY <2>1, <2>2, <2>3, OneDefines
<1>3. /\ MemOK(m2) /\ m2.of = m.of
      /\ \A a \in Address : m2.lists[a].defs = IF a \in held THEN Rename(m.lists[a].defs, old, new)
                                               ELSE m.lists[a].defs
  <2>a. PICK L2 : L2 = InPlace(m.lists, held, old, new)
    OBVIOUS
  <2>1. MemOK(m) /\ AllHeld(m, held)
    BY <1>1 DEF WaifsRight, AllHeld, HeldOf, AllAt
  <2> QED
    BY <2>1, <2>a, InPlaceOK
<1>4. ASSUME NEW o \in Oid, m2.of[o] # Null
      PROVE  o \in V /\ m2.lists[m2.of[o]].defs = Inherited(names2, link, o)
  <2>a. PICK a : a = m.of[o]
    OBVIOUS
  <2>1. o \in V /\ m.lists[a].defs = Inherited(names, link, o) /\ m2.of[o] = a
    BY <1>3, <1>4, <2>a DEF WaifsRight, CurrentIn, Defs
  <2>2. a \in Address
    BY <1>3, <1>4, <2>a DEF WaifsRight, MemOK, Ofs
  <2>3. Up(link, o) \subseteq Oid /\ o \in Up(link, o)
    BY <1>1, UpOK
  <2>4. CASE o \in B
    <3>1. oid \in Up(link, o)
      BY <2>4 DEF AllAt
    <3>2. ASSUME NEW y \in Up(link, o) \ {oid}  PROVE old \notin ToSet(names[y])
      <4>1. y \in Up(link, oid) \/ oid \in Up(link, y)
        BY <1>1, <3>1, OneIsAbove
      <4>2. ToSet(names[y]) \cap ToSet(names[oid]) = {}
        BY <1>1, <2>3, <4>1 DEF NamesOnce
      <4> QED
        BY <4>2
    <3>3. Inherited(names2, link, o) = Rename(Inherited(names, link, o), old, new)
      <4>1. NotElsewhere(names, link, oid, old, o)
        BY <3>2 DEF NotElsewhere
      <4> QED
        BY <1>1, <4>1, InheritedRenamed
    <3>4. a \in held
      BY <2>4, <2>a DEF HeldOf
    <3> QED
      BY <1>3, <2>1, <2>2, <3>3, <3>4
  <2>5. CASE o \notin B
    <3>1. oid \notin Up(link, o)
      BY <2>1, <2>5 DEF AllAt
    <3>2. a \notin held
      <4>1. \A x \in Oid : m.of[x] = m.of[o] => x = o
        BY <1>3, <1>4 DEF WaifsRight, MemOK, OneEach
      <4> QED
        BY <1>1, <2>5, <2>a, <4>1 DEF HeldOf, AllAt
    <3>3. Inherited(names2, link, o) = Inherited(names, link, o)
      <4>a. PICK S, r : S = Up(link, o) /\ r = [x \in Up(link, o) |-> x]
        OBVIOUS
      <4>1. names2 \in [Oid -> Seq(Names)]
        BY <1>2 DEF Names0
      <4>2. \A y \in S : names2[y] = names[y]
        BY <1>1, <2>3, <3>1, <4>a DEF OneRenamed
      <4>3. Carried(names, link, names2, link, S, r)
        <5>1. S \subseteq Oid /\ ClosedUp(link, S)
          BY <1>1, <4>a, UpOK
        <5> QED
          BY <4>2, <4>a, <5>1 DEF Carried, ClosedUp
      <4>4. CarriedOver(names, link, names2, link, S, r)
        BY <1>1, <4>1, <4>3 DEF CarriedOver
      <4>5. SameInherited(names, link, names2, link, S, r)
        BY <4>4, AllCarried
      <4> QED
        BY <2>3, <4>5, <4>a DEF SameInherited
    <3> QED
      BY <1>3, <2>1, <2>2, <3>2, <3>3
  <2> QED
    BY <2>4, <2>5
<1>5. CurrentIn(m2, V, Defs(names2, link))
  BY <1>4 DEF CurrentIn, Defs
<1> QED
  BY <1>2, <1>3, <1>5 DEF WaifsRight
LEMMA InPlaceIs ==
  ASSUME NEW oid, NEW old, NEW new
  PROVE  RenamedInPlace(oid, old, new)
           = Mem(InPlace(lists, HeldOf(Memory, Below(oid)), old, new), waif_propdefs, waifs)
<1>a. PICK held : held = HeldOf(Memory, Below(oid))
  OBVIOUS
<1>b. PICK x : x = InPlace(lists, held, old, new)
  OBVIOUS
<1>c. PICK m : m = Memory
  OBVIOUS
<1>1. IsMem(m) /\ m.lists = lists /\ m.of = waif_propdefs /\ m.waifs = waifs
  BY <1>c, MemoryIs
<1>2. held = {waif_propdefs[y] : y \in Below(oid)}
  BY <1>1, <1>a, <1>c DEF HeldOf
<1>3. RenamedInPlace(oid, old, new) = [m EXCEPT !.lists = x]
  <2>a. PICK z : z = [a \in Address |->
                         IF a \notin {waif_propdefs[y] : y \in Below(oid)} THEN lists[a]
                         ELSE [lists[a] EXCEPT !.defs = Rename(@, old, new)]]
    OBVIOUS
  <2>1. z = x
    <3>1. \A a : a \in held <=> a \in {waif_propdefs[y] : y \in Below(oid)}
      BY <1>2
    <3> QED
      BY <3>1, <1>b, <2>a DEF InPlace, DefsRenamed
  <2>2. RenamedInPlace(oid, old, new) = [Memory EXCEPT !.lists = z]
    <3>1. RenamedInPlace(oid, old, new)
            = [Memory EXCEPT !.lists =
                 [a \in Address |->
                     IF a \notin {waif_propdefs[y] : y \in Below(oid)} THEN lists[a]
                     ELSE [lists[a] EXCEPT !.defs = Rename(@, old, new)]]]
      BY Zenon DEF RenamedInPlace
    <3> QED
      BY <2>a, <3>1, Zenon
  <2> QED
    BY <2>1, <2>2, <1>c
<1>4. [m EXCEPT !.lists = x] = Mem(x, m.of, m.waifs)
  BY <1>1, ListsSet
<1> QED
  BY <1>1, <1>3, <1>4, <1>a, <1>b

LEMMA RenamePropdefOK ==
  ASSUME WInv, NEW oid \in Oid, NEW old \in Names, NEW new \in Names, RenamePropdef(oid, old, new)
  PROVE  WInv'
<1>a. PICK s : s = Rename(propdefs[oid], old, new)
  OBVIOUS
<1>1. /\ oid \in valid /\ old \in ToSet(propdefs[oid]) /\ MayDefine(oid, new)
      /\ propdefs' = [propdefs EXCEPT ![oid] = s] /\ UNCHANGED vars
  <2>1. propdefs' = [propdefs EXCEPT ![oid] = Rename(propdefs[oid], old, new)]
    BY DEF RenamePropdef
  <2> QED
    BY <2>1, <1>a DEF RenamePropdef
<1>2. IInv /\ propdefs[oid] \in Seq(Names)
  BY WInvFacts DEF Names0
<1>3. Unheard(valid, Parent, propdefs, oid, {new})
  BY <1>1, <1>2, MayDefineIs
<1>4. CASE {old, new} \cap Plain = {}
  <2>1. Becomes(RenamedInPlace(oid, old, new)) /\ old \in Names \ Plain /\ new \in Names \ Plain
    BY <1>4 DEF RenamePropdef
  <2>a. PICK V, link, names, m : V = valid /\ link = Parent /\ names = propdefs /\ m = Memory
    OBVIOUS
  <2>b. PICK B, held : B = Below(oid) /\ held = HeldOf(m, B)
    OBVIOUS
  <2>c. PICK m2, names2 : /\ m2 = Mem(InPlace(m.lists, held, old, new), m.of, m.waifs)
                          /\ names2 = OneRenamed(names, oid, old, new)
    OBVIOUS
  <2>2. m2 = RenamedInPlace(oid, old, new)
    <3>1. m.lists = lists /\ m.of = waif_propdefs /\ m.waifs = waifs
      BY <2>a, MemoryIs
    <3> QED
      BY <3>1, <2>a, <2>b, <2>c, InPlaceIs
  <2>3. B = AllAt(V, link, oid)
    BY <1>2, <2>a, <2>b, BelowIs DEF AllAt
  <2>4. Tree(V, link) /\ WaifsRight(V, link, names, m) /\ Unheard(V, link, names, oid, {new})
    BY <1>2, <1>3, <2>a, TreeNow DEF WInv
  <2>5. oid \in V /\ old \in ToSet(names[oid])
    BY <1>1, <2>a
  <2>6. WaifsRight(V, link, names2, m2)
    BY <2>1, <2>3, <2>4, <2>5, <2>b, <2>c, RenamedOK
  <2>7. names2 = propdefs'
    BY <1>1, <1>a, <2>a, <2>c DEF OneRenamed
  <2>8. Memory' = m2
    BY <2>1, <2>2, <2>6, BecomesIs DEF WaifsRight, MemOK
  <2>9. valid' = valid /\ Parent' = Parent /\ IInv'
    BY <1>1, <1>2, NextOK DEF vars, Parent
  <2> QED
    BY <2>6, <2>7, <2>8, <2>9, <2>a DEF WInv
<1>5. CASE {old, new} \cap Plain # {}
  <2>a. PICK N : N = {new}
    OBVIOUS
  <2>1. s \in Seq(Names) /\ ToSet(s) \subseteq ToSet(propdefs[oid]) \cup N
    BY <1>2, <1>a, <2>a, RenameIs, RenamedHas DEF IsRenamed
  <2>2. Becomes(LetGo(Below(oid)))
    BY <1>5 DEF RenamePropdef
  <2>3. Unheard(valid, Parent, propdefs, oid, N)
    BY <1>3, <2>a
  <2> QED
    BY <1>1, <2>1, <2>2, <2>3, DefineOK
<1> QED
  BY <1>4, <1>5
LEMMA ChparentWaifsOK ==
  ASSUME WInv, NEW oid \in Oid, NEW p \in OidOrNothing, ChparentWaifs(oid, p)
  PROVE  WInv'
<1>1. /\ oid \in valid /\ p \in valid \cup {NOTHING} /\ oid \notin Up(Parent, p)
      /\ valid' = valid /\ obj' = ChangeParent(obj, oid, p) /\ propdefs' = propdefs
  BY DEF ChparentWaifs, Chparent, ValidOrNothing
<1>a. PICK B, m2 : B = Below(oid) /\ m2 = LetGo(B)
  OBVIOUS
<1>2. /\ IInv /\ MemOK(Memory) /\ Tree(valid, Parent) /\ Names0(valid, Parent, propdefs)
      /\ valid \subseteq Oid
  BY WInvFacts
<1>3. IInv'
  BY <1>2, ChparentOK DEF ChparentWaifs
<1>4. Parent' \in Links /\ Parent'[oid] = p /\ \A x \in Oid \ {oid} : Parent'[x] = Parent[x]
  <2>1. obj \in [Oid -> Object]
    BY <1>2, IInvFacts
  <2>2. ChangeParentMade(obj, oid, p, obj')
    BY <1>1, <2>1, ChangeParentIs
  <2>3. Parent' \in Links
    BY <1>3, TreeNext DEF Tree
  <2> QED
    BY <2>2, <2>3 DEF ChangeParentMade, Parent
<1>5. B \in SUBSET Oid /\ B = {x \in valid : oid \in Up(Parent, x)}
  BY <1>2, <1>a, BelowIs
<1>6. LetGoMade(Memory, m2, B)
  BY <1>2, <1>5, <1>a, LetGoOK
<1>7. Apart2(valid, Parent, propdefs, oid, p)
  <2>1. Line(Parent, p) = Up(Parent, p)
    BY <1>2, BelowIs
  <2> QED
    BY <1>5, <1>a, <2>1 DEF Apart2, ChparentWaifs, NoConflict
<1>8. Names0(valid, Parent', propdefs)
  <2>a. PICK V, link, names, link2 : V = valid /\ link = Parent /\ names = propdefs /\ link2 = Parent'
    OBVIOUS
  <2> QED
    BY <1>1, <1>2, <1>4, <1>7, <2>a, OneMoves
<1>9. KeepWays(valid, Parent, propdefs, valid', Parent', propdefs', B)
  <2>1. \A o \in valid : Up(Parent, o) \subseteq Oid
    BY <1>2 DEF Tree
  <2> QED
    BY <1>1, <1>4, <1>5, <2>1 DEF KeepWays
<1> QED
  BY <1>1, <1>3, <1>5, <1>6, <1>8, <1>9, <1>a, LetGoNext DEF ChparentWaifs

\* A new object is on nobody's way up.
LEMMA NewObjectOK ==
  ASSUME WInv, IInv', NEW n \in Oid \ valid, NEW p \in OidOrNothing,
         valid' = valid \cup {n}, obj' = ChangeParent(obj, n, p),
         Becomes(Memory), UNCHANGED propdefs
  PROVE  WInv'
<1>1. /\ IInv /\ MemOK(Memory) /\ Tree(valid, Parent) /\ Names0(valid, Parent, propdefs)
      /\ valid \subseteq Oid
  BY WInvFacts
<1>2. Parent' \in Links /\ \A x \in Oid \ {n} : Parent'[x] = Parent[x]
  <2>1. obj \in [Oid -> Object]
    BY <1>1, IInvFacts
  <2>2. ChangeParentMade(obj, n, p, obj')
    BY <2>1, ChangeParentIs
  <2>3. Parent' \in Links
    BY TreeNext DEF Tree
  <2> QED
    BY <2>2, <2>3 DEF ChangeParentMade, Parent
<1>a. PICK V, link, names, link2 : V = valid /\ link = Parent /\ names = propdefs /\ link2 = Parent'
  OBVIOUS
<1>b. PICK r : r = [x \in V |-> x]
  OBVIOUS
<1>3. /\ link \in Links /\ V \subseteq Oid /\ \A o \in V : Up(link, o) \subseteq V
      /\ \A o \in V : link[o] # NOTHING => link[o] \in V
  <2>1. /\ link \in Links /\ V \subseteq Oid /\ \A o \in V : Up(link, o) \subseteq V
    BY <1>1, <1>a DEF Tree
  <2> QED
    BY <2>1, UpOK DEF ClosedUp
<1>4. Names0(valid', Parent', propdefs')
  <2>1. Carried(names, link, names, link2, V, r)
    BY <1>2, <1>3, <1>a, <1>b DEF Carried, ClosedUp
  <2>c. PICK V2 : V2 = V \cup {n}
    OBVIOUS
  <2>2. NamesAt(names, V, V2, r)
    BY <1>1, <1>a, <1>b, <2>c DEF Names0, NamesAt
  <2>3. Names0(V2, link2, names)
    <3>1. Tree(V, link) /\ Names0(V, link, names) /\ names \in [Oid -> Seq(Names)] /\ V2 \in SUBSET Oid
      BY <1>1, <1>a, <2>c DEF Names0
    <3> QED
      BY <1>2, <1>a, <2>1, <2>2, <2>c, <3>1, NamesMove
  <2> QED
    BY <1>a, <2>3, <2>c
<1>5. KeepWays(valid, Parent, propdefs, valid', Parent', propdefs', {})
  BY <1>2, <1>3, <1>a DEF KeepWays
<1>6. LetGoMade(Memory, Memory, {})
  <2>a. PICK m : m = Memory
    OBVIOUS
  <2> QED
    BY <1>1, <2>a, NoneLetGo
<1>c. PICK B, m2 : B = {} /\ m2 = Memory
  OBVIOUS
<1> QED
  BY <1>4, <1>5, <1>6, <1>c, LetGoNext

LEMMA CreateWaifsOK ==
  ASSUME WInv, NEW p \in OidOrNothing, CreateWaifs(p)
  PROVE  WInv'
<1>1. IInv /\ Becomes(Memory) /\ UNCHANGED propdefs
  BY WInvFacts DEF CreateWaifs
<1>2. CASE Create(p)
  <2>1. num \in Oid \ valid /\ valid' = valid \cup {num} /\ obj' = ChangeParent(obj, num, p)
    BY <1>1, <1>2, IInvFacts DEF Create, Oid
  <2>2. IInv'
    BY <1>1, <1>2, CreateOK
  <2> QED
    BY <1>1, <2>1, <2>2, NewObjectOK
<1>3. CASE CreateYoung(p)
  <2>a. PICK n : n = Lowest(valid, num)
    OBVIOUS
  <2>1. valid' = valid \cup {n} /\ obj' = ChangeParent(obj, n, p) /\ num <= MaxOid
    BY <1>3, <2>a DEF CreateYoung
  <2>2. n \in Oid \ valid
    <3>1. num \in Nat /\ \A o \in valid : o < num
      BY <1>1, IInvFacts
    <3>2. n \in 0..num /\ (n = num \/ n \notin valid)
      BY <2>a, <3>1, LowestOK
    <3>3. n \notin valid
      BY <3>1, <3>2
    <3> QED
      BY <1>1, <2>1, <3>1, <3>2, <3>3, IInvFacts DEF Oid
  <2>3. IInv'
    BY <1>1, <1>3, CreateYoungOK
  <2> QED
    BY <1>1, <2>1, <2>2, <2>3, NewObjectOK
<1> QED
  BY <1>2, <1>3 DEF CreateWaifs
\* The children of an object that is recycled go to its parent.
ParentsLeft(f, oid, g) ==
  \A x \in Oid : g[x].parent = IF x = oid THEN NOTHING
                               ELSE IF f[x].parent = oid THEN f[oid].parent ELSE f[x].parent
LEMMA DestroyedParents ==
  ASSUME NEW f, NEW V, Sound(f, V), NEW oid \in V,
         NEW e, e = Emptied(f, oid), NEW p, p = Orphaned(e, oid), NEW g, g = Removed(p, oid)
  PROVE  ParentsLeft(f, oid, g)
<1>1. f \in [Oid -> Object] /\ oid \in Oid /\ V \subseteq Oid
  BY DEF Sound
<1>2. ASSUME NEW x \in Oid PROVE e[x].parent = f[x].parent /\ e[x].children = f[x].children
  <2>1. f[x] \in Object
    BY <1>1
  <2>2. e[x] = [f[x] EXCEPT !.location = IF x \in f[oid].contents \cup {oid} THEN NOTHING ELSE @,
                            !.contents = IF x = oid THEN {} ELSE @ \ {oid}]
    BY DEF Emptied
  <2> QED
    BY <2>1, <2>2 DEF Object
<1>3. Sound(e, V)
  BY EmptiedSound
<1>4. ASSUME NEW x \in Oid
      PROVE  p[x].parent = IF x \in e[oid].children THEN e[oid].parent
                           ELSE IF x = oid THEN NOTHING ELSE e[x].parent
  <2>1. e[x] \in Object
    BY <1>3 DEF Sound
  <2>2. p[x] = [e[x] EXCEPT !.parent = IF x \in e[oid].children THEN e[oid].parent
                                       ELSE IF x = oid THEN NOTHING ELSE @,
                            !.children = IF x = e[oid].parent THEN (@ \cup e[oid].children) \ {oid}
                                         ELSE IF x = oid THEN {} ELSE @]
    BY DEF Orphaned
  <2> QED
    BY <2>1, <2>2 DEF Object
<1>5. \A x \in Oid : x \in f[oid].children <=> f[x].parent = oid
  <2>1. f[oid].children = {x \in V : f[x].parent = oid}
    BY DEF Sound, Linked
  <2>2. \A x \in Oid \ V : f[x].parent # oid
    BY <1>1, FreshIs, NothingIsNoOid DEF Sound
  <2> QED
    BY <1>1, <2>1, <2>2
<1>6. g[oid] = Fresh /\ \A x \in Oid \ {oid} : g[x] = p[x]
  <2>1. Sound(p, V)
    BY <1>3, OrphanedSound
  <2> QED
    BY <1>1, <2>1 DEF Removed, Sound
<1> QED
  BY <1>1, <1>2, <1>4, <1>5, <1>6, FreshIs DEF ParentsLeft

\* No object that is not below it had it on its way up.
ParentsGone(link, oid, link2) ==
  \A x \in Oid : link2[x] = IF x = oid THEN NOTHING
                            ELSE IF link[x] = oid THEN link[oid] ELSE link[x]
LEMMA LessUp ==
  ASSUME NEW link \in Links, NEW link2 \in Links, NEW oid \in Oid, ParentsGone(link, oid, link2)
  PROVE  /\ \A o \in Oid : Up(link2, o) \subseteq Up(link, o) /\ Up(link2, o) \subseteq Oid
         /\ \A o \in Oid : oid \notin Up(link, o) => \A y \in Up(link, o) : y # oid /\ link2[y] = link[y]
<1>1. ASSUME NEW o \in Oid PROVE Up(link2, o) \subseteq Up(link, o) /\ Up(link2, o) \subseteq Oid
  <2>a. PICK S : S = Up(link, o)
    OBVIOUS
  <2>1. o \in S /\ S \in SUBSET Oid /\ ClosedUp(link, S)
    BY <2>a, UpOK
  <2>2. ASSUME NEW y \in S, link2[y] # NOTHING PROVE link2[y] \in S
    <3>1. link2[y] = link[y] \/ (link[y] = oid /\ link2[y] = link[oid])
      BY <2>1, <2>2 DEF ParentsGone
    <3>2. CASE link2[y] = link[y]
      BY <2>1, <2>2, <3>2 DEF ClosedUp
    <3>3. CASE link[y] = oid /\ link2[y] = link[oid]
      <4>1. oid \in S
        BY <2>1, <3>3, NothingIsNoOid DEF ClosedUp
      <4> QED
        BY <2>1, <2>2, <3>3, <4>1 DEF ClosedUp
    <3> QED
      BY <3>1, <3>2, <3>3
  <2>3. ClosedUp(link2, S)
    BY <2>2 DEF ClosedUp
  <2> QED
    BY <2>1, <2>3, <2>a, UpOK
<1>2. ASSUME NEW o \in Oid, oid \notin Up(link, o), NEW y \in Up(link, o)
      PROVE  y # oid /\ link2[y] = link[y]
  <2>1. Up(link, o) \subseteq Oid /\ ClosedUp(link, Up(link, o))
    BY UpOK
  <2>2. y # oid /\ link[y] # oid
    BY <1>2, <2>1, NothingIsNoOid DEF ClosedUp
  <2> QED
    BY <2>1, <2>2 DEF ParentsGone
<1> QED
  BY <1>1, <1>2

LEMMA RecycleWaifsOK ==
  ASSUME WInv, NEW oid \in Oid, RecycleWaifs(oid)
  PROVE  WInv'
<1>a. PICK B, m2 : B = Below(oid) /\ m2 = LetGo(B)
  OBVIOUS
<1>1. /\ oid \in valid /\ Destroy(oid) /\ calls' = calls /\ valid' = valid \ {oid}
      /\ propdefs' = [propdefs EXCEPT ![oid] = <<>>] /\ Becomes(m2)
  BY <1>a DEF RecycleWaifs, Recycle, Destroy
<1>2. /\ IInv /\ MemOK(Memory) /\ Tree(valid, Parent) /\ Names0(valid, Parent, propdefs)
      /\ valid \subseteq Oid
  BY WInvFacts
<1>3. IInv'
  <2>1. calls' \in [Calls -> Frame]
    BY <1>1, <1>2, IInvFacts
  <2> QED
    BY <1>1, <1>2, <2>1, DestroyOK
<1>4. Parent \in Links /\ Parent' \in Links /\ ParentsGone(Parent, oid, Parent')
  <2>1. Parent \in Links /\ Parent' \in Links
    BY <1>2, <1>3, TreeNext DEF Tree
  <2>a. PICK e, p : e = Emptied(obj, oid) /\ p = Orphaned(e, oid)
    OBVIOUS
  <2>2. obj' = Removed(p, oid)
    BY <1>1, <2>a DEF Destroy, Removed
  <2>3. Sound(obj, valid)
    BY <1>2, IInvFacts
  <2>4. ParentsLeft(obj, oid, obj')
    BY <1>1, <2>2, <2>3, <2>a, DestroyedParents
  <2> QED
    BY <2>1, <2>4 DEF ParentsLeft, ParentsGone, Parent
<1>b. PICK link, link2, names, names2 :
        link = Parent /\ link2 = Parent' /\ names = propdefs /\ names2 = propdefs'
  OBVIOUS
<1>5. /\ \A o \in Oid : Up(link2, o) \subseteq Up(link, o) /\ Up(link2, o) \subseteq Oid
      /\ \A o \in Oid : oid \notin Up(link, o) => \A y \in Up(link, o) : y # oid /\ link2[y] = link[y]
  BY <1>4, <1>b, LessUp
<1>6. B \in SUBSET Oid /\ B = {x \in valid : oid \in Up(Parent, x)}
  BY <1>2, <1>a, BelowIs
<1>7. LetGoMade(Memory, m2, B)
  BY <1>2, <1>6, <1>a, LetGoOK
<1>8. Names0(valid', Parent', propdefs')
  <2>1. names \in [Oid -> Seq(Names)] /\ NamesOnce(names, link) /\ \A o \in Oid \ valid : names[o] = <<>>
    BY <1>2, <1>b DEF Names0
  <2>2. names2[oid] = <<>> /\ \A o \in Oid \ {oid} : names2[o] = names[o]
    BY <1>1, <1>b, <2>1
  <2>3. names2 \in [Oid -> Seq(Names)]
    <3>1. <<>> \in Seq(Names)
      OBVIOUS
    <3> QED
      BY <1>1, <1>b, <2>1, <3>1
  <2>4. \A o \in Oid : ToSet(names2[o]) \subseteq ToSet(names[o])
    BY <2>2 DEF ToSet
  <2>5. NamesOnce(names2, link2)
    BY <1>5, <2>1, <2>4, FewerNames
  <2> QED
    BY <1>1, <1>b, <2>1, <2>2, <2>3, <2>5 DEF Names0
<1>9. KeepWays(valid, Parent, propdefs, valid', Parent', propdefs', B)
  <2> SUFFICES ASSUME NEW o \in valid \ B
               PROVE  o \in valid' /\ \A y \in Up(link, o) : names2[y] = names[y] /\ link2[y] = link[y]
    BY <1>b DEF KeepWays
  <2>1. o \in Oid /\ oid \notin Up(link, o)
    BY <1>2, <1>6, <1>b
  <2>2. o \in Up(link, o) /\ Up(link, o) \subseteq Oid
    BY <1>4, <1>b, <2>1, UpOK
  <2>3. names \in [Oid -> Seq(Names)]
    BY <1>2, <1>b DEF Names0
  <2> QED
    BY <1>1, <1>5, <1>b, <2>1, <2>2, <2>3
<1> QED
  BY <1>1, <1>3, <1>6, <1>7, <1>8, <1>9, LetGoNext
-----------------------------------------------------------------------------
(* Objects take their lists with them to other numbers.                    *)

LEMMA HolderMoves ==
  ASSUME NEW H \in Holds, NEW x \in Holder, NEW y \in Holder, x # y, H[y] = Null,
         NEW H1, H1 = Holding(H, x, Null), NEW H2, H2 = Holding(H1, y, H[x])
  PROVE  H2 \in Holds /\ \A a \in Address : Count(H2, a) = Count(H, a)
<1>1. H1 \in Holds /\ Lessened(H, H1, x)
  BY OneLess DEF Holding
<1>2. \A z \in Holder : H1[z] = IF z = x THEN Null ELSE H[z]
  BY HoldingIs
<1>3. H[x] \in Address \cup {Null} /\ \A a \in Address : Count(H, a) \in Nat
  BY CountType DEF Holds
<1>4. CASE H[x] = Null
  <2>1. H2 \in Holds /\ \A z \in Holder : H2[z] = IF z = y THEN Null ELSE H1[z]
    BY <1>1, <1>4, HoldingIs
  <2>2. \A z \in Holder : H2[z] = H[z]
    BY <1>2, <1>4, <2>1
  <2>3. H2 = H
    BY <2>1, <2>2, SameHolders
  <2> QED
    BY <2>3
<1>5. CASE H[x] # Null
  <2>a. PICK b : b = H[x]
    OBVIOUS
  <2>1. b \in Address /\ H1[y] = Null
    BY <1>2, <1>3, <1>5, <2>a
  <2>2. H2 = [H1 EXCEPT ![y] = b]
    BY <2>a DEF Holding
  <2>3. H2 \in Holds /\ Increased(H1, H2, b)
    BY <1>1, <2>1, <2>2, OneMore
  <2>4. ASSUME NEW a \in Address PROVE Count(H2, a) = Count(H, a)
    <3>1. Count(H1, a) = IF b = a THEN Count(H, a) - 1 ELSE Count(H, a)
      BY <1>1, <2>a DEF Lessened
    <3>2. Count(H2, a) = IF a = b THEN Count(H1, a) + 1 ELSE Count(H1, a)
      BY <2>3 DEF Increased
    <3> QED
      BY <1>3, <3>1, <3>2
  <2> QED
    BY <2>3, <2>4
<1> QED
  BY <1>4, <1>5

OfMoved(of, old, new) == [of EXCEPT ![new] = of[old], ![old] = Null]
SetOf(m, o, x) == [m EXCEPT !.of[o] = x]
LEMMA OneOfSet ==
  ASSUME NEW m, IsMem(m), NEW o, NEW x
  PROVE  SetOf(m, o, x) = Mem(m.lists, [m.of EXCEPT ![o] = x], m.waifs)
<1>1. ASSUME NEW L, NEW of, NEW ws
      PROVE  [Mem(L, of, ws) EXCEPT !.of[o] = x] = Mem(L, [of EXCEPT ![o] = x], ws)
  BY DEF Mem
<1>2. m = Mem(m.lists, m.of, m.waifs)
  BY DEF IsMem, Mem
<1> QED
  BY <1>1, <1>2 DEF SetOf
SetTwo(m, old, new, a) == [m EXCEPT !.of[new] = a, !.of[old] = Null]
Exchanged(of, old, new, a) == [of EXCEPT ![new] = a, ![old] = Null]
LEMMA OfMovedIs ==
  ASSUME NEW m, IsMem(m), NEW old, NEW new, NEW a
  PROVE  SetTwo(m, old, new, a) = Mem(m.lists, Exchanged(m.of, old, new, a), m.waifs)
<1>a. PICK n : n = SetOf(m, new, a)
  OBVIOUS
<1>1. n = Mem(m.lists, [m.of EXCEPT ![new] = a], m.waifs)
  BY <1>a, OneOfSet
<1>2. IsMem(n) /\ n.lists = m.lists /\ n.of = [m.of EXCEPT ![new] = a] /\ n.waifs = m.waifs
  BY <1>1, MemIs
<1>3. SetOf(n, old, Null) = Mem(m.lists, [m.of EXCEPT ![new] = a, ![old] = Null], m.waifs)
  BY <1>2, OneOfSet
<1>4. SetTwo(m, old, new, a) = SetOf(n, old, Null)
  BY <1>a, Zenon DEF SetOf, SetTwo
<1> QED
  BY <1>3, <1>4 DEF Exchanged

OfSet(of, o, a) == [of EXCEPT ![o] = a]
LEMMA HeldByTheObject ==
  ASSUME NEW of \in Ofs, NEW ws, WaifsOK(ws), NEW o \in Oid, NEW a \in Address \cup {Null}
  PROVE  Held(OfSet(of, o, a), ws) = Holding(Held(of, ws), o, a)
<1>1. ASSUME NEW x \in Holder
      PROVE  Held(OfSet(of, o, a), ws)[x] = Holding(Held(of, ws), o, a)[x]
  BY <1>1, HeldIs DEF Held, Holding, OfSet, Ofs
<1>2. OfSet(of, o, a) \in Ofs
  BY DEF OfSet, Ofs
<1>3. Held(OfSet(of, o, a), ws) \in Holds /\ Held(of, ws) \in Holds /\ o \in Holder
  BY <1>2, HeldIs
<1>4. Holding(Held(of, ws), o, a) \in Holds
  BY <1>3, HoldingIs
<1> QED
  BY <1>1, <1>3, <1>4, SameHolders

LEMMA MovedOK ==
  ASSUME NEW m, MemOK(m), NEW old \in Oid, NEW new \in Oid, old # new, m.of[new] = Null,
         NEW of2, of2 = OfMoved(m.of, old, new), NEW m2, m2 = Mem(m.lists, of2, m.waifs)
  PROVE  /\ MemOK(m2) /\ m2.lists = m.lists /\ m2.of = of2 /\ m2.waifs = m.waifs
         /\ of2[new] = m.of[old] /\ of2[old] = Null
         /\ \A x \in Oid \ {old, new} : of2[x] = m.of[x]
<1>a. PICK L, of, ws, H : L = m.lists /\ of = m.of /\ ws = m.waifs /\ H = Held(m.of, m.waifs)
  OBVIOUS
<1>1. of \in Ofs /\ WaifsOK(ws) /\ OneEach(of) /\ Counted(L, H) /\ L \in Lists /\ of[old] \in Address \cup {Null}
  BY <1>a DEF MemOK, Ofs
<1>2. /\ of2[new] = of[old] /\ of2[old] = Null /\ \A x \in Oid \ {old, new} : of2[x] = of[x]
      /\ of2 \in Ofs
  BY <1>1, <1>a DEF OfMoved, Ofs
<1>b. PICK of1, H1, H2 : /\ of1 = [of EXCEPT ![old] = Null] /\ H1 = Holding(H, old, Null)
                         /\ H2 = Holding(H1, new, H[old])
  OBVIOUS
<1>3. of2 = [of1 EXCEPT ![new] = of[old]]
  <2>1. of1 \in Ofs /\ of1[old] = Null /\ \A x \in Oid \ {old} : of1[x] = of[x]
    BY <1>1, <1>b DEF Ofs
  <2>2. \A x \in Oid : of2[x] = [of1 EXCEPT ![new] = of[old]][x]
    BY <1>2, <2>1 DEF Ofs
  <2> QED
    BY <1>1, <1>2, <2>1, <2>2 DEF Ofs
<1>4. /\ old \in Holder /\ new \in Holder /\ H \in Holds
      /\ H[old] = of[old] /\ H[new] = Null
  BY <1>1, <1>a, HeldIs
<1>5. of1 \in Ofs /\ Held(of1, ws) = H1
  BY <1>1, <1>a, <1>b, HeldByObject
<1>6. Held(of2, ws) = H2
  <2>a. PICK a : a = of[old]
    OBVIOUS
  <2>1. of2 = OfSet(of1, new, a) /\ a \in Address \cup {Null}
    BY <1>1, <1>3, <2>a DEF OfSet
  <2>2. Held(of2, ws) = Holding(Held(of1, ws), new, a)
    BY <1>1, <1>5, <2>1, HeldByTheObject
  <2> QED
    BY <1>4, <1>5, <1>b, <2>2, <2>a
<1>7. H2 \in Holds /\ \A a \in Address : Count(H2, a) = Count(H, a)
  BY <1>4, <1>b, HolderMoves
<1>8. Counted(L, H2)
  BY <1>1, <1>7 DEF Counted
<1>9. OneEach(of2)
  <2> SUFFICES ASSUME NEW x \in Oid, NEW y \in Oid, of2[x] = of2[y], of2[x] # Null PROVE x = y
    BY DEF OneEach
  <2> DEFINE back(z) == IF z = new THEN old ELSE z
  <2>1. x # old /\ y # old
    BY <1>2
  <2>2. of2[x] = of[back(x)] /\ of2[y] = of[back(y)]
    BY <1>2, <2>1
  <2>3. back(x) = back(y)
    BY <1>1, <2>2 DEF OneEach
  <2> QED
    BY <2>1, <2>3
<1>10. IsMem(m2) /\ m2.lists = L /\ m2.of = of2 /\ m2.waifs = ws
  BY <1>a, MemIs
<1>11. MemOK(m2)
  BY <1>1, <1>2, <1>6, <1>8, <1>9, <1>10 DEF MemOK
<1> QED
  BY <1>2, <1>10, <1>11, <1>a
ParentsMoved(link, old, new, link2) ==
  /\ link2[old] = NOTHING /\ link2[new] = link[old]
  /\ \A x \in Oid \ {old, new} : link2[x] = IF link[x] = old THEN new ELSE link[x]
NamesMoved(names, old, new) == [names EXCEPT ![new] = names[old], ![old] = <<>>]
LEMMA WaifsMoved ==
  ASSUME NEW V, NEW link, Tree(V, link), NEW names, NEW m, WaifsRight(V, link, names, m),
         NEW old \in V, NEW new \in Oid \ V, NEW V2, V2 = Replace(V, old, new),
         NEW link2, Tree(V2, link2), ParentsMoved(link, old, new, link2), link[old] # old,
         NEW names2, names2 = NamesMoved(names, old, new),
         NEW m2, m2 = Mem(m.lists, OfMoved(m.of, old, new), m.waifs)
  PROVE  WaifsRight(V2, link2, names2, m2)
<1>a. PICK r : r = [x \in V |-> IF x = old THEN new ELSE x]
  OBVIOUS
<1>1. /\ V \subseteq Oid /\ link \in Links /\ link2 \in Links /\ Acyclic(link) /\ Acyclic(link2)
      /\ old \in Oid /\ new \in Oid /\ old # new /\ V2 \in SUBSET Oid
  BY DEF Tree
<1>2. /\ names \in [Oid -> Seq(Names)] /\ MemOK(m) /\ Names0(V, link, names)
      /\ CurrentIn(m, V, Defs(names, link)) /\ \A o \in Oid \ V : names[o] = <<>>
  BY DEF WaifsRight, Names0
<1>3. /\ names2 \in [Oid -> Seq(Names)] /\ names2[new] = names[old] /\ names2[old] = <<>>
      /\ \A x \in Oid \ {old, new} : names2[x] = names[x]
  <2>1. <<>> \in Seq(Names)
    OBVIOUS
  <2> QED
    BY <1>1, <1>2, <2>1 DEF NamesMoved
<1>4. \A x \in V : link[x] # NOTHING => link[x] \in V
  BY <1>1, UpOK DEF Tree, ClosedUp
<1>5. Carried(names, link, names2, link2, V, r)
  <2>1. r \in [V -> Oid] /\ ClosedUp(link, V)
    BY <1>1, <1>4, <1>a DEF ClosedUp
  <2>2. ASSUME NEW x \in V
        PROVE  /\ names2[r[x]] = names[x]
               /\ link2[r[x]] = IF link[x] = NOTHING THEN NOTHING ELSE r[link[x]]
    <3>1. CASE x = old
      BY <1>1, <1>3, <1>4, <1>a, <3>1 DEF ParentsMoved
    <3>2. CASE x # old
      <4>1. r[x] = x /\ x \in Oid \ {old, new}
        BY <1>1, <1>a, <3>2
      <4>2. link2[x] = IF link[x] = old THEN new ELSE link[x]
        BY <4>1 DEF ParentsMoved
      <4> QED
        BY <1>1, <1>3, <1>4, <1>a, <4>1, <4>2, NothingIsNoOid
    <3> QED
      BY <3>1, <3>2
  <2> QED
    BY <1>1, <2>1, <2>2 DEF Carried
<1>6. SameInherited(names, link, names2, link2, V, r)
  <2>1. CarriedOver(names, link, names2, link2, V, r)
    BY <1>1, <1>2, <1>3, <1>5 DEF CarriedOver
  <2> QED
    BY <2>1, AllCarried
<1>7. Names0(V2, link2, names2)
  <2>1. NamesAt(names2, V, V2, r)
    BY <1>1, <1>2, <1>3, <1>a DEF NamesAt, Replace
  <2> QED
    BY <1>1, <1>2, <1>3, <1>5, <2>1, NamesMove
<1>b. PICK of2 : of2 = OfMoved(m.of, old, new)
  OBVIOUS
<1>8. /\ MemOK(m2) /\ m2.lists = m.lists /\ m2.of = of2 /\ m2.waifs = m.waifs
      /\ of2[new] = m.of[old] /\ of2[old] = Null
      /\ \A x \in Oid \ {old, new} : of2[x] = m.of[x]
  <2>1. m.of[new] = Null
    BY <1>1, <1>2 DEF CurrentIn
  <2> QED
    BY <1>1, <1>2, <1>b, <2>1, MovedOK
<1>9. ASSUME NEW o \in Oid, m2.of[o] # Null
      PROVE  o \in V2 /\ m2.lists[m2.of[o]].defs = Inherited(names2, link2, o)
  <2>1. PICK u \in Oid : m.of[u] = m2.of[o] /\ o = IF u = old THEN new ELSE u
    <3>1. CASE o = new
      BY <1>1, <1>8, <3>1
    <3>2. CASE o # new
      <4>1. o # old
        BY <1>8, <1>9
      <4> QED
        BY <1>8, <3>2, <4>1
    <3> QED
      BY <3>1, <3>2
  <2>2. u \in V /\ m.lists[m.of[u]].defs = Inherited(names, link, u)
    BY <1>2, <1>9, <2>1 DEF CurrentIn, Defs
  <2>3. r[u] = o /\ o \in V2
    BY <1>1, <1>a, <2>1, <2>2 DEF Replace
  <2>4. Inherited(names2, link2, r[u]) = Inherited(names, link, u)
    BY <1>6, <2>2 DEF SameInherited
  <2> QED
    BY <1>8, <2>1, <2>2, <2>3, <2>4
<1>10. CurrentIn(m2, V2, Defs(names2, link2))
  BY <1>9 DEF CurrentIn, Defs
<1> QED
  BY <1>7, <1>8, <1>10 DEF WaifsRight

LEMMA MovePropdefsOK ==
  ASSUME WInv, IInv', NEW old \in valid, NEW new \in Oid \ valid, SetNumber(old, new),
         MovePropdefs(old, new)
  PROVE  WInv'
<1>a. PICK V, link, names, m : V = valid /\ link = Parent /\ names = propdefs /\ m = Memory
  OBVIOUS
<1>b. PICK V2, link2, names2 : V2 = valid' /\ link2 = Parent' /\ names2 = propdefs'
  OBVIOUS
<1>c. PICK m2 : m2 = Mem(m.lists, OfMoved(m.of, old, new), m.waifs)
  OBVIOUS
<1>1. /\ IInv /\ IsMem(m) /\ m.of = waif_propdefs /\ old \in Oid /\ Sound(obj, valid)
      /\ Tree(V, link) /\ Tree(V2, link2) /\ WaifsRight(V, link, names, m)
  BY <1>a, <1>b, WInvFacts, MemoryIs, IInvFacts, TreeNext DEF WInv
<1>2. V2 = Replace(V, old, new) /\ names2 = NamesMoved(names, old, new)
  BY <1>a, <1>b DEF SetNumber, MovePropdefs, NamesMoved
<1>3. Becomes(m2) /\ IsMem(m2)
  <2>a. PICK a : a = waif_propdefs[old]
    OBVIOUS
  <2>1. Becomes(SetTwo(m, old, new, a))
    <3>a. PICK n : n = [Memory EXCEPT !.of[new] = waif_propdefs[old], !.of[old] = Null]
      OBVIOUS
    <3>1. Becomes(n)
      BY <3>a, Zenon DEF MovePropdefs
    <3>2. n = SetTwo(m, old, new, a)
      BY <1>a, <2>a, <3>a DEF SetTwo
    <3> QED
      BY <3>1, <3>2
  <2>2. SetTwo(m, old, new, a) = Mem(m.lists, Exchanged(m.of, old, new, a), m.waifs)
    BY <1>1, OfMovedIs
  <2>3. Exchanged(m.of, old, new, a) = OfMoved(m.of, old, new)
    BY <1>1, <2>a DEF OfMoved, Exchanged
  <2>4. IsMem(m2)
    BY <1>c, MemIs
  <2> QED
    BY <1>c, <2>1, <2>2, <2>3, <2>4
<1>4. ParentsMoved(link, old, new, link2) /\ link[old] # old
  <2>1. obj' = ChangeNumber(obj, old, new)
    BY DEF SetNumber
  <2>2. ChangeNumberMade(obj, old, new, obj')
    BY <1>1, <2>1, ChangeNumberIs
  <2>3. obj[old].parent # old
    BY <1>1, Apart
  <2> QED
    BY <1>1, <1>a, <1>b, <2>2, <2>3, FreshIs DEF ChangeNumberMade, ParentsMoved, Parent
<1>5. WaifsRight(V2, link2, names2, m2)
  BY <1>1, <1>2, <1>4, <1>a, <1>c, WaifsMoved
<1>6. Memory' = m2
  BY <1>3, BecomesIs
<1> QED
  BY <1>5, <1>6, <1>b DEF WInv

LEMMA RenumberWaifsOK ==
  ASSUME WInv, NEW old \in Oid, RenumberWaifs(old)
  PROVE  WInv'
<1>a. PICK new : new = Lowest(valid, old)
  OBVIOUS
<1>1. /\ old \in valid /\ new # old /\ SetNumber(old, new) /\ MovePropdefs(old, new)
      /\ Renumber(old) /\ IInv
  BY <1>a, WInvFacts DEF RenumberWaifs, Renumber
<1>2. new \in Oid \ valid
  <2>1. old \in Nat /\ old <= MaxOid /\ MaxOid \in Nat
    BY MaxOidAssumption DEF Oid
  <2>2. new \in 0..old /\ (new = old \/ new \notin valid)
    BY <1>a, <2>1, LowestOK
  <2> QED
    BY <1>1, <2>1, <2>2 DEF Oid
<1>3. IInv'
  BY <1>1, RenumberOK
<1> QED
  BY <1>1, <1>2, <1>3, MovePropdefsOK

LEMMA SetObjectNumberWaifsOK ==
  ASSUME WInv, NEW old \in Oid, NEW new \in Oid, SetObjectNumberWaifs(old, new)
  PROVE  WInv'
<1>1. /\ old \in valid /\ new \in Oid \ valid /\ SetNumber(old, new) /\ MovePropdefs(old, new)
      /\ SetObjectNumber(old, new) /\ IInv
  BY WInvFacts DEF SetObjectNumberWaifs, SetObjectNumber
<1>2. IInv'
  BY <1>1, SetObjectNumberOK
<1> QED
  BY <1>1, <1>2, MovePropdefsOK
-----------------------------------------------------------------------------
(* The lists are made anew when the server starts from a dump.             *)

RestartLists == [a \in Address |->
    IF Made(a - 1) THEN [refcount |-> 1 + Cardinality(Instances(a - 1)), defs |-> DefsOf(a - 1)]
    ELSE NoList]
RestartOf == [o \in Oid |-> ListOf(o)]
\* A waif that is read has the class it had and shares the list of that.
IsAgain(ws) ==
  /\ ws = [w \in Waif |-> ws[w]]
  /\ \A w \in Waif : /\ IsRec(ws[w]) /\ ws[w].class = waifs[w].class
                     /\ ws[w].propdefs = ListOf(waifs[w].class)

LEMMA AddressesOK ==
  \A o \in Oid : o \in Int /\ (Made(o) => o + 1 \in Address)
<1> SUFFICES ASSUME NEW o \in Oid PROVE o \in Int /\ o + 1 \in Address
  OBVIOUS
<1>1. Cardinality(Oid) = MaxOid + 1
  <2>1. Cardinality(0..MaxOid) = IF 0 > MaxOid THEN 0 ELSE MaxOid - 0 + 1
    BY MaxOidAssumption, FS_Interval
  <2> QED
    BY <2>1, MaxOidAssumption DEF Oid
<1>2. Cardinality(Waif) \in Nat
  BY HoldersFinite
<1>3. o \in 0..MaxOid /\ MaxOid \in Nat
  BY MaxOidAssumption DEF Oid
<1> QED
  BY <1>1, <1>2, <1>3 DEF Address

LEMMA InstancesOK ==
  ASSUME NEW c
  PROVE  Instances(c) \in SUBSET Waif /\ IsFiniteSet(Instances(c)) /\ Cardinality(Instances(c)) \in Nat
<1>1. Instances(c) \in SUBSET Waif /\ Waif \subseteq Holder
  BY DEF Instances, Holder
<1> QED
  BY <1>1, HoldersFinite
\* Who holds the list at an address then: its class, and all instances of that.
LEMMA HoldersAgain ==
  ASSUME valid \subseteq Oid, WaifsOK(waifs), RestartOf \in Ofs,
         NEW ws, WaifsOK(ws), IsAgain(ws), NEW H, H = Held(RestartOf, ws), NEW a \in Address
  PROVE  HoldersOf(H, a) = IF Made(a - 1) THEN {a - 1} \cup Instances(a - 1) ELSE {}
<1>1. a \in Int /\ a # Null
  BY HoldersFinite DEF Address
<1>2. /\ \A o \in Oid : o \in Holder /\ H[o] = ListOf(o)
      /\ \A w \in Waif : w \in Holder /\ H[w] = ListOf(waifs[w].class)
  BY HeldIs DEF RestartOf, IsAgain
<1>3. \A x \in Holder : x \in Oid \/ x \in Waif
  BY DEF Holder
<1>4. \A w \in Waif : waifs[w].class \in OidOrNothing
  BY DEF WaifsOK, IsWaif
<1>5. ASSUME NEW c \in OidOrNothing PROVE ListOf(c) = a <=> c = a - 1 /\ Made(a - 1)
  <2>1. c \in Int
    BY <1>5, MaxOidAssumption DEF OidOrNothing, Oid, NOTHING
  <2> QED
    BY <1>1, <2>1 DEF ListOf
<1>6. Made(a - 1) => a - 1 \in Oid
  BY DEF Made
<1>7. \A x : x \in HoldersOf(H, a) <=> x \in IF Made(a - 1) THEN {a - 1} \cup Instances(a - 1) ELSE {}
  <2> SUFFICES ASSUME NEW x
               PROVE  x \in HoldersOf(H, a) <=> x \in IF Made(a - 1) THEN {a - 1} \cup Instances(a - 1) ELSE {}
    OBVIOUS
  <2>1. x \in Instances(a - 1) <=> x \in Waif /\ waifs[x].class = a - 1
    BY DEF Instances
  <2>2. CASE x \in Oid
    <3>1. x \notin Waif /\ x \in OidOrNothing
      BY <2>2, WaifAssumption DEF OidOrNothing
    <3> QED
      BY <1>2, <1>5, <2>1, <2>2, <3>1 DEF HoldersOf
  <2>3. CASE x \in Waif
    <3>1. x \notin Oid
      BY <2>3, WaifAssumption
    <3> QED
      BY <1>2, <1>4, <1>5, <1>6, <2>1, <2>3, <3>1 DEF HoldersOf
  <2>4. CASE x \notin Oid /\ x \notin Waif
    BY <1>3, <1>6, <2>1, <2>4 DEF HoldersOf
  <2> QED
    BY <2>2, <2>3, <2>4
<1> QED
  BY <1>7

LEMMA RestartedOK ==
  ASSUME valid \subseteq Oid, WaifsOK(waifs), NEW d, d = Defs(propdefs, Parent), DefsAre(d),
         NEW ws, IsAgain(ws), NEW m, m = Mem(RestartLists, RestartOf, ws)
  PROVE  MemOK(m) /\ CurrentIn(m, valid, d)
<1>1. IsMem(m) /\ m.lists = RestartLists /\ m.of = RestartOf /\ m.waifs = ws
  BY MemIs
<1>2. \A c \in OidOrNothing : ListOf(c) \in Address \cup {Null} /\ (ListOf(c) # Null => Made(c))
  BY AddressesOK DEF ListOf, Made
<1>3. RestartOf \in Ofs /\ \A o \in Oid : RestartOf[o] = ListOf(o)
  BY <1>2 DEF RestartOf, Ofs, OidOrNothing
<1>4. OneEach(RestartOf)
  BY <1>3, AddressesOK DEF OneEach, ListOf
<1>5. WaifsOK(ws)
  <2> SUFFICES ASSUME NEW w \in Waif PROVE IsWaif(ws[w])
    BY DEF WaifsOK, IsAgain
  <2>1. /\ IsRec(ws[w]) /\ ws[w].class = waifs[w].class /\ ws[w].propdefs = ListOf(waifs[w].class)
        /\ waifs[w].class \in OidOrNothing
    BY DEF IsAgain, WaifsOK, IsWaif
  <2>2. waifs[w].class = NOTHING => ListOf(waifs[w].class) = Null
    BY NothingIsNoOid DEF ListOf, Made
  <2> QED
    BY <1>2, <2>1, <2>2 DEF IsWaif
<1>a. PICK H : H = Held(RestartOf, ws)
  OBVIOUS
<1>6. ASSUME NEW a \in Address
      PROVE  RestartLists[a] \in ListRec /\ CountRight(RestartLists[a], Count(H, a))
  <2>a. PICK c, I : c = a - 1 /\ I = Instances(a - 1)
    OBVIOUS
  <2>1. HoldersOf(H, a) = IF Made(c) THEN {c} \cup I ELSE {}
    BY <1>3, <1>5, <1>a, <2>a, HoldersAgain
  <2>2. I \in SUBSET Waif /\ IsFiniteSet(I) /\ Cardinality(I) \in Nat
    BY <2>a, InstancesOK
  <2>3. CASE Made(c)
    <3>1. c \in Oid /\ c \notin I /\ DefsOf(c) \in Seq(Names)
      BY <2>2, <2>3, WaifAssumption DEF Made, DefsAre
    <3>2. RestartLists[a] = [refcount |-> 1 + Cardinality(I), defs |-> DefsOf(c)]
      BY <2>3, <2>a DEF RestartLists
    <3>3. Cardinality(I \cup {c}) = Cardinality(I) + 1
      BY <2>2, <3>1, FS_AddElement
    <3>4. Count(H, a) = Cardinality(I) + 1
      <4>1. HoldersOf(H, a) = I \cup {c}
        BY <2>1, <2>3
      <4> QED
        BY <3>3, <4>1 DEF Count
    <3> QED
      BY <2>2, <3>1, <3>2, <3>4 DEF ListRec, CountRight
  <2>4. CASE ~Made(c)
    <3>1. RestartLists[a] = NoList
      BY <2>4, <2>a DEF RestartLists
    <3>2. Count(H, a) = 0
      BY <2>1, <2>4, CountType
    <3> QED
      BY <3>1, <3>2, NoListIs
  <2> QED
    BY <2>3, <2>4
<1>7. RestartLists \in Lists
  BY <1>6 DEF RestartLists, Lists
<1>8. Counted(RestartLists, H)
  BY <1>3, <1>5, <1>6, <1>7, <1>a, HeldIs DEF Counted, Lists
<1>9. MemOK(m)
  BY <1>1, <1>3, <1>4, <1>5, <1>7, <1>8, <1>a DEF MemOK
<1>10. ASSUME NEW o \in Oid, RestartOf[o] # Null
       PROVE  o \in valid /\ RestartLists[RestartOf[o]].defs = d[o]
  <2>1. Made(o) /\ RestartOf[o] = o + 1 /\ o \in valid /\ o \in Int /\ o + 1 \in Address
    BY <1>3, <1>10, AddressesOK DEF ListOf, Made
  <2>a. PICK a : a = o + 1
    OBVIOUS
  <2>2. a \in Address /\ a - 1 = o
    BY <2>1, <2>a
  <2>3. RestartLists[a] = [refcount |-> 1 + Cardinality(Instances(o)), defs |-> DefsOf(o)]
    BY <2>1, <2>2 DEF RestartLists
  <2> QED
    BY <2>1, <2>3, <2>a DEF Defs, DefsOf
<1> QED
  BY <1>1, <1>9, <1>10 DEF CurrentIn
LEMMA ReadWaifIs ==
  ASSUME NEW c, NEW written, NEW len, NEW r, r = ReadWaif(c, written, len)
  PROVE  IsRec(r) /\ r.class = c
BY Zenon DEF ReadWaif, IsRec

LEMMA AgainIs ==
  ASSUME NEW mem, NEW w, NEW c, c = mem.waifs[w].class, NEW r, r = Again(mem, w)
  PROVE  IsRec(r) /\ r.class = c /\ r.propdefs = ListOf(c)
<1>a. PICK len : len = IF mem.waifs[w].propdefs = Null THEN 0
                       ELSE Len(mem.lists[mem.waifs[w].propdefs].defs)
  OBVIOUS
<1>b. PICK s : s = ReadWaif(c, Written(mem.waifs[w], len), len)
  OBVIOUS
<1>c. PICK x : x = ListOf(c)
  OBVIOUS
<1>1. IsRec(s) /\ s.class = c
  BY <1>b, ReadWaifIs
<1>2. r = [s EXCEPT !.propdefs = x]
  BY <1>a, <1>b, <1>c DEF Again
<1>3. r = WaifRec(s.class, x, s.propvals, s.map)
  BY <1>1, <1>2, FieldsSet
<1> QED
  BY <1>1, <1>3, <1>c, RecIs

\* What Restart does, of the waifs in later after their classes got a list.
LEMMA RestartIs ==
  ASSUME Restart
  PROVE  /\ UNCHANGED <<vars, propdefs, kept>> /\ lists' = RestartLists /\ waif_propdefs' = RestartOf
         /\ \E later \in SUBSET Waif :
              /\ \A w \in later : MayComeLater(w)
              /\ \A w \in Waif : There(w) /\ Dies(w) /\ w \notin later =>
                    Overlooked(w) /\ Len(DefsOf(waifs[w].class)) <= Mappable
              /\ waifs' = [w \in Waif |-> IF There(w) THEN Again(ToBeWritten(w, later), w) ELSE NoWaif]
              /\ put' = [w \in Waif |-> IF There(w) THEN Known(ToBeWritten(w, later), w) ELSE put[w]]
BY DEF Restart, RestartLists, RestartOf

LEMMA OverlookedIs ==
  ASSUME NEW w, Overlooked(w)
  PROVE  /\ waifs[w].class \in valid /\ waifs[w].propdefs = Null
         /\ Memory.of[waifs[w].class] = Null
BY MemoryIs DEF Overlooked, Dies

LEMMA WrittenOK ==
  ASSUME WInv, NEW w \in Waif, NEW later, w \in later => MayComeLater(w),
         NEW m, m = Memory, NEW u, u = ToBeWritten(w, later)
  PROVE  SameClasses(m, u)
<1>a. PICK d : d = Defs(propdefs, Parent)
  OBVIOUS
<1>1. /\ MemOK(m) /\ DefsAre(d) /\ CurrentIn(m, valid, d) /\ valid \subseteq Oid /\ m.waifs = waifs
  BY <1>a, WInvFacts, MemoryIs
<1>2. CASE w \notin later
  <2>1. u = Updated(m, w)
    BY <1>2 DEF ToBeWritten
  <2> QED
    BY <1>1, <2>1, UpdatedOK
<1>3. CASE w \in later
  <2>a. PICK c, g : c = waifs[w].class /\ g = Generated(m, c)
    OBVIOUS
  <2>1. c \in valid
    BY <1>3, <2>a, OverlookedIs DEF MayComeLater
  <2>2. u = Updated(g, w)
    BY <1>3, <2>a DEF ToBeWritten
  <2>3. MemOK(g) /\ CurrentIn(g, valid, d) /\ g.waifs = m.waifs
    BY <1>1, <2>1, <2>a, GeneratedOK
  <2>4. SameClasses(g, u)
    BY <1>1, <2>2, <2>3, UpdatedOK
  <2> QED
    BY <2>3, <2>4 DEF SameClasses
<1> QED
  BY <1>2, <1>3

LEMMA RestartOK ==
  ASSUME WInv, Restart
  PROVE  WInv'
<1>a. PICK d, ws : d = Defs(propdefs, Parent) /\ ws = waifs'
  OBVIOUS
<1>b. PICK m : m = Mem(RestartLists, RestartOf, ws)
  OBVIOUS
<1>1. /\ IInv /\ MemOK(Memory) /\ DefsAre(d) /\ CurrentIn(Memory, valid, d)
      /\ valid \subseteq Oid /\ WaifsOK(waifs)
  BY <1>a, WInvFacts, MemoryIs DEF MemOK
<1>2. UNCHANGED <<vars, propdefs>> /\ lists' = RestartLists /\ waif_propdefs' = RestartOf
  BY RestartIs
<1>c. PICK later \in SUBSET Waif :
        /\ \A w \in later : MayComeLater(w)
        /\ ws = [w \in Waif |-> IF There(w) THEN Again(ToBeWritten(w, later), w) ELSE NoWaif]
  BY <1>a, RestartIs
<1>3. /\ \A w \in later : MayComeLater(w)
      /\ ws = [w \in Waif |-> IF There(w) THEN Again(ToBeWritten(w, later), w) ELSE NoWaif]
  BY <1>c
<1>4. ASSUME NEW w \in Waif
      PROVE  IsRec(ws[w]) /\ ws[w].class = waifs[w].class /\ ws[w].propdefs = ListOf(waifs[w].class)
  <2>1. CASE There(w)
    <3>a. PICK u, mem, r : u = ToBeWritten(w, later) /\ mem = Memory /\ r = ws[w]
      OBVIOUS
    <3>1. r = Again(u, w)
      BY <1>3, <2>1, <3>a
    <3>2. SameClasses(mem, u)
      BY <1>3, <3>a, WrittenOK
    <3>3. u.waifs[w].class = waifs[w].class
      BY <3>2, <3>a, MemoryIs DEF SameClasses
    <3>b. PICK c : c = u.waifs[w].class
      OBVIOUS
    <3>4. IsRec(r) /\ r.class = c /\ r.propdefs = ListOf(c)
      BY <3>1, <3>b, AgainIs
    <3> QED
      BY <3>3, <3>4, <3>a, <3>b
  <2>2. CASE ~There(w)
    <3>1. ws[w] = NoWaif
      BY <1>3, <2>2
    <3>2. IsRec(NoWaif) /\ NoWaif.class = NOTHING /\ NoWaif.propdefs = Null
      BY DEF NoWaif, IsRec
    <3>3. waifs[w].class = NOTHING /\ ListOf(NOTHING) = Null
      BY <1>1, <2>2, NothingIsNoOid DEF There, ListOf, Made
    <3> QED
      BY <3>1, <3>2, <3>3
  <2> QED
    BY <2>1, <2>2
<1>5. IsAgain(ws)
  <2>1. ws = [w \in Waif |-> ws[w]]
    BY <1>3
  <2> QED
    BY <1>4, <2>1 DEF IsAgain
<1>6. MemOK(m) /\ CurrentIn(m, valid, d)
  BY <1>1, <1>5, <1>a, <1>b, RestartedOK
<1>7. Becomes(m)
  BY <1>2, <1>a, <1>b, MemIs DEF Becomes
<1> QED
  BY <1>2, <1>6, <1>7, <1>a, OnlyWaifs
-----------------------------------------------------------------------------
(* All of it.                                                              *)

LEMMA InitWaifsOK == InitWaifs => WInv
<1> SUFFICES ASSUME InitWaifs PROVE WInv
  OBVIOUS
<1>1. IInv
  BY InitOK DEF InitWaifs
<1>a. PICK of, ws, L : of = waif_propdefs /\ ws = waifs /\ L = lists
  OBVIOUS
<1>2. /\ propdefs = [o \in Oid |-> <<>>] /\ L = [a \in Address |-> NoList]
      /\ of = [o \in Oid |-> Null] /\ ws = [w \in Waif |-> NoWaif]
  BY <1>a DEF InitWaifs
<1>3. Names0(valid, Parent, propdefs)
  <2>1. \A o \in Oid : propdefs[o] = <<>> /\ ToSet(propdefs[o]) = {}
    BY <1>2 DEF ToSet
  <2>2. propdefs \in [Oid -> Seq(Names)]
    <3>1. <<>> \in Seq(Names)
      OBVIOUS
    <3> QED
      BY <1>2, <3>1
  <2> QED
    BY <2>1, <2>2 DEF Names0, NamesOnce
<1>4. of \in Ofs /\ OneEach(of) /\ \A o \in Oid : of[o] = Null
  BY <1>2 DEF Ofs, OneEach
<1>5. WaifsOK(ws)
  <2>1. IsWaif(NoWaif) /\ NoWaif.propdefs = Null
    BY DEF IsWaif, IsRec, NoWaif, OidOrNothing
  <2> QED
    BY <1>2, <2>1 DEF WaifsOK
<1>b. PICK H : H = Held(of, ws)
  OBVIOUS
<1>6. L \in Lists /\ Counted(L, H)
  <2>1. L \in Lists
    BY <1>2, NoListIs DEF Lists
  <2>2. H \in Holds /\ \A x \in Holder : H[x] = Null
    <3>1. NoWaif.propdefs = Null
      BY DEF NoWaif
    <3> QED
      BY <1>2, <1>4, <1>5, <1>b, <3>1, HeldIs DEF Holder
  <2>3. \A a \in Address : L[a] = NoList /\ HoldersOf(H, a) = {} /\ Count(H, a) = 0
    <3> SUFFICES ASSUME NEW a \in Address
                 PROVE  L[a] = NoList /\ HoldersOf(H, a) = {} /\ Count(H, a) = 0
      OBVIOUS
    <3>1. HoldersOf(H, a) = {}
      BY <2>2, HoldersFinite DEF HoldersOf
    <3>2. Count(H, a) = 0
      BY <3>1, CountType
    <3> QED
      BY <1>2, <3>1, <3>2
  <2> QED
    BY <2>1, <2>2, <2>3, NoListIs DEF Counted, Lists
<1>7. MemOK(Memory)
  BY <1>4, <1>5, <1>6, <1>a, <1>b, MemoryIs DEF MemOK
<1>8. CurrentIn(Memory, valid, Defs(propdefs, Parent))
  BY <1>4, <1>a, MemoryIs DEF CurrentIn
<1> QED
  BY <1>1, <1>3, <1>7, <1>8 DEF WInv, WaifsRight

LEMMA NothingChanges ==
  ASSUME WInv, UNCHANGED <<vars, waifVars>>
  PROVE  WInv'
<1>a. PICK m : m = Memory
  OBVIOUS
<1>1. UNCHANGED <<vars, propdefs>> /\ Becomes(m)
  BY <1>a, MemoryIs DEF waifVars, Becomes
<1>2. MemOK(m) /\ CurrentIn(m, valid, Defs(propdefs, Parent))
  BY <1>a, WInvFacts
<1> QED
  BY <1>1, <1>2, OnlyWaifs

LEMMA NextWaifsOK == WInv /\ [NextWaifs]_<<vars, waifVars>> => WInv'
<1> SUFFICES ASSUME WInv, [NextWaifs]_<<vars, waifVars>> PROVE WInv'
  OBVIOUS
<1>1. ASSUME NEW p \in OidOrNothing, CreateWaifs(p) PROVE WInv'
  BY <1>1, CreateWaifsOK
<1>2. ASSUME NEW oid \in Oid, RenumberWaifs(oid) PROVE WInv'
  BY <1>2, RenumberWaifsOK
<1>3. ASSUME NEW oid \in Oid, RecycleWaifs(oid) PROVE WInv'
  BY <1>3, RecycleWaifsOK
<1>4. ASSUME NEW oid \in Oid, NEW new \in Oid, SetObjectNumberWaifs(oid, new) PROVE WInv'
  BY <1>4, SetObjectNumberWaifsOK
<1>5. ASSUME NEW oid \in Oid, NEW p \in OidOrNothing, ChparentWaifs(oid, p) PROVE WInv'
  BY <1>5, ChparentWaifsOK
<1>6. ASSUME NEW oid \in Oid, NEW n \in Names, AddPropdef(oid, n) PROVE WInv'
  BY <1>6, AddPropdefOK
<1>7. ASSUME NEW oid \in Oid, NEW n \in Names, DeletePropdef(oid, n) PROVE WInv'
  BY <1>7, DeletePropdefOK
<1>8. ASSUME NEW oid \in Oid, NEW n \in Names, NEW new \in Names, RenamePropdef(oid, n, new)
      PROVE  WInv'
  BY <1>8, RenamePropdefOK
<1>9. ASSUME NEW w \in Waif, FreeWaif(w) PROVE WInv'
  BY <1>9, FreeWaifOK
<1>10. ASSUME NEW w \in Waif, Look(w) PROVE WInv'
  BY <1>10, LookOK
<1>11. ASSUME NEW w \in Waif, NEW class \in Oid, NewWaif(w, class) PROVE WInv'
  BY <1>11, NewWaifOK
<1>12. ASSUME NEW w \in Waif, NEW n \in Names, NEW value \in Values, PutProp(w, n, value)
       PROVE  WInv'
  BY <1>12, PutPropOK
<1>13. CASE Restart
  BY <1>13, RestartOK
<1>14. CASE UNCHANGED <<vars, waifVars>>
  BY <1>14, NothingChanges
<1> QED
  BY <1>1, <1>2, <1>3, <1>4, <1>5, <1>6, <1>7, <1>8, <1>9, <1>10, <1>11, <1>12, <1>13, <1>14
  DEF NextWaifs

LEMMA WInvHolds == SpecWaifs => []WInv
  BY InitWaifsOK, NextWaifsOK, PTL DEF SpecWaifs

LEMMA WInvMeans == WInv => ListsCurrent
  BY WInvIs

\* The list of names that waifs share with their class is the list of the names
\* that the class has, and is freed with its last holder, whatever is done to
\* properties, parents and numbers of objects and however the waifs are used
\* (waif.c, and the calls of it in db_properties.c and db_objects.c).
THEOREM ListsKept == SpecWaifs => []ListsCurrent
  BY WInvHolds, WInvMeans, PTL

-----------------------------------------------------------------------------
(* The places of the values of a waif.                                     *)

Maps == SUBSET (1..Mappable)
\* The names up to the i-th that have a place, and how many they are.
Upto(map, i) == {k \in 1..i : HasPlace(map, k)}
Rank(map, i) == Cardinality(Upto(map, i))

LEMMA UptoFinite ==
  ASSUME NEW map, NEW i \in Nat
  PROVE  IsFiniteSet(Upto(map, i)) /\ Rank(map, i) \in Nat /\ Rank(map, 0) = 0
<1>1. IsFiniteSet(1..i) /\ Upto(map, i) \subseteq 1..i
  BY FS_Interval DEF Upto
<1>2. Upto(map, 0) = {}
  BY DEF Upto
<1> QED
  BY <1>1, <1>2, FS_Subset, FS_CardinalityType, FS_EmptySet DEF Rank

LEMMA RankNext ==
  ASSUME NEW map, NEW i \in Nat
  PROVE  Rank(map, i + 1) = Rank(map, i) + IF HasPlace(map, i + 1) THEN 1 ELSE 0
<1>1. Upto(map, i + 1) = Upto(map, i) \cup IF HasPlace(map, i + 1) THEN {i + 1} ELSE {}
  BY DEF Upto
<1>2. i + 1 \notin Upto(map, i)
  BY DEF Upto
<1>3. Rank(map, i) \in Nat /\ IsFiniteSet(Upto(map, i))
  BY UptoFinite
<1>4. Cardinality(Upto(map, i) \cup {i + 1}) = Cardinality(Upto(map, i)) + 1
  BY <1>2, <1>3, FS_AddElement
<1>5. CASE HasPlace(map, i + 1)
  BY <1>1, <1>4, <1>5 DEF Rank
<1>6. CASE ~HasPlace(map, i + 1)
  <2>1. Upto(map, i + 1) = Upto(map, i)
    BY <1>1, <1>6
  <2> QED
    BY <1>3, <1>6, <2>1 DEF Rank
<1> QED
  BY <1>5, <1>6

LEMMA RankGrows ==
  ASSUME NEW map, NEW i \in Nat, NEW j \in Nat, i < j
  PROVE  Rank(map, i) <= Rank(map, j) /\ (HasPlace(map, j) => Rank(map, i) < Rank(map, j))
<1>1. Upto(map, i) \subseteq Upto(map, j)
  BY DEF Upto
<1>2. /\ IsFiniteSet(Upto(map, j)) /\ Rank(map, i) \in Nat /\ Rank(map, j) \in Nat
  BY UptoFinite
<1>3. Rank(map, i) <= Rank(map, j)
  BY <1>1, <1>2, FS_Subset DEF Rank
<1>4. ASSUME HasPlace(map, j) PROVE Rank(map, i) # Rank(map, j)
  <2>1. j \in Upto(map, j) /\ j \notin Upto(map, i)
    BY <1>4 DEF Upto
  <2> QED
    BY <1>1, <1>2, <2>1, FS_Subset DEF Rank
<1> QED
  BY <1>2, <1>3, <1>4

LEMMA MapFinite ==
  ASSUME NEW map \in Maps
  PROVE  IsFiniteSet(map) /\ Cardinality(map) \in Nat /\ Mappable \in Nat
<1>1. Mappable \in Nat
  BY WaifAssumption
<1>2. 1 \in Int /\ Mappable \in Int /\ map \in SUBSET (1..Mappable)
  BY <1>1 DEF Maps
<1>3. IsFiniteSet(1..Mappable)
  BY <1>2, FS_Interval
<1> QED
  BY <1>1, <1>2, <1>3, FS_Subset, FS_CardinalityType

\* Past the names that the map has room for, every name has a place.
LEMMA RankBeyond ==
  ASSUME NEW map \in Maps, NEW i \in Nat, i >= Mappable
  PROVE  Rank(map, i) = i - Mappable + Cardinality(map)
<1>1. IsFiniteSet(map) /\ Cardinality(map) \in Nat /\ Mappable \in Nat
  BY MapFinite
<1> DEFINE rest == (Mappable + 1)..i
<1>2. Upto(map, i) = map \cup rest
  <2>1. \A k \in map : k \in 1..Mappable
    BY DEF Maps
  <2>2. \A k : k \in Upto(map, i) <=> k \in map \/ k \in rest
    BY <1>1, <2>1 DEF Upto, HasPlace
  <2> HIDE DEF rest
  <2> QED
    BY <2>2
<1>3. map \cap rest = {}
  BY <1>1 DEF Maps
<1>4. IsFiniteSet(rest) /\ Cardinality(rest) = i - Mappable
  <2>1. Mappable + 1 \in Int /\ i \in Int
    BY <1>1
  <2>2. /\ IsFiniteSet(rest)
        /\ Cardinality(rest) = IF Mappable + 1 > i THEN 0 ELSE i - (Mappable + 1) + 1
    BY <2>1, FS_Interval
  <2> HIDE DEF rest
  <2> QED
    BY <1>1, <2>2
<1> HIDE DEF rest
<1>5. Cardinality(map \cup rest) = Cardinality(map) + Cardinality(rest) - Cardinality(map \cap rest)
  BY <1>1, <1>4, FS_Union
<1>6. Cardinality(map \cap rest) = 0
  BY <1>3, FS_EmptySet
<1>7. Rank(map, i) = Cardinality(map \cup rest)
  BY <1>2 DEF Rank
<1> QED
  BY <1>1, <1>4, <1>5, <1>6, <1>7

LEMMA OffsetIs ==
  ASSUME NEW map \in Maps, NEW i \in Nat, i # 0
  PROVE  Offset_InMap(map, i) = IF HasPlace(map, i) THEN Rank(map, i) ELSE 0
<1>1. Mappable \in Nat
  BY MapFinite
<1>2. CASE i > Mappable
  BY <1>1, <1>2, RankBeyond DEF Offset_InMap, HasPlace
<1>3. CASE i <= Mappable /\ i \in map
  <2>1. Upto(map, i) = {j \in map : j <= i}
    <3>1. \A j \in map : j \in 1..Mappable
      BY DEF Maps
    <3>2. \A j : j \in Upto(map, i) <=> j \in 1..i /\ (j > Mappable \/ j \in map)
      BY DEF Upto, HasPlace
    <3>3. ASSUME NEW j \in Upto(map, i) PROVE j \in map /\ j <= i
      <4>1. j \in 1..i /\ (j > Mappable \/ j \in map)
        BY <3>2
      <4> QED
        BY <1>1, <1>3, <4>1
    <3>4. ASSUME NEW j \in map, j <= i PROVE j \in Upto(map, i)
      <4>1. j \in 1..i
        BY <1>1, <3>1, <3>4
      <4> QED
        BY <3>2, <3>4, <4>1
    <3>5. \A j : j \in Upto(map, i) <=> j \in map /\ j <= i
      BY <3>3, <3>4
    <3> QED
      BY <3>5
  <2> QED
    BY <1>1, <1>3, <2>1 DEF Offset_InMap, HasPlace, Rank
<1>4. CASE i <= Mappable /\ i \notin map
  BY <1>1, <1>4 DEF Offset_InMap, HasPlace
<1> QED
  BY <1>1, <1>2, <1>3, <1>4

LEMMA CountIs ==
  ASSUME NEW map \in Maps, NEW len \in Nat
  PROVE  /\ CountPropvals(map, len) \in Nat
         /\ \A i \in 0..len : Rank(map, i) <= CountPropvals(map, len)
         /\ map \subseteq 1..len => CountPropvals(map, len) = Rank(map, len)
<1>1. IsFiniteSet(map) /\ Cardinality(map) \in Nat /\ Mappable \in Nat
  BY MapFinite
<1>2. CASE len > Mappable
  <2>1. CountPropvals(map, len) = Rank(map, len) /\ Rank(map, len) \in Nat
    BY <1>1, <1>2, RankBeyond DEF CountPropvals
  <2>2. \A i \in 0..len : Rank(map, i) <= Rank(map, len)
    BY <2>1, RankGrows
  <2> QED
    BY <2>1, <2>2
<1>3. CASE len <= Mappable
  <2>1. CountPropvals(map, len) = Cardinality(map)
    BY <1>1, <1>3 DEF CountPropvals
  <2>2. ASSUME NEW i \in 0..len
        PROVE  Upto(map, i) \subseteq map /\ Rank(map, i) <= Cardinality(map)
    <3>1. Upto(map, i) \subseteq map
      BY <1>1, <1>3 DEF Upto, HasPlace
    <3> QED
      BY <1>1, <3>1, FS_Subset DEF Rank
  <2>3. ASSUME map \subseteq 1..len PROVE Upto(map, len) = map
    <3>1. \A j \in map : j \in 1..len
      BY <2>3
    <3>2. \A j : j \in Upto(map, len) <=> j \in 1..len /\ (j > Mappable \/ j \in map)
      BY DEF Upto, HasPlace
    <3>3. \A j : j \in Upto(map, len) <=> j \in map
      BY <1>1, <1>3, <3>1, <3>2
    <3> QED
      BY <3>3
  <2> QED
    BY <1>1, <2>1, <2>2, <2>3 DEF Rank
<1> QED
  BY <1>1, <1>2, <1>3

\* The places are all different, and in the array.
LEMMA PlaceIs ==
  ASSUME NEW map \in Maps, NEW len \in Nat, NEW i \in 1..len
  PROVE  /\ CountPropvals(map, len) \in Nat
         /\ HasPlace(map, i) => Offset_InMap(map, i) \in 1..CountPropvals(map, len)
         /\ ~HasPlace(map, i) => Offset_InMap(map, i) = 0
         /\ \A j \in 1..len : HasPlace(map, i) /\ Offset_InMap(map, i) = Offset_InMap(map, j) => i = j
<1>1. /\ CountPropvals(map, len) \in Nat
      /\ Rank(map, i) <= CountPropvals(map, len)
      /\ Rank(map, 0) = 0 /\ Rank(map, i) \in Nat
  BY CountIs, UptoFinite
<1>2. HasPlace(map, i) => Rank(map, i) > 0
  BY <1>1, RankGrows
<1>3. \A j \in 1..len : j \in Nat /\ Offset_InMap(map, j) = IF HasPlace(map, j) THEN Rank(map, j) ELSE 0
  BY OffsetIs
<1>4. ASSUME NEW j \in 1..len, HasPlace(map, i), Offset_InMap(map, i) = Offset_InMap(map, j)
      PROVE  i = j
  <2>1. Rank(map, i) = Rank(map, j) /\ HasPlace(map, j)
    BY <1>2, <1>3, <1>4
  <2>2. ~(i < j) /\ ~(j < i)
    <3>1. i < j => Rank(map, i) < Rank(map, j)
      BY <2>1, RankGrows
    <3>2. j < i => Rank(map, j) < Rank(map, i)
      BY <1>4, RankGrows
    <3>3. Rank(map, j) \in Nat
      BY <1>1, <2>1
    <3> QED
      BY <1>1, <2>1, <3>1, <3>2, <3>3
  <2> QED
    BY <2>2
<1> QED
  BY <1>1, <1>2, <1>3, <1>4

\* If the map has no places of names that are not there, each place has a name.
LEMMA EveryPlace ==
  ASSUME NEW map \in Maps, NEW len \in Nat, map \subseteq 1..len,
         NEW k \in 1..CountPropvals(map, len)
  PROVE  \E i \in 1..len : HasPlace(map, i) /\ Offset_InMap(map, i) = k
<1>1. CountPropvals(map, len) = Rank(map, len) /\ Rank(map, len) \in Nat
  BY CountIs, UptoFinite
<1> DEFINE S == {i \in 0..len : Rank(map, i) >= k}
<1>2. PICK i \in S : \A j \in S : i <= j
  <2>1. S \in SUBSET Nat /\ len \in S
    BY <1>1
  <2> HIDE DEF S
  <2> QED
    BY <2>1, Least
<1>3. k > 0 /\ Rank(map, 0) = 0
  BY <1>1, UptoFinite
<1>4. i # 0 /\ i - 1 \in 0..len /\ i - 1 \in Nat
  BY <1>3
<1>5. i - 1 \notin S
  BY <1>2, <1>4
<1>6. Rank(map, i - 1) < k /\ Rank(map, i - 1) \in Nat
  <2>1. Rank(map, i - 1) \in Nat
    BY <1>4, UptoFinite
  <2> QED
    BY <1>1, <1>4, <1>5, <2>1
<1>7. Rank(map, i) = Rank(map, i - 1) + IF HasPlace(map, i) THEN 1 ELSE 0
  <2>1. i = (i - 1) + 1
    BY <1>4
  <2> QED
    BY <1>4, <2>1, RankNext
<1>8. Rank(map, i) = k /\ HasPlace(map, i)
  BY <1>2, <1>6, <1>7
<1>9. i \in 1..len /\ i \in Nat
  BY <1>4
<1> QED
  BY <1>8, <1>9, OffsetIs

\* The value of the i-th name, and what a map and values must be for n names.
Vals == Values \cup {CLEAR}
ValueIn(map, pv, i) ==
  IF Offset_InMap(map, i) = 0 THEN CLEAR ELSE At(pv, Offset_InMap(map, i))
Fits(map, pv, n) ==
  \/ pv = Null /\ CountPropvals(map, n) = 0
  \/ pv \in [1..CountPropvals(map, n) -> Vals]
Fit(map, pv, n) == map \in Maps /\ n \in Nat /\ Fits(map, pv, n)

LEMMA NullIsNoArray ==
  /\ \A n \in Nat : Null \notin [1..n -> Vals]
  /\ CLEAR \in Vals /\ CLEAR \notin Values
<1>1. Null \notin Seq(Vals) /\ CLEAR \notin Values
  BY WaifAssumption DEF Vals
<1>2. ASSUME NEW n \in Nat, NEW f \in [1..n -> Vals] PROVE f \in Seq(Vals)
  OBVIOUS
<1> QED
  BY <1>1, <1>2 DEF Vals

LEMMA ValueInIs ==
  ASSUME NEW map, NEW pv, NEW n, Fit(map, pv, n), NEW i \in 1..n
  PROVE  /\ ValueIn(map, pv, i) \in Vals
         /\ ~HasPlace(map, i) => ValueIn(map, pv, i) = CLEAR
         /\ pv = Null => ValueIn(map, pv, i) = CLEAR
         /\ HasPlace(map, i) => /\ Offset_InMap(map, i) \in DOMAIN pv /\ Offset_InMap(map, i) # 0
                               /\ ValueIn(map, pv, i) = pv[Offset_InMap(map, i)]
<1>1. /\ CountPropvals(map, n) \in Nat
      /\ HasPlace(map, i) => Offset_InMap(map, i) \in 1..CountPropvals(map, n)
      /\ ~HasPlace(map, i) => Offset_InMap(map, i) = 0
  BY PlaceIs DEF Fit
<1>2. CASE ~HasPlace(map, i)
  BY <1>1, <1>2, NullIsNoArray DEF ValueIn
<1>3. CASE HasPlace(map, i)
  <2>1. Offset_InMap(map, i) \in 1..CountPropvals(map, n) /\ Offset_InMap(map, i) # 0
    BY <1>1, <1>3
  <2>2. pv \in [1..CountPropvals(map, n) -> Vals]
    BY <1>1, <2>1 DEF Fit, Fits
  <2>3. pv # Null
    BY <1>1, <2>2, NullIsNoArray
  <2>4. ValueIn(map, pv, i) = pv[Offset_InMap(map, i)] /\ Offset_InMap(map, i) \in DOMAIN pv
    BY <2>1, <2>2 DEF ValueIn, At
  <2> QED
    BY <1>3, <2>1, <2>2, <2>3, <2>4
<1> QED
  BY <1>2, <1>3

\* alloc_waif_propvals(), all clear.
LEMMA AllocHas ==
  ASSUME NEW map \in Maps, NEW n \in Nat, NEW pv, pv = AllocPropvals(map, n)
  PROVE  Fit(map, pv, n) /\ \A i \in 1..n : ValueIn(map, pv, i) = CLEAR
<1>1. CountPropvals(map, n) \in Nat
  BY CountIs
<1>2. Fit(map, pv, n)
  BY <1>1, NullIsNoArray DEF Fit, Fits, AllocPropvals
<1>3. ASSUME NEW i \in 1..n PROVE ValueIn(map, pv, i) = CLEAR
  <2>1. CASE pv = Null
    BY <1>2, <2>1, ValueInIs
  <2>2. CASE pv # Null
    <3>1. pv = [k \in 1..CountPropvals(map, n) |-> CLEAR]
      BY <2>2 DEF AllocPropvals
    <3>2. CASE HasPlace(map, i)
      <4>1. Offset_InMap(map, i) \in DOMAIN pv /\ ValueIn(map, pv, i) = pv[Offset_InMap(map, i)]
        BY <1>2, <3>2, ValueInIs
      <4> QED
        BY <3>1, <4>1
    <3>3. CASE ~HasPlace(map, i)
      BY <1>2, <3>3, ValueInIs
    <3> QED
      BY <3>2, <3>3
  <2> QED
    BY <2>1, <2>2
<1> QED
  BY <1>2, <1>3

LEMMA PlacedHas ==
  ASSUME NEW map \in Maps, NEW values \in Seq(Vals), map \subseteq 1..Len(values),
         NEW pv, pv = Placed(map, values)
  PROVE  /\ pv \in [1..CountPropvals(map, Len(values)) -> Vals]
         /\ \A i \in 1..Len(values) :
               ValueIn(map, pv, i) = IF HasPlace(map, i) THEN values[i] ELSE CLEAR
<1> PICK n \in Nat : n = Len(values)
  OBVIOUS
<1> DEFINE at(k) == CHOOSE i \in 1..n : Offset_InMap(map, i) = k
<1>1. CountPropvals(map, n) \in Nat
  BY CountIs
<1>2. ASSUME NEW k \in 1..CountPropvals(map, n)
      PROVE  at(k) \in 1..n /\ Offset_InMap(map, at(k)) = k /\ values[at(k)] \in Vals
  <2>1. \E i \in 1..n : Offset_InMap(map, i) = k
    BY EveryPlace
  <2>2. at(k) \in 1..n /\ Offset_InMap(map, at(k)) = k
    BY <2>1
  <2> HIDE DEF at
  <2> QED
    BY <2>2
<1>3. pv = [k \in 1..CountPropvals(map, n) |-> values[at(k)]]
  BY DEF Placed
<1> HIDE DEF at
<1>4. pv \in [1..CountPropvals(map, n) -> Vals]
  BY <1>2, <1>3
<1>5. Fit(map, pv, n)
  BY <1>4 DEF Fit, Fits
<1>6. ASSUME NEW i \in 1..n, HasPlace(map, i) PROVE ValueIn(map, pv, i) = values[i]
  <2> PICK k : k = Offset_InMap(map, i)
    OBVIOUS
  <2>1. k \in 1..CountPropvals(map, n)
    BY <1>6, PlaceIs
  <2>2. at(k) \in 1..n /\ Offset_InMap(map, at(k)) = k
    BY <1>2, <2>1
  <2>3. at(k) = i
    BY <1>6, <2>2, PlaceIs
  <2>4. ValueIn(map, pv, i) = pv[k]
    BY <1>5, <1>6, ValueInIs
  <2> QED
    BY <1>3, <2>1, <2>3, <2>4
<1>7. \A i \in 1..n : ~HasPlace(map, i) => ValueIn(map, pv, i) = CLEAR
  BY <1>5, ValueInIs
<1> QED
  BY <1>4, <1>6, <1>7

\* The end of update_waif_propdefs() keeps the values.
LEMMA PackedHas ==
  ASSUME NEW xfer \in Seq(Vals), NEW q, q = Packed(xfer)
  PROVE  /\ Fit(q.map, q.propvals, Len(xfer))
         /\ \A i \in 1..Len(xfer) : ValueIn(q.map, q.propvals, i) = xfer[i]
<1> PICK n \in Nat : n = Len(xfer)
  OBVIOUS
<1> DEFINE map == {i \in 1..n : i <= Mappable /\ xfer[i] # CLEAR}
<1>1. Mappable \in Nat
  BY WaifAssumption
<1>2. map \in Maps /\ map \subseteq 1..n
  BY <1>1 DEF Maps
<1>3. q.map = map /\ q.propvals = IF CountPropvals(map, n) = 0 THEN Null ELSE Placed(map, xfer)
  BY DEF Packed
<1>4. \A i \in 1..n : ~HasPlace(map, i) => xfer[i] = CLEAR
  BY <1>1 DEF HasPlace
<1> HIDE DEF map
<1>5. /\ Placed(map, xfer) \in [1..CountPropvals(map, n) -> Vals]
      /\ \A i \in 1..n : ValueIn(map, Placed(map, xfer), i) = IF HasPlace(map, i) THEN xfer[i] ELSE CLEAR
  BY <1>2, PlacedHas
<1>6. Fit(map, q.propvals, n)
  BY <1>2, <1>3, <1>5 DEF Fit, Fits
<1>7. ASSUME NEW i \in 1..n PROVE ValueIn(map, q.propvals, i) = xfer[i]
  <2>1. CASE CountPropvals(map, n) = 0
    <3>1. ~HasPlace(map, i)
      BY <1>2, <2>1, PlaceIs
    <3> QED
      BY <1>4, <1>6, <3>1, ValueInIs
  <2>2. CASE CountPropvals(map, n) # 0
    BY <1>3, <1>4, <1>5, <2>2
  <2> QED
    BY <2>1, <2>2
<1> QED
  BY <1>3, <1>6, <1>7

-----------------------------------------------------------------------------
(* The loop of update_waif_propdefs().                                     *)

\* How many of the names from the i-th to before the j-th have a place.
Places(map, i, j) == Cardinality({k \in i..j - 1 : HasPlace(map, k)})
LEMMA PlacesIs ==
  ASSUME NEW map, NEW i \in Nat, NEW j \in Nat, i <= j
  PROVE  /\ Places(map, i + 1, j + 1) \in Nat
         /\ Rank(map, j) = Rank(map, i) + Places(map, i + 1, j + 1)
<1> DEFINE P == {k \in (i + 1)..(j + 1) - 1 : HasPlace(map, k)}
<1>1. /\ IsFiniteSet(Upto(map, i)) /\ Rank(map, i) \in Nat /\ Rank(map, j) \in Nat
      /\ IsFiniteSet(Upto(map, j))
  BY UptoFinite
<1>2. Upto(map, j) = Upto(map, i) \cup P /\ Upto(map, i) \cap P = {}
  <2>1. \A k : k \in Upto(map, j) <=> k \in Upto(map, i) \/ k \in P
    BY DEF Upto
  <2>2. \A k \in Upto(map, i) : k \notin P
    BY DEF Upto
  <2> HIDE DEF P
  <2> QED
    BY <2>1, <2>2
<1>3. Places(map, i + 1, j + 1) = Cardinality(P)
  BY DEF Places
<1> HIDE DEF P
<1>4. P \subseteq Upto(map, j)
  BY <1>2
<1>5. IsFiniteSet(P) /\ Cardinality(P) \in Nat
  BY <1>1, <1>4, FS_Subset, FS_CardinalityType
<1>6. Cardinality(Upto(map, i) \cup P)
        = Cardinality(Upto(map, i)) + Cardinality(P) - Cardinality(Upto(map, i) \cap P)
  BY <1>1, <1>5, FS_Union
<1>7. Cardinality(Upto(map, i) \cap P) = 0
  BY <1>2, FS_EmptySet
<1>8. Cardinality(Upto(map, i) \cup P) = Rank(map, j)
  BY <1>2 DEF Rank
<1>9. Cardinality(Upto(map, i)) = Rank(map, i)
  BY DEF Rank
<1> QED
  BY <1>1, <1>3, <1>5, <1>6, <1>7, <1>8, <1>9

\* Where the loop is, and one turn of it.
WalkRec(a, ov, xp) == [a |-> a, ov |-> ov, xp |-> xp]
WalkStates(old) == [a : 1..Len(old) + 1, ov : Nat, xp : Seq(Vals \cup {Garbage})]
TakenAt(s, k, map, pv) ==
  WalkRec(k + 1, s.ov + Places(map, s.a, k + 1),
          Append(s.xp, IF HasPlace(map, k) THEN At(pv, s.ov + Places(map, s.a, k)) ELSE CLEAR))
SameFrom(s, name, old) == {k \in s.a..Len(old) : old[k] = name}
PassedBy(s) == [s EXCEPT !.xp = Append(@, CLEAR)]
TurnOf(s, name, old, map, pv) ==
  IF SameFrom(s, name, old) = {} THEN PassedBy(s)
  ELSE TakenAt(s, Min(SameFrom(s, name, old)), map, pv)
Turns(t, old, new, map, pv) ==
  [b \in 0..Len(new) |-> IF b = 0 THEN WalkRec(1, 1, <<>>)
                         ELSE TurnOf(t[b - 1], new[b], old, map, pv)]

LEMMA TransferredIs ==
  ASSUME NEW old, NEW new, NEW map, NEW pv
  PROVE  Transferred(old, new, map, pv)
            = (CHOOSE t : t = Turns(t, old, new, map, pv))[Len(new)].xp
BY DEF Transferred, Turns, TurnOf, PassedBy, SameFrom, TakenAt, WalkRec, Places

\* What one turn does with a name: there is no value for it, or that of the
\* old name k.
Passes(s, u, name, old) ==
  /\ u = WalkRec(s.a, s.ov, Append(s.xp, CLEAR))
  /\ \A k \in s.a..Len(old) : old[k] # name
Takes(s, u, name, old, map, pv, k) ==
  /\ k \in s.a..Len(old) /\ old[k] = name /\ u = TakenAt(s, k, map, pv)

LEMMA PassedByIs ==
  ASSUME NEW a, NEW ov, NEW xp
  PROVE  PassedBy(WalkRec(a, ov, xp)) = WalkRec(a, ov, Append(xp, CLEAR))
BY DEF PassedBy, WalkRec

LEMMA TurnIs ==
  ASSUME NEW old \in Seq(Names), NEW map, NEW n, NEW pv, Fit(map, pv, n),
         pv # Null,
         NEW s \in WalkStates(old), NEW name, NEW u, u = TurnOf(s, name, old, map, pv)
  PROVE  /\ u \in WalkStates(old)
         /\ \/ Passes(s, u, name, old)
            \/ \E k \in s.a..Len(old) : Takes(s, u, name, old, map, pv, k)
<1>1. Len(old) \in Nat /\ s.a \in 1..Len(old) + 1 /\ s.ov \in Nat /\ s.xp \in Seq(Vals \cup {Garbage})
  BY LenProperties DEF WalkStates
<1>2. ASSUME NEW v \in Vals \cup {Garbage}
      PROVE  Append(s.xp, v) \in Seq(Vals \cup {Garbage})
  BY <1>1, AppendProperties
<1>3. CLEAR \in Vals
  BY NullIsNoArray
<1> DEFINE same == SameFrom(s, name, old)
<1>4. CASE same = {}
  <2>1. u = PassedBy(s)
    BY <1>4 DEF TurnOf
  <2>2. s = WalkRec(s.a, s.ov, s.xp)
    BY DEF WalkStates, WalkRec
  <2>3. PassedBy(s) = WalkRec(s.a, s.ov, Append(s.xp, CLEAR))
    BY <2>2, PassedByIs
  <2>4. \A k \in s.a..Len(old) : old[k] # name
    BY <1>4 DEF SameFrom
  <2>5. u \in WalkStates(old)
    BY <1>1, <1>2, <1>3, <2>1, <2>3 DEF WalkRec, WalkStates
  <2> QED
    BY <2>1, <2>3, <2>4, <2>5 DEF Passes
<1>5. CASE same # {}
  <2> PICK k : k = Min(same)
    OBVIOUS
  <2>1. k \in same
    <3>1. same \in SUBSET Nat
      BY <1>1 DEF SameFrom
    <3> HIDE DEF same
    <3> QED
      BY <1>5, <3>1, MinIs
  <2>2. k \in s.a..Len(old) /\ old[k] = name
    BY <2>1 DEF SameFrom
  <2>3. u = TakenAt(s, k, map, pv)
    BY <1>5 DEF TurnOf
  <2>4. Places(map, s.a, k + 1) \in Nat /\ Places(map, s.a, k) \in Nat
    <3> PICK i \in Nat : i = s.a - 1
      BY <1>1
    <3>1. s.a = i + 1 /\ k \in Nat /\ i <= k /\ i <= k - 1 /\ k - 1 \in Nat /\ (k - 1) + 1 = k
      BY <1>1, <2>2
    <3>2. Places(map, i + 1, k + 1) \in Nat
      BY <3>1, PlacesIs
    <3>3. Places(map, i + 1, (k - 1) + 1) \in Nat
      BY <3>1, PlacesIs
    <3> QED
      BY <3>1, <3>2, <3>3
  <2>5. \A x : At(pv, x) \in Vals \cup {Garbage}
    <3>1. pv \in [1..CountPropvals(map, n) -> Vals]
      BY DEF Fit, Fits
    <3> QED
      BY <3>1 DEF At
  <2>6. u \in WalkStates(old)
    <3> PICK v \in Vals \cup {Garbage} :
          v = IF HasPlace(map, k) THEN At(pv, s.ov + Places(map, s.a, k)) ELSE CLEAR
      BY <1>3, <2>5
    <3>1. u = WalkRec(k + 1, s.ov + Places(map, s.a, k + 1), Append(s.xp, v))
      BY <2>3 DEF TakenAt
    <3>2. k + 1 \in 1..Len(old) + 1 /\ s.ov + Places(map, s.a, k + 1) \in Nat
      BY <1>1, <2>2, <2>4
    <3> QED
      BY <1>2, <3>1, <3>2 DEF WalkRec, WalkStates
  <2> QED
    BY <2>2, <2>3, <2>6 DEF Takes
<1> QED
  BY <1>4, <1>5

\* The turns of the loop are there.
WalkOf(t, old, new, map, pv) ==
  /\ t \in [0..Len(new) -> WalkStates(old)] /\ t[0] = WalkRec(1, 1, <<>>)
  /\ \A b \in 1..Len(new) :
        \/ Passes(t[b - 1], t[b], new[b], old)
        \/ \E k \in t[b - 1].a..Len(old) : Takes(t[b - 1], t[b], new[b], old, map, pv, k)
LEMMA WalkIs ==
  ASSUME NEW old \in Seq(Names), NEW new \in Seq(Names), NEW map, NEW n, NEW pv,
         Fit(map, pv, n), pv # Null
  PROVE  \E t : WalkOf(t, old, new, map, pv) /\ Transferred(old, new, map, pv) = t[Len(new)].xp
<1> DEFINE len == Len(new)
           D == WalkStates(old)
           first == WalkRec(1, 1, <<>>)
           step == [b \in 1..len |-> [s \in D |-> TurnOf(s, new[b], old, map, pv)]]
           h == CHOOSE t : t = Turns(t, old, new, map, pv)
<1>1. len \in Nat /\ Len(old) \in Nat
  BY LenProperties
<1>2. first \in D
  BY <1>1, EmptySeq DEF WalkRec, WalkStates
<1>3. step \in [1..len -> [D -> D]]
  <2>1. \A b \in 1..len, s \in D : TurnOf(s, new[b], old, map, pv) \in D
    BY TurnIs
  <2> HIDE DEF D, len
  <2> QED
    BY <2>1
<1> HIDE DEF D, first
<1>4. PICK t : Built(t, len, D, first, step)
  <2> HIDE DEF step, len
  <2> QED
    BY <1>1, <1>2, <1>3, StepByStep DEF Steps
<1>5. t = Turns(t, old, new, map, pv)
  <2>1. \A b \in 1..len : b - 1 \in 0..len /\ t[b - 1] \in D
    BY <1>1, <1>4 DEF Built
  <2>2. \A b \in 1..len : t[b] = TurnOf(t[b - 1], new[b], old, map, pv)
    BY <1>4, <2>1 DEF Built
  <2>3. t[0] = first /\ t = [b \in 0..len |-> t[b]]
    BY <1>4 DEF Built
  <2>4. \A b \in 0..len : t[b] = IF b = 0 THEN first ELSE TurnOf(t[b - 1], new[b], old, map, pv)
    BY <1>1, <2>2, <2>3
  <2>5. t = [b \in 0..len |-> IF b = 0 THEN first ELSE TurnOf(t[b - 1], new[b], old, map, pv)]
    BY <2>3, <2>4
  <2> QED
    BY <2>5 DEF Turns, first
<1>6. h = Turns(h, old, new, map, pv)
  BY <1>5
<1> HIDE DEF h, step
<1>7. h[0] = first /\ h = [b \in 0..len |-> h[b]]
      /\ \A b \in 1..len : h[b] = TurnOf(h[b - 1], new[b], old, map, pv)
  <2>1. h = [b \in 0..len |-> IF b = 0 THEN first ELSE TurnOf(h[b - 1], new[b], old, map, pv)]
    BY <1>6 DEF Turns, first
  <2>2. h[0] = first
    BY <1>1, <2>1
  <2>3. \A b \in 1..len : h[b] = TurnOf(h[b - 1], new[b], old, map, pv)
    BY <1>1, <2>1
  <2> QED
    BY <2>1, <2>2, <2>3
<1> DEFINE S == {b \in 0..len : h[b] \in D}
<1>8. 0..len \subseteq S
  <2>1. 0 \in S
    BY <1>1, <1>2, <1>7
  <2>2. ASSUME NEW m \in 0..len - 1, m \in S PROVE m + 1 \in S
    <3>1. m + 1 \in 1..len /\ (m + 1) - 1 = m
      BY <1>1
    <3>2. h[m + 1] = TurnOf(h[m], new[m + 1], old, map, pv)
      BY <1>7, <3>1
    <3>3. h[m] \in WalkStates(old)
      BY <2>2 DEF D
    <3>4. h[m + 1] \in D
      BY <3>2, <3>3, TurnIs DEF D
    <3> QED
      BY <3>1, <3>4
  <2> HIDE DEF S, len
  <2> QED
    BY <1>1, <2>1, <2>2, CountingUp
<1>9. h \in [0..len -> D]
  BY <1>7, <1>8
<1>10. ASSUME NEW b \in 1..len
       PROVE  \/ Passes(h[b - 1], h[b], new[b], old)
              \/ \E k \in h[b - 1].a..Len(old) : Takes(h[b - 1], h[b], new[b], old, map, pv, k)
  <2>1. h[b - 1] \in WalkStates(old) /\ h[b] = TurnOf(h[b - 1], new[b], old, map, pv)
    <3>1. b - 1 \in 0..len
      BY <1>1
    <3>2. h[b - 1] \in D
      BY <1>9, <3>1
    <3>3. h[b] = TurnOf(h[b - 1], new[b], old, map, pv)
      BY <1>7
    <3> QED
      BY <3>2, <3>3 DEF D
  <2> PICK s, u : s = h[b - 1] /\ u = h[b] /\ s \in WalkStates(old)
    BY <2>1
  <2>2. \/ Passes(s, u, new[b], old)
        \/ \E k \in s.a..Len(old) : Takes(s, u, new[b], old, map, pv, k)
    BY <2>1, TurnIs
  <2> QED
    BY <2>2
<1>11. Transferred(old, new, map, pv) = h[len].xp
  BY TransferredIs DEF h
<1> QED
  BY <1>7, <1>9, <1>10, <1>11 DEF WalkOf, D, first

\* The names that are in both lists come in the same order.
SameOrder(s, t) ==
  \A i, j \in 1..Len(s), k, l \in 1..Len(t) : s[i] = t[k] /\ s[j] = t[l] /\ i < j => k < l

\* v is the old value of the b-th name; or it is clear, and if nothing came in
\* another order, because the name is new.
FromOld(old, new, map, pv, b, v) ==
  \/ v = CLEAR /\ (SameOrder(old, new) => \A k \in 1..Len(old) : old[k] # new[b])
  \/ \E k \in 1..Len(old) : old[k] = new[b] /\ v = ValueIn(map, pv, k)
WalkOK(s, b, old, new, map, pv) ==
  /\ s.ov = Rank(map, s.a - 1) + 1
  /\ Len(s.xp) = b
  /\ \A c \in 1..b : s.xp[c] \in Vals /\ FromOld(old, new, map, pv, c, s.xp[c])
  /\ s.a # 1 => \E c \in 1..b : old[s.a - 1] = new[c]

\* None of the names that the loop is past is one that comes, if the order is kept.
LEMMA NotPassed ==
  ASSUME NEW old \in Seq(Names), NEW new \in Seq(Names), IsInjective(new),
         SameOrder(old, new), NEW a \in 1..Len(old) + 1, NEW b \in 1..Len(new),
         a # 1 => \E c \in 1..b - 1 : old[a - 1] = new[c],
         NEW k \in 1..Len(old), k < a
  PROVE  old[k] # new[b]
<1> SUFFICES ASSUME old[k] = new[b] PROVE FALSE
  OBVIOUS
<1>0. Len(old) \in Nat /\ Len(new) \in Nat /\ DOMAIN new = 1..Len(new)
  BY LenProperties
<1>1. PICK c \in 1..b - 1 : old[a - 1] = new[c]
  <2>1. a # 1
    BY <1>0
  <2> QED
    BY <2>1
<1>2. a - 1 \in 1..Len(old) /\ c \in 1..Len(new) /\ c < b
  BY <1>0
<1>3. k # a - 1
  <2>1. new[c] # new[b]
    BY <1>0, <1>2 DEF IsInjective
  <2> QED
    BY <1>1, <2>1
<1>4. k < a - 1
  BY <1>0, <1>3
<1>5. b < c
  BY <1>1, <1>2, <1>4 DEF SameOrder
<1> QED
  BY <1>0, <1>2, <1>5

LEMMA WalkGoesOn ==
  ASSUME NEW old \in Seq(Names), NEW new \in Seq(Names), IsInjective(new),
         NEW map, NEW pv, Fit(map, pv, Len(old)), pv # Null,
         NEW b \in 1..Len(new), NEW s \in WalkStates(old), NEW u \in WalkStates(old),
         WalkOK(s, b - 1, old, new, map, pv),
         \/ Passes(s, u, new[b], old)
         \/ \E k \in s.a..Len(old) : Takes(s, u, new[b], old, map, pv, k)
  PROVE  WalkOK(u, b, old, new, map, pv)
<1>0. /\ Len(old) \in Nat /\ Len(new) \in Nat /\ b \in Nat /\ b - 1 \in Nat
      /\ s.a \in 1..Len(old) + 1 /\ s.ov \in Nat
      /\ s.xp \in Seq(Vals \cup {Garbage}) /\ u.xp \in Seq(Vals \cup {Garbage})
      /\ CLEAR \in Vals
  BY LenProperties, NullIsNoArray DEF WalkStates
<1>1. /\ s.ov = Rank(map, s.a - 1) + 1
      /\ Len(s.xp) = b - 1
      /\ \A c \in 1..b - 1 : s.xp[c] \in Vals /\ FromOld(old, new, map, pv, c, s.xp[c])
      /\ s.a # 1 => \E c \in 1..b - 1 : old[s.a - 1] = new[c]
  BY DEF WalkOK
<1>2. ASSUME NEW v \in Vals, u.xp = Append(s.xp, v), FromOld(old, new, map, pv, b, v)
      PROVE  /\ Len(u.xp) = b
             /\ \A c \in 1..b : u.xp[c] \in Vals /\ FromOld(old, new, map, pv, c, u.xp[c])
  <2>1. /\ Len(u.xp) = b /\ u.xp[b] = v
        /\ \A c \in 1..b - 1 : u.xp[c] = s.xp[c]
    BY <1>0, <1>1, <1>2, AppendProperties
  <2>2. \A c \in 1..b : c = b \/ c \in 1..b - 1
    BY <1>0
  <2> QED
    BY <1>1, <1>2, <2>1, <2>2
<1>3. CASE Passes(s, u, new[b], old)
  <2>1. u.a = s.a /\ u.ov = s.ov /\ u.xp = Append(s.xp, CLEAR)
    BY <1>3 DEF Passes, WalkRec
  <2>2. ASSUME SameOrder(old, new), NEW k \in 1..Len(old) PROVE old[k] # new[b]
    <3>1. CASE k < s.a
      BY <1>0, <1>1, <2>2, <3>1, NotPassed
    <3>2. CASE k >= s.a
      <4>1. k \in s.a..Len(old)
        BY <1>0, <3>2
      <4> QED
        BY <1>3, <4>1 DEF Passes
    <3> QED
      BY <1>0, <3>1, <3>2
  <2>3. FromOld(old, new, map, pv, b, CLEAR)
    BY <2>2 DEF FromOld
  <2>4. s.a # 1 => \E c \in 1..b : old[s.a - 1] = new[c]
    <3>1. \A c \in 1..b - 1 : c \in 1..b
      BY <1>0
    <3> QED
      BY <1>1, <3>1
  <2> QED
    BY <1>0, <1>1, <1>2, <2>1, <2>3, <2>4 DEF WalkOK
<1>4. ASSUME NEW k \in s.a..Len(old), Takes(s, u, new[b], old, map, pv, k)
      PROVE  WalkOK(u, b, old, new, map, pv)
  <2> PICK i \in Nat : i = s.a - 1
    BY <1>0
  <2> PICK j \in Nat : j = k - 1
    BY <1>0
  <2>1. i + 1 = s.a /\ j + 1 = k /\ k \in Nat /\ i <= j /\ i <= k /\ k \in 1..Len(old) /\ k # 0
    BY <1>0
  <2>2. /\ Places(map, i + 1, j + 1) \in Nat /\ Rank(map, j) = Rank(map, i) + Places(map, i + 1, j + 1)
    BY <2>1, PlacesIs
  <2>3. /\ Places(map, i + 1, k + 1) \in Nat /\ Rank(map, k) = Rank(map, i) + Places(map, i + 1, k + 1)
    BY <2>1, PlacesIs
  <2>4. Rank(map, i) \in Nat /\ Rank(map, j) \in Nat /\ Rank(map, k) \in Nat
    BY <2>1, UptoFinite
  <2>5. /\ old[k] = new[b] /\ u.a = k + 1 /\ u.ov = s.ov + Places(map, s.a, k + 1)
        /\ u.xp = Append(s.xp, IF HasPlace(map, k) THEN At(pv, s.ov + Places(map, s.a, k)) ELSE CLEAR)
    BY <1>4 DEF Takes, TakenAt, WalkRec
  <2>6. u.ov = Rank(map, u.a - 1) + 1
    <3>1. u.a - 1 = k /\ s.ov = Rank(map, i) + 1
      BY <1>1, <2>1, <2>5
    <3>2. u.ov = Rank(map, i) + 1 + Places(map, i + 1, k + 1)
      BY <2>1, <2>5, <3>1
    <3> QED
      BY <2>3, <2>4, <3>1, <3>2
  <2>7. u.xp = Append(s.xp, ValueIn(map, pv, k)) /\ ValueIn(map, pv, k) \in Vals
    <3>1. ValueIn(map, pv, k) \in Vals /\ (~HasPlace(map, k) => ValueIn(map, pv, k) = CLEAR)
      BY <2>1, ValueInIs
    <3>2. CASE HasPlace(map, k)
      <4>1. s.ov + Places(map, s.a, k) = Rank(map, j) + 1
        <5>1. s.ov + Places(map, s.a, k) = Rank(map, i) + 1 + Places(map, i + 1, j + 1)
          BY <1>1, <2>1
        <5> QED
          BY <2>2, <2>4, <5>1
      <4>2. Rank(map, k) = Rank(map, j) + 1
        <5>1. Rank(map, j + 1) = Rank(map, j) + IF HasPlace(map, j + 1) THEN 1 ELSE 0
          BY RankNext
        <5> QED
          BY <2>1, <3>2, <5>1
      <4>3. map \in Maps /\ Offset_InMap(map, k) = Rank(map, k)
        BY <2>1, <3>2, OffsetIs DEF Fit
      <4>4. Offset_InMap(map, k) # 0
        BY <2>4, <4>2, <4>3
      <4> QED
        BY <2>5, <3>1, <3>2, <4>1, <4>2, <4>3, <4>4 DEF ValueIn
    <3>3. CASE ~HasPlace(map, k)
      BY <2>5, <3>1, <3>3
    <3> QED
      BY <3>1, <3>2, <3>3
  <2>8. FromOld(old, new, map, pv, b, ValueIn(map, pv, k))
    BY <2>1, <2>5 DEF FromOld
  <2>9. \E c \in 1..b : old[u.a - 1] = new[c]
    <3>1. u.a - 1 = k /\ b \in 1..b
      BY <1>0, <2>1, <2>5
    <3> QED
      BY <2>5, <3>1
  <2> QED
    BY <1>2, <2>6, <2>7, <2>8, <2>9 DEF WalkOK
<1> QED
  BY <1>3, <1>4

LEMMA TransferredHas ==
  ASSUME NEW old \in Seq(Names), NEW new \in Seq(Names), IsInjective(new),
         NEW map, NEW pv, Fit(map, pv, Len(old)), pv # Null,
         NEW xfer, xfer = Transferred(old, new, map, pv)
  PROVE  /\ xfer \in Seq(Vals) /\ Len(xfer) = Len(new)
         /\ \A b \in 1..Len(new) : FromOld(old, new, map, pv, b, xfer[b])
<1>0. Len(new) \in Nat /\ Len(old) \in Nat
  BY LenProperties
<1>1. PICK t : WalkOf(t, old, new, map, pv) /\ xfer = t[Len(new)].xp
  BY WalkIs
<1> DEFINE S == {b \in 0..Len(new) : WalkOK(t[b], b, old, new, map, pv)}
<1>2. 0 \in S
  <2>1. t[0] = WalkRec(1, 1, <<>>)
    BY <1>1 DEF WalkOf
  <2>2. t[0].a = 1 /\ t[0].ov = 1 /\ t[0].xp = <<>>
    BY <2>1 DEF WalkRec
  <2>3. Rank(map, 0) = 0 /\ Len(<<>>) = 0
    BY UptoFinite
  <2>4. \A c \in 1..0 : FALSE
    OBVIOUS
  <2>5. t[0].ov = Rank(map, t[0].a - 1) + 1
    <3>1. t[0].a - 1 = 0
      BY <2>2
    <3> QED
      BY <2>2, <2>3, <3>1
  <2>6. WalkOK(t[0], 0, old, new, map, pv)
    BY <2>2, <2>3, <2>4, <2>5 DEF WalkOK
  <2> QED
    BY <1>0, <2>6
<1>3. ASSUME NEW m \in 0..Len(new) - 1, m \in S PROVE m + 1 \in S
  <2> PICK b \in 1..Len(new) : b = m + 1
    BY <1>0
  <2>1. b - 1 = m /\ m \in 0..Len(new) /\ b \in 0..Len(new)
    BY <1>0
  <2>2. t[m] \in WalkStates(old) /\ t[b] \in WalkStates(old)
    BY <1>1, <2>1 DEF WalkOf
  <2> PICK s \in WalkStates(old), u \in WalkStates(old) : s = t[m] /\ u = t[b]
    BY <2>2
  <2>3. \/ Passes(s, u, new[b], old)
        \/ \E k \in s.a..Len(old) : Takes(s, u, new[b], old, map, pv, k)
    BY <1>1, <2>1 DEF WalkOf
  <2>4. WalkOK(s, b - 1, old, new, map, pv)
    BY <1>3, <2>1
  <2>5. WalkOK(u, b, old, new, map, pv)
    BY <2>3, <2>4, WalkGoesOn
  <2> QED
    BY <2>1, <2>5
<1>4. Len(new) \in S
  <2>1. 0..Len(new) \subseteq S
    <3> HIDE DEF S
    <3> QED
      BY <1>0, <1>2, <1>3, CountingUp
  <2> QED
    BY <1>0, <2>1
<1>5. /\ Len(xfer) = Len(new)
      /\ \A b \in 1..Len(new) : xfer[b] \in Vals /\ FromOld(old, new, map, pv, b, xfer[b])
  BY <1>1, <1>4 DEF WalkOK
<1>6. xfer \in Seq(Vals \cup {Garbage})
  BY <1>0, <1>1 DEF WalkOf, WalkStates
<1>7. xfer \in Seq(Vals)
  <2>1. xfer = [b \in 1..Len(new) |-> xfer[b]]
    BY <1>5, <1>6, LenProperties
  <2> QED
    BY <1>0, <1>5, <2>1
<1> QED
  BY <1>5, <1>7

\* What update_waif_propdefs() makes of the values, when the waif has a list or
\* has no values.
LEMMA RemappedHas ==
  ASSUME NEW old \in Seq(Names), NEW new \in Seq(Names), IsInjective(new),
         NEW r, r.map \in Maps,
         Fits(r.map, r.propvals, Len(old)) \/ (old = <<>> /\ r.propvals = Null),
         NEW q, q = Remapped(old, new, r)
  PROVE  /\ Fit(q.map, q.propvals, Len(new))
         /\ \A b \in 1..Len(new) :
               FromOld(old, new, r.map, r.propvals, b, ValueIn(q.map, q.propvals, b))
<1>0. Len(new) \in Nat /\ Len(old) \in Nat
  BY LenProperties
<1>1. CASE r.propvals = Null
  <2> PICK pv : pv = AllocPropvals(r.map, Len(new))
    OBVIOUS
  <2>1. q.map = r.map /\ q.propvals = pv
    BY <1>1 DEF Remapped
  <2>2. Fit(r.map, pv, Len(new)) /\ \A i \in 1..Len(new) : ValueIn(r.map, pv, i) = CLEAR
    BY <1>0, AllocHas
  <2>3. ASSUME NEW b \in 1..Len(new), NEW k \in 1..Len(old)
        PROVE  ValueIn(r.map, r.propvals, k) = CLEAR
    <3>1. Fit(r.map, r.propvals, Len(old))
      BY <1>0, EmptySeq DEF Fit
    <3> QED
      BY <1>1, <3>1, ValueInIs
  <2>4. \A b \in 1..Len(new) : FromOld(old, new, r.map, r.propvals, b, CLEAR)
    BY <2>3 DEF FromOld
  <2> QED
    BY <2>1, <2>2, <2>4
<1>2. CASE r.propvals # Null
  <2> PICK xfer : xfer = Transferred(old, new, r.map, r.propvals)
    OBVIOUS
  <2>1. Fit(r.map, r.propvals, Len(old))
    BY <1>0, <1>2 DEF Fit
  <2>2. /\ xfer \in Seq(Vals) /\ Len(xfer) = Len(new)
        /\ \A b \in 1..Len(new) : FromOld(old, new, r.map, r.propvals, b, xfer[b])
    BY <1>2, <2>1, TransferredHas
  <2>3. q = Packed(xfer)
    BY <1>2 DEF Remapped
  <2>4. /\ Fit(q.map, q.propvals, Len(xfer))
        /\ \A i \in 1..Len(xfer) : ValueIn(q.map, q.propvals, i) = xfer[i]
    BY <2>2, <2>3, PackedHas
  <2> QED
    BY <2>2, <2>4
<1> QED
  BY <1>1, <1>2

-----------------------------------------------------------------------------
(* What a waif has, and what is expected of it.                            *)

Puts == [Names -> Vals]
NamesIn(m, w) ==
  IF m.waifs[w].propdefs = Null THEN <<>> ELSE m.lists[m.waifs[w].propdefs].defs
DefsFor(d, c) == IF c = NOTHING THEN <<>> ELSE d[c]

\* A waif with the names L, of which the values p were put last, and those of
\* the names in k are still to be there.
AsPut(n, v, p, k) == v = p[n] \/ (v = CLEAR /\ n \notin k)
ValuesRight(r, L, p, k) ==
  /\ L \in Seq(Names) /\ IsInjective(L)
  /\ r.map \in Maps /\ (r.propdefs # Null => Fits(r.map, r.propvals, Len(L)))
  /\ p \in Puts /\ \A n \in Names \ ToSet(L) : p[n] = CLEAR
  /\ r.propdefs # Null =>
        \A i \in 1..Len(L) : AsPut(L[i], ValueIn(r.map, r.propvals, i), p, k)
KeptRight(k, L, e) ==
  k \subseteq ToSet(L) \cap ToSet(e) /\ (k # {} => SameOrder(L, e))
OwnList(m, w, k) ==
  k # {} => \A o \in Oid : m.of[o] = m.waifs[w].propdefs => o = m.waifs[w].class
WaifRight(m, d, w, p, k) ==
  /\ ValuesRight(m.waifs[w], NamesIn(m, w), p, k)
  /\ KeptRight(k, NamesIn(m, w), DefsFor(d, m.waifs[w].class))
  /\ OwnList(m, w, k)

\* What is put to the names that are not there any more is forgotten.
Forgotten(p, L) == [n \in Names |-> IF n \in ToSet(L) THEN p[n] ELSE CLEAR]

LEMMA KnownIs ==
  ASSUME NEW m, NEW w
  PROVE  Known(m, w) = Forgotten(put[w], NamesIn(m, w))
<1>1. ToSet(<<>>) = {}
  BY DEF ToSet
<1> QED
  BY <1>1 DEF Known, Forgotten, NamesIn

LEMMA NoNamesIs ==
  /\ <<>> \in Seq(Names) /\ IsInjective(<<>>) /\ Len(<<>>) = 0 /\ ToSet(<<>>) = {}
BY DEF IsInjective, ToSet

\* Bringing a waif up to date keeps what is expected.
LEMMA RemappedRight ==
  ASSUME NEW r, NEW L, NEW p, NEW k, ValuesRight(r, L, p, k),
         NEW e \in Seq(Names), IsInjective(e), KeptRight(k, L, e),
         r.propdefs = Null => L = <<>> /\ r.propvals = Null,
         NEW q, q = Remapped(L, e, r), NEW s, s.propdefs # Null, s.map = q.map, s.propvals = q.propvals
  PROVE  ValuesRight(s, e, Forgotten(p, e), k)
<1>1. /\ L \in Seq(Names) /\ IsInjective(L) /\ r.map \in Maps /\ p \in Puts
      /\ r.propdefs # Null => Fits(r.map, r.propvals, Len(L))
      /\ \A n \in Names \ ToSet(L) : p[n] = CLEAR
      /\ r.propdefs # Null =>
            \A i \in 1..Len(L) : AsPut(L[i], ValueIn(r.map, r.propvals, i), p, k)
  BY DEF ValuesRight
<1>2. /\ Fit(q.map, q.propvals, Len(e))
      /\ \A b \in 1..Len(e) :
            FromOld(L, e, r.map, r.propvals, b, ValueIn(q.map, q.propvals, b))
  BY <1>1, RemappedHas
<1> PICK f : f = Forgotten(p, e)
  OBVIOUS
<1>3. f \in Puts /\ (\A n \in Names \ ToSet(e) : f[n] = CLEAR) /\ \A n \in ToSet(e) \cap Names : f[n] = p[n]
  BY <1>1, NullIsNoArray DEF Forgotten, Puts
<1>4. Len(L) \in Nat /\ DOMAIN L = 1..Len(L) /\ DOMAIN e = 1..Len(e)
  BY <1>1, LenProperties
<1>5. ASSUME NEW b \in 1..Len(e)
      PROVE  AsPut(e[b], ValueIn(q.map, q.propvals, b), f, k)
  <2> PICK v : v = ValueIn(q.map, q.propvals, b)
    OBVIOUS
  <2>1. e[b] \in Names /\ e[b] \in ToSet(e) /\ f[e[b]] = p[e[b]]
    BY <1>3, <1>4, ElementOfSeq DEF ToSet
  <2>2. CASE v = CLEAR /\ (SameOrder(L, e) => \A j \in 1..Len(L) : L[j] # e[b])
    <3>1. e[b] \notin k
      <4> SUFFICES ASSUME e[b] \in k PROVE FALSE
        OBVIOUS
      <4>1. SameOrder(L, e) /\ e[b] \in ToSet(L)
        BY DEF KeptRight
      <4>2. PICK j \in 1..Len(L) : L[j] = e[b]
        BY <1>4, <4>1 DEF ToSet
      <4> QED
        BY <2>2, <4>1, <4>2
    <3> QED
      BY <2>2, <3>1 DEF AsPut
  <2>3. ASSUME NEW j \in 1..Len(L), L[j] = e[b], v = ValueIn(r.map, r.propvals, j)
        PROVE  AsPut(e[b], v, f, k)
    <3>1. r.propdefs # Null
      BY <2>3, NoNamesIs
    <3>2. AsPut(L[j], v, p, k)
      BY <1>1, <2>3, <3>1
    <3> QED
      BY <2>1, <2>3, <3>2 DEF AsPut
  <2> QED
    BY <1>2, <2>2, <2>3 DEF FromOld
<1> QED
  BY <1>2, <1>3, <1>5 DEF ValuesRight, Fit

-----------------------------------------------------------------------------
(* The order of the names that an object has.                              *)

EachOnce(names) == \A o \in Oid : IsInjective(names[o])

\* The name n comes before m in s.
Before(s, n, m) == \E i, j \in 1..Len(s) : i < j /\ s[i] = n /\ s[j] = m

LEMMA OneBefore ==
  ASSUME NEW s \in Seq(Names), IsInjective(s), NEW a \in 1..Len(s), NEW b \in 1..Len(s)
  PROVE  /\ Before(s, s[a], s[b]) <=> a < b
         /\ s[a] \in ToSet(s) /\ s[a] \in Names
         /\ s[a] = s[b] => a = b
<1>1. DOMAIN s = 1..Len(s)
  BY LenProperties
<1>2. s[a] \in Names
  BY ElementOfSeq
<1> QED
  BY <1>1, <1>2 DEF IsInjective, Before, ToSet

LEMMA InSet ==
  ASSUME NEW s \in Seq(Names), NEW n
  PROVE  n \in ToSet(s) <=> \E a \in 1..Len(s) : s[a] = n
<1>1. DOMAIN s = 1..Len(s)
  BY LenProperties
<1> QED
  BY <1>1 DEF ToSet

\* A name is added at the end.
LEMMA AppendedOnce ==
  ASSUME NEW s \in Seq(Names), IsInjective(s), NEW x \in Names, x \notin ToSet(s),
         NEW t, t = Append(s, x)
  PROVE  /\ t \in Seq(Names) /\ IsInjective(t)
         /\ \A n, m : Before(t, n, m) <=> Before(s, n, m) \/ (n \in ToSet(s) /\ m = x)
<1>1. /\ t \in Seq(Names) /\ Len(t) = Len(s) + 1 /\ Len(s) \in Nat
      /\ \A i \in 1..Len(s) : t[i] = s[i]
      /\ t[Len(s) + 1] = x
  BY AppendProperties, LenProperties
<1>2. DOMAIN t = 1..Len(s) + 1 /\ DOMAIN s = 1..Len(s)
  BY <1>1, LenProperties
<1>3. \A i \in 1..Len(s) : s[i] # x
  BY <1>2 DEF ToSet
<1>4. \A i : i \in 1..Len(s) + 1 <=> i \in 1..Len(s) \/ i = Len(s) + 1
  BY <1>1
<1>5. IsInjective(t)
  <2> SUFFICES ASSUME NEW i \in 1..Len(s) + 1, NEW j \in 1..Len(s) + 1, t[i] = t[j] PROVE i = j
    BY <1>2 DEF IsInjective
  <2>1. CASE i \in 1..Len(s) /\ j \in 1..Len(s)
    BY <1>1, <1>2, <2>1 DEF IsInjective
  <2> QED
    BY <1>1, <1>3, <1>4, <2>1
<1>6. ASSUME NEW n, NEW m, Before(t, n, m)
      PROVE  Before(s, n, m) \/ (n \in ToSet(s) /\ m = x)
  <2> PICK i \in 1..Len(s) + 1, j \in 1..Len(s) + 1 : i < j /\ t[i] = n /\ t[j] = m
    BY <1>1, <1>6 DEF Before
  <2>1. i \in 1..Len(s)
    BY <1>1
  <2>2. CASE j \in 1..Len(s)
    BY <1>1, <2>1, <2>2 DEF Before
  <2>3. CASE j = Len(s) + 1
    BY <1>1, <2>1, <2>3, InSet
  <2> QED
    BY <1>4, <2>2, <2>3
<1>7. ASSUME NEW n, NEW m, Before(s, n, m) PROVE Before(t, n, m)
  <2> PICK i \in 1..Len(s), j \in 1..Len(s) : i < j /\ s[i] = n /\ s[j] = m
    BY <1>7 DEF Before
  <2>1. i \in 1..Len(t) /\ j \in 1..Len(t)
    BY <1>1
  <2> QED
    BY <1>1, <2>1 DEF Before
<1>8. ASSUME NEW n \in ToSet(s) PROVE Before(t, n, x)
  <2> PICK i \in 1..Len(s) : s[i] = n
    BY <1>8, InSet
  <2>1. i \in 1..Len(t) /\ Len(s) + 1 \in 1..Len(t) /\ i < Len(s) + 1
    BY <1>1
  <2> QED
    BY <1>1, <2>1 DEF Before
<1> QED
  BY <1>1, <1>5, <1>6, <1>7, <1>8

\* The names of waifs' properties come in the order of all names.
LEMMA ForWaifsOnce ==
  ASSUME NEW s \in Seq(Names), IsInjective(s)
  PROVE  /\ IsInjective(ForWaifs(s))
         /\ \A n, m : Before(s, n, m) /\ {n, m} \cap Plain = {} => Before(ForWaifs(s), n, m)
<1>1. PICK f \in [0..Len(s) -> Seq(Names)] :
            /\ \A i \in 0..Len(s) :
                  f[i] = IF i = 0 THEN <<>>
                         ELSE IF s[i] \in Plain THEN f[i - 1] ELSE Append(f[i - 1], s[i])
            /\ ForWaifs(s) = f[Len(s)]
  BY ForWaifsIs
<1>2. Len(s) \in Nat /\ DOMAIN s = 1..Len(s) /\ \A i \in 1..Len(s) : s[i] \in Names
  BY LenProperties, ElementOfSeq
<1> DEFINE Ordered(i) == \A p, q \in 1..i : p < q /\ {s[p], s[q]} \cap Plain = {} => Before(f[i], s[p], s[q])
           Has(i) == ToSet(f[i]) = {s[j] : j \in 1..i} \ Plain
           S == {i \in 0..Len(s) : IsInjective(f[i]) /\ Has(i) /\ Ordered(i)}
<1>3. 0 \in S
  <2>1. f[0] = <<>>
    BY <1>1, <1>2
  <2>2. IsInjective(f[0]) /\ Has(0) /\ Ordered(0)
    BY <2>1, NoNamesIs
  <2> QED
    BY <1>2, <2>2
<1>4. ASSUME NEW m \in 0..Len(s) - 1, m \in S PROVE m + 1 \in S
  <2> PICK k \in 1..Len(s) : k = m + 1
    BY <1>2
  <2>1. k - 1 = m /\ k # 0 /\ k \in 0..Len(s) /\ m \in 0..Len(s) /\ m \in Nat
    BY <1>2
  <2>2. \A j : j \in 1..k <=> j \in 1..m \/ j = k
    BY <1>2, <2>1
  <2>3. {s[j] : j \in 1..k} = {s[j] : j \in 1..m} \cup {s[k]}
    BY <2>2
  <2> PICK e : e = f[m]
    OBVIOUS
  <2>4. /\ e \in Seq(Names) /\ s[k] \in Names /\ IsInjective(e)
        /\ ToSet(e) = {s[j] : j \in 1..m} \ Plain
        /\ \A p, q \in 1..m : p < q /\ {s[p], s[q]} \cap Plain = {} => Before(e, s[p], s[q])
    BY <1>1, <1>2, <1>4, <2>1
  <2>5. f[k] = IF s[k] \in Plain THEN e ELSE Append(e, s[k])
    BY <1>1, <2>1
  <2>6. CASE s[k] \in Plain
    <3>1. f[k] = e /\ Has(k) /\ IsInjective(f[k])
      BY <2>3, <2>4, <2>5, <2>6
    <3>2. Ordered(k)
      BY <2>2, <2>4, <2>6, <3>1
    <3> QED
      BY <2>1, <3>1, <3>2
  <2>7. CASE s[k] \notin Plain
    <3>1. s[k] \notin ToSet(e)
      <4> SUFFICES ASSUME NEW j \in 1..m, s[j] = s[k] PROVE FALSE
        BY <2>4
      <4>1. j \in DOMAIN s /\ k \in DOMAIN s /\ j # k
        BY <1>2, <2>1
      <4> QED
        BY <4>1 DEF IsInjective
    <3> PICK z \in Names : z = s[k]
      BY <2>4
    <3> PICK t : t = Append(e, z)
      OBVIOUS
    <3>a. e \in Seq(Names) /\ IsInjective(e) /\ z \notin ToSet(e)
      BY <2>4, <3>1
    <3>2. /\ t \in Seq(Names) /\ IsInjective(t)
          /\ \A x, y : Before(t, x, y) <=> Before(e, x, y) \/ (x \in ToSet(e) /\ y = z)
      BY <3>a, AppendedOnce
    <3>3. f[k] = t
      BY <2>5, <2>7
    <3>4. Has(k)
      <4>1. ToSet(t) = ToSet(e) \cup {s[k]}
        BY <2>4, AppendedHas
      <4> QED
        BY <2>3, <2>4, <2>7, <3>3, <4>1
    <3>5. Ordered(k)
      <4> SUFFICES ASSUME NEW p \in 1..k, NEW q \in 1..k, p < q, {s[p], s[q]} \cap Plain = {}
                   PROVE  Before(t, s[p], s[q])
        BY <3>3
      <4>1. p \in 1..m
        BY <2>1, <2>2
      <4>2. CASE q \in 1..m
        BY <2>4, <3>2, <4>1, <4>2
      <4>3. CASE q = k
        <5>1. s[p] \in ToSet(e)
          BY <2>4, <4>1
        <5> QED
          BY <3>2, <4>3, <5>1
      <4> QED
        BY <2>2, <4>2, <4>3
    <3> QED
      BY <2>1, <3>2, <3>3, <3>4, <3>5
  <2> QED
    BY <2>6, <2>7
<1>5. Len(s) \in S
  <2>1. 0..Len(s) \subseteq S
    <3> HIDE DEF S
    <3> QED
      BY <1>2, <1>3, <1>4, CountingUp
  <2> QED
    BY <1>2, <2>1
<1>6. ASSUME NEW n, NEW m, Before(s, n, m), {n, m} \cap Plain = {} PROVE Before(ForWaifs(s), n, m)
  <2> PICK i \in 1..Len(s), j \in 1..Len(s) : i < j /\ s[i] = n /\ s[j] = m
    BY <1>6 DEF Before
  <2>1. Ordered(Len(s))
    BY <1>5
  <2>2. Before(f[Len(s)], s[i], s[j])
    BY <1>6, <2>1
  <2> QED
    BY <1>1, <2>2
<1> QED
  BY <1>1, <1>5, <1>6

LEMMA JoinedOnce ==
  ASSUME NEW s \in Seq(Names), NEW t \in Seq(Names), IsInjective(s), IsInjective(t),
         ToSet(s) \cap ToSet(t) = {}, NEW u, u = s \o t
  PROVE  /\ u \in Seq(Names) /\ IsInjective(u) /\ ToSet(u) = ToSet(s) \cup ToSet(t)
         /\ \A n, m : \/ Before(s, n, m)
                      \/ Before(t, n, m)
                      \/ n \in ToSet(s) /\ m \in ToSet(t)
                      => Before(u, n, m)
<1>1. /\ u \in Seq(Names) /\ Len(u) = Len(s) + Len(t)
      /\ \A i \in 1..Len(s) + Len(t) : u[i] = IF i <= Len(s) THEN s[i] ELSE t[i - Len(s)]
      /\ Len(s) \in Nat /\ Len(t) \in Nat
  BY ConcatProperties, LenProperties
<1>2. DOMAIN u = 1..Len(s) + Len(t) /\ DOMAIN s = 1..Len(s) /\ DOMAIN t = 1..Len(t)
  BY <1>1, LenProperties
<1>3. \A i \in 1..Len(s) : i \in 1..Len(u) /\ u[i] = s[i]
  BY <1>1
<1>4. \A j \in 1..Len(t) : Len(s) + j \in 1..Len(u) /\ u[Len(s) + j] = t[j]
  <2> SUFFICES ASSUME NEW j \in 1..Len(t)
               PROVE  Len(s) + j \in 1..Len(u) /\ u[Len(s) + j] = t[j]
    OBVIOUS
  <2>1. Len(s) + j \in 1..Len(s) + Len(t) /\ ~(Len(s) + j <= Len(s)) /\ (Len(s) + j) - Len(s) = j
    BY <1>1
  <2> QED
    BY <1>1, <2>1
<1>5. \A i \in 1..Len(u) : i \in 1..Len(s) \/ \E j \in 1..Len(t) : i = Len(s) + j
  <2> SUFFICES ASSUME NEW i \in 1..Len(u), i \notin 1..Len(s)
               PROVE  \E j \in 1..Len(t) : i = Len(s) + j
    OBVIOUS
  <2>1. i - Len(s) \in 1..Len(t) /\ i = Len(s) + (i - Len(s))
    BY <1>1
  <2> QED
    BY <2>1
<1>6. \A i \in 1..Len(s), j \in 1..Len(t) : s[i] # t[j] /\ i < Len(s) + j
  <2> SUFFICES ASSUME NEW i \in 1..Len(s), NEW j \in 1..Len(t) PROVE s[i] # t[j] /\ i < Len(s) + j
    OBVIOUS
  <2>1. s[i] \in ToSet(s) /\ t[j] \in ToSet(t)
    BY InSet
  <2> QED
    BY <1>1, <2>1
<1>7. IsInjective(u)
  <2> SUFFICES ASSUME NEW i \in 1..Len(u), NEW j \in 1..Len(u), u[i] = u[j] PROVE i = j
    BY <1>1, <1>2 DEF IsInjective
  <2>1. CASE i \in 1..Len(s) /\ j \in 1..Len(s)
    BY <1>2, <1>3, <2>1 DEF IsInjective
  <2>2. ASSUME NEW a \in 1..Len(t), NEW b \in 1..Len(t), i = Len(s) + a, j = Len(s) + b
        PROVE  i = j
    BY <1>2, <1>4, <2>2 DEF IsInjective
  <2>3. ASSUME NEW a \in 1..Len(s), NEW b \in 1..Len(t) PROVE u[a] # u[Len(s) + b]
    BY <1>3, <1>4, <1>6
  <2>4. CASE i \in 1..Len(s)
    <3>1. CASE j \in 1..Len(s)
      BY <2>1, <2>4, <3>1
    <3>2. ASSUME NEW b \in 1..Len(t), j = Len(s) + b PROVE FALSE
      BY <2>3, <2>4, <3>2
    <3> QED
      BY <1>5, <3>1, <3>2
  <2>5. ASSUME NEW a \in 1..Len(t), i = Len(s) + a PROVE i = j
    <3>1. j \notin 1..Len(s)
      BY <2>3, <2>5
    <3> QED
      BY <1>5, <2>2, <2>5, <3>1
  <2> QED
    BY <1>5, <2>4, <2>5
<1>8. ToSet(u) = ToSet(s) \cup ToSet(t)
  BY JoinedHas
<1>9. ASSUME NEW n, NEW m, Before(s, n, m) PROVE Before(u, n, m)
  BY <1>3, <1>9 DEF Before
<1>10. ASSUME NEW n, NEW m, Before(t, n, m) PROVE Before(u, n, m)
  <2> PICK i \in 1..Len(t), j \in 1..Len(t) : i < j /\ t[i] = n /\ t[j] = m
    BY <1>10 DEF Before
  <2>1. Len(s) + i < Len(s) + j
    BY <1>1
  <2> QED
    BY <1>4, <2>1 DEF Before
<1>11. ASSUME NEW n \in ToSet(s), NEW m \in ToSet(t) PROVE Before(u, n, m)
  <2> PICK i \in 1..Len(s), j \in 1..Len(t) : s[i] = n /\ t[j] = m
    BY InSet
  <2> QED
    BY <1>3, <1>4, <1>6 DEF Before
<1> QED
  BY <1>1, <1>7, <1>8, <1>9, <1>10, <1>11

\* The name n of x comes before the name m of y where both are inherited.
Comes(names, link, x, n, y, m) ==
  \/ x # y /\ y \in Up(link, x) /\ n \in ToSet(names[x]) /\ m \in ToSet(names[y])
  \/ x = y /\ Before(names[x], n, m)
Heard(names, link, o, n) == n \notin Plain /\ \E x \in Up(link, o) : n \in ToSet(names[x])
HasNames(names, link, o, d) ==
  /\ d \in Seq(Names) /\ IsInjective(d)
  /\ \A n : n \in ToSet(d) <=> Heard(names, link, o, n)
  /\ \A x, y \in Up(link, o) : \A n, m :
        Comes(names, link, x, n, y, m) /\ {n, m} \cap Plain = {} => Before(d, n, m)

LEMMA UpIs ==
  ASSUME NEW link \in Links, NEW o \in Oid
  PROVE  \A x : x \in Up(link, o) <=> x = o \/ x \in Up(link, link[o])
<1>1. o \in Up(link, o) /\ ClosedUp(link, Up(link, o)) /\ Up(link, o) \subseteq {o} \cup Up(link, link[o])
  BY UpOK, UpStep
<1>2. Up(link, link[o]) \subseteq Up(link, o)
  <2>1. CASE link[o] = NOTHING
    BY <2>1, UpNothing
  <2>2. CASE link[o] # NOTHING
    BY <1>1, <2>2, UpTransitive DEF ClosedUp
  <2> QED
    BY <2>1, <2>2
<1> QED
  BY <1>1, <1>2

LEMMA NamesJoined ==
  ASSUME NEW names \in [Oid -> Seq(Names)], EachOnce(names), NEW link \in Links, Acyclic(link),
         NamesOnce(names, link), NEW o \in Oid,
         NEW e, IF link[o] = NOTHING THEN e = <<>> ELSE HasNames(names, link, link[o], e),
         NEW d, d = ForWaifs(names[o]) \o e
  PROVE  HasNames(names, link, o, d)
<1> PICK f : f = ForWaifs(names[o])
  OBVIOUS
<1>1. /\ f \in Seq(Names) /\ ToSet(f) = ToSet(names[o]) \ Plain /\ IsInjective(f)
      /\ \A n, m : Before(names[o], n, m) /\ {n, m} \cap Plain = {} => Before(f, n, m)
  BY ForWaifsHas, ForWaifsOnce DEF EachOnce
<1>2. \A x : x \in Up(link, o) <=> x = o \/ x \in Up(link, link[o])
  BY UpIs
<1>3. o \notin Up(link, link[o])
  BY DEF Acyclic
<1>4. /\ e \in Seq(Names) /\ IsInjective(e)
      /\ \A n : n \in ToSet(e) <=> n \notin Plain /\ \E x \in Up(link, link[o]) : n \in ToSet(names[x])
      /\ \A x, y \in Up(link, link[o]) : \A n, m :
            Comes(names, link, x, n, y, m) /\ {n, m} \cap Plain = {} => Before(e, n, m)
  BY UpNothing, NoNamesIs DEF HasNames, Heard
<1>5. \A x \in Up(link, link[o]) : ToSet(names[o]) \cap ToSet(names[x]) = {}
  BY <1>2, <1>3 DEF NamesOnce
<1>6. ToSet(f) \cap ToSet(e) = {}
  BY <1>1, <1>4, <1>5
<1>7. /\ d \in Seq(Names) /\ IsInjective(d) /\ ToSet(d) = ToSet(f) \cup ToSet(e)
      /\ \A n, m : \/ Before(f, n, m)
                   \/ Before(e, n, m)
                   \/ n \in ToSet(f) /\ m \in ToSet(e)
                   => Before(d, n, m)
  BY <1>1, <1>4, <1>6, JoinedOnce
<1>8. \A n : n \in ToSet(d) <=> Heard(names, link, o, n)
  BY <1>1, <1>2, <1>4, <1>7 DEF Heard
<1>9. ASSUME NEW x \in Up(link, o), NEW y \in Up(link, o), NEW n, NEW m,
             Comes(names, link, x, n, y, m), {n, m} \cap Plain = {}
      PROVE  Before(d, n, m)
  <2>1. CASE x = o /\ y = o
    BY <1>1, <1>7, <1>9, <2>1 DEF Comes
  <2>2. CASE x = o /\ y # o
    <3>1. n \in ToSet(f) /\ m \in ToSet(e)
      BY <1>1, <1>2, <1>4, <1>9, <2>2 DEF Comes
    <3> QED
      BY <1>7, <3>1
  <2>3. CASE x # o /\ y = o
    <3>1. x \in Up(link, link[o]) /\ o \in Up(link, x)
      BY <1>2, <1>9, <2>3 DEF Comes
    <3>2. link[o] \in Oid
      BY <3>1, UpNothing DEF Links, OidOrNothing
    <3> QED
      BY <1>3, <3>1, <3>2, UpTransitive
  <2>4. CASE x # o /\ y # o
    BY <1>2, <1>4, <1>7, <1>9, <2>4
  <2> QED
    BY <2>1, <2>2, <2>3, <2>4
<1> QED
  BY <1>7, <1>8, <1>9 DEF HasNames

LEMMA InheritedHas ==
  ASSUME NEW names \in [Oid -> Seq(Names)], EachOnce(names), NEW link \in Links, Acyclic(link),
         NamesOnce(names, link)
  PROVE  \A o \in Oid : HasNames(names, link, o, Inherited(names, link, o))
<1> DEFINE S == {o \in Oid : HasNames(names, link, o, Inherited(names, link, o))}
<1>1. ASSUME NEW o \in Oid, link[o] # NOTHING => link[o] \in S
      PROVE  o \in S
  <2> PICK d, e : /\ d = Inherited(names, link, o)
                  /\ e = IF link[o] = NOTHING THEN <<>> ELSE Inherited(names, link, link[o])
    OBVIOUS
  <2>1. d = ForWaifs(names[o]) \o e
    BY InheritedIs
  <2>2. IF link[o] = NOTHING THEN e = <<>> ELSE HasNames(names, link, link[o], e)
    BY <1>1
  <2>3. HasNames(names, link, o, d)
    BY <2>1, <2>2, NamesJoined
  <2> QED
    BY <2>3
<1>2. Oid \subseteq S
  <2> HIDE DEF S
  <2> QED
    BY <1>1, FromParents
<1> QED
  BY <1>2

-----------------------------------------------------------------------------
(* What others do does not touch a waif.                                   *)

Same(m, u, v) ==
  /\ u.waifs[v] = m.waifs[v] /\ NamesIn(u, v) = NamesIn(m, v)
  /\ m.waifs[v].propdefs # Null =>
        \A o \in Oid : u.of[o] = m.waifs[v].propdefs => m.of[o] = m.waifs[v].propdefs

LEMMA ListKept ==
  ASSUME NEW m, NEW u, MemOK(u), NEW v \in Waif,
         KeepNames(m.lists, u.lists, Held(u.of, u.waifs)),
         NEW a, a = u.waifs[v].propdefs, a # Null
  PROVE  u.lists[a].defs = m.lists[a].defs
<1>a. PICK H : H = Held(u.of, u.waifs)
  OBVIOUS
<1>1. a \in Address
  BY WaifOf
<1>2. v \in Holder /\ H[v] = a
  BY <1>a, HeldIs DEF MemOK
<1>3. HoldersOf(H, a) # {}
  BY <1>2 DEF HoldersOf
<1> QED
  BY <1>1, <1>3, <1>a DEF KeepNames

LEMMA SameBy ==
  ASSUME NEW m, NEW u, MemOK(u), NEW v \in Waif, u.waifs[v] = m.waifs[v],
         KeepNames(m.lists, u.lists, Held(u.of, u.waifs)),
         \A o \in Oid : u.of[o] = m.of[o] \/ u.of[o] = Null
  PROVE  Same(m, u, v)
<1>a. PICK a : a = u.waifs[v].propdefs
  OBVIOUS
<1>1. a # Null => u.lists[a].defs = m.lists[a].defs
  BY <1>a, ListKept
<1>2. NamesIn(u, v) = NamesIn(m, v)
  BY <1>1, <1>a DEF NamesIn
<1> QED
  BY <1>2 DEF Same

LEMMA SameNewList ==
  ASSUME NEW m, MemOK(m), NEW g, NEW o, NEW b, NEW d, NewList(m, g, o, b, d), NEW v \in Waif
  PROVE  Same(m, g, v)
<1>a. PICK a : a = m.waifs[v].propdefs
  OBVIOUS
<1>1. g.waifs[v] = m.waifs[v] /\ a \in Address \cup {Null}
  BY <1>a, WaifOf DEF NewList
<1>2. a # b
  <2>1. v \in Holder /\ Held(m.of, m.waifs)[v] = a
    BY <1>a, HeldIs DEF MemOK
  <2> QED
    BY <2>1 DEF NewList, HoldersOf
<1>3. a # Null => g.lists[a] = m.lists[a]
  BY <1>1, <1>2 DEF NewList, OnlyThere
<1>4. \A x \in Oid : g.of[x] = a => m.of[x] = a
  BY <1>2 DEF NewList
<1> QED
  BY <1>1, <1>3, <1>4, <1>a DEF Same, NamesIn

LEMMA SameTrans ==
  ASSUME NEW m, NEW g, NEW u, NEW v, Same(m, g, v), Same(g, u, v)
  PROVE  Same(m, u, v)
BY DEF Same

LEMMA StillRight ==
  ASSUME NEW m, NEW u, NEW v, Same(m, u, v), NEW d, NEW p, NEW k, WaifRight(m, d, v, p, k)
  PROVE  WaifRight(u, d, v, p, k)
<1>1. u.waifs[v] = m.waifs[v] /\ NamesIn(u, v) = NamesIn(m, v)
  BY DEF Same
<1>2. OwnList(u, v, k)
  <2> SUFFICES ASSUME k # {}, NEW o \in Oid, u.of[o] = u.waifs[v].propdefs
               PROVE  o = u.waifs[v].class
    BY DEF OwnList
  <2>1. m.waifs[v].propdefs # Null
    <3> SUFFICES ASSUME m.waifs[v].propdefs = Null PROVE FALSE
      OBVIOUS
    <3>1. NamesIn(m, v) = <<>> /\ k \subseteq ToSet(NamesIn(m, v))
      BY DEF NamesIn, WaifRight, KeptRight
    <3> QED
      BY <3>1, NoNamesIs
  <2>2. m.of[o] = m.waifs[v].propdefs
    BY <1>1, <2>1 DEF Same
  <2> QED
    BY <1>1, <2>2 DEF WaifRight, OwnList
<1> QED
  BY <1>1, <1>2 DEF WaifRight

\* update_waif_propdefs() of a waif of a class that is there, and has or gets
\* another list.
Remade(m, u, w, e) ==
  /\ u.waifs[w].map = Remapped(NamesIn(m, w), e, m.waifs[w]).map
  /\ u.waifs[w].propvals = Remapped(NamesIn(m, w), e, m.waifs[w]).propvals

LEMMA GeneratedSame ==
  ASSUME NEW m, MemOK(m), NEW d, DefsAre(d), NEW o \in Oid,
         NEW g, g = Generated(m, o), NEW v \in Waif
  PROVE  Same(m, g, v)
<1>1. CASE m.of[o] # Null
  BY <1>1 DEF Generated, Same
<1>2. CASE m.of[o] = Null
  <2> PICK e : e = d[o]
    OBVIOUS
  <2>1. e = DefsOf(o) /\ e \in Seq(Names)
    BY DEF DefsAre
  <2>2. PICK b : NewList(m, g, o, b, e)
    BY <1>2, <2>1, GeneratedIs
  <2> QED
    BY <2>2, SameNewList
<1> QED
  BY <1>1, <1>2

LEMMA SharingKeeps ==
  ASSUME NEW g, MemOK(g), NEW w \in Waif, NEW b \in Address, b = g.of[g.waifs[w].class],
         NEW s, s = Sharing(g, w)
  PROVE  s.waifs[w].propdefs = b /\ \A a \in Address : s.lists[a].defs = g.lists[a].defs
<1>1. IsRec(g.waifs[w]) /\ w \in DOMAIN g.waifs /\ IsMem(g) /\ g.lists \in Lists
  BY WaifOf
<1>2. s = Mem(SharedList(g.lists, b), g.of, With(g.waifs, w, WithPropdefs(g.waifs[w], b)))
  BY <1>1, SharingIs
<1>3. s.lists = SharedList(g.lists, b) /\ s.waifs = With(g.waifs, w, WithPropdefs(g.waifs[w], b))
  BY <1>2, MemIs
<1>4. s.waifs[w].propdefs = b
  BY <1>1, <1>3, RecIs DEF With, WithPropdefs
<1>a. PICK L, L2 : L = g.lists /\ L2 = s.lists
  OBVIOUS
<1>5. \A a \in Address : L2[a].defs = L[a].defs
  <2>1. L2 = [L EXCEPT ![b] = [refcount |-> L[b].refcount + 1, defs |-> L[b].defs]]
    BY <1>3, <1>a DEF SharedList
  <2> QED
    BY <1>1, <1>a, <2>1 DEF Lists
<1> QED
  BY <1>4, <1>5, <1>a

LEMMA UpdatedIs ==
  ASSUME NEW m, MemOK(m), NEW d, DefsAre(d), CurrentIn(m, valid, d), valid \subseteq Oid,
         NEW w \in Waif, NEW u, u = Updated(m, w), NEW c, c = m.waifs[w].class
  PROVE  /\ c \notin valid =>
              u.waifs[w] = WaifRec(c, Null, Null, m.waifs[w].map)
         /\ c \in valid /\ m.waifs[w].propdefs = m.of[c] => u = m
         /\ c \in valid /\ m.waifs[w].propdefs # m.of[c] =>
              u.waifs[w].propdefs = u.of[c] /\ u.of[c] \in Address /\ Remade(m, u, w, d[c])
         /\ \A v \in Waif \ {w} : Same(m, u, v)
<1>a. PICK r : r = m.waifs[w]
  OBVIOUS
<1>0. MemOK(u) /\ CurrentIn(u, valid, d) /\ SameClasses(m, u)
  BY UpdatedOK
<1>1. CASE c \notin valid
  <2>1. u = Invalid(m, w)
    BY <1>1 DEF Updated
  <2>2. Kept(m, u) /\ OnlyWaif(m.waifs, u.waifs, w, WaifRec(c, Null, Null, m.waifs[w].map))
    BY <2>1, InvalidOK
  <2>3. \A v \in Waif \ {w} : Same(m, u, v)
    BY <2>2, SameBy DEF Kept, OnlyWaif
  <2> QED
    BY <1>1, <2>2, <2>3 DEF OnlyWaif
<1>2. CASE c \in valid /\ r.propdefs = m.of[c]
  <2>1. u = m
    BY <1>2, <1>a DEF Updated
  <2> QED
    BY <1>2, <1>a, <2>1 DEF Same
<1>3. CASE c \in valid /\ r.propdefs # m.of[c]
  <2> PICK g : g = Generated(m, c)
    OBVIOUS
  <2> PICK b : b = g.of[c]
    OBVIOUS
  <2>1. /\ MemOK(g) /\ CurrentIn(g, valid, d) /\ g.waifs = m.waifs /\ b \in Address
        /\ m.of[c] # Null => g = m
        /\ m.of[c] = Null => HoldersOf(Held(m.of, m.waifs), b) = {}
    BY <1>3, GeneratedOK
  <2>2. r.propdefs # b
    <3>1. CASE m.of[c] # Null
      BY <1>3, <2>1, <3>1
    <3>2. CASE m.of[c] = Null
      <4>1. w \in Holder /\ Held(m.of, m.waifs)[w] = r.propdefs
        BY <1>a, HeldIs DEF MemOK
      <4> QED
        BY <2>1, <3>2, <4>1 DEF HoldersOf
    <3> QED
      BY <3>1, <3>2
  <2> PICK s : s = Sharing(g, w)
    OBVIOUS
  <2> DEFINE DefsOfList(a) == IF a = Null THEN <<>> ELSE s.lists[a].defs
  <2>q. PICK q : q = Remapped(DefsOfList(r.propdefs), DefsOfList(s.waifs[w].propdefs), r)
    OBVIOUS
  <2>3. u = FreePropdefs(SetPropvals(SetMap(s, w, q.map), w, q.propvals), r.propdefs)
    BY <1>3, <1>a, <2>q DEF Updated, SetMap, SetPropvals
  <2>4. c # NOTHING /\ c \in Oid
    BY <1>3, NothingIsNoOid
  <2>5. s.waifs[w].propdefs = b /\ \A a \in Address : s.lists[a].defs = g.lists[a].defs
    <3>1. b = g.of[g.waifs[w].class] /\ MemOK(g) /\ b \in Address
      BY <2>1, <1>a
    <3> QED
      BY <3>1, SharingKeeps
  <2>6. DefsOfList(b) = d[c]
    <3>1. b # Null /\ g.lists[b].defs = d[c]
      BY <2>1, <2>4, HoldersFinite DEF CurrentIn
    <3> QED
      BY <2>1, <2>5, <3>1
  <2>7. DefsOfList(r.propdefs) = NamesIn(m, w)
    <3>1. r.propdefs \in Address \cup {Null} /\ g.waifs[w] = r
      BY <1>a, <2>1, WaifOf
    <3>2. Same(m, g, w)
      BY <2>4, GeneratedSame
    <3>3. NamesIn(g, w) = NamesIn(m, w)
      BY <3>2 DEF Same
    <3> QED
      BY <2>5, <3>1, <3>3 DEF NamesIn
  <2>8. q = Remapped(NamesIn(m, w), d[c], r)
    BY <2>5, <2>6, <2>7, <2>q
  <2> HIDE DEF DefsOfList
  <2>9. Kept(g, u) /\ OnlyWaif(g.waifs, u.waifs, w, WaifRec(c, b, q.propvals, q.map))
    <3>a. PICK x, y : x = q.map /\ y = q.propvals
      OBVIOUS
    <3>1. /\ b = g.of[g.waifs[w].class] /\ g.waifs[w].propdefs # b /\ g.waifs[w].class # NOTHING
          /\ u = FreePropdefs(SetPropvals(SetMap(Sharing(g, w), w, x), w, y), g.waifs[w].propdefs)
      BY <1>a, <2>1, <2>2, <2>3, <2>4, <3>a
    <3>2. Kept(g, u) /\ OnlyWaif(g.waifs, u.waifs, w, WaifRec(g.waifs[w].class, b, y, x))
      BY <2>1, <3>1, SharedOK
    <3> QED
      BY <1>a, <2>1, <3>2, <3>a
  <2>10. /\ u.waifs[w].propdefs = b /\ u.waifs[w].map = q.map /\ u.waifs[w].propvals = q.propvals
         /\ u.of = g.of
    <3>a. PICK x, y, z : x = q.map /\ y = q.propvals /\ z = WaifRec(c, b, y, x)
      OBVIOUS
    <3>1. u.waifs[w] = z /\ u.of = g.of
      BY <2>9, <3>a DEF OnlyWaif, Kept
    <3>2. z.propdefs = b /\ z.map = x /\ z.propvals = y
      BY <3>a, RecIs
    <3> QED
      BY <3>1, <3>2, <3>a
  <2>11. ASSUME NEW v \in Waif \ {w} PROVE Same(m, u, v)
    <3>1. Same(m, g, v)
      BY <2>4, GeneratedSame
    <3>2. Same(g, u, v)
      BY <2>9, SameBy DEF Kept, OnlyWaif
    <3> QED
      BY <3>1, <3>2, SameTrans
  <2> QED
    BY <1>3, <1>a, <2>1, <2>8, <2>10, <2>11 DEF Remade
<1> QED
  BY <1>1, <1>2, <1>3, <1>a

\* The lists of objects' names are right for waifs.
DefsRight(d, V) ==
  \A o \in Oid : d[o] \in Seq(Names) /\ IsInjective(d[o]) /\ (o \notin V => d[o] = <<>>)
Agrees(m, w, c) == m.waifs[w].propdefs = Null => m.of[c] # Null /\ m.waifs[w].propvals = Null

LEMMA SameOrderAsItself ==
  ASSUME NEW e \in Seq(Names), IsInjective(e)
  PROVE  SameOrder(e, e)
<1>1. DOMAIN e = 1..Len(e)
  BY LenProperties
<1> QED
  BY <1>1 DEF SameOrder, IsInjective

LEMMA UpdatedRight ==
  ASSUME NEW m, MemOK(m), NEW d, DefsAre(d), DefsRight(d, valid), CurrentIn(m, valid, d),
         valid \subseteq Oid, NEW w \in Waif, NEW u, u = Updated(m, w),
         NEW c, c = m.waifs[w].class, c \in valid => Agrees(m, w, c),
         NEW p, NEW k, WaifRight(m, d, w, p, k)
  PROVE  /\ WaifRight(u, d, w, Forgotten(p, NamesIn(u, w)), k)
         /\ c \in valid => /\ u.waifs[w].propdefs = u.of[c] /\ u.of[c] \in Address
                           /\ NamesIn(u, w) = d[c]
         /\ c \notin valid => u.waifs[w].propdefs = Null
<1>0. MemOK(u) /\ CurrentIn(u, valid, d) /\ u.waifs[w].class = c
  BY UpdatedOK DEF SameClasses
<1>a. PICK r, L, e : r = m.waifs[w] /\ L = NamesIn(m, w) /\ e = DefsFor(d, c)
  OBVIOUS
<1>1. /\ ValuesRight(r, L, p, k) /\ KeptRight(k, L, e) /\ OwnList(m, w, k)
      /\ c \in OidOrNothing
  BY <1>a, WaifOf DEF WaifRight
<1>2. /\ c \notin valid => u.waifs[w] = WaifRec(c, Null, Null, r.map)
      /\ c \in valid /\ r.propdefs = m.of[c] => u = m
      /\ c \in valid /\ r.propdefs # m.of[c] =>
              u.waifs[w].propdefs = u.of[c] /\ u.of[c] \in Address /\ Remade(m, u, w, d[c])
  BY <1>a, UpdatedIs
<1>3. CASE c \notin valid
  <2>a. PICK s : s = u.waifs[w]
    OBVIOUS
  <2>1. s.propdefs = Null /\ s.map = r.map /\ NamesIn(u, w) = <<>>
    BY <1>2, <1>3, <2>a, RecIs DEF NamesIn
  <2>2. e = <<>>
    BY <1>1, <1>3, <1>a, NothingIsNoOid DEF DefsFor, DefsRight, OidOrNothing
  <2>3. k = {}
    BY <1>1, <2>2, NoNamesIs DEF KeptRight
  <2>b. PICK f : f = Forgotten(p, <<>>)
    OBVIOUS
  <2>4. f \in Puts /\ \A n \in Names : f[n] = CLEAR
    BY <2>b, NoNamesIs, NullIsNoArray DEF Forgotten, Puts
  <2>5. ValuesRight(s, <<>>, f, k)
    BY <1>1, <2>1, <2>4, NoNamesIs DEF ValuesRight
  <2>6. KeptRight(k, <<>>, e) /\ OwnList(u, w, k)
    BY <2>3 DEF KeptRight, OwnList
  <2>7. WaifRight(u, d, w, f, k)
    BY <1>0, <1>a, <2>1, <2>5, <2>6, <2>a DEF WaifRight
  <2> QED
    BY <1>3, <2>1, <2>7, <2>a, <2>b
<1>4. CASE c \in valid
  <2>1. u.waifs[w].propdefs = u.of[c] /\ u.of[c] \in Address
    <3>1. CASE r.propdefs = m.of[c]
      <4>1. u = m /\ r.propdefs # Null /\ r.propdefs \in Address \cup {Null}
        BY <1>2, <1>4, <1>a, <3>1, WaifOf DEF Agrees
      <4> QED
        BY <1>a, <3>1, <4>1
    <3>2. CASE r.propdefs # m.of[c]
      BY <1>2, <1>4, <3>2
    <3> QED
      BY <3>1, <3>2
  <2>2. c \in Oid /\ c # NOTHING /\ e = d[c] /\ e \in Seq(Names) /\ IsInjective(e)
    BY <1>4, <1>a, NothingIsNoOid DEF DefsFor, DefsRight
  <2>3. u.of[c] # Null /\ NamesIn(u, w) = e
    <3>1. u.of[c] # Null
      BY <2>1, HoldersFinite
    <3>2. u.lists[u.of[c]].defs = d[c]
      BY <1>0, <2>2, <3>1 DEF CurrentIn
    <3> QED
      BY <2>1, <2>2, <3>1, <3>2 DEF NamesIn
  <2>b. PICK f : f = Forgotten(p, e)
    OBVIOUS
  <2>c. PICK s : s = u.waifs[w]
    OBVIOUS
  <2>4. ValuesRight(s, e, f, k)
    <3>1. CASE r.propdefs = m.of[c]
      <4>1. u = m /\ L = e /\ s = r
        BY <1>2, <1>4, <1>a, <2>3, <2>c, <3>1
      <4>2. f = p
        <5>1. p \in Puts /\ \A n \in Names \ ToSet(e) : p[n] = CLEAR
          BY <1>1, <4>1 DEF ValuesRight
        <5>2. f = [n \in Names |-> p[n]]
          BY <2>b, <5>1 DEF Forgotten
        <5> QED
          BY <5>1, <5>2 DEF Puts
      <4> QED
        BY <1>1, <4>1, <4>2
    <3>2. CASE r.propdefs # m.of[c]
      <4>a. PICK q : q = Remapped(L, e, r)
        OBVIOUS
      <4>1. s.map = q.map /\ s.propvals = q.propvals /\ s.propdefs # Null
        BY <1>2, <1>4, <1>a, <2>1, <2>2, <2>3, <2>c, <3>2, <4>a DEF Remade
      <4>2. r.propdefs = Null => L = <<>> /\ r.propvals = Null
        BY <1>4, <1>a DEF Agrees, NamesIn
      <4> QED
        BY <1>1, <2>2, <2>b, <4>1, <4>2, <4>a, RemappedRight
    <3> QED
      BY <3>1, <3>2
  <2>5. KeptRight(k, e, e)
    BY <1>1, <2>2, SameOrderAsItself DEF KeptRight
  <2>6. OwnList(u, w, k)
    <3>1. OneEach(u.of)
      BY <1>0 DEF MemOK
    <3> QED
      BY <1>0, <2>1, <2>2, <2>3, <3>1 DEF OwnList, OneEach
  <2>7. WaifRight(u, d, w, f, k)
    BY <1>0, <1>a, <2>3, <2>4, <2>5, <2>6, <2>c DEF WaifRight
  <2> QED
    BY <1>4, <2>1, <2>2, <2>3, <2>7, <2>b
<1> QED
  BY <1>3, <1>4

-----------------------------------------------------------------------------
(* What holds of all waifs, and what waifs' doing does to it.              *)

AllRight(m, d, ps, ks) ==
  /\ ps \in [Waif -> Puts] /\ ks \in [Waif -> SUBSET Names]
  /\ \A w \in Waif : WaifRight(m, d, w, ps[w], ks[w])

\* The invariant of the values: that of the lists, no name twice in an object,
\* and the array of every waif in the order of the names of its list.
KInv ==
  /\ WInv /\ EachOnce(propdefs)
  /\ AllRight(Memory, Defs(propdefs, Parent), put, kept)

LEMMA DefsRightIs ==
  ASSUME NEW V, NEW link, Tree(V, link), NEW names, Names0(V, link, names), EachOnce(names)
  PROVE  /\ DefsRight(Defs(names, link), V)
         /\ \A o \in Oid : HasNames(names, link, o, Defs(names, link)[o])
<1>1. /\ link \in Links /\ Acyclic(link) /\ names \in [Oid -> Seq(Names)] /\ NamesOnce(names, link)
  BY DEF Tree, Names0
<1>2. \A o \in Oid : HasNames(names, link, o, Inherited(names, link, o))
  BY <1>1, InheritedHas
<1>3. ASSUME NEW o \in Oid, o \notin V PROVE Inherited(names, link, o) = <<>>
  <2> PICK d : d = Inherited(names, link, o)
    OBVIOUS
  <2>1. HasNames(names, link, o, d)
    BY <1>2
  <2>2. link[o] = NOTHING /\ names[o] = <<>>
    BY <1>3 DEF Tree, Names0
  <2>3. \A x \in Up(link, o) : x = o
    BY <1>1, <2>2, UpIs, UpNothing
  <2>4. ToSet(d) = {}
    BY <2>1, <2>2, <2>3, NoNamesIs DEF HasNames, Heard
  <2>5. Len(d) = 0 /\ d \in Seq(Names)
    <3>1. d \in Seq(Names) /\ Len(d) \in Nat
      BY <2>1, LenProperties DEF HasNames
    <3>2. Len(d) # 0 => 1 \in 1..Len(d)
      BY <3>1
    <3> QED
      BY <2>4, <3>1, <3>2, InSet
  <2> QED
    BY <2>5, EmptySeq
<1> QED
  BY <1>2, <1>3 DEF DefsRight, HasNames, Defs

LEMMA KInvFacts ==
  ASSUME KInv
  PROVE  /\ IInv /\ MemOK(Memory) /\ DefsAre(Defs(propdefs, Parent))
         /\ CurrentIn(Memory, valid, Defs(propdefs, Parent))
         /\ Tree(valid, Parent) /\ valid \subseteq Oid /\ Names0(valid, Parent, propdefs)
         /\ DefsRight(Defs(propdefs, Parent), valid)
         /\ AllRight(Memory, Defs(propdefs, Parent), put, kept)
         /\ put \in [Waif -> Puts] /\ kept \in [Waif -> SUBSET Names]
<1>1. /\ IInv /\ MemOK(Memory) /\ DefsAre(Defs(propdefs, Parent))
      /\ CurrentIn(Memory, valid, Defs(propdefs, Parent))
      /\ Tree(valid, Parent) /\ valid \subseteq Oid /\ Names0(valid, Parent, propdefs)
  BY WInvFacts DEF KInv
<1>2. DefsRight(Defs(propdefs, Parent), valid)
  <2> PICK V, link, names : V = valid /\ link = Parent /\ names = propdefs
    OBVIOUS
  <2> QED
    BY <1>1, DefsRightIs DEF KInv
<1> QED
  BY <1>1, <1>2 DEF KInv, AllRight

LEMMA OnlyWaifsRight ==
  ASSUME KInv, WInv', UNCHANGED <<vars, propdefs>>, NEW u, IsMem(u), Becomes(u),
         AllRight(u, Defs(propdefs, Parent), put', kept')
  PROVE  KInv'
<1>1. Memory' = u
  BY BecomesIs
<1>2. Parent' = Parent /\ propdefs' = propdefs
  BY DEF vars, Parent
<1> QED
  BY <1>1, <1>2 DEF KInv

LEMMA OneRight ==
  ASSUME NEW m, NEW d, NEW ps, NEW ks, AllRight(m, d, ps, ks), NEW w \in Waif,
         NEW u, \A v \in Waif \ {w} : Same(m, u, v),
         NEW p \in Puts, NEW k \in SUBSET Names, WaifRight(u, d, w, p, k),
         NEW ps2, ps2 = [ps EXCEPT ![w] = p], NEW ks2, ks2 = [ks EXCEPT ![w] = k]
  PROVE  AllRight(u, d, ps2, ks2)
<1>1. ps \in [Waif -> Puts] /\ ks \in [Waif -> SUBSET Names]
  BY DEF AllRight
<1>2. ps2 \in [Waif -> Puts] /\ ks2 \in [Waif -> SUBSET Names]
  BY <1>1
<1>3. ASSUME NEW v \in Waif PROVE WaifRight(u, d, v, ps2[v], ks2[v])
  <2>1. CASE v = w
    BY <1>1, <2>1
  <2>2. CASE v # w
    <3>1. ps2[v] = ps[v] /\ ks2[v] = ks[v]
      BY <1>1, <2>2
    <3>2. Same(m, u, v) /\ WaifRight(m, d, v, ps[v], ks[v])
      BY <2>2 DEF AllRight
    <3> QED
      BY <3>1, <3>2, StillRight
  <2> QED
    BY <2>1, <2>2
<1> QED
  BY <1>2, <1>3 DEF AllRight

LEMMA AgreesNow ==
  ASSUME NEW w, ~Dies(w), waifs[w].class \in valid
  PROVE  Agrees(Memory, w, Memory.waifs[w].class)
<1>1. Memory.of = waif_propdefs /\ Memory.waifs = waifs
  BY MemoryIs
<1> QED
  BY <1>1 DEF Agrees, Dies

\* A waif that is looked at.
LEMMA Looked ==
  ASSUME KInv, NEW w \in Waif, ~Dies(w), NEW m, m = Memory, NEW u, u = Updated(m, w),
         NEW d, d = Defs(propdefs, Parent), NEW c, c = m.waifs[w].class,
         NEW p, p = Known(u, w)
  PROVE  /\ MemOK(u) /\ CurrentIn(u, valid, d) /\ u.waifs[w].class = c
         /\ \A v \in Waif \ {w} : Same(m, u, v)
         /\ p \in Puts /\ WaifRight(u, d, w, p, kept[w])
         /\ c \in valid => /\ u.waifs[w].propdefs = u.of[c] /\ u.of[c] \in Address
                           /\ NamesIn(u, w) = d[c]
         /\ c \notin valid => u.waifs[w].propdefs = Null
<1>1. /\ MemOK(m) /\ DefsAre(d) /\ DefsRight(d, valid) /\ CurrentIn(m, valid, d)
      /\ valid \subseteq Oid /\ AllRight(m, d, put, kept)
  BY KInvFacts
<1>2. MemOK(u) /\ CurrentIn(u, valid, d) /\ SameClasses(m, u)
  BY <1>1, UpdatedOK
<1>3. \A v \in Waif \ {w} : Same(m, u, v)
  BY <1>1, UpdatedIs
<1>4. c \in valid => Agrees(m, w, c)
  BY AgreesNow, MemoryIs
<1> PICK q, k : q = put[w] /\ k = kept[w]
  OBVIOUS
<1>5. WaifRight(m, d, w, q, k)
  BY <1>1 DEF AllRight
<1>6. /\ WaifRight(u, d, w, Forgotten(q, NamesIn(u, w)), k)
      /\ c \in valid => /\ u.waifs[w].propdefs = u.of[c] /\ u.of[c] \in Address
                        /\ NamesIn(u, w) = d[c]
      /\ c \notin valid => u.waifs[w].propdefs = Null
  BY <1>1, <1>4, <1>5, UpdatedRight
<1>7. p = Forgotten(q, NamesIn(u, w))
  BY KnownIs
<1>8. p \in Puts
  BY <1>6, <1>7 DEF WaifRight, ValuesRight
<1> QED
  BY <1>2, <1>3, <1>6, <1>7, <1>8 DEF SameClasses

LEMMA LookRight ==
  ASSUME KInv, WInv', NEW w \in Waif, Look(w)
  PROVE  KInv'
<1>a. PICK m, d, u : m = Memory /\ d = Defs(propdefs, Parent) /\ u = Updated(m, w)
  OBVIOUS
<1>b. PICK p, k, c : p = Known(u, w) /\ k = kept[w] /\ c = m.waifs[w].class
  OBVIOUS
<1>1. /\ ~Dies(w) /\ Becomes(u) /\ UNCHANGED <<vars, propdefs>> /\ kept' = kept
      /\ put' = [put EXCEPT ![w] = p]
  BY <1>a, <1>b DEF Look
<1>2. /\ AllRight(m, d, put, kept) /\ put \in [Waif -> Puts] /\ kept \in [Waif -> SUBSET Names]
  BY <1>a, KInvFacts
<1>3. k \in SUBSET Names /\ kept = [kept EXCEPT ![w] = k]
  BY <1>2, <1>b
<1>4. /\ MemOK(u) /\ p \in Puts /\ WaifRight(u, d, w, p, k)
      /\ \A v \in Waif \ {w} : Same(m, u, v)
  BY <1>1, <1>a, <1>b, Looked
<1>c. PICK ps, ks, ps2, ks2 : ps = put /\ ks = kept /\ ps2 = put' /\ ks2 = kept'
  OBVIOUS
<1>5. ps2 = [ps EXCEPT ![w] = p] /\ ks2 = [ks EXCEPT ![w] = k] /\ AllRight(m, d, ps, ks)
  BY <1>1, <1>2, <1>3, <1>c
<1>6. AllRight(u, d, ps2, ks2)
  BY <1>3, <1>4, <1>5, OneRight
<1> QED
  BY <1>a, <1>c, <1>1, <1>4, <1>6, OnlyWaifsRight DEF MemOK

AllClear == [n \in Names |-> CLEAR]
LEMMA NothingRight ==
  ASSUME NEW u, NEW w, NEW r, u.waifs[w] = r, r.class = NOTHING, r.propdefs = Null, r.map = {}, NEW d
  PROVE  AllClear \in Puts /\ {} \in SUBSET Names /\ WaifRight(u, d, w, AllClear, {})
<1>1. AllClear \in Puts /\ \A n \in Names : AllClear[n] = CLEAR
  BY NullIsNoArray DEF AllClear, Puts
<1>2. NamesIn(u, w) = <<>>
  BY DEF NamesIn
<1>3. ValuesRight(r, <<>>, AllClear, {})
  BY <1>1, NoNamesIs DEF ValuesRight, Maps
<1> QED
  BY <1>1, <1>2, <1>3 DEF WaifRight, KeptRight, OwnList

LEMMA FreeWaifRight ==
  ASSUME KInv, WInv', NEW w \in Waif, FreeWaif(w)
  PROVE  KInv'
<1>a. PICK m, d : m = Memory /\ d = Defs(propdefs, Parent)
  OBVIOUS
<1>b. PICK f : f = FreePropdefs(m, m.waifs[w].propdefs)
  OBVIOUS
<1>c. PICK r : r = NoWaif
  OBVIOUS
<1>d. PICK u : u = SetTo(f, w, r)
  OBVIOUS
<1>1. MemOK(m) /\ AllRight(m, d, put, kept)
  BY <1>a, KInvFacts
<1>2. IsMem(f)
  BY <1>b, <1>1, WaifOf, FreePropdefsIs
<1>3. IsWaif(r) /\ r.propdefs = Null /\ r.class = NOTHING /\ r.map = {}
  <2>1. NOTHING \in OidOrNothing /\ Null \in Address \cup {Null}
    BY DEF OidOrNothing
  <2>2. r = WaifRec(NOTHING, Null, Null, {})
    BY <1>c DEF NoWaif, WaifRec
  <2> QED
    BY <2>1, <2>2, MadeWaif, RecIs
<1>4. Becomes(u) /\ UNCHANGED <<vars, propdefs>>
  <2>1. u = [f EXCEPT !.waifs[w] = r]
    BY <1>2, <1>d, WaifsSet DEF SetTo, With
  <2> QED
    BY <2>1, <1>a, <1>b, <1>c, MemoryIs DEF FreeWaif
<1>6. /\ MemOK(u) /\ u.of = m.of /\ OnlyWaif(m.waifs, u.waifs, w, r)
      /\ KeepNames(m.lists, u.lists, Held(u.of, u.waifs))
  BY <1>b, <1>d, <1>1, <1>3, LetGoOfWaif
<1>7. \A v \in Waif \ {w} : Same(m, u, v)
  BY <1>6, SameBy DEF OnlyWaif
<1>8. u.waifs[w] = r
  BY <1>6 DEF OnlyWaif
<1>e. PICK p, k : p = AllClear /\ k = {}
  OBVIOUS
<1>9. p \in Puts /\ k \in SUBSET Names /\ WaifRight(u, d, w, p, k)
  BY <1>3, <1>8, <1>e, NothingRight
<1>f. PICK ps2, ks2 : ps2 = put' /\ ks2 = kept'
  OBVIOUS
<1>10. ps2 = [put EXCEPT ![w] = p] /\ ks2 = [kept EXCEPT ![w] = k]
  BY <1>e, <1>f DEF FreeWaif, AllClear
<1>g. PICK ps, ks : ps = put /\ ks = kept
  OBVIOUS
<1>11. AllRight(u, d, ps2, ks2)
  BY <1>1, <1>7, <1>9, <1>10, <1>g, OneRight
<1> QED
  BY <1>a, <1>f, <1>4, <1>6, <1>11, OnlyWaifsRight DEF MemOK

LEMMA NewWaifRight ==
  ASSUME KInv, WInv', NEW w \in Waif, NEW c \in Oid, NewWaif(w, c)
  PROVE  KInv'
<1>a. PICK m, d : m = Memory /\ d = Defs(propdefs, Parent)
  OBVIOUS
<1>b. PICK g : g = Generated(m, c)
  OBVIOUS
<1>1. MemOK(m) /\ CurrentIn(m, valid, d) /\ DefsAre(d) /\ DefsRight(d, valid) /\ AllRight(m, d, put, kept)
  BY <1>a, KInvFacts
<1>2. c \in valid /\ m.waifs[w].class = NOTHING /\ UNCHANGED <<vars, propdefs>>
  BY <1>a, MemoryIs DEF NewWaif, There
<1>3. MemOK(g) /\ CurrentIn(g, valid, d) /\ g.waifs = m.waifs /\ g.of[c] \in Address
  BY <1>b, <1>1, <1>2, GeneratedOK
<1>4. g.waifs[w].propdefs = Null
  BY <1>1, <1>2, <1>3, WaifOf
<1>c. PICK b, e : b = g.of[c] /\ e = d[c]
  OBVIOUS
<1>5. b \in Address /\ b # Null /\ g.lists[b].defs = e /\ e \in Seq(Names) /\ IsInjective(e)
  BY <1>1, <1>3, <1>c, HoldersFinite DEF CurrentIn, DefsRight
<1>d. PICK pv : pv = AllocPropvals({}, Len(e))
  OBVIOUS
<1>e. PICK new : new = WaifRec(c, b, pv, {})
  OBVIOUS
<1>f. PICK n : n = SetTo(g, w, new)
  OBVIOUS
<1>g. PICK s : s = Sharing(n, w)
  OBVIOUS
<1>6. Becomes(s)
  <2>1. g.lists[g.of[c]].defs = e
    BY <1>5, <1>c
  <2>2. new = [class |-> c, propdefs |-> g.of[c], map |-> {}, propvals |-> AllocPropvals({}, Len(e))]
    BY <1>c, <1>d, <1>e DEF WaifRec
  <2>3. Becomes(Sharing([g EXCEPT !.waifs[w] = new], w))
    BY <1>a, <1>b, <2>1, <2>2 DEF NewWaif
  <2>4. n = [g EXCEPT !.waifs[w] = new]
    <3>1. IsMem(g)
      BY <1>3, WaifOf
    <3> QED
      BY <3>1, <1>f, WaifsSet DEF SetTo, With
  <2> QED
    BY <1>g, <2>3, <2>4
<1>7. /\ MemOK(s) /\ s.of = g.of /\ KeepNames(g.lists, s.lists, Held(s.of, s.waifs))
      /\ OnlyWaif(g.waifs, s.waifs, w, new)
  <2>a. PICK map : map = {}
    OBVIOUS
  <2>1. new = WaifRec(c, b, pv, map)
    BY <1>e, <2>a
  <2> QED
    BY <1>3, <1>4, <1>5, <1>c, <1>f, <1>g, <2>1, NewWaifMakes
<1>8. ASSUME NEW v \in Waif \ {w} PROVE Same(m, s, v)
  <2>1. Same(m, g, v)
    BY <1>1, <1>b, GeneratedSame
  <2>2. Same(g, s, v)
    BY <1>7, SameBy DEF OnlyWaif
  <2> QED
    BY <2>1, <2>2, SameTrans
<1>9. s.waifs[w] = new /\ new.class = c /\ new.propdefs = b /\ new.propvals = pv /\ new.map = {}
  BY <1>7, <1>e, RecIs DEF OnlyWaif
<1>10. NamesIn(s, w) = e
  <2>1. s.lists[b].defs = g.lists[b].defs
    BY <1>5, <1>7, <1>9, ListKept
  <2> QED
    BY <1>5, <1>9, <2>1 DEF NamesIn
<1>h. PICK p, k : p = AllClear /\ k = {}
  OBVIOUS
<1>11. p \in Puts /\ k \in SUBSET Names /\ \A x \in Names : p[x] = CLEAR
  BY <1>h, NullIsNoArray DEF AllClear, Puts
<1>12. ValuesRight(new, e, p, k)
  <2>1. {} \in Maps /\ Len(e) \in Nat
    BY <1>5, LenProperties DEF Maps
  <2>2. Fit({}, pv, Len(e)) /\ \A i \in 1..Len(e) : ValueIn({}, pv, i) = CLEAR
    BY <1>d, <2>1, AllocHas
  <2>3. \A i \in 1..Len(e) : AsPut(e[i], ValueIn({}, pv, i), p, k)
    BY <1>h, <2>2 DEF AsPut
  <2> QED
    BY <1>5, <1>9, <1>11, <2>1, <2>2, <2>3 DEF ValuesRight, Fit
<1>13. WaifRight(s, d, w, p, k)
  BY <1>9, <1>10, <1>12, <1>h DEF WaifRight, KeptRight, OwnList
<1>i. PICK ps, ks, ps2, ks2 : ps = put /\ ks = kept /\ ps2 = put' /\ ks2 = kept'
  OBVIOUS
<1>14. ps2 = [ps EXCEPT ![w] = p] /\ ks2 = [ks EXCEPT ![w] = k] /\ AllRight(m, d, ps, ks)
  BY <1>1, <1>h, <1>i DEF NewWaif, AllClear
<1>15. AllRight(s, d, ps2, ks2)
  BY <1>8, <1>11, <1>13, <1>14, OneRight
<1> QED
  BY <1>a, <1>i, <1>2, <1>6, <1>7, <1>15, OnlyWaifsRight DEF MemOK

-----------------------------------------------------------------------------
(* What waif_put_prop() makes of the values.                               *)

\* A list with e in place of what is after the a-th and before the b-th.
Split(s, e, a, b) == SubSeq(s, 1, a) \o <<e>> \o SubSeq(s, b, Len(s))
SplitHas(D, s, e, a, b, t) ==
  /\ t \in Seq(D) /\ Len(t) = a + 1 + (Len(s) + 1 - b) /\ t[a + 1] = e
  /\ \A i \in 1..a : t[i] = s[i]
  /\ \A i \in b..Len(s) : t[i - b + a + 2] = s[i]
LEMMA SplitIs ==
  ASSUME NEW D, NEW s \in Seq(D), NEW e \in D, NEW a \in 0..Len(s), NEW b \in 1..Len(s) + 1,
         NEW t, t = Split(s, e, a, b)
  PROVE  SplitHas(D, s, e, a, b, t)
<1>1. Len(s) \in Nat /\ \A i \in 1..Len(s) : s[i] \in D
  BY LenProperties, ElementOfSeq
<1>a. PICK x, y, z : x = SubSeq(s, 1, a) /\ y = <<e>> /\ z = SubSeq(s, b, Len(s))
  OBVIOUS
<1>2. x \in Seq(D) /\ Len(x) = a /\ \A i \in 1..a : x[i] = s[i]
  <2>1. \A i \in 1..a : s[i] \in D
    BY <1>1
  <2>2. a \in Int
    BY <1>1
  <2> QED
    BY <1>1, <1>a, <2>1, <2>2, SubSeqProperties
<1>3. y \in Seq(D) /\ Len(y) = 1 /\ y[1] = e
  BY <1>a
<1>4. z \in Seq(D) /\ Len(z) = Len(s) + 1 - b /\ \A i \in 1..Len(s) + 1 - b : z[i] = s[b + i - 1]
  <2>1. \A i \in b..Len(s) : s[i] \in D
    BY <1>1
  <2>2. b \in Int /\ Len(s) \in Int
    BY <1>1
  <2>3. /\ z \in Seq(D) /\ Len(z) = IF b <= Len(s) THEN Len(s) - b + 1 ELSE 0
        /\ \A i \in 1..Len(s) - b + 1 : z[i] = s[b + i - 1]
    BY <1>a, <2>1, <2>2, SubSeqProperties
  <2>4. \A i : i \in 1..Len(s) - b + 1 <=> i \in 1..Len(s) + 1 - b
    BY <1>1
  <2> QED
    BY <1>1, <2>3, <2>4
<1>b. PICK v : v = x \o y
  OBVIOUS
<1>5. /\ v \in Seq(D) /\ Len(v) = a + 1 /\ v[a + 1] = e
      /\ \A i \in 1..a : v[i] = s[i]
  <2>1. /\ v \in Seq(D) /\ Len(v) = Len(x) + Len(y)
        /\ \A i \in 1..Len(x) + Len(y) : v[i] = IF i <= Len(x) THEN x[i] ELSE y[i - Len(x)]
    BY <1>b, <1>2, <1>3, ConcatProperties
  <2>2. Len(x) + Len(y) = a + 1 /\ (a + 1) - Len(x) = 1
    BY <1>1, <1>2, <1>3
  <2>3. \A i \in 1..a : i \in 1..a + 1 /\ i <= a
    BY <1>1
  <2>4. a + 1 \in 1..a + 1 /\ ~(a + 1 <= a)
    BY <1>1
  <2> QED
    BY <1>2, <1>3, <2>1, <2>2, <2>3, <2>4
<1>6. /\ t \in Seq(D) /\ Len(t) = Len(v) + Len(z)
      /\ \A i \in 1..Len(v) + Len(z) : t[i] = IF i <= Len(v) THEN v[i] ELSE z[i - Len(v)]
  <2>1. t = v \o z
    BY <1>a, <1>b DEF Split
  <2>2. /\ v \o z \in Seq(D) /\ Len(v \o z) = Len(v) + Len(z)
        /\ \A i \in 1..Len(v) + Len(z) : (v \o z)[i] = IF i <= Len(v) THEN v[i] ELSE z[i - Len(v)]
    <3>1. v \in Seq(D) /\ z \in Seq(D)
      BY <1>4, <1>5
    <3> QED
      BY <3>1, ConcatProperties
  <2> QED
    BY <2>1, <2>2
<1>7. Len(t) = a + 1 + (Len(s) + 1 - b) /\ Len(v) + Len(z) = a + 1 + (Len(s) + 1 - b)
  BY <1>4, <1>5, <1>6
<1>8. t[a + 1] = e /\ \A i \in 1..a : t[i] = s[i]
  <2>1. \A i \in 1..a + 1 : i \in 1..Len(v) + Len(z) /\ i <= Len(v)
    BY <1>1, <1>5, <1>7
  <2>2. \A i \in 1..a : i \in 1..a + 1
    BY <1>1
  <2>3. a + 1 \in 1..a + 1
    BY <1>1
  <2> QED
    BY <1>5, <1>6, <2>1, <2>2, <2>3
<1>9. ASSUME NEW i \in b..Len(s) PROVE t[i - b + a + 2] = s[i]
  <2>a. PICK j : j = i - b + a + 2
    OBVIOUS
  <2>1. j \in 1..Len(v) + Len(z) /\ ~(j <= Len(v)) /\ j - Len(v) = i - b + 1
    BY <1>1, <1>5, <1>7, <2>a
  <2>2. i - b + 1 \in 1..Len(s) + 1 - b /\ b + (i - b + 1) - 1 = i
    BY <1>1
  <2> QED
    BY <1>4, <1>6, <2>1, <2>2, <2>a
<1> QED
  BY <1>6, <1>7, <1>8, <1>9 DEF SplitHas

\* A value is put between others, or in the place of one.
Shifted(i, at) == IF i < at THEN i ELSE i + 1
InsertHas(D, n, s, e, at, t) ==
  t \in [1..n + 1 -> D] /\ t[at] = e /\ \A i \in 1..n : t[Shifted(i, at)] = s[i]
LEMMA InsertedIs ==
  ASSUME NEW D, NEW n \in Nat, NEW s \in [1..n -> D], NEW e \in D, NEW at \in 1..n + 1,
         NEW t, t = InsertAt(s, at, e)
  PROVE  InsertHas(D, n, s, e, at, t)
<1>1. s \in Seq(D) /\ Len(s) = n
  BY SeqDef, LenProperties
<1>2. t = SubSeq(s, 1, at - 1) \o <<e>> \o SubSeq(s, at, Len(s))
  BY DEF InsertAt
<1>a. PICK a : a = at - 1
  OBVIOUS
<1>3. a \in 0..Len(s) /\ at \in 1..Len(s) + 1 /\ t = Split(s, e, a, at)
  BY <1>1, <1>2, <1>a DEF Split
<1>4. /\ t \in Seq(D) /\ Len(t) = a + 1 + (Len(s) + 1 - at) /\ t[a + 1] = e
      /\ \A i \in 1..a : t[i] = s[i]
      /\ \A i \in at..Len(s) : t[i - at + a + 2] = s[i]
  <2>1. SplitHas(D, s, e, a, at, t)
    BY <1>1, <1>3, SplitIs
  <2> QED
    BY <2>1 DEF SplitHas
<1>5. Len(t) = n + 1 /\ a + 1 = at
  BY <1>1, <1>4, <1>a
<1>6. t \in [1..n + 1 -> D]
  BY <1>4, <1>5, LenProperties, ElementOfSeq
<1>7. ASSUME NEW i \in 1..n PROVE t[Shifted(i, at)] = s[i]
  <2>1. CASE i < at
    <3>1. i \in 1..a
      BY <1>a, <2>1
    <3> QED
      BY <1>4, <2>1, <3>1 DEF Shifted
  <2>2. CASE ~(i < at)
    <3>1. i \in at..Len(s) /\ i - at + a + 2 = i + 1
      BY <1>1, <1>a, <2>2
    <3>2. t[i - at + a + 2] = s[i]
      BY <1>4, <3>1
    <3> QED
      BY <2>2, <3>1, <3>2 DEF Shifted
  <2> QED
    BY <2>1, <2>2
<1> QED
  BY <1>4, <1>5, <1>6, <1>7 DEF InsertHas

Instead(s, e, at) == SubSeq(s, 1, at - 1) \o <<e>> \o SubSeq(s, at + 1, Len(s))
InsteadHas(D, n, s, e, at, t) ==
  t \in [1..n -> D] /\ t[at] = e /\ \A i \in 1..n \ {at} : t[i] = s[i]
LEMMA ReplacedIs ==
  ASSUME NEW D, NEW n \in Nat, NEW s \in [1..n -> D], NEW e \in D, NEW at \in 1..n,
         NEW t, t = Instead(s, e, at)
  PROVE  InsteadHas(D, n, s, e, at, t)
<1>1. s \in Seq(D) /\ Len(s) = n
  BY SeqDef, LenProperties
<1>a. PICK a, b : a = at - 1 /\ b = at + 1
  OBVIOUS
<1>3. a \in 0..Len(s) /\ b \in 1..Len(s) + 1 /\ t = Split(s, e, a, b)
  BY <1>1, <1>a DEF Split, Instead
<1>4. /\ t \in Seq(D) /\ Len(t) = a + 1 + (Len(s) + 1 - b) /\ t[a + 1] = e
      /\ \A i \in 1..a : t[i] = s[i]
      /\ \A i \in b..Len(s) : t[i - b + a + 2] = s[i]
  <2>1. SplitHas(D, s, e, a, b, t)
    BY <1>1, <1>3, SplitIs
  <2> QED
    BY <2>1 DEF SplitHas
<1>5. Len(t) = n /\ a + 1 = at
  BY <1>1, <1>4, <1>a
<1>6. t \in [1..n -> D]
  BY <1>4, <1>5, LenProperties, ElementOfSeq
<1>7. ASSUME NEW i \in 1..n \ {at} PROVE t[i] = s[i]
  <2>1. CASE i < at
    <3>1. i \in 1..a
      BY <1>a, <2>1
    <3> QED
      BY <1>4, <3>1
  <2>2. CASE ~(i < at)
    <3>1. i \in b..Len(s) /\ i - b + a + 2 = i
      BY <1>1, <1>a, <2>2
    <3>2. t[i - b + a + 2] = s[i]
      BY <1>4, <3>1
    <3> QED
      BY <3>1, <3>2
  <2> QED
    BY <2>1, <2>2
<1> QED
  BY <1>4, <1>5, <1>6, <1>7 DEF InsteadHas

\* A name gets a place in the map: those of the later names move up.
LEMMA RankShifts ==
  ASSUME NEW map \in Maps, NEW i \in 1..Mappable, i \notin map, NEW map2, map2 = map \cup {i},
         NEW j \in Nat
  PROVE  /\ map2 \in Maps /\ ~HasPlace(map, i) /\ HasPlace(map2, i)
         /\ j # i => (HasPlace(map2, j) <=> HasPlace(map, j))
         /\ Rank(map2, j) = Rank(map, j) + IF j >= i THEN 1 ELSE 0
<1>0. Mappable \in Nat
  BY MapFinite
<1>1. map2 \in Maps /\ ~HasPlace(map, i) /\ HasPlace(map2, i)
  BY <1>0 DEF Maps, HasPlace
<1>2. \A k : k # i => (HasPlace(map2, k) <=> HasPlace(map, k))
  BY DEF HasPlace
<1>3. CASE j < i
  <2>1. i \notin 1..j
    BY <1>0, <1>3
  <2>2. Upto(map2, j) = Upto(map, j)
    BY <1>2, <2>1 DEF Upto
  <2>3. Rank(map, j) \in Nat
    BY UptoFinite
  <2> QED
    BY <1>0, <1>1, <1>2, <1>3, <2>2, <2>3 DEF Rank
<1>4. CASE j >= i
  <2>1. i \in 1..j
    BY <1>0, <1>4
  <2>a. PICK A, B : A = Upto(map, j) /\ B = Upto(map2, j)
    OBVIOUS
  <2>2. \A k : k \in B <=> k \in A \/ k = i
    BY <1>1, <1>2, <2>1, <2>a DEF Upto
  <2>3. B = A \cup {i} /\ i \notin A
    <3>1. i \notin A
      BY <1>1, <2>a DEF Upto
    <3> QED
      BY <2>2, <3>1
  <2>4. IsFiniteSet(A) /\ Cardinality(A) \in Nat
    BY <2>a, UptoFinite DEF Rank
  <2>5. Cardinality(A \cup {i}) = Cardinality(A) + 1
    BY <2>3, <2>4, FS_AddElement
  <2> QED
    BY <1>1, <1>2, <1>4, <2>3, <2>5, <2>a DEF Rank
<1> QED
  BY <1>0, <1>3, <1>4

\* alloc_propval_offset(): the i-th name gets a place, the values stay.
LEMMA WithPlaceHas ==
  ASSUME NEW map, NEW pv, NEW n, Fit(map, pv, n), NEW i \in 1..n, ~HasPlace(map, i),
         NEW map2, map2 = map \cup {i}, NEW at, at = Offset_InMap(map2, i),
         NEW old, old = IF pv = Null THEN <<>> ELSE pv, NEW pv2, pv2 = InsertAt(old, at, CLEAR)
  PROVE  /\ map2 \in Maps /\ pv2 \in [1..CountPropvals(map2, n) -> Vals]
         /\ \A j \in 1..n : ValueIn(map2, pv2, j) = ValueIn(map, pv, j)
<1>1. map \in Maps /\ n \in Nat /\ Fits(map, pv, n) /\ i \in Nat /\ i # 0
  BY DEF Fit
<1>2. IsFiniteSet(map) /\ Cardinality(map) \in Nat /\ Mappable \in Nat
  BY <1>1, MapFinite
<1>3. i \in 1..Mappable /\ i \notin map
  BY <1>1, <1>2 DEF HasPlace
<1>a. PICK len : len = CountPropvals(map, n)
  OBVIOUS
<1>4. len \in Nat /\ CountPropvals(map2, n) = len + 1
  <2>1. Cardinality(map2) = Cardinality(map) + 1
    BY <1>2, <1>3, FS_AddElement
  <2>2. len \in Nat
    BY <1>1, <1>a, CountIs
  <2> QED
    BY <1>1, <1>2, <1>a, <2>1, <2>2 DEF CountPropvals
<1>5. map2 \in Maps /\ HasPlace(map2, i)
  BY <1>1, <1>3, RankShifts
<1>6. \A j \in 1..n : /\ j # i => (HasPlace(map2, j) <=> HasPlace(map, j))
                      /\ Rank(map2, j) = Rank(map, j) + IF j >= i THEN 1 ELSE 0
                      /\ Rank(map, j) \in Nat /\ Rank(map, j) <= len /\ j \in Nat /\ j # 0
  <2> TAKE j \in 1..n
  <2>1. j \in Nat /\ j # 0 /\ j \in 0..n
    BY <1>1
  <2>2. /\ j # i => (HasPlace(map2, j) <=> HasPlace(map, j))
        /\ Rank(map2, j) = Rank(map, j) + IF j >= i THEN 1 ELSE 0
    BY <1>1, <1>3, <2>1, RankShifts
  <2>3. Rank(map, j) \in Nat /\ Rank(map, j) <= len
    BY <1>1, <1>a, <2>1, UptoFinite, CountIs
  <2> QED
    BY <2>1, <2>2, <2>3
<1>7. at = Rank(map, i) + 1 /\ at \in 1..len + 1
  <2>1. at = Rank(map2, i)
    BY <1>1, <1>5, OffsetIs
  <2>2. Rank(map2, i) = Rank(map, i) + 1 /\ Rank(map, i) \in Nat /\ Rank(map, i) <= len
    <3>1. i >= i
      BY <1>1
    <3> QED
      BY <1>6, <3>1
  <2> QED
    BY <1>4, <2>1, <2>2
<1>8. old \in [1..len -> Vals]
  <2>1. CASE pv = Null
    <3>1. len = 0
      <4>1. pv \notin [1..len -> Vals]
        BY <1>4, <2>1, NullIsNoArray
      <4> QED
        BY <1>1, <1>a, <4>1 DEF Fits
    <3>2. old = <<>> /\ old \in Seq(Vals) /\ Len(old) = 0
      BY <2>1, EmptySeq
    <3> QED
      BY <3>1, <3>2, LenProperties
  <2>2. CASE pv # Null
    BY <1>1, <1>a, <2>2 DEF Fits
  <2> QED
    BY <2>1, <2>2
<1>9. /\ pv2 \in [1..len + 1 -> Vals] /\ pv2[at] = CLEAR
      /\ \A o \in 1..len : pv2[Shifted(o, at)] = old[o]
  <2>1. CLEAR \in Vals
    BY NullIsNoArray
  <2>2. InsertHas(Vals, len, old, CLEAR, at, pv2)
    BY <1>4, <1>7, <1>8, <2>1, InsertedIs
  <2> QED
    BY <2>2 DEF InsertHas
<1>10. ASSUME NEW j \in 1..n PROVE ValueIn(map2, pv2, j) = ValueIn(map, pv, j)
  <2>1. Offset_InMap(map2, j) = IF HasPlace(map2, j) THEN Rank(map2, j) ELSE 0
    BY <1>5, <1>6, OffsetIs
  <2>2. CASE j = i
    <3>1. ValueIn(map, pv, j) = CLEAR
      BY <2>2, ValueInIs
    <3>2. at \in DOMAIN pv2 /\ at # 0
      BY <1>4, <1>7, <1>9
    <3> QED
      BY <1>9, <2>2, <3>1, <3>2 DEF ValueIn, At
  <2>3. CASE j # i /\ ~HasPlace(map, j)
    <3>1. ValueIn(map, pv, j) = CLEAR
      BY <2>3, ValueInIs
    <3>2. ~HasPlace(map2, j)
      BY <1>6, <2>3
    <3> QED
      BY <2>1, <3>1, <3>2 DEF ValueIn
  <2>4. CASE j # i /\ HasPlace(map, j)
    <3>a. PICK o : o = Offset_InMap(map, j)
      OBVIOUS
    <3>1. o \in DOMAIN pv /\ o # 0 /\ ValueIn(map, pv, j) = pv[o]
      BY <2>4, <3>a, ValueInIs
    <3>2. o = Rank(map, j) /\ o \in 1..len
      BY <1>1, <1>4, <1>6, <2>4, <3>a, <3>1, OffsetIs
    <3>3. pv # Null
      <4> SUFFICES ASSUME pv = Null PROVE FALSE
        OBVIOUS
      <4>1. pv \notin [1..len -> Vals]
        BY <1>4, NullIsNoArray
      <4>2. len = 0
        BY <1>1, <1>a, <4>1 DEF Fits
      <4> QED
        BY <3>2, <4>2
    <3>4. Offset_InMap(map2, j) = Shifted(o, at)
      <4>0. HasPlace(map2, j) /\ Rank(map2, j) = Rank(map, j) + IF j >= i THEN 1 ELSE 0
        BY <1>6, <2>4
      <4>1. CASE j < i
        <5>1. Rank(map, j) <= Rank(map, i)
          BY <1>1, <1>6, <4>1, RankGrows
        <5> QED
          BY <1>1, <1>6, <1>7, <2>1, <3>2, <4>0, <4>1, <5>1 DEF Shifted
      <4>2. CASE j > i
        <5>1. Rank(map, i) < Rank(map, j)
          BY <1>1, <1>6, <2>4, <4>2, RankGrows
        <5> QED
          BY <1>1, <1>6, <1>7, <2>1, <3>2, <4>0, <4>2, <5>1 DEF Shifted
      <4> QED
        BY <1>1, <1>6, <2>4, <4>1, <4>2
    <3>5. Shifted(o, at) \in 1..len + 1 /\ Shifted(o, at) # 0
      BY <1>4, <1>7, <3>2 DEF Shifted
    <3>6. ValueIn(map2, pv2, j) = pv2[Shifted(o, at)]
      <4>a. PICK x : x = Shifted(o, at)
        OBVIOUS
      <4>1. x \in DOMAIN pv2 /\ x # 0 /\ Offset_InMap(map2, j) = x
        BY <1>9, <3>4, <3>5, <4>a
      <4> QED
        BY <4>1, <4>a DEF ValueIn, At
    <3> QED
      BY <1>9, <3>1, <3>2, <3>3, <3>6
  <2> QED
    BY <2>2, <2>3, <2>4
<1> QED
  BY <1>4, <1>5, <1>9, <1>10

\* The value of the i-th name is put in its place, the others stay.
LEMMA ReplacedHas ==
  ASSUME NEW map \in Maps, NEW n \in Nat, NEW pv \in [1..CountPropvals(map, n) -> Vals],
         NEW i \in 1..n, HasPlace(map, i), NEW value \in Vals,
         NEW at, at = Offset_InMap(map, i),
         NEW pv2, pv2 = Instead(pv, value, at)
  PROVE  /\ pv2 \in [1..CountPropvals(map, n) -> Vals] /\ ValueIn(map, pv2, i) = value
         /\ \A j \in 1..n \ {i} : ValueIn(map, pv2, j) = ValueIn(map, pv, j)
<1>a. PICK len : len = CountPropvals(map, n)
  OBVIOUS
<1>1. len \in Nat /\ at \in 1..len
  BY <1>a, PlaceIs
<1>2. /\ pv2 \in [1..len -> Vals] /\ pv2[at] = value
      /\ \A o \in 1..len \ {at} : pv2[o] = pv[o]
  <2>1. pv \in [1..len -> Vals]
    BY <1>a
  <2>2. InsteadHas(Vals, len, pv, value, at, pv2)
    BY <1>1, <2>1, ReplacedIs
  <2> QED
    BY <2>2 DEF InsteadHas
<1>3. ValueIn(map, pv2, i) = value
  BY <1>1, <1>2 DEF ValueIn, At
<1>4. ASSUME NEW j \in 1..n \ {i} PROVE ValueIn(map, pv2, j) = ValueIn(map, pv, j)
  <2>a. PICK o : o = Offset_InMap(map, j)
    OBVIOUS
  <2>1. o # at /\ (o = 0 \/ o \in 1..len)
    BY <1>a, <2>a, PlaceIs
  <2>2. CASE o = 0
    BY <2>2, <2>a DEF ValueIn
  <2>3. CASE o \in 1..len
    <3>1. pv2[o] = pv[o] /\ o \in DOMAIN pv /\ o \in DOMAIN pv2
      BY <1>2, <1>a, <2>1, <2>3
    <3> QED
      BY <2>a, <3>1 DEF ValueIn, At
  <2> QED
    BY <2>1, <2>2, <2>3
<1> QED
  BY <1>2, <1>3, <1>4, <1>a

\* A name found in a list.
Finds(s, n, i) == i = SelectInSeq(s, LAMBDA m : m = n) /\ i # 0
LEMMA FoundIs ==
  ASSUME NEW s \in Seq(Names), NEW n, NEW i, Finds(s, n, i)
  PROVE  i \in 1..Len(s) /\ s[i] = n
<1> DEFINE I == {k \in 1..Len(s) : s[k] = n}
<1>1. i = IF I # {} THEN Min(I) ELSE 0
  BY DEF SelectInSeq, Finds
<1>2. i # 0
  BY DEF Finds
<1>3. I \in SUBSET Nat
  BY LenProperties
<1>4. I # {} => Min(I) \in I
  <2> HIDE DEF I
  <2> QED
    BY <1>3, MinIs
<1> QED
  BY <1>1, <1>2, <1>4

\* The place that waif_put_prop() gives the i-th name, if it has none.
GivenPlace(map, pv, i, map2, pv2) ==
  \/ Offset_InMap(map, i) # 0 /\ map2 = map /\ pv2 = pv
  \/ /\ Offset_InMap(map, i) = 0 /\ map2 = map \cup {i}
     /\ pv2 = InsertAt(IF pv = Null THEN <<>> ELSE pv, Offset_InMap(map2, i), CLEAR)
PutAt(waif, i, value, r) ==
  \E map, pv : /\ GivenPlace(waif.map, waif.propvals, i, map, pv)
               /\ r = WaifRec(waif.class, waif.propdefs,
                              Instead(pv, value, Offset_InMap(map, i)), map)

LEMMA WithPlaceIs ==
  ASSUME NEW r, IsRec(r), NEW i, Offset_InMap(r.map, i) = 0
  PROVE  \E map, pv : /\ GivenPlace(r.map, r.propvals, i, map, pv)
                      /\ WithPlace(r, i) = WaifRec(r.class, r.propdefs, pv, map)
<1>a. PICK x : x = r.map \cup {i}
  OBVIOUS
<1>b. PICK y : y = InsertAt(IF r.propvals = Null THEN <<>> ELSE r.propvals, Offset_InMap(x, i), CLEAR)
  OBVIOUS
<1>1. WithPlace(r, i) = ValuesSet(MapSet(r, x), y)
  BY <1>a, <1>b DEF WithPlace, ValuesSet, MapSet
<1>2. PICK s : s = MapSet(r, x)
  OBVIOUS
<1>3. s = WaifRec(r.class, r.propdefs, r.propvals, x)
  BY <1>2, EitherSet
<1>4. IsRec(s) /\ s.class = r.class /\ s.propdefs = r.propdefs /\ s.map = x
  BY <1>3, RecIs
<1>5. ValuesSet(s, y) = WaifRec(r.class, r.propdefs, y, x)
  BY <1>4, EitherSet
<1>6. GivenPlace(r.map, r.propvals, i, x, y)
  BY <1>a, <1>b DEF GivenPlace
<1> QED
  BY <1>1, <1>2, <1>5, <1>6

LEMMA PutMakesThis ==
  ASSUME NEW w, NEW n, NEW value, PutProp(w, n, value),
         NEW u, u = Updated(Memory, w), IsMem(u), NEW waif, waif = u.waifs[w], IsRec(waif)
  PROVE  /\ waif.propdefs # Null /\ waif.class \in valid
         /\ \E i, r : /\ Finds(u.lists[waif.propdefs].defs, n, i)
                      /\ PutAt(waif, i, value, r) /\ Becomes(SetTo(u, w, r))
<1> DEFINE i == IF waif.propdefs = Null THEN 0
                ELSE SelectInSeq(u.lists[waif.propdefs].defs, LAMBDA m : m = n)
           placed == IF Offset_InMap(waif.map, i) = 0 THEN WithPlace(waif, i) ELSE waif
           at == Offset_InMap(placed.map, i)
           x == SubSeq(placed.propvals, 1, at - 1) \o <<value>>
                   \o SubSeq(placed.propvals, at + 1, Len(placed.propvals))
<1>1. /\ Becomes([u EXCEPT !.waifs[w] = [placed EXCEPT !.propvals = x]])
      /\ waif.class \in valid /\ i # 0
  BY DEF PutProp
<1>p. PICK s : s = placed
  OBVIOUS
<1>2. PICK map, v : /\ GivenPlace(waif.map, waif.propvals, i, map, v)
                    /\ s = WaifRec(waif.class, waif.propdefs, v, map)
  <2>1. CASE Offset_InMap(waif.map, i) # 0
    <3>1. s = WaifRec(waif.class, waif.propdefs, waif.propvals, waif.map)
      BY <1>p, <2>1 DEF IsRec, WaifRec
    <3> HIDE DEF i
    <3> QED
      BY <2>1, <3>1 DEF GivenPlace
  <2>2. CASE Offset_InMap(waif.map, i) = 0
    <3>1. s = WithPlace(waif, i)
      BY <1>p, <2>2
    <3> HIDE DEF i, placed
    <3> QED
      BY <2>2, <3>1, WithPlaceIs
  <2> QED
    BY <2>1, <2>2
<1>j. PICK j : j = i
  OBVIOUS
<1>q. PICK y : y = x
  OBVIOUS
<1>3. /\ IsRec(s) /\ s.class = waif.class /\ s.propdefs = waif.propdefs
      /\ s.map = map /\ s.propvals = v
  BY <1>2, RecIs
<1>4. y = Instead(v, value, Offset_InMap(map, j))
  BY <1>3, <1>p, <1>j, <1>q DEF Instead
<1>5. [s EXCEPT !.propvals = y] = WaifRec(waif.class, waif.propdefs, y, map)
  <2>1. ValuesSet(s, y) = WaifRec(s.class, s.propdefs, y, s.map)
    BY <1>3, EitherSet
  <2> QED
    BY <1>3, <2>1 DEF ValuesSet
<1>r. PICK r : r = WaifRec(waif.class, waif.propdefs, y, map)
  OBVIOUS
<1>6. [u EXCEPT !.waifs[w] = r] = SetTo(u, w, r)
  BY WaifsSet DEF SetTo, With
<1>7. Becomes(SetTo(u, w, r))
  <2>1. Becomes([u EXCEPT !.waifs[w] = [s EXCEPT !.propvals = y]])
    <3> HIDE DEF i, placed, x
    <3> QED
      BY <1>1, <1>p, <1>q
  <2>2. Becomes([u EXCEPT !.waifs[w] = r])
    <3> HIDE DEF i, placed, x
    <3> QED
      BY <1>5, <1>r, <2>1
  <2> HIDE DEF i, placed, x
  <2> QED
    BY <1>6, <2>2
<1>8. waif.propdefs # Null /\ Finds(u.lists[waif.propdefs].defs, n, j)
  BY <1>1, <1>j DEF Finds
<1>9. PutAt(waif, j, value, r)
  <2>1. GivenPlace(waif.map, waif.propvals, j, map, v)
    BY <1>2, <1>j
  <2> HIDE DEF i, placed, x
  <2> QED
    BY <1>4, <1>r, <2>1 DEF PutAt
<1> HIDE DEF i, placed, x
<1>10. waif.class \in valid
  BY <1>1
<1>11. \E k, q : Finds(u.lists[waif.propdefs].defs, n, k) /\ PutAt(waif, k, value, q) /\ Becomes(SetTo(u, w, q))
  BY <1>7, <1>8, <1>9, Zenon
<1> QED
  BY <1>8, <1>10, <1>11

LEMMA GivenHas ==
  ASSUME NEW map, NEW pv, NEW n, Fit(map, pv, n), NEW i \in 1..n,
         NEW map2, NEW pv2, GivenPlace(map, pv, i, map2, pv2)
  PROVE  /\ map2 \in Maps /\ HasPlace(map2, i) /\ pv2 \in [1..CountPropvals(map2, n) -> Vals]
         /\ \A j \in 1..n : ValueIn(map2, pv2, j) = ValueIn(map, pv, j)
<1>1. map \in Maps /\ n \in Nat /\ Fits(map, pv, n)
  BY DEF Fit
<1>2. CASE HasPlace(map, i)
  <2>1. Offset_InMap(map, i) \in 1..CountPropvals(map, n) /\ CountPropvals(map, n) \in Nat
    BY <1>1, <1>2, PlaceIs
  <2>2. Offset_InMap(map, i) # 0 /\ CountPropvals(map, n) # 0
    BY <2>1
  <2>3. map2 = map /\ pv2 = pv
    BY <2>2 DEF GivenPlace
  <2> QED
    BY <1>1, <1>2, <2>2, <2>3 DEF Fits
<1>3. CASE ~HasPlace(map, i)
  <2>1. Offset_InMap(map, i) = 0
    BY <1>1, <1>3, PlaceIs
  <2>a. PICK old, at : old = (IF pv = Null THEN <<>> ELSE pv) /\ at = Offset_InMap(map2, i)
    OBVIOUS
  <2>2. map2 = map \cup {i} /\ pv2 = InsertAt(old, at, CLEAR)
    BY <2>1, <2>a DEF GivenPlace
  <2>3. /\ map2 \in Maps /\ pv2 \in [1..CountPropvals(map2, n) -> Vals]
        /\ \A j \in 1..n : ValueIn(map2, pv2, j) = ValueIn(map, pv, j)
    BY <1>3, <2>2, <2>a, WithPlaceHas
  <2> QED
    BY <2>2, <2>3 DEF HasPlace
<1> QED
  BY <1>2, <1>3

PutTo(p, n, value) == [p EXCEPT ![n] = value]
\* The same waif with other values.
Revalued(r, s) == \E map, v : s = WaifRec(r.class, r.propdefs, v, map)
LEMMA PutAtRight ==
  ASSUME NEW r, NEW L, NEW p, NEW k, ValuesRight(r, L, p, k), r.propdefs # Null,
         NEW n \in Names, NEW i \in 1..Len(L), L[i] = n, NEW value \in Values,
         NEW s, PutAt(r, i, value, s),
         NEW p2, p2 = PutTo(p, n, value), NEW k2, k2 = k \cup {n}
  PROVE  Revalued(r, s) /\ p2 \in Puts /\ ValuesRight(s, L, p2, k2)
<1>1. PICK map, pv : /\ GivenPlace(r.map, r.propvals, i, map, pv)
                     /\ s = WaifRec(r.class, r.propdefs, Instead(pv, value, Offset_InMap(map, i)), map)
  BY DEF PutAt
<1>2. /\ L \in Seq(Names) /\ IsInjective(L) /\ Len(L) \in Nat
      /\ r.map \in Maps /\ Fits(r.map, r.propvals, Len(L))
      /\ p \in Puts /\ \A m \in Names \ ToSet(L) : p[m] = CLEAR
      /\ \A j \in 1..Len(L) : AsPut(L[j], ValueIn(r.map, r.propvals, j), p, k)
  BY LenProperties DEF ValuesRight
<1>a. PICK len, map0, pv0 : len = Len(L) /\ map0 = r.map /\ pv0 = r.propvals
  OBVIOUS
<1>3. Fit(map0, pv0, len) /\ i \in 1..len /\ GivenPlace(map0, pv0, i, map, pv)
  BY <1>1, <1>2, <1>a DEF Fit
<1>4. /\ map \in Maps /\ HasPlace(map, i) /\ pv \in [1..CountPropvals(map, len) -> Vals]
      /\ \A j \in 1..len : ValueIn(map, pv, j) = ValueIn(map0, pv0, j)
  BY <1>3, GivenHas
<1>b. PICK at : at = Offset_InMap(map, i)
  OBVIOUS
<1>c. PICK pv2 : pv2 = Instead(pv, value, at)
  OBVIOUS
<1>5. value \in Vals /\ value # CLEAR
  BY NullIsNoArray DEF Vals
<1>6. /\ pv2 \in [1..CountPropvals(map, len) -> Vals] /\ ValueIn(map, pv2, i) = value
      /\ \A j \in 1..len \ {i} : ValueIn(map, pv2, j) = ValueIn(map, pv, j)
  <2>1. len \in Nat
    BY <1>2, <1>a
  <2> QED
    BY <1>3, <1>4, <1>5, <1>b, <1>c, <2>1, ReplacedHas
<1>7. s = WaifRec(r.class, r.propdefs, pv2, map)
  BY <1>1, <1>b, <1>c
<1>8. s.map = map /\ s.propvals = pv2 /\ s.propdefs = r.propdefs
  BY <1>7, RecIs
<1>9. p2 \in Puts /\ p2[n] = value /\ \A m \in Names : m # n => p2[m] = p[m]
  BY <1>2, <1>5 DEF Puts, PutTo
<1>10. \A m \in Names \ ToSet(L) : p2[m] = CLEAR
  <2>1. n \in ToSet(L)
    BY <1>2, InSet
  <2> QED
    BY <1>2, <1>9, <2>1
<1>11. ASSUME NEW j \in 1..Len(L) PROVE AsPut(L[j], ValueIn(map, pv2, j), p2, k2)
  <2>1. L[j] \in Names /\ (L[j] = L[i] => j = i)
    BY <1>2, OneBefore
  <2>2. CASE j = i
    BY <1>6, <1>9, <2>2 DEF AsPut
  <2>3. CASE j # i
    <3>1. L[j] # n
      BY <2>1, <2>3
    <3>2. ValueIn(map, pv2, j) = ValueIn(map0, pv0, j)
      BY <1>4, <1>6, <1>a, <2>3
    <3>3. AsPut(L[j], ValueIn(map0, pv0, j), p, k)
      BY <1>2, <1>a
    <3> QED
      BY <1>9, <2>1, <3>1, <3>2, <3>3 DEF AsPut
  <2> QED
    BY <2>2, <2>3
<1>12. ValuesRight(s, L, p2, k2)
  BY <1>2, <1>4, <1>6, <1>8, <1>9, <1>10, <1>11, <1>a DEF ValuesRight, Fits
<1> QED
  BY <1>7, <1>9, <1>12 DEF Revalued

LEMMA PutPropRight ==
  ASSUME KInv, WInv', NEW w \in Waif, NEW n \in Names, NEW value \in Values, PutProp(w, n, value)
  PROVE  KInv'
<1>a. PICK m, d, u : m = Memory /\ d = Defs(propdefs, Parent) /\ u = Updated(m, w)
  OBVIOUS
<1>b. PICK p, k, c, r : p = Known(u, w) /\ k = kept[w] /\ c = m.waifs[w].class /\ r = u.waifs[w]
  OBVIOUS
<1>1. ~Dies(w) /\ UNCHANGED <<vars, propdefs>>
  BY DEF PutProp
<1>2. /\ MemOK(u) /\ u.waifs[w].class = c
      /\ \A v \in Waif \ {w} : Same(m, u, v)
      /\ p \in Puts /\ WaifRight(u, d, w, p, k)
      /\ c \in valid => /\ u.waifs[w].propdefs = u.of[c] /\ u.of[c] \in Address
                        /\ NamesIn(u, w) = d[c]
  BY <1>1, <1>a, <1>b, Looked
<1>3. IsMem(u) /\ IsRec(r) /\ r.class \in OidOrNothing
  BY <1>2, <1>b, WaifOf
<1>4. PICK i, s : /\ r.propdefs # Null /\ r.class \in valid
                  /\ Finds(u.lists[r.propdefs].defs, n, i)
                  /\ PutAt(r, i, value, s) /\ Becomes(SetTo(u, w, s))
  BY <1>3, <1>a, <1>b, PutMakesThis
<1>c. PICK L : L = NamesIn(u, w)
  OBVIOUS
<1>5. /\ L = u.lists[r.propdefs].defs /\ ValuesRight(r, L, p, k) /\ KeptRight(k, L, DefsFor(d, r.class))
  BY <1>2, <1>4, <1>b, <1>c DEF NamesIn, WaifRight
<1>6. i \in 1..Len(L) /\ L[i] = n
  BY <1>4, <1>5, FoundIs DEF ValuesRight
<1>d. PICK p2, k2 : p2 = PutTo(p, n, value) /\ k2 = k \cup {n}
  OBVIOUS
<1>7. Revalued(r, s) /\ p2 \in Puts /\ ValuesRight(s, L, p2, k2)
  <2>1. /\ ValuesRight(r, L, p, k) /\ r.propdefs # Null /\ i \in 1..Len(L) /\ L[i] = n
        /\ PutAt(r, i, value, s) /\ p2 = PutTo(p, n, value) /\ k2 = k \cup {n}
    BY <1>4, <1>5, <1>6, <1>d
  <2> QED
    BY <2>1, PutAtRight
<1>8. IsWaif(s) /\ s.class = r.class /\ s.propdefs = r.propdefs
  <2> PICK map, v : s = WaifRec(r.class, r.propdefs, v, map)
    BY <1>7 DEF Revalued
  <2>1. /\ r.class \in OidOrNothing /\ r.propdefs \in Address \cup {Null}
        /\ r.class = NOTHING => r.propdefs = Null
    BY <1>2, <1>b, WaifOf
  <2> QED
    BY <2>1, MadeWaif, RecIs
<1>e. PICK t : t = SetTo(u, w, s)
  OBVIOUS
<1>9. MemOK(t) /\ t.of = u.of /\ t.lists = u.lists /\ OnlyWaif(u.waifs, t.waifs, w, s)
  BY <1>2, <1>8, <1>b, <1>e, SameList
<1>10. ASSUME NEW v \in Waif \ {w} PROVE Same(m, t, v)
  <2>1. Same(m, u, v)
    BY <1>2
  <2>2. Same(u, t, v)
    BY <1>9 DEF Same, NamesIn, OnlyWaif
  <2> QED
    BY <2>1, <2>2, SameTrans
<1>11. t.waifs[w] = s /\ NamesIn(t, w) = L
  BY <1>4, <1>5, <1>8, <1>9 DEF NamesIn, OnlyWaif
<1>12. DefsFor(d, s.class) = L /\ L \in Seq(Names) /\ IsInjective(L)
  <2>1. r.class # NOTHING
    <3>1. valid \subseteq Oid
      BY KInvFacts
    <3> QED
      BY <1>4, <3>1, NothingIsNoOid
  <2> QED
    BY <1>2, <1>4, <1>5, <1>8, <1>b, <1>c, <2>1 DEF DefsFor, ValuesRight
<1>13. KeptRight(k2, L, DefsFor(d, s.class))
  <2>1. n \in ToSet(L)
    BY <1>6, <1>12, InSet
  <2>2. SameOrder(L, L)
    BY <1>12, SameOrderAsItself
  <2> QED
    BY <1>5, <1>12, <1>8, <1>d, <2>1, <2>2 DEF KeptRight
<1>14. OwnList(t, w, k2)
  <2>1. OneEach(u.of) /\ u.of[s.class] = s.propdefs /\ s.propdefs # Null /\ s.class \in Oid
    <3>1. valid \subseteq Oid
      BY KInvFacts
    <3> QED
      BY <1>2, <1>4, <1>8, <1>b, <3>1 DEF MemOK
  <2> QED
    BY <1>9, <1>11, <2>1 DEF OwnList, OneEach
<1>15. WaifRight(t, d, w, p2, k2)
  BY <1>7, <1>11, <1>13, <1>14 DEF WaifRight
<1>f. PICK ps, ks, ps2, ks2 : ps = put /\ ks = kept /\ ps2 = put' /\ ks2 = kept'
  OBVIOUS
<1>16. k2 \in SUBSET Names /\ AllRight(m, d, ps, ks)
  <2>1. kept \in [Waif -> SUBSET Names] /\ AllRight(m, d, ps, ks)
    BY <1>a, <1>f, KInvFacts
  <2> QED
    BY <1>b, <1>d, <2>1
<1>17. ps2 = [ps EXCEPT ![w] = p2] /\ ks2 = [ks EXCEPT ![w] = k2]
  <2>1. ps2 = [ps EXCEPT ![w] = [p EXCEPT ![n] = value]]
    BY <1>a, <1>b, <1>f DEF PutProp
  <2>2. ks2 = [ks EXCEPT ![w] = ks[w] \cup {n}]
    BY <1>f DEF PutProp
  <2> QED
    BY <1>b, <1>d, <1>f, <2>1, <2>2 DEF PutTo
<1>18. AllRight(t, d, ps2, ks2)
  BY <1>7, <1>10, <1>15, <1>16, <1>17, OneRight
<1> QED
  BY <1>1, <1>4, <1>9, <1>18, <1>a, <1>e, <1>f, OnlyWaifsRight DEF MemOK

-----------------------------------------------------------------------------
(* What is expected of the waifs when objects change.                      *)

NamedIn(defs) == {d[2] : d \in defs}
Following(k, L, old, new) ==
  IF NamedIn(new \ old) \cap ToSet(L) # {} THEN {} ELSE k \ NamedIn(old \ new)
DefinedIn(V, link, names, c) ==
  IF c \notin V THEN {} ELSE UNION {{<<x, n>> : n \in ToSet(names[x])} : x \in Up(link, c)}

LEMMA NamedIs ==
  ASSUME NEW x, NEW n, NEW defs, <<x, n>> \in defs
  PROVE  n \in NamedIn(defs)
<1>1. <<x, n>>[2] = n
  OBVIOUS
<1> QED
  BY <1>1 DEF NamedIn

LEMMA DefinedIs ==
  ASSUME NEW V, NEW link, NEW names, NEW c \in V, NEW x, NEW n
  PROVE  <<x, n>> \in DefinedIn(V, link, names, c) <=> x \in Up(link, c) /\ n \in ToSet(names[x])
BY DEF DefinedIn

LEMMA FollowIs ==
  ASSUME NEW w, NEW old, NEW new
  PROVE  Follow(w, old, new) = Following(kept[w], NamesIn(Memory, w), old, new)
<1>1. Memory.waifs = waifs /\ Memory.lists = lists
  BY MemoryIs
<1>2. ToSet(<<>>) = {}
  BY NoNamesIs
<1>a. PICK a : a = waifs[w].propdefs
  OBVIOUS
<1>3. CASE a = Null
  <2>1. NamesIn(Memory, w) = <<>>
    BY <1>1, <1>3, <1>a DEF NamesIn
  <2>2. Follow(w, old, new) = kept[w] \ NamedIn(old \ new)
    BY <1>3, <1>a DEF Follow, NamedIn
  <2>3. Following(kept[w], NamesIn(Memory, w), old, new) = kept[w] \ NamedIn(old \ new)
    BY <1>2, <2>1 DEF Following
  <2> QED
    BY <2>2, <2>3
<1>4. CASE a # Null
  <2>1. NamesIn(Memory, w) = lists[a].defs
    BY <1>1, <1>4, <1>a DEF NamesIn
  <2> QED
    BY <1>4, <1>a, <2>1 DEF Follow, Following, NamedIn
<1> QED
  BY <1>3, <1>4

\* Those above an object that stay above it keep their order, and that of their names.
KeepsOrder(link, names, link2, names2, c) ==
  \A x, y \in Up(link, c) \cap Up(link2, c) :
     /\ x # y /\ y \in Up(link, x) => x \notin Up(link2, y)
     /\ SameOrder(names[x], names2[x])

\* Which of two names of an object comes first.
LEMMA WhichBefore ==
  ASSUME NEW names, NEW link \in Links, NEW c \in Oid, NEW d, HasNames(names, link, c, d),
         names \in [Oid -> Seq(Names)], EachOnce(names),
         NEW x \in Up(link, c), NEW y \in Up(link, c),
         NEW n \in ToSet(names[x]), NEW l \in ToSet(names[y]), {n, l} \cap Plain = {}, n # l,
         Before(d, n, l)
  PROVE  Comes(names, link, x, n, y, l)
<1>1. /\ d \in Seq(Names) /\ IsInjective(d)
      /\ \A u, v \in Up(link, c) : \A a, b :
            Comes(names, link, u, a, v, b) /\ {a, b} \cap Plain = {} => Before(d, a, b)
  BY DEF HasNames
<1>2. ~Before(d, l, n)
  <2> SUFFICES ASSUME Before(d, l, n) PROVE FALSE
    OBVIOUS
  <2>1. PICK i \in 1..Len(d), j \in 1..Len(d) : i < j /\ d[i] = n /\ d[j] = l
    BY DEF Before
  <2>2. PICK i2 \in 1..Len(d), j2 \in 1..Len(d) : i2 < j2 /\ d[i2] = l /\ d[j2] = n
    BY DEF Before
  <2>3. i = j2 /\ j = i2
    BY <1>1, <2>1, <2>2, OneBefore
  <2> QED
    BY <2>1, <2>2, <2>3
<1>3. ~Comes(names, link, y, l, x, n)
  <2>1. {l, n} \cap Plain = {}
    OBVIOUS
  <2> QED
    BY <1>1, <1>2, <2>1
<1>4. CASE x # y
  <2>1. x \in Up(link, y) \/ y \in Up(link, x)
    BY OneIsAbove
  <2> QED
    BY <1>3, <1>4, <2>1 DEF Comes
<1>5. CASE x = y
  <2>a. PICK s : s = names[x]
    OBVIOUS
  <2>1. s \in Seq(Names) /\ IsInjective(s) /\ n \in ToSet(s) /\ l \in ToSet(s)
    <3>1. x \in Oid
      BY UpOK
    <3> QED
      BY <1>5, <2>a, <3>1 DEF EachOnce
  <2>2. PICK i \in 1..Len(s), j \in 1..Len(s) : s[i] = n /\ s[j] = l
    BY <2>1, InSet
  <2>3. Len(s) \in Nat
    BY <2>1, LenProperties
  <2>4. i < j \/ j < i
    BY <2>2, <2>3
  <2>5. ~(j < i)
    <3>1. j < i => Before(s, l, n)
      BY <2>2 DEF Before
    <3> QED
      BY <1>3, <1>5, <2>a, <3>1 DEF Comes
  <2> QED
    BY <1>5, <2>2, <2>4, <2>5, <2>a DEF Comes, Before
<1> QED
  BY <1>4, <1>5

LEMMA SameOrderBefore ==
  ASSUME NEW s, NEW t \in Seq(Names), SameOrder(s, t), NEW n, NEW l, Before(s, n, l),
         n \in ToSet(t), l \in ToSet(t)
  PROVE  Before(t, n, l)
<1>1. PICK i \in 1..Len(s), j \in 1..Len(s) : i < j /\ s[i] = n /\ s[j] = l
  BY DEF Before
<1>2. PICK a \in 1..Len(t), b \in 1..Len(t) : t[a] = n /\ t[b] = l
  BY InSet
<1>3. a < b
  BY <1>1, <1>2 DEF SameOrder
<1> QED
  BY <1>2, <1>3 DEF Before

\* The names of an object's list that the object still has: they come in the same order.
LEMMA Followed ==
  ASSUME NEW V, NEW link, NEW names, Tree(V, link), Names0(V, link, names), EachOnce(names),
         NEW V2, NEW link2, NEW names2, Tree(V2, link2), Names0(V2, link2, names2), EachOnce(names2),
         NEW c \in V, c \in V2, KeepsOrder(link, names, link2, names2, c),
         NEW d, HasNames(names, link, c, d), NEW d2, HasNames(names2, link2, c, d2),
         NEW L \in Seq(Names), IsInjective(L), NEW k, KeptRight(k, L, d),
         NEW old, old = DefinedIn(V, link, names, c),
         NEW new, new = DefinedIn(V2, link2, names2, c),
         NEW k2, k2 = Following(k, L, old, new)
  PROVE  k2 \subseteq k /\ KeptRight(k2, L, d2)
<1>0. /\ link \in Links /\ link2 \in Links /\ names \in [Oid -> Seq(Names)]
      /\ names2 \in [Oid -> Seq(Names)] /\ c \in Oid
  BY DEF Tree, Names0
<1>1. k2 \subseteq k
  BY DEF Following
<1>2. CASE k2 = {}
  BY <1>2 DEF KeptRight
<1>3. CASE k2 # {}
  <2>1. k2 = k \ NamedIn(old \ new) /\ NamedIn(new \ old) \cap ToSet(L) = {}
    BY <1>3 DEF Following
  <2>2. k \subseteq ToSet(L) \cap ToSet(d) /\ SameOrder(L, d)
    BY <1>1, <1>3 DEF KeptRight
  <2>3. /\ d \in Seq(Names) /\ IsInjective(d) /\ d2 \in Seq(Names) /\ IsInjective(d2)
        /\ \A n : n \in ToSet(d) <=> Heard(names, link, c, n)
        /\ \A n : n \in ToSet(d2) <=> Heard(names2, link2, c, n)
    BY DEF HasNames
  <2>4. ASSUME NEW n \in k2 PROVE n \in ToSet(d2)
    <3>1. n \in ToSet(d) /\ n \notin NamedIn(old \ new)
      BY <2>1, <2>2
    <3>2. PICK x \in Up(link, c) : n \in ToSet(names[x]) /\ n \notin Plain
      BY <2>3, <3>1 DEF Heard
    <3>3. <<x, n>> \in old
      BY <3>2, DefinedIs
    <3>4. <<x, n>> \in new
      <4> SUFFICES ASSUME <<x, n>> \notin new PROVE FALSE
        OBVIOUS
      <4>1. <<x, n>> \in old \ new
        BY <3>3
      <4> QED
        BY <3>1, <4>1, NamedIs
    <3>5. x \in Up(link2, c) /\ n \in ToSet(names2[x])
      BY <3>4, DefinedIs
    <3> QED
      BY <2>3, <3>2, <3>5 DEF Heard
  <2>5. ASSUME NEW n \in ToSet(L), n \in ToSet(d2)
        PROVE  \E x \in Up(link, c) \cap Up(link2, c) :
                  n \in ToSet(names[x]) /\ n \in ToSet(names2[x]) /\ n \notin Plain
    <3>1. PICK x \in Up(link2, c) : n \in ToSet(names2[x]) /\ n \notin Plain
      BY <2>3, <2>5 DEF Heard
    <3>2. <<x, n>> \in new
      BY <3>1, DefinedIs
    <3>3. <<x, n>> \in old
      <4> SUFFICES ASSUME <<x, n>> \notin old PROVE FALSE
        OBVIOUS
      <4>1. <<x, n>> \in new \ old
        BY <3>2
      <4> QED
        BY <2>1, <2>5, <4>1, NamedIs
    <3>4. x \in Up(link, c) /\ n \in ToSet(names[x])
      BY <3>3, DefinedIs
    <3> QED
      BY <3>1, <3>4
  <2>6. ASSUME NEW i \in 1..Len(L), NEW j \in 1..Len(L), NEW a \in 1..Len(d2), NEW b \in 1..Len(d2),
               L[i] = d2[a], L[j] = d2[b], i < j
        PROVE  a < b
    <3>n. PICK n, l : n = L[i] /\ l = L[j]
      OBVIOUS
    <3>0. Len(L) \in Nat
      BY LenProperties
    <3>1. n \in ToSet(L) /\ l \in ToSet(L) /\ n # l /\ Before(L, n, l)
      <4>1. i # j
        BY <2>6, <3>0
      <4> QED
        BY <2>6, <3>n, <4>1, OneBefore
    <3>2. n \in ToSet(d2) /\ l \in ToSet(d2) /\ d2[a] = n /\ d2[b] = l
      BY <2>3, <2>6, <3>n, OneBefore
    <3>3. PICK x \in Up(link, c) \cap Up(link2, c) :
             n \in ToSet(names[x]) /\ n \in ToSet(names2[x]) /\ n \notin Plain
      BY <2>5, <3>1, <3>2
    <3>4. PICK y \in Up(link, c) \cap Up(link2, c) :
             l \in ToSet(names[y]) /\ l \in ToSet(names2[y]) /\ l \notin Plain
      BY <2>5, <3>1, <3>2
    <3>5. Before(d, n, l)
      <4>1. n \in ToSet(d) /\ l \in ToSet(d)
        BY <2>3, <3>3, <3>4 DEF Heard
      <4> QED
        BY <2>2, <2>3, <3>1, <4>1, SameOrderBefore
    <3>6. Comes(names, link, x, n, y, l)
      BY <1>0, <3>1, <3>3, <3>4, <3>5, WhichBefore
    <3>7. Comes(names2, link2, x, n, y, l)
      <4>1. CASE x # y
        <5>1. y \in Up(link, x)
          BY <3>6, <4>1 DEF Comes
        <5>2. x \notin Up(link2, y)
          BY <4>1, <5>1 DEF KeepsOrder
        <5>3. y \in Up(link2, x)
          BY <1>0, <5>2, OneIsAbove
        <5> QED
          BY <3>3, <3>4, <4>1, <5>3 DEF Comes
      <4>2. CASE x = y
        <5>1. SameOrder(names[x], names2[x]) /\ Before(names[x], n, l)
          BY <3>6, <4>2 DEF KeepsOrder, Comes
        <5>s. PICK s, t : s = names[x] /\ t = names2[x]
          OBVIOUS
        <5>2. t \in Seq(Names)
          <6>1. x \in Oid
            BY <1>0, UpOK
          <6> QED
            BY <1>0, <5>s, <6>1
        <5>3. Before(t, n, l)
          BY <3>3, <3>4, <4>2, <5>1, <5>2, <5>s, SameOrderBefore
        <5> QED
          BY <4>2, <5>3, <5>s DEF Comes
      <4> QED
        BY <4>1, <4>2
    <3>8. Before(d2, n, l)
      BY <3>3, <3>4, <3>7 DEF HasNames
    <3> QED
      BY <2>3, <3>2, <3>8, OneBefore
  <2>7. SameOrder(L, d2)
    BY <2>6 DEF SameOrder
  <2> QED
    BY <1>1, <2>2, <2>4, <2>7 DEF KeptRight
<1> QED
  BY <1>1, <1>2, <1>3

LEMMA FollowedAway ==
  ASSUME NEW V, NEW link, NEW names, NEW V2, NEW link2, NEW names2, NEW c \in V, c \notin V2,
         NEW d, HasNames(names, link, c, d), NEW L, NEW k, KeptRight(k, L, d)
  PROVE  Following(k, L, DefinedIn(V, link, names, c), DefinedIn(V2, link2, names2, c)) = {}
<1>a. PICK old, new : old = DefinedIn(V, link, names, c) /\ new = DefinedIn(V2, link2, names2, c)
  OBVIOUS
<1>1. new = {}
  BY <1>a DEF DefinedIn
<1>2. ASSUME NEW n \in k PROVE n \in NamedIn(old \ new)
  <2>1. n \in ToSet(d)
    BY <1>2 DEF KeptRight
  <2>2. PICK x \in Up(link, c) : n \in ToSet(names[x])
    BY <2>1 DEF HasNames, Heard
  <2>3. <<x, n>> \in old \ new
    BY <1>1, <1>a, <2>2, DefinedIs
  <2> QED
    BY <2>3, NamedIs
<1>3. Following(k, L, old, new) = {}
  BY <1>2 DEF Following
<1> QED
  BY <1>3, <1>a

LEMMA DefinitionsIs ==
  ASSUME NEW V, NEW link, Tree(V, link), NEW names, NEW c
  PROVE  Definitions(V, link, names, c) = DefinedIn(V, link, names, c)
<1>1. CASE c \notin V
  BY <1>1 DEF Definitions, DefinedIn
<1>2. CASE c \in V
  <2>1. Line(link, c) = Up(link, c)
    BY <1>2, LineIsUp DEF Tree, OidOrNothing
  <2> QED
    BY <1>2, <2>1 DEF Definitions, DefinedIn
<1> QED
  BY <1>1, <1>2

\* Less is expected of a waif that stays as it is.
LEMMA LessExpected ==
  ASSUME NEW m, NEW u, NEW w, u.waifs[w] = m.waifs[w], NamesIn(u, w) = NamesIn(m, w),
         NEW d, NEW p, NEW k, WaifRight(m, d, w, p, k), NEW d2, NEW k2, k2 \subseteq k,
         KeptRight(k2, NamesIn(m, w), DefsFor(d2, m.waifs[w].class)), OwnList(u, w, k2)
  PROVE  WaifRight(u, d2, w, p, k2)
<1>a. PICK r, L : r = m.waifs[w] /\ L = NamesIn(m, w)
  OBVIOUS
<1>1. ValuesRight(r, L, p, k)
  BY <1>a DEF WaifRight
<1>2. \A n, v : AsPut(n, v, p, k) => AsPut(n, v, p, k2)
  BY DEF AsPut
<1>3. ValuesRight(r, L, p, k2)
  BY <1>1, <1>2 DEF ValuesRight
<1> QED
  BY <1>3, <1>a DEF WaifRight

\* A waif stays the only one to hold its list, when it is one of a class that is there.
StillOwns(m, u, w, k, V2) ==
  \A k2 : k2 \subseteq k /\ (m.waifs[w].class \notin V2 => k2 = {}) /\ OwnList(m, w, k)
          => OwnList(u, w, k2)
SameNames(m, u, w) == u.waifs[w] = m.waifs[w] /\ NamesIn(u, w) = NamesIn(m, w)

LEMMA FollowedRight ==
  ASSUME NEW V, NEW link, NEW names, Tree(V, link), Names0(V, link, names), EachOnce(names),
         NEW V2, NEW link2, NEW names2, Tree(V2, link2), Names0(V2, link2, names2), EachOnce(names2),
         NEW m, NEW u, NEW w, SameNames(m, u, w), NEW c, c = m.waifs[w].class, c \in OidOrNothing,
         c \in V /\ c \in V2 => KeepsOrder(link, names, link2, names2, c),
         NEW k, StillOwns(m, u, w, k, V2),
         NEW p, WaifRight(m, Defs(names, link), w, p, k),
         NEW k2, k2 = (IF c = NOTHING THEN {}
                       ELSE Following(k, NamesIn(m, w), DefinedIn(V, link, names, c),
                                      DefinedIn(V2, link2, names2, c)))
  PROVE  WaifRight(u, Defs(names2, link2), w, p, k2)
<1>a. PICK L, e, e2 : /\ L = NamesIn(m, w) /\ e = DefsFor(Defs(names, link), c)
                      /\ e2 = DefsFor(Defs(names2, link2), c)
  OBVIOUS
<1>b. PICK d, d2 : d = Defs(names, link) /\ d2 = Defs(names2, link2)
  OBVIOUS
<1>1. KeptRight(k, L, e) /\ OwnList(m, w, k) /\ L \in Seq(Names) /\ IsInjective(L)
  BY <1>a DEF WaifRight, ValuesRight
<1>2. /\ DefsRight(d, V) /\ DefsRight(d2, V2)
      /\ \A o \in Oid : HasNames(names, link, o, d[o]) /\ HasNames(names2, link2, o, d2[o])
  BY <1>b, DefsRightIs
<1>3. k2 \subseteq k
  BY DEF Following
<1>4. KeptRight(k2, L, e2) /\ (c \notin V2 => k2 = {})
  <2>1. CASE c = NOTHING
    BY <2>1 DEF KeptRight
  <2>2. CASE c # NOTHING /\ c \notin V
    <3>1. e = <<>>
      BY <1>2, <1>a, <1>b, <2>2 DEF DefsFor, DefsRight, OidOrNothing
    <3>2. k = {}
      BY <1>1, <3>1, NoNamesIs DEF KeptRight
    <3> QED
      BY <1>3, <3>2 DEF KeptRight
  <2>3. CASE c # NOTHING /\ c \in V /\ c \notin V2
    <3>1. c \in Oid /\ e = d[c]
      BY <1>a, <1>b, <2>3 DEF OidOrNothing, DefsFor
    <3>2. HasNames(names, link, c, e)
      BY <1>2, <3>1
    <3>3. k2 = {}
      BY <1>1, <1>a, <2>3, <3>2, FollowedAway
    <3> QED
      BY <3>3 DEF KeptRight
  <2>4. CASE c # NOTHING /\ c \in V /\ c \in V2
    <3>1. c \in Oid /\ e = d[c] /\ e2 = d2[c]
      BY <1>a, <1>b, <2>4 DEF OidOrNothing, DefsFor
    <3>2. HasNames(names, link, c, e) /\ HasNames(names2, link2, c, e2)
      BY <1>2, <3>1
    <3>a. PICK old, new : old = DefinedIn(V, link, names, c) /\ new = DefinedIn(V2, link2, names2, c)
      OBVIOUS
    <3>3. k2 = Following(k, L, old, new)
      BY <1>a, <2>4, <3>a
    <3>4. KeptRight(k2, L, e2)
      BY <1>1, <2>4, <3>2, <3>3, <3>a, Followed
    <3> QED
      BY <2>4, <3>4
  <2> QED
    BY <2>1, <2>2, <2>3, <2>4
<1>5. OwnList(u, w, k2)
  BY <1>1, <1>3, <1>4 DEF StillOwns
<1> QED
  BY <1>3, <1>4, <1>5, <1>a, <1>b, LessExpected DEF SameNames

\* Operations on objects, which change nothing in the waifs.
LEMMA ObjectsRight ==
  ASSUME KInv, WInv', EachOnce(propdefs'), Expect,
         \A c \in valid \cap valid' : KeepsOrder(Parent, propdefs, Parent', propdefs', c),
         NEW u, IsMem(u), Becomes(u), NEW m, m = Memory,
         \A w \in Waif : SameNames(m, u, w) /\ StillOwns(m, u, w, kept[w], valid')
  PROVE  KInv'
<1>a. PICK V, link, names, d : V = valid /\ link = Parent /\ names = propdefs /\ d = Defs(names, link)
  OBVIOUS
<1>b. PICK V2, link2, names2, d2 : /\ V2 = valid' /\ link2 = Parent' /\ names2 = propdefs'
                                   /\ d2 = Defs(names2, link2)
  OBVIOUS
<1>c. PICK ps, ks, ps2, ks2 : ps = put /\ ks = kept /\ ps2 = put' /\ ks2 = kept'
  OBVIOUS
<1>1. /\ Tree(V, link) /\ Names0(V, link, names) /\ EachOnce(names) /\ MemOK(m)
      /\ AllRight(m, d, ps, ks)
  BY <1>a, <1>c, KInvFacts DEF KInv
<1>2. Tree(V2, link2) /\ Names0(V2, link2, names2) /\ EachOnce(names2)
  BY <1>b, TreeNext DEF WInv, WaifsRight
<1>3. /\ ps2 = ps /\ m.waifs = waifs
      /\ ks2 = [w \in Waif |-> IF ~There(w) THEN {}
                               ELSE Follow(w, Definitions(V, link, names, waifs[w].class),
                                              Definitions(V2, link2, names2, waifs[w].class))]
  BY <1>a, <1>b, <1>c, MemoryIs DEF Expect
<1>4. ASSUME NEW w \in Waif PROVE WaifRight(u, d2, w, ps2[w], ks2[w]) /\ ks2[w] \subseteq ks[w]
  <2>a. PICK c, p, k, k2 : c = m.waifs[w].class /\ p = ps[w] /\ k = ks[w] /\ k2 = ks2[w]
    OBVIOUS
  <2>1. c \in OidOrNothing /\ WaifRight(m, d, w, p, k) /\ SameNames(m, u, w) /\ StillOwns(m, u, w, k, V2)
    BY <1>1, <1>b, <1>c, <2>a, WaifOf DEF AllRight
  <2>2. c \in V /\ c \in V2 => KeepsOrder(link, names, link2, names2, c)
    BY <1>a, <1>b
  <2>b. PICK old, new : old = DefinedIn(V, link, names, c) /\ new = DefinedIn(V2, link2, names2, c)
    OBVIOUS
  <2>3. k2 = IF c = NOTHING THEN {} ELSE Following(k, NamesIn(m, w), old, new)
    <3>1. old = Definitions(V, link, names, c) /\ new = Definitions(V2, link2, names2, c)
      BY <1>1, <1>2, <2>b, DefinitionsIs
    <3>2. k2 = IF c = NOTHING THEN {} ELSE Follow(w, old, new)
      BY <1>3, <2>a, <3>1 DEF There
    <3>3. Follow(w, old, new) = Following(k, NamesIn(m, w), old, new)
      BY <1>c, <2>a, FollowIs
    <3> QED
      BY <3>2, <3>3
  <2>4. k2 = IF c = NOTHING THEN {}
             ELSE Following(k, NamesIn(m, w), DefinedIn(V, link, names, c),
                            DefinedIn(V2, link2, names2, c))
    BY <2>3, <2>b
  <2>5. WaifRight(u, d2, w, p, k2)
    <3>1. WaifRight(m, Defs(names, link), w, p, k)
      BY <1>a, <2>1
    <3>2. WaifRight(u, Defs(names2, link2), w, p, k2)
      BY <1>1, <1>2, <2>1, <2>2, <2>4, <2>a, <3>1, FollowedRight
    <3> QED
      BY <1>b, <3>2
  <2>6. k2 \subseteq k
    BY <2>3 DEF Following
  <2> QED
    BY <1>3, <2>5, <2>6, <2>a
<1>5. AllRight(u, d2, ps2, ks2)
  <2>1. ps \in [Waif -> Puts] /\ ks \in [Waif -> SUBSET Names]
    BY <1>1 DEF AllRight
  <2>2. ks2 \in [Waif -> SUBSET Names]
    <3>1. DOMAIN ks2 = Waif /\ ks2 = [w \in Waif |-> ks2[w]]
      BY <1>3
    <3>2. \A w \in Waif : ks2[w] \in SUBSET Names
      BY <1>4, <2>1
    <3> QED
      BY <3>1, <3>2
  <2> QED
    BY <1>3, <1>4, <2>1, <2>2 DEF AllRight
<1>6. Memory' = u
  BY BecomesIs
<1> QED
  BY <1>5, <1>6, <1>b, <1>c DEF KInv

-----------------------------------------------------------------------------
(* Properties are added, deleted and renamed.                              *)

LEMMA SameOwns ==
  ASSUME NEW m, NEW u, NEW w, Same(m, u, w), NEW d, NEW p, NEW k, WaifRight(m, d, w, p, k), NEW V2
  PROVE  SameNames(m, u, w) /\ StillOwns(m, u, w, k, V2)
<1>1. SameNames(m, u, w)
  BY DEF Same, SameNames
<1>2. k # {} => m.waifs[w].propdefs # Null
  <2> SUFFICES ASSUME m.waifs[w].propdefs = Null PROVE k = {}
    OBVIOUS
  <2>1. NamesIn(m, w) = <<>>
    BY DEF NamesIn
  <2> QED
    BY <2>1, NoNamesIs DEF WaifRight, KeptRight
<1>3. ASSUME NEW k2, k2 \subseteq k, OwnList(m, w, k) PROVE OwnList(u, w, k2)
  <2> SUFFICES ASSUME k2 # {}, NEW o \in Oid, u.of[o] = u.waifs[w].propdefs
               PROVE  o = u.waifs[w].class
    BY DEF OwnList
  <2>1. k # {}
    BY <1>3
  <2>2. m.waifs[w].propdefs # Null /\ u.waifs[w] = m.waifs[w]
    BY <1>1, <1>2, <2>1 DEF SameNames
  <2>3. m.of[o] = m.waifs[w].propdefs
    BY <2>2 DEF Same
  <2> QED
    BY <1>3, <2>1, <2>2, <2>3 DEF OwnList
<1> QED
  BY <1>1, <1>3 DEF StillOwns

LEMMA LetGoRight ==
  ASSUME KInv, WInv', EachOnce(propdefs'), Expect,
         \A c \in valid \cap valid' : KeepsOrder(Parent, propdefs, Parent', propdefs', c),
         NEW B \in SUBSET Oid, NEW u, LetGoMade(Memory, u, B), Becomes(u)
  PROVE  KInv'
<1>a. PICK m, d : m = Memory /\ d = Defs(propdefs, Parent)
  OBVIOUS
<1>1. AllRight(m, d, put, kept)
  BY <1>a, KInvFacts
<1>2. /\ MemOK(u) /\ u.waifs = m.waifs /\ KeepNames(m.lists, u.lists, Held(u.of, u.waifs))
      /\ \A o \in Oid : u.of[o] = m.of[o] \/ u.of[o] = Null
  BY <1>a DEF LetGoMade
<1>3. ASSUME NEW w \in Waif PROVE SameNames(m, u, w) /\ StillOwns(m, u, w, kept[w], valid')
  <2>1. Same(m, u, w)
    BY <1>2, SameBy
  <2>2. WaifRight(m, d, w, put[w], kept[w])
    BY <1>1 DEF AllRight
  <2>3. \A V2 : SameNames(m, u, w) /\ StillOwns(m, u, w, kept[w], V2)
    BY <2>1, <2>2, SameOwns
  <2> QED
    BY <2>3
<1>4. IsMem(u)
  BY <1>2 DEF MemOK
<1> QED
  BY <1>3, <1>4, <1>a, ObjectsRight

LEMMA NoRound ==
  ASSUME NEW link \in Links, Acyclic(link), NEW x \in Oid, NEW y \in Up(link, x), x \in Up(link, y)
  PROVE  x = y
<1> SUFFICES ASSUME x # y PROVE FALSE
  OBVIOUS
<1>1. y \in Up(link, link[x])
  BY UpIs
<1>2. link[x] \in Oid
  BY <1>1, UpNothing DEF Links, OidOrNothing
<1>a. PICK z : z = link[x]
  OBVIOUS
<1>3. Up(link, y) \subseteq Up(link, z)
  BY <1>1, <1>2, <1>a, UpTransitive
<1> QED
  BY <1>3, <1>a DEF Acyclic

\* The names of one object become others, in the same order.
LEMMA ChangedRight ==
  ASSUME KInv, WInv', UNCHANGED vars, NEW oid \in valid, NEW s \in Seq(Names), IsInjective(s),
         SameOrder(propdefs[oid], s), propdefs' = [propdefs EXCEPT ![oid] = s],
         Becomes(LetGo(Below(oid))), Expect
  PROVE  KInv'
<1>a. PICK B, u : B = Below(oid) /\ u = LetGo(B)
  OBVIOUS
<1>1. /\ IInv /\ MemOK(Memory) /\ Tree(valid, Parent) /\ Names0(valid, Parent, propdefs)
      /\ EachOnce(propdefs) /\ oid \in Oid /\ propdefs \in [Oid -> Seq(Names)]
  BY KInvFacts DEF KInv, Names0
<1>2. B \in SUBSET Oid /\ LetGoMade(Memory, u, B)
  BY <1>1, <1>a, BelowIs, LetGoOK
<1>3. Parent' = Parent
  BY DEF vars, Parent
<1>4. propdefs'[oid] = s /\ \A x \in Oid \ {oid} : propdefs'[x] = propdefs[x]
  BY <1>1
<1>5. EachOnce(propdefs')
  BY <1>1, <1>4 DEF EachOnce
<1>6. \A x \in Oid : SameOrder(propdefs[x], propdefs'[x])
  <2>1. ASSUME NEW x \in Oid, x # oid PROVE SameOrder(propdefs[x], propdefs'[x])
    <3>a. PICK t : t = propdefs[x]
      OBVIOUS
    <3>1. t \in Seq(Names) /\ IsInjective(t) /\ propdefs'[x] = t
      BY <1>1, <1>4, <2>1, <3>a DEF EachOnce
    <3> QED
      BY <3>1, <3>a, SameOrderAsItself
  <2> QED
    BY <1>4, <2>1
<1>7. ASSUME NEW c \in valid PROVE KeepsOrder(Parent, propdefs, Parent', propdefs', c)
  <2>1. ASSUME NEW x \in Up(Parent, c), NEW y \in Up(Parent, c), x # y, y \in Up(Parent, x)
        PROVE  x \notin Up(Parent, y) /\ x \in Oid
    <3>1. Parent \in Links /\ Acyclic(Parent) /\ c \in Oid
      BY <1>1 DEF Tree
    <3>2. x \in Oid
      BY <3>1, UpOK
    <3> QED
      BY <2>1, <3>1, <3>2, NoRound
  <2>2. \A x \in Up(Parent, c) : x \in Oid
    <3>1. Parent \in Links /\ c \in Oid
      BY <1>1 DEF Tree
    <3> QED
      BY <3>1, UpOK
  <2> QED
    BY <1>3, <1>6, <2>1, <2>2 DEF KeepsOrder
<1>8. Becomes(u)
  BY <1>a
<1> QED
  BY <1>2, <1>5, <1>7, <1>8, LetGoRight

LEMMA AppendedInOrder ==
  ASSUME NEW s \in Seq(Names), IsInjective(s), NEW x \in Names, x \notin ToSet(s)
  PROVE  SameOrder(s, Append(s, x))
<1>a. PICK t : t = Append(s, x)
  OBVIOUS
<1>1. /\ Len(t) = Len(s) + 1 /\ Len(s) \in Nat /\ t[Len(s) + 1] = x
      /\ \A i \in 1..Len(s) : t[i] = s[i]
  BY <1>a, AppendProperties, LenProperties
<1>2. ASSUME NEW i \in 1..Len(s), NEW k \in 1..Len(t), s[i] = t[k] PROVE k = i
  <2>1. s[i] # x
    BY InSet
  <2>2. k \in 1..Len(s)
    BY <1>1, <1>2, <2>1
  <2> QED
    BY <1>1, <1>2, <2>2, OneBefore
<1>3. SameOrder(s, t)
  BY <1>2 DEF SameOrder
<1> QED
  BY <1>3, <1>a

LEMMA RemovedInOrder ==
  ASSUME NEW s \in Seq(Names), IsInjective(s), NEW n
  PROVE  SameOrder(s, RemoveFirst(s, n))
<1>a. PICK t : t = RemoveFirst(s, n)
  OBVIOUS
<1>1. CASE \E i \in 1..Len(s) : s[i] = n
  <2>a. PICK a : a = SelectInSeq(s, LAMBDA v : v = n)
    OBVIOUS
  <2>1. t = RemoveAt(s, a)
    BY <1>1, <1>a, <2>a DEF RemoveFirst
  <2>2. a \in 1..Len(s)
    <3> DEFINE I == {k \in 1..Len(s) : s[k] = n}
    <3>1. a = Min(I) /\ I # {} /\ I \in SUBSET Nat
      BY <1>1, <2>a, LenProperties DEF SelectInSeq
    <3>2. Min(I) \in I
      <4> HIDE DEF I
      <4> QED
        BY <3>1, MinIs
    <3> QED
      BY <3>1, <3>2
  <2>3. /\ t \in Seq(Names) /\ Len(t) = Len(s) - 1 /\ Len(s) \in Nat
        /\ \A i \in 1..Len(s) - 1 : t[i] = IF i < a THEN s[i] ELSE s[i + 1]
    BY <2>1, <2>2, RemoveAtIs, LenProperties
  <2>4. ASSUME NEW i \in 1..Len(s), NEW k \in 1..Len(t), s[i] = t[k]
        PROVE  i = IF k < a THEN k ELSE k + 1
    <3>1. CASE k < a
      <4>1. k \in 1..Len(s) /\ t[k] = s[k]
        BY <2>2, <2>3, <3>1
      <4> QED
        BY <2>4, <3>1, <4>1, OneBefore
    <3>2. CASE ~(k < a)
      <4>1. k + 1 \in 1..Len(s) /\ t[k] = s[k + 1]
        BY <2>2, <2>3, <3>2
      <4> QED
        BY <2>4, <3>2, <4>1, OneBefore
    <3> QED
      BY <3>1, <3>2
  <2>5. ASSUME NEW i \in 1..Len(s), NEW j \in 1..Len(s), NEW k \in 1..Len(t), NEW l \in 1..Len(t),
               s[i] = t[k], s[j] = t[l], i < j
        PROVE  k < l
    <3>1. i = (IF k < a THEN k ELSE k + 1) /\ j = IF l < a THEN l ELSE l + 1
      BY <2>4, <2>5
    <3> QED
      BY <2>2, <2>3, <2>5, <3>1
  <2> QED
    BY <1>a, <2>5 DEF SameOrder
<1>2. CASE ~ \E i \in 1..Len(s) : s[i] = n
  <2>1. t = s
    BY <1>2, <1>a DEF RemoveFirst
  <2> QED
    BY <1>a, <2>1, SameOrderAsItself
<1> QED
  BY <1>1, <1>2

LEMMA RenamedInOrder ==
  ASSUME NEW s \in Seq(Names), IsInjective(s), NEW old, NEW new \in Names, new \notin ToSet(s),
         NEW t, t = Rename(s, old, new)
  PROVE  /\ t \in Seq(Names) /\ IsInjective(t) /\ SameOrder(s, t) /\ Len(t) = Len(s)
         /\ \A i \in 1..Len(s) : t[i] = IF s[i] = old THEN new ELSE s[i]
<1>1. Len(s) \in Nat /\ DOMAIN s = 1..Len(s) /\ \A i \in 1..Len(s) : s[i] \in Names /\ s[i] # new
  BY LenProperties, ElementOfSeq, InSet
<1>2. t \in [1..Len(s) -> Names] /\ \A i \in 1..Len(s) : t[i] = IF s[i] = old THEN new ELSE s[i]
  BY <1>1 DEF Rename
<1>3. t \in Seq(Names) /\ Len(t) = Len(s)
  BY <1>1, <1>2, SeqDef, LenProperties
<1>4. ASSUME NEW i \in 1..Len(s), NEW k \in 1..Len(t), s[i] = t[k] PROVE k = i
  <2>1. s[i] = s[k] /\ k \in 1..Len(s)
    BY <1>1, <1>2, <1>3, <1>4
  <2> QED
    BY <2>1, OneBefore
<1>5. SameOrder(s, t)
  BY <1>4 DEF SameOrder
<1>6. IsInjective(t)
  <2>1. DOMAIN t = 1..Len(s)
    BY <1>2
  <2>2. ASSUME NEW i \in 1..Len(s), NEW j \in 1..Len(s), t[i] = t[j] PROVE i = j
    <3>1. s[i] = s[j]
      BY <1>1, <1>2, <2>2
    <3> QED
      BY <3>1, OneBefore
  <2> QED
    BY <2>1, <2>2 DEF IsInjective
<1> QED
  BY <1>2, <1>3, <1>5, <1>6

LEMMA AddPropdefRight ==
  ASSUME KInv, WInv', NEW oid \in Oid, NEW n \in Names, AddPropdef(oid, n)
  PROVE  KInv'
<1>a. PICK old, s : old = propdefs[oid] /\ s = Append(old, n)
  OBVIOUS
<1>1. /\ oid \in valid /\ MayDefine(oid, n) /\ propdefs' = [propdefs EXCEPT ![oid] = s]
      /\ Becomes(LetGo(Below(oid))) /\ UNCHANGED vars /\ Expect
  <2>1. propdefs' = [propdefs EXCEPT ![oid] = Append(propdefs[oid], n)]
    BY DEF AddPropdef
  <2> QED
    BY <2>1, <1>a DEF AddPropdef
<1>2. IInv /\ old \in Seq(Names) /\ IsInjective(old) /\ Parent \in Links
  BY <1>a, KInvFacts DEF Names0, KInv, EachOnce, Tree
<1>3. n \notin ToSet(old)
  <2>1. oid \in Up(Parent, oid)
    BY <1>2, UpOK
  <2> QED
    BY <1>1, <1>2, <1>a, <2>1, MayDefineIs DEF Unheard
<1>4. s \in Seq(Names) /\ IsInjective(s) /\ SameOrder(old, s)
  BY <1>2, <1>3, <1>a, AppendedOnce, AppendedInOrder
<1> QED
  BY <1>1, <1>4, <1>a, ChangedRight

LEMMA DeletePropdefRight ==
  ASSUME KInv, WInv', NEW oid \in Oid, NEW n \in Names, DeletePropdef(oid, n)
  PROVE  KInv'
<1>a. PICK old, s : old = propdefs[oid] /\ s = RemoveFirst(old, n)
  OBVIOUS
<1>1. /\ oid \in valid /\ propdefs' = [propdefs EXCEPT ![oid] = s]
      /\ Becomes(LetGo(Below(oid))) /\ UNCHANGED vars /\ Expect
  <2>1. propdefs' = [propdefs EXCEPT ![oid] = RemoveFirst(propdefs[oid], n)]
    BY DEF DeletePropdef
  <2> QED
    BY <2>1, <1>a DEF DeletePropdef
<1>2. old \in Seq(Names) /\ IsInjective(old)
  BY <1>a, KInvFacts DEF Names0, KInv, EachOnce
<1>3. s \in Seq(Names) /\ IsInjective(s) /\ SameOrder(old, s)
  BY <1>2, <1>a, RemoveFirstIs, RemovedInOrder
<1> QED
  BY <1>1, <1>3, <1>a, ChangedRight

\* A name is renamed in the list of a waif.
PutElsewhere(p, old, new) == [p EXCEPT ![new] = p[old], ![old] = CLEAR]
RenamedIn(k, old, new) == {IF n = old THEN new ELSE n : n \in k}
LEMMA SeenRight ==
  ASSUME NEW r, NEW L, NEW p, NEW k, ValuesRight(r, L, p, k), k \subseteq ToSet(L),
         r.propdefs # Null, NEW old \in ToSet(L), NEW new \in Names, new \notin ToSet(L),
         NEW L2, L2 = Rename(L, old, new), NEW p2, p2 = PutElsewhere(p, old, new),
         NEW k2, k2 = RenamedIn(k, old, new)
  PROVE  /\ p2 \in Puts /\ ValuesRight(r, L2, p2, k2) /\ k2 \subseteq ToSet(L2)
         /\ L2 \in Seq(Names) /\ IsInjective(L2)
<1>1. /\ L \in Seq(Names) /\ IsInjective(L) /\ r.map \in Maps /\ Fits(r.map, r.propvals, Len(L))
      /\ p \in Puts /\ \A n \in Names \ ToSet(L) : p[n] = CLEAR
      /\ \A i \in 1..Len(L) : AsPut(L[i], ValueIn(r.map, r.propvals, i), p, k)
  BY DEF ValuesRight
<1>2. /\ L2 \in Seq(Names) /\ IsInjective(L2) /\ Len(L2) = Len(L)
      /\ \A i \in 1..Len(L) : L2[i] = IF L[i] = old THEN new ELSE L[i]
  BY <1>1, RenamedInOrder
<1>3. \A i \in 1..Len(L) : L[i] \in ToSet(L) /\ L[i] \in Names /\ L[i] # new
  BY <1>1, OneBefore
<1>4. old \in Names /\ old # new /\ \E i \in 1..Len(L) : L[i] = old
  BY <1>1, <1>3, InSet
<1>5. /\ p2 \in Puts /\ p2[new] = p[old] /\ p2[old] = CLEAR
      /\ \A n \in Names \ {old, new} : p2[n] = p[n]
  BY <1>1, <1>4, NullIsNoArray DEF Puts, PutElsewhere
<1>6. \A n : n \in ToSet(L2) <=> n = new \/ (n \in ToSet(L) /\ n # old)
  <2> TAKE n
  <2>1. n \in ToSet(L2) <=> \E i \in 1..Len(L) : L2[i] = n
    BY <1>2, InSet
  <2>2. n \in ToSet(L) <=> \E i \in 1..Len(L) : L[i] = n
    BY <1>1, InSet
  <2> QED
    BY <1>2, <1>3, <1>4, <2>1, <2>2
<1>7. \A n : n \in k2 <=> (n = new /\ old \in k) \/ (n \in k /\ n # old)
  <2>1. new \notin k
    OBVIOUS
  <2> QED
    BY <2>1 DEF RenamedIn
<1>8. k2 \subseteq ToSet(L2)
  BY <1>6, <1>7
<1>9. \A n \in Names \ ToSet(L2) : p2[n] = CLEAR
  BY <1>1, <1>5, <1>6
<1>10. ASSUME NEW i \in 1..Len(L) PROVE AsPut(L2[i], ValueIn(r.map, r.propvals, i), p2, k2)
  <2>1. AsPut(L[i], ValueIn(r.map, r.propvals, i), p, k)
    BY <1>1
  <2>2. CASE L[i] = old
    <3>1. L2[i] = new
      BY <1>2, <2>2
    <3>2. new \in k2 => old \in k
      BY <1>4, <1>7
    <3> QED
      BY <1>5, <2>1, <2>2, <3>1, <3>2 DEF AsPut
  <2>3. CASE L[i] # old
    <3>1. L2[i] = L[i] /\ L[i] \in Names \ {old, new}
      BY <1>2, <1>3, <2>3
    <3>2. L[i] \in k2 => L[i] \in k
      BY <1>3, <1>7
    <3> QED
      BY <1>5, <2>1, <3>1, <3>2 DEF AsPut
  <2> QED
    BY <2>2, <2>3
<1>11. ValuesRight(r, L2, p2, k2)
  BY <1>1, <1>2, <1>5, <1>9, <1>10 DEF ValuesRight
<1> QED
  BY <1>2, <1>5, <1>8, <1>11

\* A name that no object above or below has is not in the lists of those below.
LEMMA UnheardBelow ==
  ASSUME NEW V, NEW link, Tree(V, link), NEW names, Names0(V, link, names), EachOnce(names),
         NEW oid \in V, NEW old, old \in ToSet(names[oid]), old \notin Plain,
         NEW new, Unheard(V, link, names, oid, {new}), NEW x \in AllAt(V, link, oid)
  PROVE  /\ old \in ToSet(Defs(names, link)[x]) /\ new \notin ToSet(Defs(names, link)[x])
<1>a. PICK d : d = Defs(names, link)[x]
  OBVIOUS
<1>1. /\ x \in V /\ x \in Oid /\ oid \in Up(link, x) /\ link \in Links
      /\ Up(link, x) \subseteq V
  BY DEF AllAt, Tree
<1>2. \A n : n \in ToSet(d) <=> Heard(names, link, x, n)
  <2>1. HasNames(names, link, x, d)
    BY <1>1, <1>a, DefsRightIs
  <2> QED
    BY <2>1 DEF HasNames
<1>3. old \in ToSet(d)
  BY <1>1, <1>2 DEF Heard
<1>4. ASSUME NEW y \in Up(link, x) PROVE new \notin ToSet(names[y])
  <2>1. y \in Up(link, oid) \/ oid \in Up(link, y)
    BY <1>1, OneIsAbove
  <2> QED
    BY <1>1, <2>1 DEF Unheard
<1>5. new \notin ToSet(d)
  BY <1>2, <1>4 DEF Heard
<1> QED
  BY <1>3, <1>5, <1>a

\* waif_rename_propdef(), of one waif.
LEMMA OneRenamedRight ==
  ASSUME NEW V, NEW link, NEW names, Tree(V, link), EachOnce(names), NEW m, WaifsRight(V, link, names, m),
         NEW oid \in V, NEW old \in Names \ Plain, NEW new \in Names \ Plain,
         old \in ToSet(names[oid]), Unheard(V, link, names, oid, {new}),
         NEW names2, names2 = OneRenamed(names, oid, old, new), EachOnce(names2),
         NEW held, held = HeldOf(m, AllAt(V, link, oid)),
         NEW m2, m2 = Mem(InPlace(m.lists, held, old, new), m.of, m.waifs),
         WaifsRight(V, link, names2, m2),
         NEW w \in Waif, NEW p, NEW k, WaifRight(m, Defs(names, link), w, p, k),
         NEW c, c = m.waifs[w].class, NEW a, a = m.waifs[w].propdefs
  PROVE  /\ a # Null /\ a \in held =>
              LET p2 == PutElsewhere(p, old, new)
              IN  p2 \in Puts /\ WaifRight(m2, Defs(names2, link), w, p2, RenamedIn(k, old, new))
         /\ ~(a # Null /\ a \in held) =>
              SameNames(m, m2, w) /\ StillOwns(m, m2, w, k, V)
<1>1. MemOK(m) /\ MemOK(m2) /\ Names0(V, link, names) /\ Names0(V, link, names2)
  BY DEF WaifsRight
<1>2. m2.of = m.of /\ m2.waifs = m.waifs /\ m2.lists = InPlace(m.lists, held, old, new)
  BY MemIs
<1>3. c \in OidOrNothing /\ a \in Address \cup {Null}
  BY <1>1, WaifOf
<1>a. PICK r, L, L2 : r = m.waifs[w] /\ L = NamesIn(m, w) /\ L2 = NamesIn(m2, w)
  OBVIOUS
<1>b. PICK d, d2 : d = Defs(names, link) /\ d2 = Defs(names2, link)
  OBVIOUS
<1>4. ValuesRight(r, L, p, k) /\ KeptRight(k, L, DefsFor(d, c)) /\ OwnList(m, w, k)
  BY <1>a, <1>b DEF WaifRight
<1>5. OwnList(m2, w, k)
  BY <1>2, <1>4 DEF OwnList
<1>6. CASE ~(a # Null /\ a \in held)
  <2>1. L2 = L
    <3>1. CASE a = Null
      BY <1>2, <1>a, <3>1 DEF NamesIn
    <3>2. CASE a # Null /\ a \notin held
      <4>1. m2.lists[a] = m.lists[a]
        BY <1>2, <1>3, <3>2 DEF InPlace
      <4> QED
        BY <1>2, <1>a, <3>2, <4>1 DEF NamesIn
    <3> QED
      BY <1>6, <3>1, <3>2
  <2>2. StillOwns(m, m2, w, k, V)
    BY <1>2 DEF StillOwns, OwnList
  <2> QED
    BY <1>2, <1>6, <1>a, <2>1, <2>2 DEF SameNames
<1>7. CASE a # Null /\ a \in held
  <2>1. PICK x \in AllAt(V, link, oid) : m.of[x] = a
    BY <1>7 DEF HeldOf
  <2>2. x \in V /\ x \in Oid
    BY DEF AllAt, Tree
  <2>3. L = d[x]
    <3>1. m.lists[a].defs = d[x]
      BY <1>7, <1>b, <2>1, <2>2 DEF WaifsRight, CurrentIn
    <3> QED
      BY <1>7, <1>a, <3>1 DEF NamesIn
  <2>4. L2 = d2[x]
    <3>1. m2.lists[a].defs = d2[x]
      BY <1>2, <1>7, <1>b, <2>1, <2>2 DEF WaifsRight, CurrentIn
    <3> QED
      BY <1>2, <1>7, <1>a, <3>1 DEF NamesIn
  <2>5. L2 = Rename(L, old, new)
    <3>1. a \in Address /\ m.lists \in Lists
      BY <1>1, <1>3, <1>7 DEF MemOK
    <3>2. m2.lists[a] = DefsRenamed(m.lists[a], old, new)
      BY <1>2, <1>7, <3>1 DEF InPlace
    <3>l. PICK l : l = m.lists[a]
      OBVIOUS
    <3>3. DefsRenamed(l, old, new).defs = Rename(l.defs, old, new)
      <4>1. l \in ListRec
        BY <3>1, <3>l DEF Lists
      <4> QED
        BY <4>1 DEF DefsRenamed, ListRec
    <3> QED
      BY <1>2, <1>7, <1>a, <3>2, <3>3, <3>l DEF NamesIn
  <2>6. old \in ToSet(L) /\ new \notin ToSet(L)
    BY <1>1, <1>b, <2>3, UnheardBelow
  <2>7. k \subseteq ToSet(L)
    BY <1>4 DEF KeptRight
  <2>a. PICK p2, k2 : p2 = PutElsewhere(p, old, new) /\ k2 = RenamedIn(k, old, new)
    OBVIOUS
  <2>8. /\ p2 \in Puts /\ ValuesRight(r, L2, p2, k2) /\ k2 \subseteq ToSet(L2)
        /\ L2 \in Seq(Names) /\ IsInjective(L2)
    BY <1>4, <1>7, <1>a, <2>5, <2>6, <2>7, <2>a, SeenRight
  <2>9. KeptRight(k2, L2, DefsFor(d2, c)) /\ (k = {} => k2 = {})
    <3>1. CASE k = {}
      <4>1. k2 = {}
        BY <2>a, <3>1 DEF RenamedIn
      <4> QED
        BY <4>1 DEF KeptRight
    <3>2. CASE k # {}
      <4>1. x = c
        BY <1>4, <2>1, <2>2, <3>2 DEF OwnList
      <4>2. DefsFor(d2, c) = L2
        BY <2>2, <2>4, <4>1, NothingIsNoOid DEF DefsFor
      <4> QED
        BY <2>8, <3>2, <4>2, SameOrderAsItself DEF KeptRight
    <3> QED
      BY <3>1, <3>2
  <2>10. OwnList(m2, w, k2)
    BY <1>5, <2>9 DEF OwnList
  <2>11. WaifRight(m2, d2, w, p2, k2)
    BY <1>2, <1>a, <2>8, <2>9, <2>10 DEF WaifRight
  <2> QED
    BY <1>7, <1>b, <2>8, <2>11, <2>a
<1> QED
  BY <1>6, <1>7

\* Nobody comes to be above those that were below.
LEMMA OrderKept ==
  ASSUME NEW link \in Links, Acyclic(link), NEW link2, NEW names, NEW names2,
         \A x \in Oid : SameOrder(names[x], names2[x]), NEW c \in Oid,
         \A y \in Up(link, c) : Up(link2, y) \subseteq Up(link, y)
  PROVE  KeepsOrder(link, names, link2, names2, c)
<1>1. \A x \in Up(link, c) : x \in Oid
  BY UpOK
<1>2. ASSUME NEW x \in Up(link, c), NEW y \in Up(link, c), x # y, y \in Up(link, x)
      PROVE  x \notin Up(link2, y)
  BY <1>1, <1>2, NoRound
<1> QED
  BY <1>1, <1>2 DEF KeepsOrder

LEMMA SameOrderEach ==
  ASSUME NEW names \in [Oid -> Seq(Names)], EachOnce(names), NEW oid \in Oid,
         NEW s, SameOrder(names[oid], s), NEW names2, names2 = [names EXCEPT ![oid] = s]
  PROVE  \A x \in Oid : SameOrder(names[x], names2[x])
<1>1. ASSUME NEW x \in Oid, x # oid PROVE SameOrder(names[x], names2[x])
  <2>a. PICK t : t = names[x]
    OBVIOUS
  <2>1. t \in Seq(Names) /\ IsInjective(t) /\ names2[x] = t
    BY <1>1, <2>a DEF EachOnce
  <2> QED
    BY <2>1, <2>a, SameOrderAsItself
<1>2. names2[oid] = s
  OBVIOUS
<1> QED
  BY <1>1, <1>2

\* Those that see the new name are those that have a list of an object below.
LEMMA SeesIs ==
  ASSUME MemOK(Memory), NEW w \in Waif, NEW oid,
         NEW held, held = HeldOf(Memory, Below(oid)), NEW a, a = Memory.waifs[w].propdefs
  PROVE  /\ Sees(w, oid) <=> a # Null /\ a \in held
         /\ There(w) <=> Memory.waifs[w].class # NOTHING
         /\ ~There(w) => ~Sees(w, oid)
<1>1. Memory.waifs = waifs /\ Memory.of = waif_propdefs
  BY MemoryIs
<1>2. a # Null => waifs[w].class # NOTHING
  BY <1>1, WaifOf
<1>3. a \in held <=> \E x \in Below(oid) : waif_propdefs[x] = waifs[w].propdefs
  BY <1>1 DEF HeldOf
<1> QED
  BY <1>1, <1>2, <1>3 DEF Sees, There

\* What is expected of one waif when its class is another, or has other names.
ExpectedOf(m, w, k, V, link, names, V2, link2, names2) ==
  IF m.waifs[w].class = NOTHING THEN {}
  ELSE Following(k, NamesIn(m, w), DefinedIn(V, link, names, m.waifs[w].class),
                 DefinedIn(V2, link2, names2, m.waifs[w].class))

FollowOf(w, V, link, names, V2, link2, names2) ==
  Follow(w, Definitions(V, link, names, waifs[w].class), Definitions(V2, link2, names2, waifs[w].class))
LEMMA ExpectedIs ==
  ASSUME NEW V, NEW link, Tree(V, link), NEW names, NEW V2, NEW link2, Tree(V2, link2), NEW names2,
         NEW w, There(w)
  PROVE  FollowOf(w, V, link, names, V2, link2, names2)
           = ExpectedOf(Memory, w, kept[w], V, link, names, V2, link2, names2)
<1>c. PICK c : c = waifs[w].class
  OBVIOUS
<1>a. PICK old, new : old = DefinedIn(V, link, names, c) /\ new = DefinedIn(V2, link2, names2, c)
  OBVIOUS
<1>1. old = Definitions(V, link, names, c) /\ new = Definitions(V2, link2, names2, c)
  BY <1>a, DefinitionsIs
<1>2. Follow(w, old, new) = Following(kept[w], NamesIn(Memory, w), old, new)
  BY FollowIs
<1>3. Memory.waifs = waifs
  BY MemoryIs
<1> QED
  BY <1>1, <1>2, <1>3, <1>a, <1>c DEF ExpectedOf, FollowOf, There

\* A name that is new is in the list of the waif by the same number of the lists.
RenamedFor(w, seen, old, new, m, V, link, names, names2) ==
  /\ put'[w] = IF seen THEN PutElsewhere(put[w], old, new) ELSE put[w]
  /\ kept'[w] = IF seen THEN RenamedIn(kept[w], old, new)
                ELSE ExpectedOf(m, w, kept[w], V, link, names, V, link, names2)

LEMMA ExpectRenamedIs ==
  ASSUME MemOK(Memory), Tree(valid, Parent), UNCHANGED vars, NEW oid, NEW old, NEW new,
         ExpectRenamed(oid, old, new), NEW held, held = HeldOf(Memory, Below(oid))
  PROVE  /\ put' = [w \in Waif |-> put'[w]] /\ kept' = [w \in Waif |-> kept'[w]]
         /\ \A w \in Waif :
               RenamedFor(w, Memory.waifs[w].propdefs # Null /\ Memory.waifs[w].propdefs \in held,
                          old, new, Memory, valid, Parent, propdefs, propdefs')
<1>1. /\ put' = [w \in Waif |-> IF Sees(w, oid) THEN PutElsewhere(put[w], old, new) ELSE put[w]]
      /\ kept' = [w \in Waif |->
             IF ~There(w) THEN {}
             ELSE IF Sees(w, oid) THEN RenamedIn(kept[w], old, new)
             ELSE FollowOf(w, valid, Parent, propdefs, valid, Parent, propdefs')]
  BY DEF ExpectRenamed, PutElsewhere, RenamedIn, FollowOf
<1>2. ASSUME NEW w \in Waif, NEW seen,
             seen = (Memory.waifs[w].propdefs # Null /\ Memory.waifs[w].propdefs \in held)
      PROVE  RenamedFor(w, seen, old, new, Memory, valid, Parent, propdefs, propdefs')
  <2>a. PICK a, m, names, names2, V, link : /\ a = Memory.waifs[w].propdefs /\ m = Memory
                                   /\ names = propdefs /\ names2 = propdefs'
                                   /\ V = valid /\ link = Parent
    OBVIOUS
  <2>1. /\ Sees(w, oid) <=> seen
        /\ There(w) <=> m.waifs[w].class # NOTHING
        /\ ~There(w) => ~Sees(w, oid)
    BY <1>2, <2>a, SeesIs
  <2>2. There(w) => FollowOf(w, V, link, names, V, link, names2)
                      = ExpectedOf(m, w, kept[w], V, link, names, V, link, names2)
    BY <2>a, ExpectedIs
  <2>3. ~There(w) => ExpectedOf(m, w, kept[w], V, link, names, V, link, names2) = {}
    BY <2>1 DEF ExpectedOf
  <2>4. kept'[w] = IF ~There(w) THEN {} ELSE IF Sees(w, oid) THEN RenamedIn(kept[w], old, new)
                   ELSE FollowOf(w, V, link, names, V, link, names2)
    BY <1>1, <2>a
  <2>5. put'[w] = IF seen THEN PutElsewhere(put[w], old, new) ELSE put[w]
    BY <1>1, <2>1
  <2>6. kept'[w] = IF seen THEN RenamedIn(kept[w], old, new)
                   ELSE ExpectedOf(m, w, kept[w], V, link, names, V, link, names2)
    BY <2>1, <2>2, <2>3, <2>4
  <2> QED
    BY <2>5, <2>6, <2>a DEF RenamedFor
<1>3. put' = [w \in Waif |-> put'[w]] /\ kept' = [w \in Waif |-> kept'[w]]
  BY <1>1
<1> QED
  BY <1>2, <1>3

LEMMA RightTypes ==
  ASSUME NEW m, NEW d, NEW w, NEW p, NEW k, WaifRight(m, d, w, p, k)
  PROVE  p \in Puts /\ k \in SUBSET Names
<1>a. PICK L : L = NamesIn(m, w)
  OBVIOUS
<1>1. L \in Seq(Names) /\ p \in Puts /\ k \subseteq ToSet(L)
  BY <1>a DEF WaifRight, ValuesRight, KeptRight
<1> QED
  BY <1>1, InSet

LEMMA EachRight ==
  ASSUME NEW m, NEW d, NEW ps, NEW ks, ps = [w \in Waif |-> ps[w]], ks = [w \in Waif |-> ks[w]],
         \A w \in Waif : WaifRight(m, d, w, ps[w], ks[w])
  PROVE  AllRight(m, d, ps, ks)
<1>1. \A w \in Waif : ps[w] \in Puts /\ ks[w] \in SUBSET Names
  BY RightTypes
<1> QED
  BY <1>1 DEF AllRight

LEMMA RenamedNext ==
  ASSUME NEW V, NEW link, NEW names, Tree(V, link), EachOnce(names), NEW m, WaifsRight(V, link, names, m),
         NEW oid \in V, NEW old \in Names \ Plain, NEW new \in Names \ Plain,
         old \in ToSet(names[oid]), Unheard(V, link, names, oid, {new}),
         NEW names2, names2 = OneRenamed(names, oid, old, new),
         NEW held, held = HeldOf(m, AllAt(V, link, oid)),
         NEW m2, m2 = Mem(InPlace(m.lists, held, old, new), m.of, m.waifs),
         WaifsRight(V, link, names2, m2), AllRight(m, Defs(names, link), put, kept),
         put' = [w \in Waif |-> put'[w]], kept' = [w \in Waif |-> kept'[w]],
         \A w \in Waif : RenamedFor(w, m.waifs[w].propdefs # Null /\ m.waifs[w].propdefs \in held,
                                    old, new, m, V, link, names, names2)
  PROVE  EachOnce(names2) /\ AllRight(m2, Defs(names2, link), put', kept')
<1>1. /\ link \in Links /\ Acyclic(link) /\ V \subseteq Oid /\ oid \in Oid
      /\ names \in [Oid -> Seq(Names)] /\ Names0(V, link, names) /\ Names0(V, link, names2) /\ MemOK(m)
  BY DEF Tree, WaifsRight, Names0
<1>a. PICK s, t : s = names[oid] /\ t = Rename(s, old, new)
  OBVIOUS
<1>2. t \in Seq(Names) /\ IsInjective(t) /\ SameOrder(s, t)
  <2>1. s \in Seq(Names) /\ IsInjective(s)
    BY <1>1, <1>a DEF EachOnce
  <2>2. new \notin ToSet(s)
    <3>1. oid \in Up(link, oid)
      BY <1>1, UpOK
    <3> QED
      BY <1>a, <3>1 DEF Unheard
  <2> QED
    BY <1>a, <2>1, <2>2, RenamedInOrder
<1>3. names2 = [names EXCEPT ![oid] = t]
  BY <1>a DEF OneRenamed
<1>4. EachOnce(names2)
  BY <1>1, <1>2, <1>3 DEF EachOnce
<1>5. \A x \in Oid : SameOrder(names[x], names2[x])
  BY <1>1, <1>2, <1>3, <1>a, SameOrderEach
<1>6. \A c \in Oid : KeepsOrder(link, names, link, names2, c)
  BY <1>1, <1>5, OrderKept
<1>7. ASSUME NEW w \in Waif PROVE WaifRight(m2, Defs(names2, link), w, put'[w], kept'[w])
  <2>a. PICK p, k, a, c : p = put[w] /\ k = kept[w] /\ a = m.waifs[w].propdefs /\ c = m.waifs[w].class
    OBVIOUS
  <2>b. PICK p2, k2 : p2 = put'[w] /\ k2 = kept'[w]
    OBVIOUS
  <2>1. WaifRight(m, Defs(names, link), w, p, k) /\ c \in OidOrNothing
    BY <1>1, <2>a, WaifOf DEF AllRight
  <2>2. CASE a # Null /\ a \in held
    <3>1. p2 = PutElsewhere(p, old, new) /\ k2 = RenamedIn(k, old, new)
      BY <2>2, <2>a, <2>b DEF RenamedFor
    <3>2. WaifRight(m2, Defs(names2, link), w, p2, k2)
      BY <1>4, <2>1, <2>2, <2>a, <3>1, OneRenamedRight
    <3> QED
      BY <2>b, <3>2
  <2>3. CASE ~(a # Null /\ a \in held)
    <3>1. p2 = p /\ k2 = ExpectedOf(m, w, k, V, link, names, V, link, names2)
      BY <2>3, <2>a, <2>b DEF RenamedFor
    <3>2. SameNames(m, m2, w) /\ StillOwns(m, m2, w, k, V)
      BY <1>4, <2>1, <2>3, <2>a, OneRenamedRight
    <3>3. k2 = IF c = NOTHING THEN {}
               ELSE Following(k, NamesIn(m, w), DefinedIn(V, link, names, c),
                              DefinedIn(V, link, names2, c))
      BY <2>a, <3>1 DEF ExpectedOf
    <3>4. c \in V => KeepsOrder(link, names, link, names2, c)
      BY <1>1, <1>6
    <3>5. WaifRight(m2, Defs(names2, link), w, p, k2)
      BY <1>1, <1>4, <2>1, <2>a, <3>2, <3>3, <3>4, FollowedRight
    <3> QED
      BY <2>b, <3>1, <3>5
  <2> QED
    BY <2>2, <2>3
<1>8. AllRight(m2, Defs(names2, link), put', kept')
  <2>a. PICK ps, ks, d : ps = put' /\ ks = kept' /\ d = Defs(names2, link)
    OBVIOUS
  <2>1. AllRight(m2, d, ps, ks)
    BY <1>7, <2>a, EachRight
  <2> QED
    BY <2>1, <2>a
<1> QED
  BY <1>4, <1>8

LEMMA RenamePropdefRight ==
  ASSUME KInv, WInv', NEW oid \in Oid, NEW old \in Names, NEW new \in Names,
         RenamePropdef(oid, old, new)
  PROVE  KInv'
<1>a. PICK s, t : s = propdefs[oid] /\ t = Rename(s, old, new)
  OBVIOUS
<1>1. /\ oid \in valid /\ old \in ToSet(s) /\ MayDefine(oid, new)
      /\ propdefs' = [propdefs EXCEPT ![oid] = t] /\ UNCHANGED vars
  <2>1. propdefs' = [propdefs EXCEPT ![oid] = Rename(propdefs[oid], old, new)]
    BY DEF RenamePropdef
  <2> QED
    BY <2>1, <1>a DEF RenamePropdef
<1>2. IInv /\ s \in Seq(Names) /\ IsInjective(s) /\ Parent \in Links /\ WInv /\ MemOK(Memory)
  BY <1>a, KInvFacts DEF Names0, KInv, EachOnce, Tree
<1>3. Unheard(valid, Parent, propdefs, oid, {new})
  BY <1>1, <1>2, MayDefineIs
<1>4. CASE {old, new} \cap Plain = {}
  <2>1. /\ Becomes(RenamedInPlace(oid, old, new)) /\ ExpectRenamed(oid, old, new)
        /\ old \in Names \ Plain /\ new \in Names \ Plain
    BY <1>4 DEF RenamePropdef
  <2>a. PICK V, link, names, m : V = valid /\ link = Parent /\ names = propdefs /\ m = Memory
    OBVIOUS
  <2>b. PICK B, held : B = Below(oid) /\ held = HeldOf(m, B)
    OBVIOUS
  <2>c. PICK m2, names2 : /\ m2 = Mem(InPlace(m.lists, held, old, new), m.of, m.waifs)
                          /\ names2 = OneRenamed(names, oid, old, new)
    OBVIOUS
  <2>2. m2 = RenamedInPlace(oid, old, new)
    <3>1. m.lists = lists /\ m.of = waif_propdefs /\ m.waifs = waifs
      BY <2>a, MemoryIs
    <3> QED
      BY <3>1, <2>a, <2>b, <2>c, InPlaceIs
  <2>3. B = AllAt(V, link, oid)
    BY <1>2, <2>a, <2>b, BelowIs DEF AllAt
  <2>4. Tree(V, link) /\ WaifsRight(V, link, names, m) /\ Unheard(V, link, names, oid, {new})
    BY <1>2, <1>3, <2>a, TreeNow DEF WInv
  <2>5. oid \in V /\ old \in ToSet(names[oid])
    BY <1>1, <1>a, <2>a
  <2>6. WaifsRight(V, link, names2, m2)
    BY <2>1, <2>3, <2>4, <2>5, <2>b, <2>c, RenamedOK
  <2>7. names2 = propdefs'
    BY <1>1, <1>a, <2>a, <2>c DEF OneRenamed
  <2>8. Memory' = m2
    BY <2>1, <2>2, <2>6, BecomesIs DEF WaifsRight, MemOK
  <2>9. Parent' = link
    BY <1>1, <2>a DEF vars, Parent
  <2>10. EachOnce(names) /\ AllRight(m, Defs(names, link), put, kept)
    BY <2>a, KInvFacts DEF KInv
  <2>11. /\ put' = [w \in Waif |-> put'[w]] /\ kept' = [w \in Waif |-> kept'[w]]
         /\ \A w \in Waif : RenamedFor(w, m.waifs[w].propdefs # Null /\ m.waifs[w].propdefs \in held,
                                       old, new, m, V, link, names, names2)
    <3>1. MemOK(Memory) /\ Tree(valid, Parent) /\ UNCHANGED vars /\ held = HeldOf(Memory, Below(oid))
      BY <1>1, <1>2, <2>4, <2>a, <2>b
    <3>2. /\ put' = [w \in Waif |-> put'[w]] /\ kept' = [w \in Waif |-> kept'[w]]
          /\ \A w \in Waif :
               RenamedFor(w, Memory.waifs[w].propdefs # Null /\ Memory.waifs[w].propdefs \in held,
                          old, new, Memory, valid, Parent, propdefs, propdefs')
      BY <2>1, <3>1, ExpectRenamedIs
    <3> QED
      BY <2>7, <2>a, <3>2
  <2>12. EachOnce(names2) /\ AllRight(m2, Defs(names2, link), put', kept')
    BY <2>1, <2>3, <2>4, <2>5, <2>6, <2>10, <2>11, <2>b, <2>c, RenamedNext
  <2> QED
    BY <2>7, <2>8, <2>9, <2>12 DEF KInv
<1>5. CASE {old, new} \cap Plain # {}
  <2>1. Becomes(LetGo(Below(oid))) /\ Expect
    BY <1>5 DEF RenamePropdef
  <2>2. new \notin ToSet(s)
    <3>1. oid \in Up(Parent, oid)
      BY <1>2, UpOK
    <3> QED
      BY <1>1, <1>3, <1>a, <3>1 DEF Unheard
  <2>3. t \in Seq(Names) /\ IsInjective(t) /\ SameOrder(s, t)
    BY <1>2, <1>a, <2>2, RenamedInOrder
  <2> QED
    BY <1>1, <1>a, <2>1, <2>3, ChangedRight
<1> QED
  BY <1>4, <1>5

-----------------------------------------------------------------------------
(* Objects get another parent, are created and recycled.                   *)

\* The way up to an object is the same when only what is above that changes.
LEMMA WayUp ==
  ASSUME NEW link \in Links, Acyclic(link), NEW link2 \in Links, NEW oid \in Oid,
         \A x \in Oid \ {oid} : link2[x] = link[x],
         NEW x \in Oid, NEW y \in Up(link, x), oid \in Up(link, y)
  PROVE  y \in Up(link2, x)
<1> SUFFICES ASSUME y \notin Up(link2, x) PROVE FALSE
  OBVIOUS
<1>a. PICK R : R = Up(link2, x)
  OBVIOUS
<1>1. x \in R /\ R \subseteq Oid /\ ClosedUp(link2, R) /\ y \in Oid
  BY <1>a, UpOK
<1> DEFINE S == {z \in R : y \in Up(link, z)}
<1>2. ASSUME NEW z \in S, link[z] # NOTHING PROVE link[z] \in S
  <2>1. z \in Oid /\ y \in Up(link, z) /\ z # y /\ z \in R
    BY <1>1, <1>a
  <2>2. z # oid
    <3> SUFFICES ASSUME z = oid PROVE FALSE
      OBVIOUS
    <3>1. oid \in Up(link, y) /\ y \in Up(link, oid)
      BY <2>1
    <3> QED
      BY <1>1, <2>1, <3>1, NoRound
  <2>3. link2[z] = link[z] /\ link[z] \in R
    BY <1>1, <1>2, <2>1, <2>2 DEF ClosedUp
  <2>4. y \in Up(link, link[z])
    BY <2>1, UpIs
  <2> QED
    BY <2>3, <2>4
<1>3. x \in S /\ S \in SUBSET Oid /\ ClosedUp(link, S)
  <2>1. x \in S /\ S \in SUBSET Oid
    BY <1>1
  <2> HIDE DEF S
  <2> QED
    BY <1>2, <2>1 DEF ClosedUp
<1>4. Up(link, x) \subseteq S
  <2> HIDE DEF S
  <2> QED
    BY <1>3, UpOK
<1> QED
  BY <1>4, <1>a

LEMMA OrderUnder ==
  ASSUME NEW link \in Links, Acyclic(link), NEW link2 \in Links, Acyclic(link2), NEW oid \in Oid,
         \A x \in Oid \ {oid} : link2[x] = link[x],
         NEW names \in [Oid -> Seq(Names)], EachOnce(names), NEW c \in Oid
  PROVE  KeepsOrder(link, names, link2, names, c)
<1>1. \A x \in Up(link, c) : x \in Oid
  BY UpOK
<1>2. ASSUME NEW x \in Up(link, c), NEW y \in Up(link, c), x # y, y \in Up(link, x), x \in Up(link2, y)
      PROVE  FALSE
  <2>1. x \in Oid /\ y \in Oid
    BY <1>1
  <2>2. CASE oid \in Up(link, y)
    <3>1. y \in Up(link2, x)
      BY <1>2, <2>1, <2>2, WayUp
    <3> QED
      BY <1>2, <2>1, <3>1, NoRound
  <2>3. CASE oid \notin Up(link, y)
    <3>1. \A z \in Up(link, y) : link2[z] = link[z]
      BY <2>1, <2>3, UpOK
    <3>2. Up(link2, y) = Up(link, y)
      BY <2>1, <3>1, UpSame, UpOK
    <3> QED
      BY <1>2, <2>1, <3>2, NoRound
  <2> QED
    BY <2>2, <2>3
<1>3. ASSUME NEW x \in Up(link, c) PROVE SameOrder(names[x], names[x])
  <2>a. PICK t : t = names[x]
    OBVIOUS
  <2>1. t \in Seq(Names) /\ IsInjective(t)
    BY <1>1, <2>a DEF EachOnce
  <2> QED
    BY <2>1, <2>a, SameOrderAsItself
<1> QED
  BY <1>2, <1>3 DEF KeepsOrder

LEMMA ChparentWaifsRight ==
  ASSUME KInv, WInv', NEW oid \in Oid, NEW p \in OidOrNothing, ChparentWaifs(oid, p)
  PROVE  KInv'
<1>1. /\ oid \in valid /\ p \in valid \cup {NOTHING} /\ oid \notin Up(Parent, p)
      /\ valid' = valid /\ obj' = ChangeParent(obj, oid, p) /\ propdefs' = propdefs /\ Expect
  BY DEF ChparentWaifs, Chparent, ValidOrNothing
<1>a. PICK B, u : B = Below(oid) /\ u = LetGo(B)
  OBVIOUS
<1>2. /\ IInv /\ MemOK(Memory) /\ Tree(valid, Parent) /\ Names0(valid, Parent, propdefs)
      /\ valid \subseteq Oid /\ EachOnce(propdefs)
  BY KInvFacts DEF KInv
<1>3. IInv' /\ Tree(valid', Parent')
  BY TreeNext DEF WInv
<1>4. Parent' \in Links /\ \A x \in Oid \ {oid} : Parent'[x] = Parent[x]
  <2>1. obj \in [Oid -> Object]
    BY <1>2, IInvFacts
  <2>2. ChangeParentMade(obj, oid, p, obj')
    BY <1>1, <2>1, ChangeParentIs
  <2>3. Parent' \in Links
    BY <1>3 DEF Tree
  <2> QED
    BY <2>2, <2>3 DEF ChangeParentMade, Parent
<1>5. B \in SUBSET Oid /\ LetGoMade(Memory, u, B)
  BY <1>2, <1>a, BelowIs, LetGoOK
<1>6. ASSUME NEW c \in valid PROVE KeepsOrder(Parent, propdefs, Parent', propdefs, c)
  <2>a. PICK link, link2, names : link = Parent /\ link2 = Parent' /\ names = propdefs
    OBVIOUS
  <2>1. /\ link \in Links /\ link2 \in Links /\ Acyclic(link) /\ Acyclic(link2)
        /\ \A x \in Oid \ {oid} : link2[x] = link[x]
        /\ names \in [Oid -> Seq(Names)] /\ EachOnce(names) /\ c \in Oid
    BY <1>2, <1>3, <1>4, <2>a DEF Tree, Names0
  <2>2. KeepsOrder(link, names, link2, names, c)
    BY <2>1, OrderUnder
  <2> QED
    BY <2>2, <2>a
<1>7. Becomes(u)
  BY <1>a DEF ChparentWaifs
<1>8. \A c \in valid \cap valid' : KeepsOrder(Parent, propdefs, Parent', propdefs', c)
  BY <1>1, <1>6
<1>9. EachOnce(propdefs')
  BY <1>1, <1>2
<1> QED
  BY <1>1, <1>5, <1>7, <1>8, <1>9, LetGoRight

LEMMA NewObjectRight ==
  ASSUME KInv, WInv', NEW n \in Oid \ valid, NEW p \in OidOrNothing,
         valid' = valid \cup {n}, obj' = ChangeParent(obj, n, p),
         Becomes(Memory), UNCHANGED propdefs, Expect
  PROVE  KInv'
<1>1. /\ IInv /\ MemOK(Memory) /\ Tree(valid, Parent) /\ Names0(valid, Parent, propdefs)
      /\ valid \subseteq Oid /\ EachOnce(propdefs)
  BY KInvFacts DEF KInv
<1>2. Parent' \in Links /\ \A x \in Oid \ {n} : Parent'[x] = Parent[x]
  <2>1. obj \in [Oid -> Object]
    BY <1>1, IInvFacts
  <2>2. ChangeParentMade(obj, n, p, obj')
    BY <2>1, ChangeParentIs
  <2>3. Parent' \in Links
    BY TreeNext DEF Tree, WInv
  <2> QED
    BY <2>2, <2>3 DEF ChangeParentMade, Parent
<1>3. ASSUME NEW c \in valid PROVE KeepsOrder(Parent, propdefs, Parent', propdefs, c)
  <2>a. PICK link, link2, names, V : /\ link = Parent /\ link2 = Parent' /\ names = propdefs
                                     /\ V = valid
    OBVIOUS
  <2>1. /\ link \in Links /\ link2 \in Links /\ Acyclic(link) /\ Up(link, c) \subseteq V
        /\ names \in [Oid -> Seq(Names)] /\ EachOnce(names) /\ c \in Oid /\ V \subseteq Oid \ {n}
    BY <1>1, <1>2, <2>a DEF Tree, Names0
  <2>2. \A x \in Up(link, c) : link2[x] = link[x]
    BY <1>2, <2>1, <2>a
  <2>3. \A y \in Up(link, c) : Up(link2, y) \subseteq Up(link, y)
    BY <2>1, <2>2, UpSame
  <2>4. \A x \in Oid : SameOrder(names[x], names[x])
    <3> SUFFICES ASSUME NEW x \in Oid PROVE SameOrder(names[x], names[x])
      OBVIOUS
    <3>a. PICK t : t = names[x]
      OBVIOUS
    <3>1. t \in Seq(Names) /\ IsInjective(t)
      BY <2>1, <3>a DEF EachOnce
    <3> QED
      BY <3>1, <3>a, SameOrderAsItself
  <2>5. KeepsOrder(link, names, link2, names, c)
    BY <2>1, <2>3, <2>4, OrderKept
  <2> QED
    BY <2>5, <2>a
<1>4. LetGoMade(Memory, Memory, {})
  <2>a. PICK m : m = Memory
    OBVIOUS
  <2> QED
    BY <1>1, <2>a, NoneLetGo
<1>c. PICK B, u : B = {} /\ u = Memory
  OBVIOUS
<1>5. \A c \in valid \cap valid' : KeepsOrder(Parent, propdefs, Parent', propdefs', c)
  BY <1>3
<1>6. EachOnce(propdefs')
  BY <1>1
<1>7. B \in SUBSET Oid /\ LetGoMade(Memory, u, B) /\ Becomes(u)
  BY <1>4, <1>c
<1> QED
  BY <1>5, <1>6, <1>7, LetGoRight

LEMMA CreateWaifsRight ==
  ASSUME KInv, WInv', NEW p \in OidOrNothing, CreateWaifs(p)
  PROVE  KInv'
<1>1. IInv /\ Becomes(Memory) /\ UNCHANGED propdefs /\ Expect
  BY KInvFacts DEF CreateWaifs
<1>2. CASE Create(p)
  <2>1. num \in Oid \ valid /\ valid' = valid \cup {num} /\ obj' = ChangeParent(obj, num, p)
    BY <1>1, <1>2, IInvFacts DEF Create, Oid
  <2> QED
    BY <1>1, <2>1, NewObjectRight
<1>3. CASE CreateYoung(p)
  <2>a. PICK n : n = Lowest(valid, num)
    OBVIOUS
  <2>1. valid' = valid \cup {n} /\ obj' = ChangeParent(obj, n, p) /\ num <= MaxOid
    BY <1>3, <2>a DEF CreateYoung
  <2>2. n \in Oid \ valid
    <3>1. num \in Nat /\ \A o \in valid : o < num
      BY <1>1, IInvFacts
    <3>2. n \in 0..num /\ (n = num \/ n \notin valid)
      BY <2>a, <3>1, LowestOK
    <3>3. n \notin valid
      BY <3>1, <3>2
    <3> QED
      BY <1>1, <2>1, <3>1, <3>2, <3>3, IInvFacts DEF Oid
  <2> QED
    BY <1>1, <2>1, <2>2, NewObjectRight
<1> QED
  BY <1>2, <1>3 DEF CreateWaifs

LEMMA RecycleWaifsRight ==
  ASSUME KInv, WInv', NEW oid \in Oid, RecycleWaifs(oid)
  PROVE  KInv'
<1>a. PICK B, u : B = Below(oid) /\ u = LetGo(B)
  OBVIOUS
<1>1. /\ oid \in valid /\ Destroy(oid) /\ valid' = valid \ {oid}
      /\ propdefs' = [propdefs EXCEPT ![oid] = <<>>] /\ Becomes(u) /\ Expect
  BY <1>a DEF RecycleWaifs, Recycle, Destroy
<1>2. /\ IInv /\ MemOK(Memory) /\ Tree(valid, Parent) /\ Names0(valid, Parent, propdefs)
      /\ valid \subseteq Oid /\ EachOnce(propdefs)
  BY KInvFacts DEF KInv
<1>3. Parent \in Links /\ Parent' \in Links /\ ParentsGone(Parent, oid, Parent')
  <2>1. Parent \in Links /\ Parent' \in Links
    BY <1>2, TreeNext DEF Tree, WInv
  <2>a. PICK e, p : e = Emptied(obj, oid) /\ p = Orphaned(e, oid)
    OBVIOUS
  <2>2. obj' = Removed(p, oid)
    BY <1>1, <2>a DEF Destroy, Removed
  <2>3. Sound(obj, valid)
    BY <1>2, IInvFacts
  <2>4. ParentsLeft(obj, oid, obj')
    BY <1>1, <2>2, <2>3, <2>a, DestroyedParents
  <2> QED
    BY <2>1, <2>4 DEF ParentsLeft, ParentsGone, Parent
<1>b. PICK link, link2, names, names2 :
        link = Parent /\ link2 = Parent' /\ names = propdefs /\ names2 = propdefs'
  OBVIOUS
<1>4. \A o \in Oid : Up(link2, o) \subseteq Up(link, o)
  BY <1>3, <1>b, LessUp
<1>5. B \in SUBSET Oid /\ LetGoMade(Memory, u, B)
  BY <1>2, <1>a, BelowIs, LetGoOK
<1>6. /\ names \in [Oid -> Seq(Names)] /\ names2 = [names EXCEPT ![oid] = <<>>]
      /\ Acyclic(link) /\ link \in Links /\ EachOnce(names)
  BY <1>1, <1>2, <1>b DEF Names0, Tree
<1>7. \A x \in Oid : SameOrder(names[x], names2[x])
  <2>1. SameOrder(names[oid], <<>>)
    BY NoNamesIs DEF SameOrder
  <2>s. PICK s : s = <<>>
    OBVIOUS
  <2>2. SameOrder(names[oid], s) /\ names2 = [names EXCEPT ![oid] = s]
    BY <1>6, <2>1, <2>s
  <2> QED
    BY <1>6, <2>2, SameOrderEach
<1>8. EachOnce(names2)
  <2>1. ASSUME NEW x \in Oid PROVE IsInjective(names2[x])
    <3>1. CASE x = oid
      BY <1>6, <3>1, NoNamesIs
    <3>2. CASE x # oid
      BY <1>6, <3>2 DEF EachOnce
    <3> QED
      BY <3>1, <3>2
  <2> QED
    BY <2>1 DEF EachOnce
<1>9. ASSUME NEW c \in valid PROVE KeepsOrder(link, names, link2, names2, c)
  <2>1. c \in Oid /\ \A y \in Up(link, c) : Up(link2, y) \subseteq Up(link, y)
    BY <1>2, <1>4, <1>6, UpOK
  <2> QED
    BY <1>6, <1>7, <2>1, OrderKept
<1>10. \A c \in valid \cap valid' : KeepsOrder(Parent, propdefs, Parent', propdefs', c)
  BY <1>9, <1>b
<1>11. EachOnce(propdefs')
  BY <1>8, <1>b
<1> QED
  BY <1>1, <1>5, <1>10, <1>11, LetGoRight

-----------------------------------------------------------------------------
(* Objects get other numbers.                                              *)

LEMMA OrderMoved ==
  ASSUME NEW V, NEW link, Tree(V, link), NEW names \in [Oid -> Seq(Names)], EachOnce(names),
         NEW old \in V, NEW new \in Oid \ V, NEW V2, V2 = Replace(V, old, new),
         NEW link2, Tree(V2, link2), ParentsMoved(link, old, new, link2),
         NEW names2, names2 = NamesMoved(names, old, new), NEW c \in V \cap V2
  PROVE  KeepsOrder(link, names, link2, names2, c)
<1>1. /\ V \subseteq Oid /\ link \in Links /\ link2 \in Links /\ Acyclic(link)
      /\ old \in Oid /\ new \in Oid /\ old # new /\ old \notin V2 /\ new \notin V /\ c \in Oid
  BY DEF Tree, Replace
<1>2. /\ Up(link, c) \subseteq V /\ Up(link2, c) \subseteq V2
      /\ \A y \in V : Up(link, y) \subseteq V
  BY DEF Tree
<1>3. \A x \in Oid \ {old, new} : names2[x] = names[x]
  BY DEF NamesMoved
<1>4. ASSUME NEW x \in Up(link, c) \cap Up(link2, c), NEW y \in Up(link, c) \cap Up(link2, c),
             x # y, y \in Up(link, x), x \in Up(link2, y)
      PROVE  FALSE
  <2>1. x \in Oid \ {old, new} /\ y \in Oid \ {old, new} /\ y \in V
    BY <1>1, <1>2
  <2>a. PICK U : U = Up(link, y)
    OBVIOUS
  <2>b. PICK T : T = U \cup IF old \in U THEN {new} ELSE {}
    OBVIOUS
  <2>2. U \subseteq V /\ y \in U /\ ClosedUp(link, U)
    BY <1>1, <1>2, <2>1, <2>a, UpOK
  <2>3. ASSUME NEW z \in T, link2[z] # NOTHING PROVE link2[z] \in T
    <3>1. CASE z \in U /\ z # old
      <4>1. z \in Oid \ {old, new}
        BY <1>1, <2>2, <3>1
      <4>2. link2[z] = IF link[z] = old THEN new ELSE link[z]
        BY <4>1 DEF ParentsMoved
      <4>3. link[z] # NOTHING
        BY <1>1, <2>3, <4>2, NothingIsNoOid
      <4>4. link[z] \in U
        BY <2>2, <3>1, <4>3 DEF ClosedUp
      <4> QED
        BY <2>b, <4>2, <4>4
    <3>2. CASE z = old
      BY <2>3, <3>2 DEF ParentsMoved
    <3>3. CASE z = new
      <4>1. old \in U
        BY <1>1, <2>2, <2>b, <3>3
      <4>2. link2[z] = link[old]
        BY <3>3 DEF ParentsMoved
      <4> QED
        BY <2>2, <2>3, <2>b, <4>1, <4>2 DEF ClosedUp
    <3> QED
      BY <2>b, <3>1, <3>2, <3>3
  <2>4. y \in T /\ T \in SUBSET Oid /\ ClosedUp(link2, T)
    <3>1. ClosedUp(link2, T)
      BY <2>3 DEF ClosedUp
    <3> QED
      BY <1>1, <2>2, <2>b, <3>1
  <2>5. Up(link2, y) \subseteq T
    BY <1>1, <2>1, <2>4, UpOK
  <2>6. x \in Up(link, y)
    BY <1>4, <2>1, <2>5, <2>a, <2>b
  <2> QED
    BY <1>1, <1>4, <2>1, <2>6, NoRound
<1>5. ASSUME NEW x \in Up(link, c) \cap Up(link2, c) PROVE SameOrder(names[x], names2[x])
  <2>a. PICK t : t = names[x]
    OBVIOUS
  <2>1. x \in Oid \ {old, new}
    BY <1>1, <1>2
  <2>2. t \in Seq(Names) /\ IsInjective(t) /\ names2[x] = t
    BY <1>3, <2>1, <2>a DEF EachOnce
  <2> QED
    BY <2>2, <2>a, SameOrderAsItself
<1> QED
  BY <1>4, <1>5 DEF KeepsOrder

LEMMA MovedOwns ==
  ASSUME NEW m, MemOK(m), NEW old \in Oid, NEW new \in Oid, old # new, m.of[new] = Null,
         NEW u, u = Mem(m.lists, OfMoved(m.of, old, new), m.waifs),
         NEW w, NEW d, NEW p, NEW k, WaifRight(m, d, w, p, k), NEW V2, old \notin V2
  PROVE  SameNames(m, u, w) /\ StillOwns(m, u, w, k, V2)
<1>1. /\ u.lists = m.lists /\ u.of[new] = m.of[old] /\ u.of[old] = Null /\ u.waifs = m.waifs
      /\ \A x \in Oid \ {old, new} : u.of[x] = m.of[x]
  BY MovedOK
<1>2. SameNames(m, u, w)
  BY <1>1 DEF SameNames, NamesIn
<1>a. PICK a, c : a = m.waifs[w].propdefs /\ c = m.waifs[w].class
  OBVIOUS
<1>3. k # {} => a # Null
  <2> SUFFICES ASSUME a = Null PROVE k = {}
    OBVIOUS
  <2>1. NamesIn(m, w) = <<>>
    BY <1>a DEF NamesIn
  <2> QED
    BY <2>1, NoNamesIs DEF WaifRight, KeptRight
<1>4. ASSUME NEW k2, k2 \subseteq k, c \notin V2 => k2 = {}, OwnList(m, w, k), k2 # {},
             NEW o \in Oid, u.of[o] = a
      PROVE  o = c
  <2>1. k # {} /\ c \in V2 /\ a # Null
    BY <1>3, <1>4
  <2>2. \A x \in Oid : m.of[x] = a => x = c
    BY <1>4, <1>a, <2>1 DEF OwnList
  <2>3. CASE o = new
    BY <1>1, <1>4, <2>1, <2>2, <2>3
  <2>4. CASE o = old
    BY <1>1, <1>4, <2>1, <2>4
  <2>5. CASE o \in Oid \ {old, new}
    BY <1>1, <1>4, <2>2, <2>5
  <2> QED
    BY <2>3, <2>4, <2>5
<1>5. ASSUME NEW k2, k2 \subseteq k, c \notin V2 => k2 = {}, OwnList(m, w, k) PROVE OwnList(u, w, k2)
  BY <1>1, <1>4, <1>5, <1>a DEF OwnList
<1> QED
  BY <1>2, <1>5, <1>a DEF StillOwns

LEMMA MovePropdefsRight ==
  ASSUME KInv, WInv', NEW old \in valid, NEW new \in Oid \ valid, SetNumber(old, new),
         MovePropdefs(old, new)
  PROVE  KInv'
<1>a. PICK V, link, names, m : V = valid /\ link = Parent /\ names = propdefs /\ m = Memory
  OBVIOUS
<1>b. PICK V2, link2, names2 : V2 = valid' /\ link2 = Parent' /\ names2 = propdefs'
  OBVIOUS
<1>c. PICK u : u = Mem(m.lists, OfMoved(m.of, old, new), m.waifs)
  OBVIOUS
<1>1. /\ IInv /\ IsMem(m) /\ m.of = waif_propdefs /\ old \in Oid /\ Sound(obj, valid) /\ MemOK(m)
      /\ Tree(V, link) /\ Tree(V2, link2) /\ CurrentIn(m, V, Defs(names, link))
      /\ Names0(V, link, names) /\ Expect /\ EachOnce(names)
      /\ AllRight(m, Defs(names, link), put, kept)
  BY <1>a, <1>b, KInvFacts, MemoryIs, IInvFacts, TreeNext DEF KInv, WInv, MovePropdefs
<1>2. V2 = Replace(V, old, new) /\ names2 = NamesMoved(names, old, new)
  BY <1>a, <1>b DEF SetNumber, MovePropdefs, NamesMoved
<1>3. Becomes(u) /\ IsMem(u)
  <2>a. PICK a : a = waif_propdefs[old]
    OBVIOUS
  <2>1. Becomes(SetTwo(m, old, new, a))
    <3>a. PICK n : n = [Memory EXCEPT !.of[new] = waif_propdefs[old], !.of[old] = Null]
      OBVIOUS
    <3>1. Becomes(n)
      BY <3>a, Zenon DEF MovePropdefs
    <3>2. n = SetTwo(m, old, new, a)
      BY <1>a, <2>a, <3>a DEF SetTwo
    <3> QED
      BY <3>1, <3>2
  <2>2. SetTwo(m, old, new, a) = Mem(m.lists, Exchanged(m.of, old, new, a), m.waifs)
    BY <1>1, OfMovedIs
  <2>3. Exchanged(m.of, old, new, a) = OfMoved(m.of, old, new)
    BY <1>1, <2>a DEF OfMoved, Exchanged
  <2>4. IsMem(u)
    BY <1>c, MemIs
  <2> QED
    BY <1>c, <2>1, <2>2, <2>3, <2>4
<1>4. ParentsMoved(link, old, new, link2)
  <2>1. obj' = ChangeNumber(obj, old, new)
    BY DEF SetNumber
  <2>2. ChangeNumberMade(obj, old, new, obj')
    BY <1>1, <2>1, ChangeNumberIs
  <2>3. obj[old].parent # old
    BY <1>1, Apart
  <2> QED
    BY <1>1, <1>a, <1>b, <2>2, <2>3, FreshIs DEF ChangeNumberMade, ParentsMoved, Parent
<1>5. /\ old \in V /\ new \in Oid \ V /\ names \in [Oid -> Seq(Names)] /\ old \notin V2 /\ old # new
      /\ m.of[new] = Null
  BY <1>1, <1>2, <1>a DEF Names0, Replace, CurrentIn
<1>6. \A c \in V \cap V2 : KeepsOrder(link, names, link2, names2, c)
  BY <1>1, <1>2, <1>4, <1>5, OrderMoved
<1>7. EachOnce(names2)
  <2>1. ASSUME NEW x \in Oid PROVE IsInjective(names2[x])
    <3>1. names2[x] = (IF x = old THEN <<>> ELSE IF x = new THEN names[old] ELSE names[x])
      BY <1>2, <1>5 DEF NamesMoved
    <3> QED
      BY <1>1, <3>1, NoNamesIs DEF EachOnce
  <2> QED
    BY <2>1 DEF EachOnce
<1>8. ASSUME NEW w \in Waif PROVE SameNames(m, u, w) /\ StillOwns(m, u, w, kept[w], V2)
  <2>a. PICK d, p, k : d = Defs(names, link) /\ p = put[w] /\ k = kept[w]
    OBVIOUS
  <2>1. WaifRight(m, d, w, p, k)
    BY <1>1, <2>a DEF AllRight
  <2>2. SameNames(m, u, w) /\ StillOwns(m, u, w, k, V2)
    BY <1>1, <1>5, <1>c, <2>1, MovedOwns
  <2> QED
    BY <2>2, <2>a
<1>9. \A c \in valid \cap valid' : KeepsOrder(Parent, propdefs, Parent', propdefs', c)
  BY <1>6, <1>a, <1>b
<1>10. EachOnce(propdefs') /\ m = Memory
  BY <1>7, <1>a, <1>b
<1>11. \A w \in Waif : SameNames(m, u, w) /\ StillOwns(m, u, w, kept[w], valid')
  BY <1>8, <1>b
<1> QED
  BY <1>1, <1>3, <1>9, <1>10, <1>11, ObjectsRight

LEMMA RenumberWaifsRight ==
  ASSUME KInv, WInv', NEW old \in Oid, RenumberWaifs(old)
  PROVE  KInv'
<1>a. PICK new : new = Lowest(valid, old)
  OBVIOUS
<1>1. old \in valid /\ new # old /\ SetNumber(old, new) /\ MovePropdefs(old, new)
  BY <1>a DEF RenumberWaifs, Renumber
<1>2. new \in Oid \ valid
  <2>1. old \in Nat /\ old <= MaxOid /\ MaxOid \in Nat
    BY MaxOidAssumption DEF Oid
  <2>2. new \in 0..old /\ (new = old \/ new \notin valid)
    BY <1>a, <2>1, LowestOK
  <2> QED
    BY <1>1, <2>1, <2>2 DEF Oid
<1> QED
  BY <1>1, <1>2, MovePropdefsRight

LEMMA SetObjectNumberWaifsRight ==
  ASSUME KInv, WInv', NEW old \in Oid, NEW new \in Oid, SetObjectNumberWaifs(old, new)
  PROVE  KInv'
BY MovePropdefsRight DEF SetObjectNumberWaifs, SetObjectNumber

-----------------------------------------------------------------------------
(* What is written of a waif, and read again.                              *)

\* The values of the n names that have one.
IsWritten(W, map, pv, n) ==
  \A i \in 1..n :
     /\ (\E v \in W : v[1] = i)
          <=> HasPlace(map, i) /\ (i <= Mappable \/ ValueIn(map, pv, i) # CLEAR)
     /\ \A v \in W : v[1] = i => v[2] = ValueIn(map, pv, i)

LEMMA WrittenHas ==
  ASSUME NEW waif, NEW map, map = waif.map, NEW pv, pv = waif.propvals, NEW n, Fit(map, pv, n)
  PROVE  IsWritten(Written(waif, n), map, pv, n)
<1>a. PICK W : W = Written(waif, n)
  OBVIOUS
<1> DEFINE Value(i) == pv[Offset_InMap(map, i)]
           has(i) == HasPlace(map, i) /\ (i <= Mappable \/ Value(i) # CLEAR)
<1>1. W = {<<i, Value(i)>> : i \in {j \in 1..n : has(j)}}
  BY <1>a DEF Written
<1>2. ASSUME NEW i \in 1..n, HasPlace(map, i) PROVE Value(i) = ValueIn(map, pv, i)
  BY <1>2, ValueInIs
<1>3. \A v : v \in W <=> \E i \in 1..n : has(i) /\ v = <<i, Value(i)>>
  BY <1>1
<1>4. \A i \in 1..n : has(i) <=> HasPlace(map, i) /\ (i <= Mappable \/ ValueIn(map, pv, i) # CLEAR)
  BY <1>2
<1>5. \A v \in W : v[1] \in 1..n /\ has(v[1]) /\ v[2] = Value(v[1])
  <2> HIDE DEF has, Value
  <2> QED
    BY <1>3
<1>6. ASSUME NEW i \in 1..n, has(i) PROVE \E v \in W : v[1] = i
  <2> HIDE DEF has, Value
  <2>1. <<i, Value(i)>> \in W
    BY <1>3, <1>6
  <2>2. <<i, Value(i)>>[1] = i
    OBVIOUS
  <2> QED
    BY <2>1, <2>2
<1>7. \A v \in W : v[1] \in 1..n => v[2] = ValueIn(map, pv, v[1])
  BY <1>2, <1>5
<1>8. IsWritten(W, map, pv, n)
  <2> HIDE DEF has, Value
  <2>1. ASSUME NEW i \in 1..n
        PROVE  (\E v \in W : v[1] = i)
                 <=> HasPlace(map, i) /\ (i <= Mappable \/ ValueIn(map, pv, i) # CLEAR)
    BY <1>4, <1>5, <1>6
  <2> QED
    BY <1>7, <2>1 DEF IsWritten
<1> QED
  BY <1>8, <1>a

LEMMA ReadHas ==
  ASSUME NEW map, NEW pv, NEW n, Fit(map, pv, n), NEW W, IsWritten(W, map, pv, n),
         NEW c, NEW r, r = ReadWaif(c, W, n)
  PROVE  /\ Fit(r.map, r.propvals, n)
         /\ \A i \in 1..n : ValueIn(r.map, r.propvals, i) = ValueIn(map, pv, i)
<1>a. PICK values : values = [i \in 1..n |-> IF \E v \in W : v[1] = i
                                             THEN (CHOOSE v \in W : v[1] = i)[2] ELSE CLEAR]
  OBVIOUS
<1>b. PICK map2 : map2 = {i \in 1..n : i <= Mappable /\ \E v \in W : v[1] = i}
  OBVIOUS
<1>1. r.map = map2 /\ r.propvals = Placed(map2, values)
  BY <1>a, <1>b DEF ReadWaif
<1>2. n \in Nat /\ map \in Maps /\ Mappable \in Nat
  BY MapFinite DEF Fit
<1>3. ASSUME NEW i \in 1..n PROVE values[i] = ValueIn(map, pv, i) /\ values[i] \in Vals
  <2>1. ValueIn(map, pv, i) \in Vals /\ (~HasPlace(map, i) => ValueIn(map, pv, i) = CLEAR)
    BY ValueInIs
  <2>2. CASE \E v \in W : v[1] = i
    <3>a. PICK x : x = CHOOSE v \in W : v[1] = i
      OBVIOUS
    <3>1. x \in W /\ x[1] = i
      BY <2>2, <3>a
    <3>2. values[i] = x[2]
      BY <1>a, <2>2, <3>a
    <3> QED
      BY <2>1, <3>1, <3>2 DEF IsWritten
  <2>3. CASE ~ \E v \in W : v[1] = i
    <3>1. values[i] = CLEAR
      BY <1>a, <2>3
    <3>2. ValueIn(map, pv, i) = CLEAR
      BY <2>1, <2>3 DEF IsWritten
    <3> QED
      BY <2>1, <3>1, <3>2
  <2> QED
    BY <2>2, <2>3
<1>4. values \in Seq(Vals) /\ Len(values) = n
  <2>1. values \in [1..n -> Vals]
    BY <1>3, <1>a
  <2> QED
    BY <1>2, <2>1, SeqDef, LenProperties
<1>5. /\ map2 \in Maps /\ map2 \subseteq 1..Len(values)
      /\ \A i \in 1..n : HasPlace(map2, i) <=> i > Mappable \/ (i \in map /\ i <= Mappable)
  <2>1. map2 \subseteq 1..n /\ \A i \in map2 : i \in 1..Mappable
    BY <1>2, <1>b
  <2>2. ASSUME NEW i \in 1..n, i <= Mappable PROVE i \in map2 <=> i \in map
    BY <1>2, <1>b, <2>2 DEF IsWritten, HasPlace
  <2> QED
    BY <1>2, <1>4, <2>1, <2>2 DEF HasPlace, Maps
<1>c. PICK pv2 : pv2 = Placed(map2, values)
  OBVIOUS
<1>6. /\ pv2 \in [1..CountPropvals(map2, n) -> Vals]
      /\ \A i \in 1..n : ValueIn(map2, pv2, i) = IF HasPlace(map2, i) THEN values[i] ELSE CLEAR
  BY <1>4, <1>5, <1>c, PlacedHas
<1>7. ASSUME NEW i \in 1..n PROVE ValueIn(map2, pv2, i) = ValueIn(map, pv, i)
  <2>1. CASE HasPlace(map2, i)
    BY <1>3, <1>6, <2>1
  <2>2. CASE ~HasPlace(map2, i)
    <3>1. ~HasPlace(map, i)
      BY <1>2, <1>5, <2>2 DEF HasPlace
    <3>2. ValueIn(map, pv, i) = CLEAR
      BY <3>1, ValueInIs
    <3> QED
      BY <1>6, <2>2, <3>2
  <2> QED
    BY <2>1, <2>2
<1> QED
  BY <1>1, <1>2, <1>5, <1>6, <1>7, <1>c DEF Fit, Fits

LEMMA AgainReads ==
  ASSUME NEW u, NEW w, NEW waif, waif = u.waifs[w], NEW n, n = Len(NamesIn(u, w)),
         NEW r, r = Again(u, w), NEW s, s = ReadWaif(waif.class, Written(waif, n), n)
  PROVE  /\ r.class = waif.class /\ r.propdefs = ListOf(waif.class)
         /\ r.map = s.map /\ r.propvals = s.propvals
<1>a. PICK x, c : x = ListOf(waif.class) /\ c = waif.class
  OBVIOUS
<1>b. PICK len : len = IF u.waifs[w].propdefs = Null THEN 0
                       ELSE Len(u.lists[u.waifs[w].propdefs].defs)
  OBVIOUS
<1>c. PICK t : t = ReadWaif(c, Written(u.waifs[w], len), len)
  OBVIOUS
<1>d. PICK z : z = Again(u, w)
  OBVIOUS
<1>1. t = s
  <2>1. len = n
    BY <1>b, NoNamesIs DEF NamesIn
  <2> QED
    BY <1>a, <1>c, <2>1
<1>2. z = [t EXCEPT !.propdefs = x]
  BY <1>a, <1>b, <1>c, <1>d DEF Again
<1>3. IsRec(t) /\ t.class = c
  BY <1>c, ReadWaifIs
<1>4. z = WaifRec(t.class, x, t.propvals, t.map)
  BY <1>2, <1>3, FieldsSet
<1>5. z.class = c /\ z.propdefs = x /\ z.map = t.map /\ z.propvals = t.propvals
  BY <1>3, <1>4, RecIs
<1> QED
  BY <1>1, <1>5, <1>a, <1>d

\* A waif read again has the values it was written with.
LEMMA AgainRight ==
  ASSUME NEW u, NEW w, NEW waif, waif = u.waifs[w], NEW L, L = NamesIn(u, w), NEW p, NEW k,
         ValuesRight(waif, L, p, k), NEW r, r = Again(u, w),
         waif.propdefs = Null => ListOf(waif.class) = Null
  PROVE  ValuesRight(r, L, p, k)
<1>a. PICK n, s : n = Len(L) /\ s = ReadWaif(waif.class, Written(waif, n), n)
  OBVIOUS
<1>1. r.propdefs = ListOf(waif.class) /\ r.map = s.map /\ r.propvals = s.propvals
  BY <1>a, AgainReads
<1>2. CASE waif.propdefs # Null
  <2>a. PICK map, pv, W : map = waif.map /\ pv = waif.propvals /\ W = Written(waif, n)
    OBVIOUS
  <2>1. Fit(map, pv, n)
    BY <1>2, <1>a, <2>a, LenProperties DEF ValuesRight, Fit
  <2>2. IsWritten(W, map, pv, n)
    BY <2>1, <2>a, WrittenHas
  <2>b. PICK c : c = waif.class
    OBVIOUS
  <2>3. s = ReadWaif(c, W, n)
    BY <1>a, <2>a, <2>b
  <2>4. /\ Fit(s.map, s.propvals, n)
        /\ \A i \in 1..n : ValueIn(s.map, s.propvals, i) = ValueIn(map, pv, i)
    BY <2>1, <2>2, <2>3, ReadHas
  <2>5. \A i \in 1..n : AsPut(L[i], ValueIn(map, pv, i), p, k)
    BY <1>2, <1>a, <2>a DEF ValuesRight
  <2> QED
    BY <1>1, <1>a, <2>4, <2>5 DEF ValuesRight, Fit
<1>3. CASE waif.propdefs = Null
  <2>1. L = <<>> /\ n = 0
    BY <1>3, <1>a, NoNamesIs DEF NamesIn
  <2>2. s.map = {}
    BY <1>a, <2>1 DEF ReadWaif
  <2>3. s.map \in Maps
    BY <2>2 DEF Maps
  <2> QED
    BY <1>1, <1>3, <2>3 DEF ValuesRight
<1> QED
  BY <1>2, <1>3

LEMMA RestartedNames ==
  ASSUME valid \subseteq Oid, NEW d, d = Defs(propdefs, Parent), NEW ws, IsAgain(ws),
         NEW m, m = Mem(RestartLists, RestartOf, ws), NEW w \in Waif, NEW c, c = waifs[w].class
  PROVE  /\ NamesIn(m, w) = IF c \in valid THEN d[c] ELSE <<>>
         /\ ListOf(c) = Null <=> c \notin valid
         /\ \A k : OwnList(m, w, k) \/ c \notin valid
<1>1. IsMem(m) /\ m.lists = RestartLists /\ m.of = RestartOf /\ m.waifs = ws
  BY MemIs
<1>2. ws[w].propdefs = ListOf(c) /\ ws[w].class = c
  BY DEF IsAgain
<1>3. c \in valid => Made(c) /\ c \in Int /\ c + 1 \in Address /\ c \in Oid /\ c + 1 # Null
  <2>1. c \in valid => Made(c)
    BY DEF Made, Instances
  <2> QED
    BY <2>1, AddressesOK, HoldersFinite
<1>4. CASE c \in valid
  <2>a. PICK a : a = c + 1
    OBVIOUS
  <2>1. ListOf(c) = a /\ a # Null /\ a \in Address /\ a - 1 = c
    BY <1>3, <1>4, <2>a DEF ListOf
  <2>2. RestartLists[a] = [refcount |-> 1 + Cardinality(Instances(c)), defs |-> DefsOf(c)]
    BY <1>3, <1>4, <2>1 DEF RestartLists
  <2>3. NamesIn(m, w) = DefsOf(c)
    BY <1>1, <1>2, <2>1, <2>2 DEF NamesIn
  <2>4. ASSUME NEW o \in Oid, m.of[o] = a PROVE o = c
    <3>1. ListOf(o) = a /\ o \in Int
      BY <1>1, <2>4, AddressesOK DEF RestartOf
    <3> QED
      BY <1>3, <1>4, <2>1, <2>a, <3>1 DEF ListOf
  <2>5. \A k : OwnList(m, w, k)
    BY <1>1, <1>2, <2>1, <2>4 DEF OwnList
  <2>6. DefsOf(c) = d[c]
    BY <1>3, <1>4 DEF Defs, DefsOf
  <2> QED
    BY <1>4, <2>1, <2>3, <2>5, <2>6
<1>5. CASE c \notin valid
  <2>1. ListOf(c) = Null
    BY <1>5 DEF ListOf, Made
  <2> QED
    BY <1>1, <1>2, <1>5, <2>1 DEF NamesIn
<1> QED
  BY <1>4, <1>5

\* A waif without a list and without values, written after its class got one.
LEMMA LookedLater ==
  ASSUME KInv, NEW w \in Waif, MayComeLater(w), NEW c, c = waifs[w].class,
         NEW g, g = Generated(Memory, c), NEW u, u = Updated(g, w),
         NEW d, d = Defs(propdefs, Parent), NEW p, p = Known(u, w)
  PROVE  /\ c \in valid /\ u.waifs[w].class = c /\ WaifRight(u, d, w, p, kept[w])
         /\ u.waifs[w].propdefs = u.of[c] /\ u.of[c] \in Address /\ NamesIn(u, w) = d[c]
<1>a. PICK m, q, k : m = Memory /\ q = put[w] /\ k = kept[w]
  OBVIOUS
<1>1. /\ MemOK(m) /\ DefsAre(d) /\ DefsRight(d, valid) /\ CurrentIn(m, valid, d)
      /\ valid \subseteq Oid /\ AllRight(m, d, put, kept) /\ m.waifs = waifs
  BY <1>a, KInvFacts, MemoryIs
<1>2. c \in valid /\ waifs[w].propvals = Null
  BY OverlookedIs DEF MayComeLater
<1>3. MemOK(g) /\ CurrentIn(g, valid, d) /\ g.waifs = waifs /\ g.of[c] \in Address
  BY <1>1, <1>2, <1>a, GeneratedOK
<1>4. WaifRight(g, d, w, q, k)
  <2>1. Same(m, g, w)
    BY <1>1, <1>2, <1>a, GeneratedSame
  <2>2. WaifRight(m, d, w, q, k)
    BY <1>1, <1>a DEF AllRight
  <2> QED
    BY <2>1, <2>2, StillRight
<1>5. Agrees(g, w, c)
  BY <1>2, <1>3, HoldersFinite DEF Agrees
<1>6. c = g.waifs[w].class
  BY <1>3
<1>7. /\ WaifRight(u, d, w, Forgotten(q, NamesIn(u, w)), k)
      /\ u.waifs[w].propdefs = u.of[c] /\ u.of[c] \in Address /\ NamesIn(u, w) = d[c]
  BY <1>1, <1>2, <1>3, <1>4, <1>5, <1>6, UpdatedRight
<1>8. u.waifs[w].class = c
  <2>1. SameClasses(g, u)
    BY <1>1, <1>3, UpdatedOK
  <2> QED
    BY <1>6, <2>1 DEF SameClasses
<1>9. p = Forgotten(q, NamesIn(u, w))
  BY <1>a, KnownIs
<1> QED
  BY <1>2, <1>7, <1>8, <1>9, <1>a

\* One of which nothing is written is read with all values clear.
LEMMA OverlookedRead ==
  ASSUME KInv, NEW w \in Waif, Overlooked(w), NEW c, c = waifs[w].class,
         Len(DefsOf(c)) <= Mappable,
         NEW u, u = Updated(Memory, w), NEW r, r = Again(u, w),
         NEW d, d = Defs(propdefs, Parent), NEW p, p = Known(u, w), NEW k, k = kept[w]
  PROVE  /\ c \in valid /\ u.waifs[w].class = c
         /\ ValuesRight(r, d[c], p, k) /\ KeptRight(k, d[c], DefsFor(d, c))
<1>a. PICK m, waif, q : m = Memory /\ waif = waifs[w] /\ q = put[w]
  OBVIOUS
<1>1. /\ MemOK(m) /\ DefsAre(d) /\ DefsRight(d, valid) /\ CurrentIn(m, valid, d)
      /\ valid \subseteq Oid /\ AllRight(m, d, put, kept) /\ m.waifs = waifs
  BY <1>a, KInvFacts, MemoryIs
<1>2. c \in valid /\ waif.propdefs = Null /\ m.of[c] = Null
  BY <1>a, OverlookedIs
<1>3. u = m /\ u.waifs[w] = waif
  BY <1>1, <1>2, <1>a, UpdatedIs
<1>4. NamesIn(u, w) = <<>>
  BY <1>2, <1>3 DEF NamesIn
<1>5. WaifRight(u, d, w, q, k)
  BY <1>1, <1>3, <1>a DEF AllRight
<1>6. k = {} /\ q \in Puts
  BY <1>4, <1>5, NoNamesIs DEF WaifRight, KeptRight, ValuesRight
<1>7. p \in Puts /\ \A n \in Names : p[n] = CLEAR
  <2>1. p = Forgotten(q, <<>>)
    BY <1>4, <1>a, KnownIs
  <2> QED
    BY <2>1, NoNamesIs, NullIsNoArray DEF Forgotten, Puts
<1>b. PICK W, s : W = Written(waif, 0) /\ s = ReadWaif(c, W, 0)
  OBVIOUS
<1>8. r.map = s.map /\ r.propvals = s.propvals
  <2>1. Len(NamesIn(u, w)) = 0 /\ waif.class = c
    BY <1>4, <1>a, NoNamesIs
  <2>2. s = ReadWaif(waif.class, Written(waif, 0), 0)
    BY <1>b, <2>1
  <2> QED
    BY <1>3, <2>1, <2>2, AgainReads
<1>9. CountPropvals({}, 0) = 0 /\ {} \in Maps /\ Mappable \in Nat
  BY FS_EmptySet, WaifAssumption DEF CountPropvals, Maps
<1>10. s.map = {} /\ Fits({}, s.propvals, 0)
  <2>1. IsWritten(W, {}, Null, 0) /\ Fit({}, Null, 0)
    BY <1>9 DEF IsWritten, Fit, Fits
  <2>2. Fit(s.map, s.propvals, 0)
    BY <1>b, <2>1, ReadHas
  <2>3. s.map = {}
    BY <1>b DEF ReadWaif
  <2> QED
    BY <2>2, <2>3 DEF Fit
<1>c. PICK L, n : L = d[c] /\ n = Len(L)
  OBVIOUS
<1>11. L \in Seq(Names) /\ IsInjective(L) /\ L = DefsOf(c) /\ n \in Nat /\ n <= Mappable
  <2>1. c \in Oid
    BY <1>1, <1>2
  <2>2. L \in Seq(Names) /\ IsInjective(L) /\ L = DefsOf(c)
    BY <1>1, <1>c, <2>1 DEF DefsRight, DefsAre
  <2> QED
    BY <1>c, <2>2, LenProperties
<1>12. Fit({}, s.propvals, n)
  <2>1. CountPropvals({}, n) = 0
    BY <1>9, <1>11, FS_EmptySet DEF CountPropvals
  <2> QED
    BY <1>9, <1>10, <1>11, <2>1 DEF Fit, Fits
<1>13. ASSUME NEW i \in 1..n PROVE AsPut(L[i], ValueIn({}, s.propvals, i), p, k)
  <2>1. ~HasPlace({}, i)
    BY <1>9, <1>11 DEF HasPlace
  <2>2. ValueIn({}, s.propvals, i) = CLEAR
    BY <1>12, <2>1, ValueInIs
  <2> QED
    BY <1>6, <2>2 DEF AsPut
<1>14. ValuesRight(r, L, p, k)
  BY <1>7, <1>8, <1>9, <1>10, <1>11, <1>12, <1>13, <1>c DEF ValuesRight, Fit
<1>15. KeptRight(k, L, DefsFor(d, c))
  BY <1>6 DEF KeptRight
<1> QED
  BY <1>2, <1>3, <1>14, <1>15, <1>a, <1>c

LEMMA RestartRight ==
  ASSUME KInv, WInv', Restart
  PROVE  KInv'
<1>a. PICK d, ws : d = Defs(propdefs, Parent) /\ ws = waifs'
  OBVIOUS
<1>b. PICK m, u : m = Memory /\ u = Mem(RestartLists, RestartOf, ws)
  OBVIOUS
<1>1. /\ IInv /\ MemOK(m) /\ DefsAre(d) /\ CurrentIn(m, valid, d) /\ DefsRight(d, valid)
      /\ valid \subseteq Oid /\ WaifsOK(waifs) /\ AllRight(m, d, put, kept) /\ m.waifs = waifs
  BY <1>a, <1>b, KInvFacts, MemoryIs DEF MemOK
<1>2. UNCHANGED <<vars, propdefs, kept>> /\ lists' = RestartLists /\ waif_propdefs' = RestartOf
  BY RestartIs
<1>d. PICK later \in SUBSET Waif :
        /\ \A w \in later : MayComeLater(w)
        /\ \A w \in Waif : There(w) /\ Dies(w) /\ w \notin later =>
              Overlooked(w) /\ Len(DefsOf(waifs[w].class)) <= Mappable
        /\ ws = [w \in Waif |-> IF There(w) THEN Again(ToBeWritten(w, later), w) ELSE NoWaif]
        /\ put' = [w \in Waif |-> IF There(w) THEN Known(ToBeWritten(w, later), w) ELSE put[w]]
  BY <1>a, RestartIs
<1>3. /\ ws = [w \in Waif |-> IF There(w) THEN Again(ToBeWritten(w, later), w) ELSE NoWaif]
      /\ put' = [w \in Waif |-> IF There(w) THEN Known(ToBeWritten(w, later), w) ELSE put[w]]
  BY <1>d
<1>4. ASSUME NEW w \in Waif
      PROVE  /\ IsRec(ws[w]) /\ ws[w].class = waifs[w].class /\ ws[w].propdefs = ListOf(waifs[w].class)
             /\ ValuesRight(ws[w], IF waifs[w].class \in valid THEN d[waifs[w].class] ELSE <<>>,
                            put'[w], kept[w])
             /\ KeptRight(kept[w], IF waifs[w].class \in valid THEN d[waifs[w].class] ELSE <<>>,
                          DefsFor(d, waifs[w].class))
             /\ waifs[w].class \notin valid => kept[w] = {}
  <2>c. PICK c, r, p, k, L : /\ c = waifs[w].class /\ r = ws[w] /\ p = put'[w] /\ k = kept[w]
                             /\ L = IF c \in valid THEN d[c] ELSE <<>>
    OBVIOUS
  <2>1. CASE There(w)
    <3>a. PICK g : g = ToBeWritten(w, later)
      OBVIOUS
    <3>1. r = Again(g, w) /\ p = Known(g, w)
      BY <1>3, <2>1, <2>c, <3>a
    <3>2. ASSUME g.waifs[w].class = c, WaifRight(g, d, w, p, k),
                 c \in valid => /\ g.waifs[w].propdefs = g.of[c] /\ g.of[c] \in Address
                                /\ NamesIn(g, w) = d[c],
                 c \notin valid => g.waifs[w].propdefs = Null
          PROVE  g.waifs[w].class = c /\ ValuesRight(r, L, p, k) /\ KeptRight(k, L, DefsFor(d, c))
      <4>3. NamesIn(g, w) = L
        BY <2>c, <3>2 DEF NamesIn
      <4>b. PICK waif : waif = g.waifs[w]
        OBVIOUS
      <4>4. waif.propdefs = Null => ListOf(waif.class) = Null
        BY <3>2, <4>b, HoldersFinite DEF ListOf, Made
      <4>5. ValuesRight(waif, L, p, k) /\ KeptRight(k, L, DefsFor(d, c))
        BY <3>2, <4>3, <4>b DEF WaifRight
      <4>6. ValuesRight(r, L, p, k)
        BY <3>1, <4>3, <4>4, <4>5, <4>b, AgainRight
      <4> QED
        BY <3>2, <4>5, <4>6
    <3>3. ASSUME ~Dies(w), w \notin later
          PROVE  g.waifs[w].class = c /\ ValuesRight(r, L, p, k) /\ KeptRight(k, L, DefsFor(d, c))
      <4>1. g = Updated(m, w)
        BY <1>b, <3>3, <3>a DEF ToBeWritten
      <4>2. /\ g.waifs[w].class = c /\ WaifRight(g, d, w, p, k)
            /\ c \in valid => /\ g.waifs[w].propdefs = g.of[c] /\ g.of[c] \in Address
                              /\ NamesIn(g, w) = d[c]
            /\ c \notin valid => g.waifs[w].propdefs = Null
        BY <1>1, <1>a, <1>b, <2>c, <3>1, <3>3, <4>1, Looked
      <4> QED
        BY <3>2, <4>2
    <3>4. ASSUME w \in later
          PROVE  g.waifs[w].class = c /\ ValuesRight(r, L, p, k) /\ KeptRight(k, L, DefsFor(d, c))
      <4>a. PICK h : h = Generated(Memory, c)
        OBVIOUS
      <4>1. g = Updated(h, w) /\ MayComeLater(w)
        BY <1>d, <2>c, <3>4, <3>a, <4>a DEF ToBeWritten
      <4>2. /\ c \in valid /\ g.waifs[w].class = c /\ WaifRight(g, d, w, p, k)
            /\ g.waifs[w].propdefs = g.of[c] /\ g.of[c] \in Address /\ NamesIn(g, w) = d[c]
        BY <1>a, <2>c, <3>1, <4>1, <4>a, LookedLater
      <4> QED
        BY <3>2, <4>2
    <3>5. ASSUME Dies(w), w \notin later
          PROVE  g.waifs[w].class = c /\ ValuesRight(r, L, p, k) /\ KeptRight(k, L, DefsFor(d, c))
      <4>1. Overlooked(w) /\ Len(DefsOf(c)) <= Mappable
        BY <1>d, <2>1, <2>c, <3>5
      <4>2. g = Updated(Memory, w)
        BY <3>5, <3>a DEF ToBeWritten
      <4>3. /\ c \in valid /\ g.waifs[w].class = c
            /\ ValuesRight(r, d[c], p, k) /\ KeptRight(k, d[c], DefsFor(d, c))
        BY <1>a, <2>c, <3>1, <4>1, <4>2, OverlookedRead
      <4> QED
        BY <2>c, <4>3
    <3>6. g.waifs[w].class = c /\ ValuesRight(r, L, p, k) /\ KeptRight(k, L, DefsFor(d, c))
      BY <3>3, <3>4, <3>5
    <3>7. IsRec(r) /\ r.class = c /\ r.propdefs = ListOf(c)
      BY <3>1, <3>6, AgainIs
    <3>8. c \notin valid => k = {}
      BY <2>c, <3>6, NoNamesIs DEF KeptRight
    <3> QED
      BY <2>c, <3>6, <3>7, <3>8
  <2>2. CASE ~There(w)
    <3>1. r = NoWaif /\ p = put[w] /\ c = NOTHING /\ c \notin valid
      BY <1>1, <1>3, <2>2, <2>c, NothingIsNoOid DEF There
    <3>2. IsRec(r) /\ r.class = NOTHING /\ r.propdefs = Null /\ r.map = {}
      BY <3>1 DEF NoWaif, IsRec
    <3>3. ListOf(c) = Null /\ L = <<>>
      BY <2>c, <3>1 DEF ListOf, Made
    <3>4. WaifRight(m, d, w, p, k) /\ m.waifs[w].propdefs = Null
      BY <1>1, <2>c, <3>1, WaifOf DEF AllRight
    <3>5. ValuesRight(m.waifs[w], <<>>, p, k) /\ KeptRight(k, <<>>, DefsFor(d, c))
      BY <1>1, <2>c, <3>4 DEF WaifRight, NamesIn
    <3>6. ValuesRight(r, <<>>, p, k)
      BY <3>2, <3>5 DEF ValuesRight, Maps
    <3>7. k = {}
      BY <3>5, NoNamesIs DEF KeptRight
    <3> QED
      BY <2>c, <3>1, <3>2, <3>3, <3>5, <3>6, <3>7
  <2> QED
    BY <2>1, <2>2
<1>5. IsAgain(ws)
  <2>1. ws = [w \in Waif |-> ws[w]]
    BY <1>3
  <2> QED
    BY <1>4, <2>1 DEF IsAgain
<1>6. IsMem(u) /\ u.waifs = ws /\ u.lists = RestartLists /\ u.of = RestartOf
  BY <1>b, MemIs
<1>7. ASSUME NEW w \in Waif PROVE WaifRight(u, d, w, put'[w], kept[w])
  <2>c. PICK c, r, p, k, L : /\ c = waifs[w].class /\ r = ws[w] /\ p = put'[w] /\ k = kept[w]
                             /\ L = IF c \in valid THEN d[c] ELSE <<>>
    OBVIOUS
  <2>1. /\ r.class = c /\ ValuesRight(r, L, p, k) /\ KeptRight(k, L, DefsFor(d, c))
        /\ c \notin valid => k = {}
    BY <1>4, <2>c
  <2>2. NamesIn(u, w) = L /\ (OwnList(u, w, k) \/ c \notin valid)
    BY <1>1, <1>5, <1>a, <1>b, <2>c, RestartedNames
  <2>3. OwnList(u, w, k)
    BY <2>1, <2>2 DEF OwnList
  <2> QED
    BY <1>6, <2>1, <2>2, <2>3, <2>c DEF WaifRight
<1>c. PICK ps, ks : ps = put' /\ ks = kept'
  OBVIOUS
<1>8. AllRight(u, d, ps, ks)
  <2>1. ps = [w \in Waif |-> ps[w]] /\ ks = [w \in Waif |-> ks[w]]
    BY <1>1, <1>2, <1>3, <1>c DEF AllRight
  <2>2. \A w \in Waif : WaifRight(u, d, w, ps[w], ks[w])
    BY <1>2, <1>7, <1>c
  <2> QED
    BY <2>1, <2>2, EachRight
<1>9. Becomes(u)
  BY <1>2, <1>6, <1>a DEF Becomes
<1> QED
  BY <1>2, <1>6, <1>8, <1>9, <1>a, <1>c, OnlyWaifsRight

-----------------------------------------------------------------------------
(* All of it.                                                              *)

LEMMA InitWaifsRight == InitWaifs => KInv
<1> SUFFICES ASSUME InitWaifs PROVE KInv
  OBVIOUS
<1>1. WInv /\ MemOK(Memory)
  BY InitWaifsOK DEF WInv, WaifsRight
<1>2. /\ propdefs = [o \in Oid |-> <<>>] /\ waifs = [w \in Waif |-> NoWaif]
      /\ put = [w \in Waif |-> AllClear] /\ kept = [w \in Waif |-> {}]
  BY DEF InitWaifs, AllClear
<1>3. EachOnce(propdefs)
  BY <1>2, NoNamesIs DEF EachOnce
<1>a. PICK m, d, ps, ks : m = Memory /\ d = Defs(propdefs, Parent) /\ ps = put /\ ks = kept
  OBVIOUS
<1>4. ASSUME NEW w \in Waif PROVE WaifRight(m, d, w, ps[w], ks[w])
  <2>a. PICK r : r = m.waifs[w]
    OBVIOUS
  <2>1. r = NoWaif
    BY <1>2, <1>a, <2>a, MemoryIs
  <2>2. r.class = NOTHING /\ r.propdefs = Null /\ r.map = {}
    BY <2>1 DEF NoWaif
  <2>3. WaifRight(m, d, w, AllClear, {})
    BY <2>2, <2>a, NothingRight
  <2> QED
    BY <1>2, <1>a, <2>3
<1>5. AllRight(m, d, ps, ks)
  <2>1. ps = [w \in Waif |-> ps[w]] /\ ks = [w \in Waif |-> ks[w]]
    BY <1>2, <1>a
  <2> QED
    BY <1>4, <2>1, EachRight
<1> QED
  BY <1>1, <1>3, <1>5, <1>a DEF KInv

LEMMA NothingChangesRight ==
  ASSUME KInv, WInv', UNCHANGED <<vars, waifVars>>
  PROVE  KInv'
<1>1. /\ UNCHANGED <<vars, propdefs>> /\ Becomes(Memory) /\ put' = put /\ kept' = kept
  BY MemoryIs DEF waifVars, Becomes
<1>a. PICK m : m = Memory
  OBVIOUS
<1>2. IsMem(m) /\ Becomes(m) /\ AllRight(m, Defs(propdefs, Parent), put', kept')
  BY <1>1, <1>a, MemoryIs, KInvFacts
<1> QED
  BY <1>1, <1>2, OnlyWaifsRight

LEMMA NextWaifsRight == KInv /\ [NextWaifs]_<<vars, waifVars>> => KInv'
<1> SUFFICES ASSUME KInv, [NextWaifs]_<<vars, waifVars>> PROVE KInv'
  OBVIOUS
<1>0. WInv'
  BY NextWaifsOK DEF KInv
<1>1. ASSUME NEW p \in OidOrNothing, CreateWaifs(p) PROVE KInv'
  BY <1>0, <1>1, CreateWaifsRight
<1>2. ASSUME NEW oid \in Oid, RenumberWaifs(oid) PROVE KInv'
  BY <1>0, <1>2, RenumberWaifsRight
<1>3. ASSUME NEW oid \in Oid, RecycleWaifs(oid) PROVE KInv'
  BY <1>0, <1>3, RecycleWaifsRight
<1>4. ASSUME NEW oid \in Oid, NEW new \in Oid, SetObjectNumberWaifs(oid, new) PROVE KInv'
  BY <1>0, <1>4, SetObjectNumberWaifsRight
<1>5. ASSUME NEW oid \in Oid, NEW p \in OidOrNothing, ChparentWaifs(oid, p) PROVE KInv'
  BY <1>0, <1>5, ChparentWaifsRight
<1>6. ASSUME NEW oid \in Oid, NEW n \in Names, AddPropdef(oid, n) PROVE KInv'
  BY <1>0, <1>6, AddPropdefRight
<1>7. ASSUME NEW oid \in Oid, NEW n \in Names, DeletePropdef(oid, n) PROVE KInv'
  BY <1>0, <1>7, DeletePropdefRight
<1>8. ASSUME NEW oid \in Oid, NEW n \in Names, NEW new \in Names, RenamePropdef(oid, n, new)
      PROVE  KInv'
  BY <1>0, <1>8, RenamePropdefRight
<1>9. ASSUME NEW w \in Waif, FreeWaif(w) PROVE KInv'
  BY <1>0, <1>9, FreeWaifRight
<1>10. ASSUME NEW w \in Waif, Look(w) PROVE KInv'
  BY <1>0, <1>10, LookRight
<1>11. ASSUME NEW w \in Waif, NEW class \in Oid, NewWaif(w, class) PROVE KInv'
  BY <1>0, <1>11, NewWaifRight
<1>12. ASSUME NEW w \in Waif, NEW n \in Names, NEW value \in Values, PutProp(w, n, value)
       PROVE  KInv'
  BY <1>0, <1>12, PutPropRight
<1>13. CASE Restart
  BY <1>0, <1>13, RestartRight
<1>14. CASE UNCHANGED <<vars, waifVars>>
  BY <1>0, <1>14, NothingChangesRight
<1> QED
  BY <1>1, <1>2, <1>3, <1>4, <1>5, <1>6, <1>7, <1>8, <1>9, <1>10, <1>11, <1>12, <1>13, <1>14
  DEF NextWaifs

LEMMA KInvHolds == SpecWaifs => []KInv
  BY InitWaifsRight, NextWaifsRight, PTL DEF SpecWaifs

LEMMA KInvMeans == KInv => WaifsKeepValues
<1> SUFFICES ASSUME KInv, NEW w \in Waif, ~Dies(w), waifs[w].class \in valid,
                    NEW u, u = Updated(Memory, w), NEW waif, waif = u.waifs[w],
                    NEW defs, defs = u.lists[waif.propdefs].defs
             PROVE  /\ kept[w] \subseteq ToSet(defs)
                    /\ \A i \in DOMAIN defs :
                          AsPut(defs[i], ValueIn(waif.map, waif.propvals, i), put[w], kept[w])
  BY DEF WaifsKeepValues, ValueIn, AsPut
<1>a. PICK m, c, p, k, d : /\ m = Memory /\ c = m.waifs[w].class /\ p = Known(u, w) /\ k = kept[w]
                           /\ d = Defs(propdefs, Parent)
  OBVIOUS
<1>1. /\ WaifRight(u, d, w, p, k) /\ c \in valid /\ waif.propdefs \in Address
      /\ MemOK(u)
  <2>1. c \in valid
    BY <1>a, MemoryIs
  <2> QED
    BY <1>a, <2>1, Looked
<1>2. waif.propdefs # Null /\ NamesIn(u, w) = defs
  BY <1>1, HoldersFinite DEF NamesIn
<1>3. /\ defs \in Seq(Names) /\ k \subseteq ToSet(defs)
      /\ \A i \in 1..Len(defs) : AsPut(defs[i], ValueIn(waif.map, waif.propvals, i), p, k)
  BY <1>1, <1>2 DEF WaifRight, ValuesRight, KeptRight
<1>4. ASSUME NEW i \in 1..Len(defs) PROVE p[defs[i]] = put[w][defs[i]]
  <2>1. defs[i] \in ToSet(defs) /\ defs[i] \in Names
    BY <1>3, InSet, ElementOfSeq
  <2>2. p = Forgotten(put[w], defs)
    BY <1>2, <1>a, KnownIs
  <2> QED
    BY <2>1, <2>2 DEF Forgotten
<1>5. DOMAIN defs = 1..Len(defs)
  BY <1>3, LenProperties
<1>6. ASSUME NEW i \in 1..Len(defs)
      PROVE  AsPut(defs[i], ValueIn(waif.map, waif.propvals, i), put[w], kept[w])
  <2>a. PICK n, v : n = defs[i] /\ v = ValueIn(waif.map, waif.propvals, i)
    OBVIOUS
  <2>1. AsPut(n, v, p, k) /\ p[n] = put[w][n]
    BY <1>3, <1>4, <2>a
  <2> QED
    BY <1>a, <2>1, <2>a DEF AsPut
<1> QED
  BY <1>3, <1>5, <1>6, <1>a

\* What a waif has for a property is what was put to it last, or is clear where
\* that is to be expected: its values stay with their names while it is brought
\* up to date, when it gets a place for another, when its class gets, loses and
\* renames properties and moves, and over a dump (update_waif_propdefs(),
\* alloc_propval_offset(), write_waif() and read_waif() in waif.c).
THEOREM ValuesOfWaifsKept == SpecWaifs => []WaifsKeepValues
  BY KInvHolds, KInvMeans, PTL
=============================================================================
