-------------------------------- MODULE Facts -------------------------------
(***************************************************************************)
(* Facts about numbers, lists and functions that the proofs about more     *)
(* than one component need.                                                *)
(***************************************************************************)
EXTENDS Integers, SequencesExt, SequenceTheorems, FiniteSetTheorems, WellFoundedInduction, TLAPS

-----------------------------------------------------------------------------
(* Least and greatest numbers, from the well-foundedness of inclusion.     *)

LEMMA Least ==
  ASSUME NEW S \in SUBSET Nat, S # {}
  PROVE  \E n \in S : \A m \in S : n <= m
<1> PICK b \in S : TRUE
  OBVIOUS
<1> DEFINE T == {0..n : n \in {k \in S : k <= b}}
<1>1. \A U \in T : U \in FiniteSubsetsOf(0..b)
  <2> SUFFICES ASSUME NEW n \in S, n <= b PROVE 0..n \in FiniteSubsetsOf(0..b)
    OBVIOUS
  <2>1. IsFiniteSet(0..n)
    BY FS_Interval
  <2>2. 0..n \subseteq 0..b
    OBVIOUS
  <2> QED
    BY <2>1, <2>2 DEF FiniteSubsetsOf
<1>2. T # {}
  OBVIOUS
<1>3. IsWellFoundedOn(StrictSubsetOrdering(0..b), FiniteSubsetsOf(0..b))
  BY FS_StrictSubsetOrderingWellFounded
<1>4. PICK U \in T : \A V \in T : ~ (<<V, U>> \in StrictSubsetOrdering(0..b))
  <2>1. T \subseteq FiniteSubsetsOf(0..b)
    BY <1>1
  <2> HIDE DEF T
  <2> QED
    BY <1>2, <1>3, <2>1, WFMin
<1>5. PICK n \in S : n <= b /\ U = 0..n
  BY <1>4
<1>6. ASSUME NEW m \in S PROVE n <= m
  <2>1. SUFFICES ASSUME m < n PROVE FALSE
    OBVIOUS
  <2>2. 0..m \in T
    BY <2>1, <1>5
  <2>3. 0..m \subseteq U /\ 0..m # U
    <3>1. n \in 0..n /\ n \notin 0..m
      BY <2>1
    <3> QED
      BY <2>1, <1>5, <3>1
  <2>4. U \subseteq 0..b
    BY <1>5
  <2> QED
    BY <1>4, <2>2, <2>3, <2>4 DEF StrictSubsetOrdering
<1> QED
  BY <1>6

LEMMA Greatest ==
  ASSUME NEW b \in Nat, NEW S \in SUBSET (0..b), S # {}
  PROVE  \E n \in S : \A m \in S : m <= n
<1> DEFINE T == {b - n : n \in S}
<1>1. T \in SUBSET Nat /\ T # {}
  <2>1. \A n \in S : b - n \in Nat
    OBVIOUS
  <2> QED
    BY <2>1
<1>2. PICK k \in T : \A l \in T : k <= l
  <2> HIDE DEF T
  <2> QED
    BY <1>1, Least
<1>3. PICK n \in S : k = b - n
  BY <1>2
<1>4. ASSUME NEW m \in S PROVE m <= n
  <2>1. k <= b - m
    BY <1>2
  <2> QED
    BY <1>3, <2>1
<1> QED
  BY <1>4

\* What holds of 0, and of n + 1 when it holds of n, holds of all numbers.
LEMMA CountingUp ==
  ASSUME NEW n \in Nat, NEW S, 0 \in S, \A m \in 0..n - 1 : m \in S => m + 1 \in S
  PROVE  0..n \subseteq S
<1> DEFINE B == {m \in 0..n : m \notin S}
<1> SUFFICES ASSUME B # {} PROVE FALSE
  OBVIOUS
<1>1. B \in SUBSET Nat
  OBVIOUS
<1>2. PICK b \in B : \A m \in B : b <= m
  <2> HIDE DEF B
  <2> QED
    BY <1>1, Least
<1>3. b # 0 /\ b - 1 \in 0..n - 1
  OBVIOUS
<1>4. b - 1 \in S
  BY <1>2, <1>3
<1> QED
  BY <1>3, <1>4

\* The sums of the first numbers of a list.
LEMMA Sums ==
  ASSUME NEW n \in Nat, NEW d \in [1..n -> Nat]
  PROVE  \E s \in [0..n -> Nat] : s = [m \in 0..n |-> IF m = 0 THEN 0 ELSE s[m - 1] + d[m]]
<1> DEFINE Upto(s, k) == s[0] = 0 /\ \A m \in 1..k : s[m] = s[m - 1] + d[m]
           S == {k \in 0..n : \E s \in [0..k -> Nat] : Upto(s, k)}
<1>1. 0 \in S
  <2> DEFINE z == [m \in 0..0 |-> 0]
  <2>1. z \in [0..0 -> Nat] /\ Upto(z, 0)
    OBVIOUS
  <2> HIDE DEF z, Upto
  <2> QED
    BY <2>1
<1>2. ASSUME NEW k \in 1..n, k - 1 \in S PROVE k \in S
  <2>1. PICK s \in [0..k - 1 -> Nat] : Upto(s, k - 1)
    BY <1>2
  <2> DEFINE t == [m \in 0..k |-> IF m = k THEN s[k - 1] + d[k] ELSE s[m]]
  <2>2. d[k] \in Nat /\ k - 1 \in 0..k - 1
    OBVIOUS
  <2>3. t \in [0..k -> Nat]
    BY <2>2
  <2>4. Upto(t, k)
    <3>1. t[0] = 0
      BY <2>1
    <3>2. ASSUME NEW m \in 1..k PROVE t[m] = t[m - 1] + d[m]
      <4>1. CASE m = k
        BY <4>1
      <4>2. CASE m # k
        <5>1. m \in 1..k - 1 /\ m - 1 \in 0..k - 1
          BY <4>2
        <5> QED
          BY <2>1, <5>1
      <4> QED
        BY <4>1, <4>2
    <3> QED
      BY <3>1, <3>2
  <2> HIDE DEF t, Upto
  <2>5. \E u \in [0..k -> Nat] : Upto(u, k)
    BY <2>3, <2>4
  <2> QED
    BY <2>5
<1>3. n \in S
  <2> HIDE DEF S
  <2>1. ASSUME NEW k \in 0..n - 1, k \in S PROVE k + 1 \in S
    <3>1. k + 1 \in 1..n /\ (k + 1) - 1 = k
      OBVIOUS
    <3> QED
      BY <1>2, <2>1, <3>1
  <2>2. 0..n \subseteq S
    BY <1>1, <2>1, CountingUp
  <2> QED
    BY <2>2
<1>4. PICK s \in [0..n -> Nat] : Upto(s, n)
  BY <1>3
<1>5. \A m \in 0..n : s[m] = IF m = 0 THEN 0 ELSE s[m - 1] + d[m]
  BY <1>4
<1>6. s = [m \in 0..n |-> s[m]]
  OBVIOUS
<1> QED
  BY <1>5, <1>6

\* What is built step by step, the m-th step from what the one before made.
Steps(n, D, first, step) == n \in Nat /\ first \in D /\ step \in [1..n -> [D -> D]]
Built(s, n, D, first, step) ==
  s \in [0..n -> D] /\ s[0] = first /\ \A m \in 1..n : s[m] = step[m][s[m - 1]]

LEMMA StepByStep ==
  ASSUME NEW n, NEW D, NEW first, NEW step, Steps(n, D, first, step)
  PROVE  \E s : Built(s, n, D, first, step)
<1> USE DEF Steps
<1> DEFINE Upto(s, k) == s[0] = first /\ \A m \in 1..k : s[m] = step[m][s[m - 1]]
           S == {k \in 0..n : \E s \in [0..k -> D] : Upto(s, k)}
<1>1. 0 \in S
  <2> DEFINE z == [m \in 0..0 |-> first]
  <2>1. z \in [0..0 -> D] /\ Upto(z, 0)
    OBVIOUS
  <2> HIDE DEF z, Upto
  <2> QED
    BY <2>1
<1>2. ASSUME NEW k \in 1..n, k - 1 \in S PROVE k \in S
  <2>1. PICK s \in [0..k - 1 -> D] : Upto(s, k - 1)
    BY <1>2
  <2> DEFINE next == step[k][s[k - 1]]
             t == [m \in 0..k |-> IF m = k THEN next ELSE s[m]]
  <2>2. s[k - 1] \in D /\ k - 1 \in 0..k - 1
    OBVIOUS
  <2>3. next \in D
    BY <2>2
  <2> HIDE DEF next
  <2>4. t \in [0..k -> D]
    BY <2>3
  <2>5. Upto(t, k)
    <3>1. t[0] = first
      BY <2>1
    <3>2. ASSUME NEW m \in 1..k PROVE t[m] = step[m][t[m - 1]]
      <4>1. CASE m = k
        BY <4>1 DEF next
      <4>2. CASE m # k
        <5>1. m \in 1..k - 1 /\ m - 1 \in 0..k - 1
          BY <4>2
        <5>2. t[m] = s[m] /\ t[m - 1] = s[m - 1]
          BY <4>2, <5>1
        <5> QED
          BY <2>1, <5>1, <5>2
      <4> QED
        BY <4>1, <4>2
    <3> QED
      BY <3>1, <3>2
  <2> HIDE DEF t, Upto
  <2>6. \E u \in [0..k -> D] : Upto(u, k)
    BY <2>4, <2>5
  <2> QED
    BY <2>6
<1>3. n \in S
  <2> HIDE DEF S
  <2>1. ASSUME NEW k \in 0..n - 1, k \in S PROVE k + 1 \in S
    <3>1. k + 1 \in 1..n /\ (k + 1) - 1 = k
      OBVIOUS
    <3> QED
      BY <1>2, <2>1, <3>1
  <2>2. 0..n \subseteq S
    BY <1>1, <2>1, CountingUp
  <2> QED
    BY <2>2
<1> QED
  BY <1>3 DEF Built
-----------------------------------------------------------------------------
(* Lists.                                                                  *)

LEMMA MinIs ==
  ASSUME NEW I \in SUBSET Nat, I # {}
  PROVE  Min(I) \in I /\ \A i \in I : Min(I) <= i
  BY Least DEF Min

\* The place of an element of a list.
LEMMA PlaceOf ==
  ASSUME NEW D, NEW s \in Seq(D), NEW c,
         NEW n, n = SelectInSeq(s, LAMBDA d : d = c)
  PROVE  /\ c \in Range(s) => n \in 1..Len(s) /\ s[n] = c
         /\ c \notin Range(s) => n = 0
<1> DEFINE I == {i \in 1..Len(s) : s[i] = c}
<1>1. n = IF I # {} THEN Min(I) ELSE 0
  BY DEF SelectInSeq
<1>2. I \in SUBSET Nat /\ (I # {} <=> c \in Range(s))
  BY RangeEquality, LenProperties
<1>3. I # {} => Min(I) \in I
  <2> HIDE DEF I
  <2> QED
    BY <1>2, MinIs
<1> QED
  BY <1>1, <1>2, <1>3

\* A list without one of its places.
LEMMA RemoveAtIs ==
  ASSUME NEW D, NEW s \in Seq(D), NEW n \in 1..Len(s)
  PROVE  /\ RemoveAt(s, n) \in Seq(D) /\ Len(RemoveAt(s, n)) = Len(s) - 1
         /\ \A i \in 1..Len(s) - 1 : RemoveAt(s, n)[i] = IF i < n THEN s[i] ELSE s[i + 1]
<1> DEFINE a == SubSeq(s, 1, n - 1)
           b == SubSeq(s, n + 1, Len(s))
<1>1. Len(s) \in Nat /\ \A i \in 1..Len(s) : s[i] \in D
  BY LenProperties, ElementOfSeq
<1>2. a \in Seq(D) /\ Len(a) = n - 1 /\ \A i \in 1..n - 1 : a[i] = s[i]
  <2>1. \A i \in 1..n - 1 : s[i] \in D
    BY <1>1
  <2> QED
    BY <2>1, SubSeqProperties
<1>3. b \in Seq(D) /\ Len(b) = Len(s) - n /\ \A i \in 1..Len(s) - n : b[i] = s[n + i]
  <2>1. \A i \in n + 1..Len(s) : s[i] \in D
    BY <1>1
  <2> QED
    BY <1>1, <2>1, SubSeqProperties
<1> DEFINE t == RemoveAt(s, n)
<1>4. t = a \o b
  BY DEF RemoveAt
<1> HIDE DEF a, b, t
<1>5. /\ t \in Seq(D) /\ Len(t) = Len(a) + Len(b)
      /\ \A i \in 1..Len(a) + Len(b) : t[i] = IF i <= Len(a) THEN a[i] ELSE b[i - Len(a)]
  <2>1. /\ a \o b \in Seq(D) /\ Len(a \o b) = Len(a) + Len(b)
        /\ \A i \in 1..Len(a) + Len(b) : (a \o b)[i] = IF i <= Len(a) THEN a[i] ELSE b[i - Len(a)]
    BY <1>2, <1>3, ConcatProperties
  <2> QED
    BY <1>4, <2>1
<1>6. Len(a) + Len(b) = Len(s) - 1
  BY <1>1, <1>2, <1>3
<1>7. ASSUME NEW i \in 1..Len(s) - 1 PROVE t[i] = IF i < n THEN s[i] ELSE s[i + 1]
  <2>1. CASE i < n
    BY <1>1, <1>2, <1>5, <1>6, <2>1
  <2>2. CASE ~ (i < n)
    <3>1. t[i] = b[i - Len(a)] /\ i - Len(a) \in 1..Len(s) - n /\ n + (i - Len(a)) = i + 1
      BY <1>1, <1>2, <1>5, <1>6, <2>2
    <3> QED
      BY <1>3, <2>2, <3>1
  <2> QED
    BY <2>1, <2>2
<1> QED
  BY <1>5, <1>6, <1>7 DEF t

\* What unlinking an element leaves of a list without duplicates.
LEMMA RemoveFirstIs ==
  ASSUME NEW D, NEW s \in Seq(D), IsInjective(s), NEW c
  PROVE  /\ RemoveFirst(s, c) \in Seq(D) /\ IsInjective(RemoveFirst(s, c))
         /\ Range(RemoveFirst(s, c)) = Range(s) \ {c}
<1> DEFINE t == RemoveFirst(s, c)
<1>1. Len(s) \in Nat /\ DOMAIN s = 1..Len(s) /\ Range(s) = {s[i] : i \in 1..Len(s)}
  BY LenProperties, RangeEquality
<1>2. CASE c \notin Range(s)
  <2>1. t = s
    BY <1>1, <1>2 DEF RemoveFirst
  <2> HIDE DEF t
  <2> QED
    BY <1>2, <2>1 DEF t
<1>3. CASE c \in Range(s)
  <2> DEFINE n == SelectInSeq(s, LAMBDA d : d = c)
  <2>1. n \in 1..Len(s) /\ s[n] = c
    BY <1>3, PlaceOf
  <2>2. t = RemoveAt(s, n)
    BY <1>1, <1>3 DEF RemoveFirst
  <2> HIDE DEF n, t
  <2>3. /\ t \in Seq(D) /\ Len(t) = Len(s) - 1
        /\ \A i \in 1..Len(s) - 1 : t[i] = IF i < n THEN s[i] ELSE s[i + 1]
    BY <2>1, <2>2, RemoveAtIs
  <2>4. DOMAIN t = 1..Len(s) - 1 /\ Range(t) = {t[i] : i \in 1..Len(s) - 1}
    BY <2>3, LenProperties, RangeEquality
  <2>5. \A i, j \in 1..Len(s) : s[i] = s[j] => i = j
    BY <1>1 DEF IsInjective
  <2>6. IsInjective(t)
    <3> SUFFICES ASSUME NEW i \in 1..Len(s) - 1, NEW j \in 1..Len(s) - 1, t[i] = t[j] PROVE i = j
      BY <2>4 DEF IsInjective
    <3> DEFINE up(k) == IF k < n THEN k ELSE k + 1
    <3>1. t[i] = s[up(i)] /\ t[j] = s[up(j)]
      BY <2>3
    <3>2. up(i) \in 1..Len(s) /\ up(j) \in 1..Len(s)
      BY <1>1, <2>1
    <3>3. up(i) = up(j)
      <4> HIDE DEF up
      <4> QED
        BY <2>5, <3>1, <3>2
    <3> QED
      BY <1>1, <2>1, <3>3
  <2>7. ASSUME NEW i \in 1..Len(s) - 1 PROVE t[i] \in Range(s) \ {c}
    <3> DEFINE k == IF i < n THEN i ELSE i + 1
    <3>1. t[i] = s[k] /\ k \in 1..Len(s) /\ k # n
      BY <1>1, <2>1, <2>3
    <3> HIDE DEF k
    <3> QED
      BY <1>1, <2>1, <2>5, <3>1
  <2>8. ASSUME NEW k \in 1..Len(s), s[k] # c PROVE s[k] \in Range(t)
    <3>1. CASE k < n
      <4>1. k \in 1..Len(s) - 1 /\ t[k] = s[k]
        BY <1>1, <2>1, <2>3, <3>1
      <4> QED
        BY <2>4, <4>1
    <3>2. CASE k > n
      <4>1. k - 1 \in 1..Len(s) - 1 /\ t[k - 1] = s[k]
        BY <1>1, <2>1, <2>3, <3>2
      <4> QED
        BY <2>4, <4>1
    <3> QED
      BY <1>1, <2>1, <2>8, <3>1, <3>2
  <2> QED
    BY <1>1, <2>3, <2>4, <2>6, <2>7, <2>8 DEF t
<1> QED
  BY <1>2, <1>3

\* A list with one more in front.
LEMMA InFrontIs ==
  ASSUME NEW D, NEW s \in Seq(D), IsInjective(s), NEW c \in D, c \notin Range(s)
  PROVE  /\ <<c>> \o s \in Seq(D) /\ IsInjective(<<c>> \o s)
         /\ Range(<<c>> \o s) = Range(s) \cup {c}
<1> DEFINE t == <<c>> \o s
<1>1. <<c>> \in Seq(D) /\ Len(<<c>>) = 1 /\ <<c>>[1] = c /\ Range(<<c>>) = {c}
  BY DEF Range
<1>2. Len(s) \in Nat /\ DOMAIN s = 1..Len(s) /\ Range(s) = {s[i] : i \in 1..Len(s)}
  BY LenProperties, RangeEquality
<1>3. /\ t \in Seq(D) /\ Len(t) = 1 + Len(s)
      /\ \A i \in 1..1 + Len(s) : t[i] = IF i <= 1 THEN <<c>>[i] ELSE s[i - 1]
  BY <1>1, ConcatProperties
<1> HIDE DEF t
<1>4. Range(t) = Range(s) \cup {c}
  <2> DEFINE h == <<c>>
  <2>1. h \in Seq(D) /\ Range(h) = {c} /\ t = h \o s
    BY <1>1 DEF t
  <2> HIDE DEF h
  <2> QED
    BY <2>1, RangeConcatenation
<1>5. IsInjective(t)
  <2> SUFFICES ASSUME NEW i \in 1..1 + Len(s), NEW j \in 1..1 + Len(s), t[i] = t[j] PROVE i = j
    BY <1>3, LenProperties DEF IsInjective
  <2>1. \A k \in 2..1 + Len(s) : t[k] = s[k - 1] /\ k - 1 \in 1..Len(s)
    BY <1>2, <1>3
  <2>2. t[1] = c
    BY <1>1, <1>2, <1>3
  <2>3. \A k, l \in 1..Len(s) : s[k] = s[l] => k = l
    BY <1>2 DEF IsInjective
  <2>4. CASE i = 1 \/ j = 1
    <3>1. \A k \in 2..1 + Len(s) : t[k] # c
      BY <1>2, <2>1
    <3> QED
      BY <1>2, <2>2, <2>4, <3>1
  <2>5. CASE i # 1 /\ j # 1
    <3>1. i \in 2..1 + Len(s) /\ j \in 2..1 + Len(s)
      BY <1>2, <2>5
    <3>2. i - 1 = j - 1
      BY <2>1, <2>3, <3>1
    <3> QED
      BY <3>1, <3>2
  <2> QED
    BY <2>4, <2>5
<1> QED
  BY <1>3, <1>4, <1>5 DEF t

-----------------------------------------------------------------------------
(* Trees, each node with a link to the next one up; roots lead elsewhere.  *)

\* However far one climbs, there is an end to it.
Founded(up) == \A S \in SUBSET DOMAIN up : S # {} => \E x \in S : up[x] \notin S

\* What holds of a node when it holds of the next one up holds of all.
LEMMA FromTheRoots ==
  ASSUME NEW up, Founded(up), NEW S,
         \A x \in DOMAIN up : (up[x] \in DOMAIN up => up[x] \in S) => x \in S
  PROVE  DOMAIN up \subseteq S
<1> DEFINE B == DOMAIN up \ S
<1> SUFFICES ASSUME B # {} PROVE FALSE
  OBVIOUS
<1>1. PICK x \in B : up[x] \notin B
  BY DEF Founded
<1> QED
  BY <1>1

\* What is built from the roots down, each node's from the next one's.
Grown(f, up, D, base, step) ==
  /\ f \in [DOMAIN up -> D]
  /\ \A x \in DOMAIN up : f[x] = IF up[x] \in DOMAIN up THEN step[x][f[up[x]]] ELSE base[x]

LEMMA BuiltFromRoots ==
  ASSUME NEW up, Founded(up), NEW D,
         NEW base \in [DOMAIN up -> D], NEW step \in [DOMAIN up -> [D -> D]]
  PROVE  \E f : Grown(f, up, D, base, step)
<1> DEFINE N == DOMAIN up
           Closed(C) == C \in SUBSET N /\ \A x \in C : up[x] \in N => up[x] \in C
           From(f, x) == IF up[x] \in N THEN step[x][f[up[x]]] ELSE base[x]
           Solves(f, C) == Closed(C) /\ f \in [C -> D] /\ \A x \in C : f[x] = From(f, x)
           S == {x \in N : \E C : x \in C /\ \E f : Solves(f, C)}
<1>1. N \subseteq S
  <2>1. ASSUME NEW x \in N, up[x] \in N => up[x] \in S  PROVE x \in S
    <3>1. PICK C, f : Solves(f, C) /\ (up[x] \in N => up[x] \in C)
      <4>1. CASE up[x] \in N
        BY <2>1, <4>1
      <4>2. CASE up[x] \notin N
        <5> DEFINE e == [y \in {} |-> base[x]]
        <5>1. Solves(e, {})
          OBVIOUS
        <5> HIDE DEF e, Solves
        <5> QED
          BY <4>2, <5>1
      <4> QED
        BY <4>1, <4>2
    <3>2. CASE x \in C
      BY <3>1, <3>2
    <3>3. CASE x \notin C
      <4> DEFINE v == From(f, x)
                 g == [y \in C \cup {x} |-> IF y = x THEN v ELSE f[y]]
      <4>1. v \in D
        BY <3>1
      <4> HIDE DEF v
      <4>2. Closed(C \cup {x}) /\ g \in [C \cup {x} -> D]
        BY <3>1, <4>1
      <4>3. \A y \in C : g[y] = f[y]
        BY <3>3
      <4>4. g[x] = v
        OBVIOUS
      <4> HIDE DEF g
      <4>5. ASSUME NEW y \in C \cup {x}  PROVE g[y] = From(g, y)
        <5>1. up[y] \in N => up[y] \in C
          BY <3>1
        <5>2. From(g, y) = From(f, y)
          BY <4>3, <5>1
        <5> QED
          BY <3>1, <4>3, <4>4, <5>2 DEF v
      <4>6. Solves(g, C \cup {x})
        BY <4>2, <4>5
      <4> HIDE DEF Solves
      <4> QED
        BY <4>6
    <3> QED
      BY <3>2, <3>3
  <2> HIDE DEF S
  <2> QED
    BY <2>1, FromTheRoots
<1>2. ASSUME NEW C, NEW f, Solves(f, C), NEW E, NEW g, Solves(g, E)
      PROVE  \A x \in C \cap E : f[x] = g[x]
  <2> DEFINE T == {x \in N : x \in C \cap E => f[x] = g[x]}
  <2>1. ASSUME NEW x \in N, up[x] \in N => up[x] \in T  PROVE x \in T
    <3> SUFFICES ASSUME x \in C \cap E  PROVE f[x] = g[x]
      OBVIOUS
    <3>1. f[x] = From(f, x) /\ g[x] = From(g, x)
      BY <1>2
    <3>2. up[x] \in N => up[x] \in C \cap E
      BY <1>2
    <3> QED
      BY <2>1, <3>1, <3>2
  <2>2. N \subseteq T
    <3> HIDE DEF T
    <3> QED
      BY <2>1, FromTheRoots
  <2> QED
    BY <1>2, <2>2
<1> DEFINE Of(x, v) == \E C, f : Solves(f, C) /\ x \in C /\ v = f[x]
           h == [x \in N |-> CHOOSE v : Of(x, v)]
<1>3. ASSUME NEW C, NEW f, Solves(f, C), NEW x \in C  PROVE h[x] = f[x]
  <2>1. x \in N
    BY <1>3
  <2> HIDE DEF Solves
  <2>2. Of(x, f[x])
    BY <1>3
  <2>3. \A v : Of(x, v) => v = f[x]
    BY <1>2, <1>3
  <2> HIDE DEF Of
  <2> QED
    BY <2>1, <2>2, <2>3
<1> HIDE DEF h
<1>4. ASSUME NEW x \in N  PROVE h[x] \in D /\ h[x] = From(h, x)
  <2>0. x \in S
    <3> HIDE DEF S
    <3> QED
      BY <1>1
  <2>1. PICK C, f : x \in C /\ Solves(f, C)
    <3> HIDE DEF Solves
    <3> QED
      BY <2>0
  <2>2. h[x] = f[x]
    BY <1>3, <2>1
  <2>3. up[x] \in N => h[up[x]] = f[up[x]]
    BY <1>3, <2>1
  <2> QED
    BY <2>1, <2>2, <2>3
<1>5. h \in [N -> D]
  BY <1>4 DEF h
<1>6. Grown(h, up, D, base, step)
  BY <1>4, <1>5 DEF Grown
<1> QED
  BY <1>6
=============================================================================
