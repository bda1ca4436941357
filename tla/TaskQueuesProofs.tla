-------------------------- MODULE TaskQueuesProofs --------------------------
(***************************************************************************)
(* Theorems about the task queues, for every value of the constants: the   *)
(* queues' own, then that no wakeup is lost, then that tasks are counted,  *)
(* so the limit on them holds.  Each of the last two rests on an inductive *)
(* invariant of its own beside that of the queues (IInv), and each on a    *)
(* hypothesis about which built-ins the MOO code calls.                    *)
(***************************************************************************)
EXTENDS TaskQueues, Facts, SequenceTheorems, FiniteSetTheorems, TLAPS

(***************************************************************************)
(* Sequences.                                                              *)
(***************************************************************************)

\* What InsertAt returns, position by position.
LEMMA InsertAtProperties ==
    ASSUME NEW D, NEW s \in Seq(D), NEW k \in 1..Len(s)+1, NEW e \in D
    PROVE  /\ InsertAt(s, k, e) \in Seq(D)
           /\ Len(InsertAt(s, k, e)) = Len(s) + 1
           /\ \A j \in 1..Len(s)+1 : InsertAt(s, k, e)[j] =
                 IF j < k THEN s[j] ELSE IF j = k THEN e ELSE s[j-1]
<1>1. /\ SubSeq(s, 1, k-1) \in Seq(D) /\ Len(SubSeq(s, 1, k-1)) = k-1
      /\ \A j \in 1..k-1 : SubSeq(s, 1, k-1)[j] = s[j]
  <2>1. \A i \in 1..k-1 : s[i] \in D
    BY ElementOfSeq
  <2> QED  BY <2>1, SubSeqProperties
<1>2. /\ SubSeq(s, k, Len(s)) \in Seq(D) /\ Len(SubSeq(s, k, Len(s))) = Len(s)-k+1
      /\ \A j \in 1..Len(s)-k+1 : SubSeq(s, k, Len(s))[j] = s[k+j-1]
  <2>1. \A i \in k..Len(s) : s[i] \in D
    BY ElementOfSeq
  <2> QED  BY <2>1, SubSeqProperties
<1>3. <<e>> \in Seq(D) /\ Len(<<e>>) = 1 /\ <<e>>[1] = e
  OBVIOUS
<1> DEFINE front == SubSeq(s, 1, k-1) \o <<e>>
<1>4. /\ front \in Seq(D) /\ Len(front) = k
      /\ \A j \in 1..k : front[j] = IF j < k THEN s[j] ELSE e
  BY <1>1, <1>3, ConcatProperties
<1>5. InsertAt(s, k, e) = front \o SubSeq(s, k, Len(s))
  BY DEF InsertAt
<1> HIDE DEF front
<1> QED  BY <1>2, <1>4, <1>5, ConcatProperties

\* Inserting a new element keeps a sequence without duplicates, and adds the
\* element to its range.
LEMMA InsertAtRange ==
    ASSUME NEW D, NEW s \in Seq(D), NEW k \in 1..Len(s)+1, NEW e \in D
    PROVE  /\ Range(InsertAt(s, k, e)) = Range(s) \cup {e}
           /\ IsInjective(s) /\ e \notin Range(s) => IsInjective(InsertAt(s, k, e))
<1> DEFINE t == InsertAt(s, k, e)
<1>1. /\ t \in Seq(D) /\ Len(t) = Len(s) + 1
      /\ \A j \in 1..Len(s)+1 :
            t[j] = IF j < k THEN s[j] ELSE IF j = k THEN e ELSE s[j-1]
  BY InsertAtProperties
<1>2. DOMAIN s = 1..Len(s) /\ DOMAIN t = 1..Len(s)+1 /\ Len(s) \in Nat
  BY <1>1, LenProperties
<1> HIDE DEF t
<1>3. Range(t) \subseteq Range(s) \cup {e}
  <2> SUFFICES ASSUME NEW j \in 1..Len(s)+1  PROVE t[j] = e \/ \E i \in 1..Len(s) : t[j] = s[i]
    BY <1>2 DEF Range
  <2>1. CASE j < k
    BY <1>1, <1>2, <2>1
  <2>2. CASE j > k
    <3>1. t[j] = s[j-1] /\ j-1 \in 1..Len(s)
      BY <1>1, <1>2, <2>2
    <3> QED  BY <3>1
  <2>3. CASE j = k
    BY <1>1, <1>2, <2>3
  <2> QED  BY <2>1, <2>2, <2>3
<1>4. e \in Range(t)
  BY <1>1, <1>2 DEF Range
<1>5. Range(s) \subseteq Range(t)
  <2> SUFFICES ASSUME NEW i \in 1..Len(s)  PROVE s[i] \in Range(t)
    BY <1>2 DEF Range
  <2>1. CASE i < k
    BY <1>1, <1>2, <2>1 DEF Range
  <2>2. CASE i >= k
    <3>1. t[i+1] = s[i] /\ i+1 \in DOMAIN t
      BY <1>1, <1>2, <2>2
    <3> QED  BY <3>1 DEF Range
  <2> QED  BY <2>1, <2>2
<1>6. IsInjective(s) /\ e \notin Range(s) => IsInjective(t)
  <2> SUFFICES ASSUME \A a, b \in 1..Len(s) : s[a] = s[b] => a = b,
                      \A a \in 1..Len(s) : s[a] # e,
                      NEW a \in 1..Len(s)+1, NEW b \in 1..Len(s)+1, t[a] = t[b]
               PROVE  a = b
    BY <1>2 DEF IsInjective, Range
  <2> QED  BY <1>1, <1>2
<1> QED  BY <1>3, <1>4, <1>5, <1>6 DEF t

(***************************************************************************)
(* The operators on tqueues.                                               *)
(***************************************************************************)

Queues == [at : [Queue -> TQueue], idle : SUBSET Queue, active : Seq(Queue)]

\* Tqueue r is the same in S and T but for its usage.
Same(S, T, r) ==
    /\ T.at[r].player = S.at[r].player /\ T.at[r].connected = S.at[r].connected
    /\ T.at[r].input = S.at[r].input /\ T.at[r].input_suspended = S.at[r].input_suspended
    /\ T.at[r].bg = S.at[r].bg /\ T.at[r].num_bg = S.at[r].num_bg
    /\ T.at[r].hold_input = S.at[r].hold_input /\ T.at[r].reading = S.at[r].reading

HeadKept(S, T) == S.active # <<>> => T.active # <<>> /\ Head(T.active) = Head(S.active)

\* The active list is in order of usage.
ByUsage(S) ==
    \A i, j \in 1..Len(S.active) :
        i < j => S.at[S.active[i]].usage <= S.at[S.active[j]].usage

\* Input that is suspended will be resumed.
Resumes(tq) == tq.connected /\ tq.input_suspended => InputLength(tq.input) >= LoWat
Resuming(S) == \A q \in Queue : Resumes(S.at[q])

\* A set of places that has every place before each of its own is a prefix.
LEMMA PrefixIs ==
    ASSUME NEW n \in Nat, NEW B \in SUBSET (1..n), \A i \in B : \A j \in 1..i : j \in B
    PROVE  Cardinality(B) \in 0..n /\ B = 1..Cardinality(B)
<1>1. CASE B = {}
  <2>1. Cardinality(B) = 0
    BY <1>1, FS_EmptySet
  <2> QED  BY <1>1, <2>1
<1>2. CASE B # {}
  <2>1. B \in SUBSET (0..n)
    OBVIOUS
  <2>2. PICK m \in B : \A i \in B : i <= m
    BY <1>2, <2>1, Greatest
  <2>3. m \in Int /\ m >= 1 /\ m <= n
    BY <2>2
  <2>33. B \subseteq 1..m
    BY <2>2, <2>3
  <2>333. 1..m \subseteq B
    BY <2>2
  <2>4. Cardinality(1..m) = IF 1 > m THEN 0 ELSE m - 1 + 1
    BY <2>3, FS_Interval
  <2>5. B = 1..m
    BY <2>33, <2>333
  <2> QED  BY <2>3, <2>4, <2>5
<1> QED  BY <1>1, <1>2

\* In an ordered list activate_tqueue() finds the first queue that has used
\* more than q.
LEMMA BeforeIsPrefix ==
    ASSUME NEW S \in Queues, NEW q \in Queue, ByUsage(S)
    PROVE  LET k == Cardinality(Before(S, q))
           IN  /\ k \in 0..Len(S.active)
               /\ \A i \in 1..k : S.at[S.active[i]].usage <= S.at[q].usage
               /\ \A i \in k + 1..Len(S.active) : S.at[q].usage <= S.at[S.active[i]].usage
<1> DEFINE k == Cardinality(Before(S, q))
           n == Len(S.active)
<1>1. /\ n \in Nat /\ \A i \in 1..n : S.active[i] \in Queue
      /\ S.at \in [Queue -> TQueue]
  BY LenProperties, ElementOfSeq DEF Queues
<1>2. /\ S.at[q].usage \in Int
      /\ \A i \in 1..n : S.at[S.active[i]].usage \in Int
  BY <1>1 DEF TQueue
<1>3. Before(S, q) \in SUBSET (1..n) /\ \A i \in Before(S, q) : \A j \in 1..i : j \in Before(S, q)
  <2>1. Before(S, q) \in SUBSET (1..n)
    BY DEF Before
  <2>2. ASSUME NEW i \in Before(S, q), NEW j \in 1..i  PROVE j \in Before(S, q)
    <3>1. i \in 1..n /\ \A l \in 1..i : S.at[S.active[l]].usage <= S.at[q].usage
      BY DEF Before
    <3>2. j \in 1..n /\ \A l \in 1..j : l \in 1..i
      BY <1>1, <3>1
    <3> QED  BY <3>1, <3>2 DEF Before
  <2> QED  BY <2>1, <2>2
<1>4. k \in 0..n /\ Before(S, q) = 1..k
  <2> HIDE DEF n
  <2> QED  BY <1>1, <1>3, PrefixIs
<1> HIDE DEF k
<1>5. \A i \in 1..k : S.at[S.active[i]].usage <= S.at[q].usage
  BY <1>4 DEF Before
<1>6. ASSUME NEW i \in k + 1..n  PROVE S.at[q].usage <= S.at[S.active[i]].usage
  <2>1. i \in 1..n /\ i \notin Before(S, q)
    BY <1>4
  <2>2. PICK j \in 1..i : ~(S.at[S.active[j]].usage <= S.at[q].usage)
    BY <2>1 DEF Before
  <2>3. j \in 1..n /\ (j < i \/ j = i)
    BY <2>1
  <2>4. S.at[S.active[j]].usage <= S.at[S.active[i]].usage
    BY <1>2, <2>1, <2>3 DEF ByUsage
  <2> QED  BY <1>2, <2>1, <2>2, <2>3, <2>4
<1> QED  BY <1>4, <1>5, <1>6 DEF k

\* The place that activate_tqueue() looks for is a place in the list, and not
\* the first one if the head has used no more than q.
LEMMA BeforeProperties ==
    ASSUME NEW S \in Queues, NEW q \in Queue
    PROVE  /\ Cardinality(Before(S, q)) \in 0..Len(S.active)
           /\ S.active # <<>> /\ S.at[Head(S.active)].usage <= S.at[q].usage
                 => Cardinality(Before(S, q)) >= 1
<1>1. Len(S.active) \in Nat
  BY LenProperties DEF Queues
<1>2. IsFiniteSet(1..Len(S.active)) /\ Cardinality(1..Len(S.active)) = Len(S.active)
  <2> DEFINE n == Len(S.active)
  <2> HIDE DEF n
  <2>1. n \in Int /\ 1 \in Int
    BY <1>1 DEF n
  <2>2. IsFiniteSet(1..n) /\ Cardinality(1..n) = IF 1 > n THEN 0 ELSE n - 1 + 1
    BY <2>1, FS_Interval
  <2>3. n \in Nat
    BY <1>1 DEF n
  <2>4. Cardinality(1..n) = n
    BY <2>2, <2>3
  <2> QED  BY <2>2, <2>4 DEF n
<1>3. Before(S, q) \in SUBSET (1..Len(S.active))
  BY DEF Before
<1>4. IsFiniteSet(Before(S, q)) /\ Cardinality(Before(S, q)) <= Len(S.active)
  BY <1>2, <1>3, FS_Subset
<1>5. Cardinality(Before(S, q)) \in Nat
  BY <1>4, FS_CardinalityType
<1>6. ASSUME S.active # <<>>, S.at[Head(S.active)].usage <= S.at[q].usage
      PROVE  Cardinality(Before(S, q)) >= 1
  <2>1. Head(S.active) = S.active[1] /\ 1 \in 1..Len(S.active)
    BY <1>1, <1>6 DEF Queues
  <2>2. 1 \in Before(S, q)
    <3>1. \A j \in 1..1 : j = 1
      OBVIOUS
    <3> QED  BY <1>6, <2>1, <3>1 DEF Before
  <2>3. Cardinality(Before(S, q)) # 0
    BY <1>4, <2>2, FS_EmptySet
  <2> QED  BY <1>5, <2>3
<1> QED  BY <1>1, <1>4, <1>5, <1>6

\* Sequence t is s with q put in at position k.
Inserted(t, s, k, q) ==
    /\ t \in Seq(Queue) /\ Len(t) = Len(s) + 1
    /\ \A j \in 1..Len(s)+1 : t[j] = IF j < k THEN s[j] ELSE IF j = k THEN q ELSE s[j-1]

LEMMA InsertQueueProperties ==
    ASSUME NEW s \in Seq(Queue), NEW k \in 1..Len(s)+1, NEW q \in Queue
    PROVE  Inserted(InsertAt(s, k, q), s, k, q)
BY InsertAtProperties DEF Inserted

\* activate_tqueue() of a queue that is on neither list.
LEMMA ActivateTQueueProperties ==
    ASSUME NEW S, QueuesTypeOK(S), NEW q \in Queue,
           q \notin Alloc(S), S.at[q].usage >= 0
    PROVE  LET T == ActivateTQueue(S, q)
           IN  /\ QueuesTypeOK(T)
               /\ T.at = S.at /\ T.idle = S.idle
               /\ Range(T.active) = Range(S.active) \cup {q}
               /\ (S.active = <<>> \/ S.at[Head(S.active)].usage <= S.at[q].usage)
                     => HeadKept(S, T)
               /\ ByUsage(S) => ByUsage(T)
<1> DEFINE T == ActivateTQueue(S, q)
           k == Cardinality(Before(S, q)) + 1
<1>1. S \in Queues /\ S.active \in Seq(Queue) /\ Len(S.active) \in Nat
  BY LenProperties DEF QueuesTypeOK, Queues
<1>2. k \in 1..Len(S.active)+1
  BY <1>1, BeforeProperties
<1>3. /\ T = [S EXCEPT !.active = InsertAt(S.active, k, q)]
      /\ T.at = S.at /\ T.idle = S.idle /\ T.active = InsertAt(S.active, k, q)
  BY <1>1 DEF ActivateTQueue, Queues
<1> HIDE DEF k, T
<1>4. /\ T.active \in Seq(Queue) /\ Len(T.active) = Len(S.active) + 1
      /\ \A j \in 1..Len(S.active)+1 : T.active[j] =
            IF j < k THEN S.active[j] ELSE IF j = k THEN q ELSE S.active[j-1]
  <2>1. Inserted(InsertAt(S.active, k, q), S.active, k, q)
    BY <1>1, <1>2, InsertQueueProperties
  <2>2. Inserted(T.active, S.active, k, q)
    BY <1>3, <2>1
  <2> QED  BY <2>2 DEF Inserted
<1>5. /\ Range(T.active) = Range(S.active) \cup {q}
      /\ IsInjective(T.active)
  <2>1. IsInjective(S.active) /\ q \notin Range(S.active)
    BY DEF QueuesTypeOK, Alloc
  <2>2. /\ Range(InsertAt(S.active, k, q)) = Range(S.active) \cup {q}
        /\ IsInjective(S.active) /\ q \notin Range(S.active)
              => IsInjective(InsertAt(S.active, k, q))
    BY <1>1, <1>2, InsertAtRange
  <2> QED  BY <1>3, <2>1, <2>2
<1>6. QueuesTypeOK(T)
  <2>1. T \in Queues
    BY <1>1, <1>3, <1>4 DEF Queues
  <2>2. T.idle \cap Range(T.active) = {}
    BY <1>3, <1>5 DEF QueuesTypeOK, Alloc
  <2>3. \A r \in T.idle : T.at[r].usage = NO_USAGE
    BY <1>3 DEF QueuesTypeOK
  <2>4. \A r \in Range(T.active) : T.at[r].usage >= 0
    BY <1>3, <1>5 DEF QueuesTypeOK
  <2> QED  BY <1>5, <2>1, <2>2, <2>3, <2>4 DEF QueuesTypeOK, Queues
<1>7. ASSUME S.active # <<>>, S.at[Head(S.active)].usage <= S.at[q].usage
      PROVE  T.active # <<>> /\ Head(T.active) = Head(S.active)
  <2>1. Cardinality(Before(S, q)) >= 1 /\ Cardinality(Before(S, q)) \in Nat
    BY <1>1, <1>7, BeforeProperties
  <2>2. k > 1
    BY <2>1 DEF k
  <2>3. T.active[1] = S.active[1] /\ T.active # <<>>
    BY <1>1, <1>4, <1>2, <2>2
  <2> QED  BY <1>1, <1>4, <1>7, <2>3
<1>8. ASSUME ByUsage(S)  PROVE ByUsage(T)
  <2> DEFINE n == Len(S.active)
             At(i) == S.at[S.active[i]].usage
  <2>1. /\ n \in Nat /\ k \in 1..n + 1
        /\ \A i \in 1..k - 1 : At(i) <= S.at[q].usage
        /\ \A i \in k..n : S.at[q].usage <= At(i)
    BY <1>1, <1>2, <1>8, BeforeIsPrefix DEF k
  <2>2. /\ S.at[q].usage \in Int /\ \A i \in 1..n : At(i) \in Int
        /\ \A i, j \in 1..n : i < j => At(i) <= At(j)
    <3>1. /\ S.at \in [Queue -> TQueue] /\ \A i \in 1..n : S.active[i] \in Queue
      BY <1>1, ElementOfSeq DEF Queues
    <3> QED  BY <1>8, <3>1 DEF ByUsage, TQueue
  <2>3. /\ Len(T.active) = n + 1
        /\ \A j \in 1..n + 1 : T.at[T.active[j]].usage =
               IF j < k THEN At(j) ELSE IF j = k THEN S.at[q].usage ELSE At(j - 1)
    BY <1>3, <1>4
  <2> HIDE DEF n, At
  <2>4. ASSUME NEW i \in 1..n + 1, NEW j \in 1..n + 1, i < j
        PROVE  T.at[T.active[i]].usage <= T.at[T.active[j]].usage
    <3>1. CASE j < k
      BY <2>1, <2>2, <2>3, <2>4, <3>1
    <3>2. CASE j = k
      BY <2>1, <2>2, <2>3, <2>4, <3>2
    <3>3. CASE j > k /\ i < k
      <4>1. j - 1 \in k..n /\ T.at[T.active[j]].usage = At(j - 1)
        BY <2>1, <2>3, <2>4, <3>3
      <4>2. i \in 1..k - 1 /\ T.at[T.active[i]].usage = At(i)
        BY <2>1, <2>3, <2>4, <3>3
      <4>3. At(i) <= S.at[q].usage /\ S.at[q].usage <= At(j - 1)
        BY <2>1, <4>1, <4>2
      <4>4. i \in 1..n /\ j - 1 \in 1..n
        BY <2>1, <4>1, <4>2
      <4>5. At(i) \in Int /\ At(j - 1) \in Int
        BY <2>2, <4>4
      <4> QED  BY <2>2, <4>1, <4>2, <4>3, <4>5
    <3>4. CASE j > k /\ i = k
      <4>1. j - 1 \in k..n /\ T.at[T.active[j]].usage = At(j - 1) /\ T.at[T.active[i]].usage = S.at[q].usage
        BY <2>1, <2>3, <2>4, <3>4
      <4> QED  BY <2>1, <4>1
    <3>5. CASE j > k /\ i > k
      <4>1. j - 1 \in 1..n /\ T.at[T.active[j]].usage = At(j - 1)
        BY <2>1, <2>3, <2>4, <3>5
      <4>2. i - 1 \in 1..n /\ T.at[T.active[i]].usage = At(i - 1)
        BY <2>1, <2>3, <2>4, <3>5
      <4> QED  BY <2>2, <2>4, <4>1, <4>2
    <3> QED  BY <2>1, <3>1, <3>2, <3>3, <3>4, <3>5
  <2> QED  BY <2>3, <2>4 DEF ByUsage
<1> QED  BY <1>3, <1>5, <1>6, <1>7, <1>8 DEF HeadKept, T

\* ensure_usage(): the queue is active afterwards, behind the head.
LEMMA EnsureUsageProperties ==
    ASSUME NEW S, QueuesTypeOK(S), NEW q \in Queue
    PROVE  LET T == EnsureUsage(S, q)
           IN  /\ QueuesTypeOK(T)
               /\ HeadKept(S, T) /\ \A r \in Queue : Same(S, T, r)
               /\ T.idle = S.idle \ {q}
               /\ q \in Alloc(S) => q \in Range(T.active) /\ Alloc(T) = Alloc(S)
               /\ Range(S.active) \subseteq Range(T.active)
               /\ ByUsage(S) => ByUsage(T)
<1> DEFINE T == EnsureUsage(S, q)
<1>1. S \in Queues
  BY DEF QueuesTypeOK, Queues
<1>2. CASE S.at[q].usage # NO_USAGE
  <2>1. T = S /\ q \notin S.idle
    BY <1>2 DEF EnsureUsage, QueuesTypeOK
  <2>2. \A r \in Queue : Same(S, S, r)
    BY DEF Same
  <2> QED  BY <2>1, <2>2 DEF HeadKept, Alloc
<1>3. CASE S.at[q].usage = NO_USAGE
  <2> DEFINE U == [S EXCEPT !.at[q].usage = FrontUsage(S), !.idle = @ \ {q}]
  <2>1. q \notin Range(S.active)
    BY <1>3 DEF QueuesTypeOK, NO_USAGE
  <2>2. /\ FrontUsage(S) \in Int /\ FrontUsage(S) >= 0
        /\ S.active # <<>> => FrontUsage(S) = S.at[Head(S.active)].usage
                              /\ Head(S.active) \in Range(S.active)
    <3>1. CASE S.active = <<>>
      BY <3>1 DEF FrontUsage
    <3>2. CASE S.active # <<>>
      <4>1. Head(S.active) = S.active[1] /\ 1 \in DOMAIN S.active
        BY <1>1, <3>2 DEF Queues
      <4>2. Head(S.active) \in Range(S.active) /\ Head(S.active) \in Queue
        BY <1>1, <4>1 DEF Range, Queues
      <4> QED  BY <1>1, <3>2, <4>2 DEF FrontUsage, QueuesTypeOK, Queues, TQueue
    <3> QED  BY <3>1, <3>2
  <2>3. /\ U \in Queues /\ U.active = S.active /\ U.idle = S.idle \ {q}
        /\ \A r \in Queue : Same(S, U, r)
        /\ U.at[q].usage = FrontUsage(S)
        /\ \A r \in Queue \ {q} : U.at[r] = S.at[r]
    <3>1. S.at[q] \in TQueue
      BY <1>1 DEF Queues
    <3>2. /\ [S.at[q] EXCEPT !.usage = FrontUsage(S)] \in TQueue
          /\ [S.at[q] EXCEPT !.usage = FrontUsage(S)].usage = FrontUsage(S)
      BY <2>2, <3>1 DEF TQueue
    <3> DEFINE t == [S.at[q] EXCEPT !.usage = FrontUsage(S)]
    <3>3. /\ t.player = S.at[q].player /\ t.connected = S.at[q].connected
          /\ t.input = S.at[q].input /\ t.input_suspended = S.at[q].input_suspended
          /\ t.bg = S.at[q].bg /\ t.num_bg = S.at[q].num_bg
          /\ t.hold_input = S.at[q].hold_input /\ t.reading = S.at[q].reading
      BY <3>1 DEF TQueue
    <3> HIDE DEF t
    <3>4. t \in TQueue /\ t.usage = FrontUsage(S)
      BY <3>2 DEF t
    <3>5. /\ U \in Queues /\ U.active = S.active /\ U.idle = S.idle \ {q}
          /\ U.at = [S.at EXCEPT ![q] = t]
      BY <1>1, <3>1, <3>4 DEF Queues, t
    <3> HIDE DEF U
    <3>6. \A r \in Queue : U.at[r] = IF r = q THEN t ELSE S.at[r]
      BY <1>1, <3>5 DEF Queues
    <3>7. \A r \in Queue : Same(S, U, r)
      BY <3>3, <3>6 DEF Same
    <3> QED  BY <3>4, <3>5, <3>6, <3>7
  <2>4. T = ActivateTQueue(U, q)
    BY <1>3 DEF EnsureUsage
  <2> HIDE DEF U
  <2>5. \A r \in Range(S.active) \cup S.idle : r \in Queue
    BY <1>1 DEF Queues, Range
  <2>6. QueuesTypeOK(U)
    <3>1. U.idle \cap Range(U.active) = {} /\ IsInjective(U.active)
      BY <2>3 DEF QueuesTypeOK
    <3>2. \A r \in U.idle : U.at[r].usage = NO_USAGE
      BY <2>3, <2>5 DEF QueuesTypeOK
    <3>3. \A r \in Range(U.active) : U.at[r].usage >= 0
      BY <2>1, <2>3, <2>5 DEF QueuesTypeOK
    <3> QED  BY <2>3, <3>1, <3>2, <3>3 DEF QueuesTypeOK, Queues
  <2>7. q \notin Alloc(U) /\ U.at[q].usage >= 0
    BY <2>1, <2>2, <2>3 DEF Alloc
  <2>8. /\ QueuesTypeOK(T) /\ T.at = U.at /\ T.idle = U.idle
        /\ Range(T.active) = Range(U.active) \cup {q}
        /\ (U.active = <<>> \/ U.at[Head(U.active)].usage <= U.at[q].usage)
               => HeadKept(U, T)
        /\ ByUsage(U) => ByUsage(T)
    BY <2>4, <2>6, <2>7, ActivateTQueueProperties
  <2>9. HeadKept(U, T)
    <3>1. ASSUME U.active # <<>>  PROVE U.at[Head(U.active)].usage <= U.at[q].usage
      BY <2>1, <2>2, <2>3, <2>5, <3>1
    <3> QED  BY <2>8, <3>1
  <2>10. HeadKept(S, T)
    BY <2>3, <2>9 DEF HeadKept
  <2>11. ByUsage(S) => ByUsage(T)
    <3>1. \A i \in 1..Len(S.active) : S.active[i] \in Queue \ {q}
      BY <1>1, <2>1, LenProperties, ElementOfSeq DEF Queues, Range
    <3>2. ByUsage(S) => ByUsage(U)
      BY <2>3, <3>1 DEF ByUsage
    <3> QED  BY <2>8, <3>2
  <2> QED  BY <2>3, <2>8, <2>10, <2>11 DEF Same, Alloc
<1> QED  BY <1>2, <1>3

\* What every value of queues satisfies, and what a step that changes only
\* one tqueue, or only what is on the lists behind the head, keeps.
OnePerPlayer(S) ==
    \A q, r \in Alloc(S) : S.at[q].player = S.at[r].player /\ S.at[q].player # NOTHING => q = r
Sound(S) == QueuesTypeOK(S) /\ OnePerPlayer(S) /\ ByUsage(S) /\ Resuming(S)
Leads(S, T) == Sound(T) /\ HeadKept(S, T) /\ Alloc(S) \subseteq Alloc(T)

LEMMA LeadsTransitive ==
    ASSUME NEW S, NEW T, NEW U, Leads(S, T), Leads(T, U)
    PROVE  Leads(S, U)
BY DEF Leads, HeadKept

LEMMA LeadsReflexive ==
    ASSUME NEW S, Sound(S)
    PROVE  Leads(S, S)
BY DEF Leads, HeadKept

LEMMA AllocInQueue ==
    ASSUME NEW S, QueuesTypeOK(S)
    PROVE  /\ S \in Queues /\ Alloc(S) \subseteq Queue
           /\ S.active \in Seq(Queue)
           /\ S.active # <<>> => Head(S.active) \in Range(S.active)
<1>1. S \in Queues /\ S.active \in Seq(Queue)
  BY DEF QueuesTypeOK, Queues
<1>2. Range(S.active) \subseteq Queue
  BY <1>1, LenProperties, ElementOfSeq DEF Range
<1>3. S.active # <<>> => Head(S.active) \in Range(S.active)
  <2>1. ASSUME S.active # <<>>  PROVE Head(S.active) = S.active[1] /\ 1 \in DOMAIN S.active
    BY <1>1, <2>1
  <2> QED  BY <2>1 DEF Range
<1> QED  BY <1>1, <1>2, <1>3 DEF Alloc, Queues

LEMMA SameResumes ==
    ASSUME NEW S, NEW T, Resuming(S), \A r \in Queue : Same(S, T, r)
    PROVE  Resuming(T)
BY DEF Same, Resuming, Resumes

\* A step that leaves the lists and every usage alone.
LEMMA ListsKept ==
    ASSUME NEW S, QueuesTypeOK(S), NEW T \in Queues,
           T.active = S.active, T.idle = S.idle,
           \A r \in Queue : T.at[r].usage = S.at[r].usage
    PROVE  /\ QueuesTypeOK(T) /\ HeadKept(S, T) /\ Alloc(T) = Alloc(S)
           /\ ByUsage(S) => ByUsage(T)
<1>1. S \in Queues /\ Alloc(S) \subseteq Queue
  BY AllocInQueue
<1>2. \A r \in T.idle : T.at[r].usage = NO_USAGE
  BY <1>1 DEF QueuesTypeOK, Queues
<1>3. \A r \in Range(T.active) : T.at[r].usage >= 0
  BY <1>1 DEF QueuesTypeOK, Alloc
<1>4. IsInjective(T.active) /\ T.idle \cap Range(T.active) = {}
  BY DEF QueuesTypeOK
<1>5. ByUsage(S) => ByUsage(T)
  <2>1. \A i \in 1..Len(S.active) : S.active[i] \in Queue
    BY <1>1, LenProperties, ElementOfSeq DEF Queues
  <2> QED  BY <2>1 DEF ByUsage
<1> QED  BY <1>2, <1>3, <1>4, <1>5 DEF QueuesTypeOK, Queues, HeadKept, Alloc

\* An assignment to the fields of one tqueue, other than usage.
LEMMA AssignmentType ==
    ASSUME NEW S, QueuesTypeOK(S), NEW q \in Queue, NEW t \in TQueue,
           t.usage = S.at[q].usage
    PROVE  LET T == [S EXCEPT !.at = [S.at EXCEPT ![q] = t]]
           IN  /\ QueuesTypeOK(T) /\ HeadKept(S, T)
               /\ T.active = S.active /\ T.idle = S.idle /\ Alloc(T) = Alloc(S)
               /\ T.at = [S.at EXCEPT ![q] = t]
               /\ ByUsage(S) => ByUsage(T)
<1> DEFINE T == [S EXCEPT !.at = [S.at EXCEPT ![q] = t]]
<1>1. S \in Queues
  BY AllocInQueue
<1>2. /\ T \in Queues /\ T.active = S.active /\ T.idle = S.idle
      /\ T.at = [S.at EXCEPT ![q] = t]
  BY <1>1 DEF Queues
<1>3. \A r \in Queue : T.at[r].usage = S.at[r].usage
  BY <1>1, <1>2 DEF Queues
<1> HIDE DEF T
<1>4. /\ QueuesTypeOK(T) /\ HeadKept(S, T) /\ Alloc(T) = Alloc(S)
      /\ ByUsage(S) => ByUsage(T)
  BY <1>2, <1>3, ListsKept
<1> QED  BY <1>2, <1>4 DEF T

\* ... nor to player.
LEMMA AssignmentProperties ==
    ASSUME NEW S, Sound(S), NEW q \in Queue, NEW t \in TQueue,
           t.usage = S.at[q].usage, t.player = S.at[q].player, Resumes(t)
    PROVE  LET T == [S EXCEPT !.at = [S.at EXCEPT ![q] = t]]
           IN  /\ Leads(S, T)
               /\ T.active = S.active /\ T.idle = S.idle /\ Alloc(T) = Alloc(S)
               /\ T.at = [S.at EXCEPT ![q] = t]
<1> DEFINE T == [S EXCEPT !.at = [S.at EXCEPT ![q] = t]]
<1>1. S \in Queues /\ QueuesTypeOK(S) /\ Alloc(S) \subseteq Queue
  BY AllocInQueue DEF Sound
<1>2. /\ QueuesTypeOK(T) /\ HeadKept(S, T)
      /\ T.active = S.active /\ T.idle = S.idle /\ Alloc(T) = Alloc(S)
      /\ T.at = [S.at EXCEPT ![q] = t]
      /\ ByUsage(T)
  BY <1>1, AssignmentType DEF Sound
<1> HIDE DEF T
<1>3. \A r \in Queue : T.at[r].player = S.at[r].player
  BY <1>1, <1>2 DEF Queues
<1>4. OnePerPlayer(T)
  BY <1>1, <1>2, <1>3 DEF OnePerPlayer, Sound
<1>5. Resuming(T)
  BY <1>1, <1>2 DEF Resuming, Sound, Queues
<1> QED  BY <1>2, <1>4, <1>5 DEF T, Leads, Sound

LEMMA EnsureUsageLeads ==
    ASSUME NEW S, Sound(S), NEW q \in Alloc(S)
    PROVE  LET T == EnsureUsage(S, q)
           IN  /\ Leads(S, T) /\ Alloc(T) = Alloc(S) /\ T.idle = S.idle \ {q}
               /\ \A r \in Queue : Same(S, T, r)
<1> DEFINE T == EnsureUsage(S, q)
<1>1. QueuesTypeOK(S) /\ q \in Queue /\ Alloc(S) \subseteq Queue /\ S \in Queues
  BY AllocInQueue DEF Sound
<1>2. /\ QueuesTypeOK(T) /\ HeadKept(S, T) /\ \A r \in Queue : Same(S, T, r)
      /\ Alloc(T) = Alloc(S) /\ T.idle = S.idle \ {q} /\ ByUsage(T)
  BY <1>1, EnsureUsageProperties DEF Sound
<1> HIDE DEF T
<1>4. OnePerPlayer(T)
  BY <1>1, <1>2 DEF OnePerPlayer, Sound, Same
<1>5. Resuming(T)
  BY <1>2, SameResumes DEF Sound
<1> QED  BY <1>2, <1>4, <1>5 DEF Leads, Sound, T

\* find_tqueue(p, 1): the queue found exists, and is new if p had none.
LEMMA WithTQueueType ==
    ASSUME NEW S, QueuesTypeOK(S), NEW p \in Player \cup {NOTHING}, Room(S, p)
    PROVE  LET T == WithTQueue(S, p)
               q == FindTQueue(S, p)
           IN  /\ QueuesTypeOK(T) /\ HeadKept(S, T)
               /\ q \in Alloc(T) /\ T.at[q].player = p /\ Alloc(T) = Alloc(S) \cup {q}
               /\ T.active = S.active
               /\ \A r \in Alloc(S) : T.at[r] = S.at[r]
               /\ Held(S, p) # {} => T = S
               /\ Held(S, p) = {} =>
                     /\ q \in Queue \ Alloc(S)
                     /\ T.idle = S.idle \cup {q}
                     /\ T.at = [S.at EXCEPT ![q] = NewTQueue(p)]
               /\ ByUsage(S) => ByUsage(T)
               /\ Resuming(S) => Resuming(T)
<1> DEFINE T == WithTQueue(S, p)
           q == FindTQueue(S, p)
<1>1. S \in Queues /\ Alloc(S) \subseteq Queue
  BY AllocInQueue
<1>3. CASE Held(S, p) # {}
  <2>1. T = S /\ q = Owner(S, p)
    BY <1>3 DEF WithTQueue, FindTQueue
  <2>2. q \in Held(S, p)
    BY <1>3, <2>1 DEF Owner
  <2> QED  BY <1>3, <2>1, <2>2 DEF Held, HeadKept
<1>4. CASE Held(S, p) = {}
  <2>1. /\ T = [S EXCEPT !.at[Fresh(S)] = NewTQueue(p), !.idle = @ \cup {Fresh(S)}]
        /\ q = Fresh(S)
    BY <1>4 DEF WithTQueue, FindTQueue
  <2>2. q \in Queue /\ q \notin Alloc(S)
    BY <1>4, <2>1 DEF Room, Fresh
  <2> HIDE DEF q
  <2>3. NewTQueue(p) \in TQueue /\ NewTQueue(p).player = p /\ NewTQueue(p).usage = NO_USAGE
    BY <1>1 DEF NewTQueue, TQueue, Player, NO_USAGE
  <2>4. /\ T.at = [S.at EXCEPT ![q] = NewTQueue(p)]
        /\ T.idle = S.idle \cup {q} /\ T.active = S.active /\ T \in Queues
    BY <1>1, <2>1, <2>2, <2>3 DEF Queues
  <2> HIDE DEF T
  <2>5. Alloc(T) = Alloc(S) \cup {q}
    BY <2>4 DEF Alloc
  <2>6. T.at[q] = NewTQueue(p) /\ \A r \in Alloc(S) : T.at[r] = S.at[r]
    BY <1>1, <2>2, <2>4 DEF Queues
  <2>7. QueuesTypeOK(T)
    <3>1. T.idle \cap Range(T.active) = {} /\ IsInjective(T.active)
      BY <1>1, <2>2, <2>4 DEF QueuesTypeOK, Alloc
    <3>2. \A r \in T.idle : T.at[r].usage = NO_USAGE
      BY <1>1, <2>3, <2>4, <2>6 DEF QueuesTypeOK, Alloc
    <3>3. \A r \in Range(T.active) : T.at[r].usage >= 0
      BY <1>1, <2>4, <2>6 DEF QueuesTypeOK, Alloc
    <3> QED  BY <2>4, <3>1, <3>2, <3>3 DEF QueuesTypeOK, Queues
  <2>8. ByUsage(S) => ByUsage(T)
    <3>1. \A i \in 1..Len(S.active) : S.active[i] \in Alloc(S)
      BY <1>1, LenProperties DEF Queues, Alloc, Range
    <3> QED  BY <2>4, <2>6, <3>1 DEF ByUsage
  <2>9. Resuming(S) => Resuming(T)
    <3>1. Resumes(NewTQueue(p))
      BY DEF Resumes, NewTQueue
    <3> QED  BY <1>1, <2>4, <3>1 DEF Resuming, Queues
  <2> QED  BY <1>4, <2>2, <2>3, <2>4, <2>5, <2>6, <2>7, <2>8, <2>9 DEF HeadKept, T, q
<1> QED  BY <1>3, <1>4

\* ... and is the only one of p.
LEMMA WithTQueueProperties ==
    ASSUME NEW S, Sound(S), NEW p \in Player, Room(S, p)
    PROVE  LET T == WithTQueue(S, p)
               q == FindTQueue(S, p)
           IN  /\ Leads(S, T)
               /\ q \in Alloc(T) /\ T.at[q].player = p /\ Held(T, p) = {q}
               /\ T.active = S.active
               /\ \A r \in Alloc(S) : T.at[r] = S.at[r]
               /\ Held(S, p) # {} => T = S
               /\ Held(S, p) = {} =>
                     /\ q \in Queue \ Alloc(S)
                     /\ T.idle = S.idle \cup {q}
                     /\ T.at = [S.at EXCEPT ![q] = NewTQueue(p)]
<1> DEFINE T == WithTQueue(S, p)
           q == FindTQueue(S, p)
<1>1. QueuesTypeOK(S) /\ p # NOTHING
  BY PlayersAssumption DEF Player, NOTHING, Sound
<1>2. /\ QueuesTypeOK(T) /\ HeadKept(S, T)
      /\ q \in Alloc(T) /\ T.at[q].player = p /\ Alloc(T) = Alloc(S) \cup {q}
      /\ T.active = S.active
      /\ \A r \in Alloc(S) : T.at[r] = S.at[r]
      /\ Held(S, p) # {} => T = S
      /\ Held(S, p) = {} =>
             /\ q \in Queue \ Alloc(S)
             /\ T.idle = S.idle \cup {q}
             /\ T.at = [S.at EXCEPT ![q] = NewTQueue(p)]
      /\ ByUsage(T) /\ Resuming(T)
  BY <1>1, WithTQueueType DEF Sound
<1> HIDE DEF T, q
<1>3. OnePerPlayer(T)
  BY <1>1, <1>2 DEF OnePerPlayer, Sound, Held
<1>4. Held(T, p) = {q}
  BY <1>1, <1>2, <1>3 DEF OnePerPlayer, Held
<1> QED  BY <1>2, <1>3, <1>4 DEF Leads, Sound, T, q

\* How many of the lines of s are of the kinds in K, and total_input_length.
Places(s, K) == {i \in DOMAIN s : s[i] \in K}
LEMMA MorePlaces ==
    ASSUME NEW s \in Seq(Line), NEW t \in Seq(Line), NEW d \in {0, 1}, Len(t) = Len(s) + 1,
           \A i \in 1..Len(s) : t[i + d] = s[i], NEW K
    PROVE  /\ Cardinality(Places(s, K)) \in Nat /\ Cardinality(Places(t, K)) \in Nat
           /\ Cardinality(Places(s, K)) <= Cardinality(Places(t, K))
<1> DEFINE n == Len(s)
<1>1. n \in Nat /\ DOMAIN s = 1..n /\ DOMAIN t = 1..n + 1
  BY LenProperties
<1>2. IsFiniteSet(1..n) /\ IsFiniteSet(1..n + 1)
  BY <1>1, FS_Interval
<1>3. IsFiniteSet(Places(s, K)) /\ IsFiniteSet(Places(t, K))
  <2>1. Places(s, K) \subseteq 1..n /\ Places(t, K) \subseteq 1..n + 1
    BY <1>1 DEF Places
  <2> QED  BY <1>2, <2>1, FS_Subset
<1>4. \E f : f \in Injection(Places(s, K), Places(t, K))
  <2> DEFINE f == [i \in Places(s, K) |-> i + d]
  <2>1. ASSUME NEW i \in Places(s, K)  PROVE i + d \in Places(t, K) /\ i \in Int
    <3>1. i \in 1..n /\ s[i] \in K
      BY <1>1 DEF Places
    <3>2. i + d \in 1..n + 1 /\ t[i + d] = s[i]
      BY <1>1, <3>1
    <3> QED  BY <1>1, <3>1, <3>2 DEF Places
  <2>2. f \in [Places(s, K) -> Places(t, K)]
    BY <2>1
  <2>3. ASSUME NEW i \in Places(s, K), NEW j \in Places(s, K), f[i] = f[j]  PROVE i = j
    BY <2>1, <2>3
  <2> QED  BY <2>2, <2>3 DEF Injection, IsInjective
<1>5. PICK f : f \in Injection(Places(s, K), Places(t, K))
  BY <1>4
<1>6. Cardinality(Places(s, K)) <= Cardinality(Places(t, K))
  BY <1>3, <1>5, FS_Injection
<1> QED  BY <1>3, <1>6, FS_CardinalityType

LEMMA InputLengthIs ==
    ASSUME NEW s \in Seq(Line)
    PROVE  \E K1, K2 : \A t \in Seq(Line) :
              InputLength(t) = Cardinality(Places(t, K1)) + Cardinality(Places(t, K2))
<1> DEFINE K1 == Line \ {"blank"}
           K2 == {"cmd"}
<1>1. ASSUME NEW t \in Seq(Line)
      PROVE  InputLength(t) = Cardinality(Places(t, K1)) + Cardinality(Places(t, K2))
  <2>1. \A i \in DOMAIN t : t[i] \in Line
    BY <1>1, LenProperties, ElementOfSeq
  <2>2. {i \in DOMAIN t : t[i] # "blank"} = Places(t, K1)
    BY <2>1 DEF Places
  <2>3. {i \in DOMAIN t : t[i] = "cmd"} = Places(t, K2)
    BY DEF Places
  <2> QED  BY <2>2, <2>3 DEF InputLength
<1> QED  BY <1>1

\* A line more makes the input no shorter.
LEMMA InputGrows ==
    ASSUME NEW s \in Seq(Line), NEW t \in Seq(Line), NEW d \in {0, 1}, Len(t) = Len(s) + 1,
           \A i \in 1..Len(s) : t[i + d] = s[i]
    PROVE  InputLength(s) \in Nat /\ InputLength(t) \in Nat /\ InputLength(s) <= InputLength(t)
<1>1. PICK K1, K2 : \A u \in Seq(Line) :
              InputLength(u) = Cardinality(Places(u, K1)) + Cardinality(Places(u, K2))
  BY InputLengthIs
<1>2. /\ InputLength(s) = Cardinality(Places(s, K1)) + Cardinality(Places(s, K2))
      /\ InputLength(t) = Cardinality(Places(t, K1)) + Cardinality(Places(t, K2))
  BY <1>1
<1>3. /\ Cardinality(Places(s, K1)) \in Nat /\ Cardinality(Places(t, K1)) \in Nat
      /\ Cardinality(Places(s, K1)) <= Cardinality(Places(t, K1))
      /\ Cardinality(Places(s, K2)) \in Nat /\ Cardinality(Places(t, K2)) \in Nat
      /\ Cardinality(Places(s, K2)) <= Cardinality(Places(t, K2))
  BY MorePlaces
<1> QED  BY <1>2, <1>3

LEMMA LineAdded ==
    ASSUME NEW s \in Seq(Line), NEW l \in Line, NEW atFront \in BOOLEAN,
           NEW t, t = IF atFront THEN <<l>> \o s ELSE Append(s, l)
    PROVE  /\ t \in Seq(Line) /\ t # <<>>
           /\ InputLength(s) \in Nat /\ InputLength(t) \in Nat /\ InputLength(s) <= InputLength(t)
<1>0. Len(s) \in Nat /\ <<l>> \in Seq(Line) /\ Len(<<l>>) = 1
  BY LenProperties
<1>1. CASE atFront
  <2>1. t \in Seq(Line) /\ Len(t) = 1 + Len(s) /\ \A i \in 1..1 + Len(s) : t[i] = IF i <= 1 THEN <<l>>[i] ELSE s[i - 1]
    BY <1>0, <1>1, ConcatProperties
  <2>2. Len(t) = Len(s) + 1
    BY <1>0, <2>1
  <2>3. PICK d \in {0, 1} : d = 1
    OBVIOUS
  <2>4. ASSUME NEW i \in 1..Len(s)  PROVE t[i + d] = s[i]
    <3>1. i + 1 \in 1..1 + Len(s) /\ ~(i + 1 <= 1) /\ (i + 1) - 1 = i
      BY <1>0
    <3>2. t[i + 1] = s[(i + 1) - 1]
      BY <2>1, <3>1
    <3> QED  BY <2>3, <3>1, <3>2
  <2>5. InputLength(s) \in Nat /\ InputLength(t) \in Nat /\ InputLength(s) <= InputLength(t)
    BY <2>1, <2>2, <2>4, InputGrows
  <2>6. t # <<>>
    BY <1>0, <2>2, EmptySeq
  <2> QED  BY <2>1, <2>5, <2>6
<1>2. CASE ~atFront
  <2>1. t \in Seq(Line) /\ Len(t) = Len(s) + 1 /\ \A i \in 1..Len(s) : t[i] = s[i]
    BY <1>0, <1>2, AppendProperties
  <2>2. PICK d \in {0, 1} : d = 0
    OBVIOUS
  <2>3. \A i \in 1..Len(s) : t[i + d] = s[i]
    BY <1>0, <2>1, <2>2
  <2>4. InputLength(s) \in Nat /\ InputLength(t) \in Nat /\ InputLength(s) <= InputLength(t)
    BY <2>1, <2>3, InputGrows
  <2>5. t # <<>>
    BY <1>0, <2>1, EmptySeq
  <2> QED  BY <2>1, <2>4, <2>5
<1> QED  BY <1>1, <1>2

LEMMA LoWatIs == LoWat \in Nat /\ LoWat >= 1 /\ LoWat <= HiWat /\ HiWat \in Nat
BY BoundsAssumption DEF LoWat

\* The lines of a queue change, and nothing else.
LinesTaken(S, T, q) ==
    \A r \in Queue :
        /\ T.at[r].bg = S.at[r].bg /\ T.at[r].num_bg = S.at[r].num_bg
        /\ T.at[r].reading = S.at[r].reading /\ T.at[r].connected = S.at[r].connected
        /\ T.at[r].hold_input = S.at[r].hold_input /\ T.at[r].player = S.at[r].player
        /\ r # q => T.at[r] = S.at[r]

LEMMA DequeueInputProperties ==
    ASSUME NEW S, Sound(S), NEW q \in Queue, S.at[q].input # <<>>
    PROVE  LET T == DequeueInput(S, q)
           IN  /\ Leads(S, T) /\ LinesTaken(S, T, q)
               /\ T.active = S.active /\ T.idle = S.idle /\ Alloc(T) = Alloc(S)
<1> DEFINE susp == S.at[q].input_suspended
                       /\ ~(S.at[q].connected /\ InputLength(Tail(S.at[q].input)) < LoWat)
           t == [S.at[q] EXCEPT !.input = Tail(S.at[q].input), !.input_suspended = susp]
           T == [S EXCEPT !.at = [S.at EXCEPT ![q] = t]]
<1>1. S \in Queues /\ S.at \in [Queue -> TQueue] /\ S.at[q] \in TQueue
  BY AllocInQueue DEF Sound, Queues
<1>2. susp \in BOOLEAN
  BY <1>1 DEF TQueue
<1>3. Tail(S.at[q].input) \in Seq(Line)
  BY <1>1, HeadTailProperties DEF TQueue
<1>4. DequeueInput(S, q) = T
  BY <1>1 DEF DequeueInput, Queues, TQueue
<1> HIDE DEF susp
<1>5. /\ t \in TQueue /\ t.usage = S.at[q].usage /\ t.player = S.at[q].player
      /\ t.bg = S.at[q].bg /\ t.num_bg = S.at[q].num_bg
      /\ t.reading = S.at[q].reading /\ t.connected = S.at[q].connected
      /\ t.hold_input = S.at[q].hold_input
  BY <1>1, <1>2, <1>3 DEF TQueue
<1>55. Resumes(t)
  <2>1. t.connected = S.at[q].connected /\ t.input = Tail(S.at[q].input) /\ t.input_suspended = susp
    BY <1>1 DEF TQueue
  <2> HIDE DEF t
  <2>2. InputLength(Tail(S.at[q].input)) \in Int
    <3> DEFINE s == Tail(S.at[q].input)
    <3>0. s \in Seq(Line)
      BY <1>3
    <3> HIDE DEF s
    <3>1. PICK l \in Line : TRUE
      BY DomainsAssumption
    <3>2. PICK b \in BOOLEAN : b = FALSE
      OBVIOUS
    <3>3. InputLength(s) \in Nat
      BY <3>0, <3>1, LineAdded
    <3> QED  BY <3>3 DEF s
  <2> DEFINE n == InputLength(Tail(S.at[q].input))
  <2>3. t.connected /\ t.input_suspended => ~(n < LoWat)
    BY <2>1 DEF susp
  <2>4. n \in Int /\ InputLength(t.input) = n
    BY <2>1, <2>2
  <2> HIDE DEF n
  <2> QED  BY <2>3, <2>4, LoWatIs DEF Resumes
<1> HIDE DEF t
<1>6. /\ Leads(S, T)
      /\ T.active = S.active /\ T.idle = S.idle /\ Alloc(T) = Alloc(S)
      /\ T.at = [S.at EXCEPT ![q] = t]
  BY <1>5, <1>55, AssignmentProperties
<1> HIDE DEF T
<1>7. LinesTaken(S, T, q)
  BY <1>1, <1>5, <1>6 DEF LinesTaken
<1> QED  BY <1>4, <1>6, <1>7

LEMMA DropInputType ==
    ASSUME NEW S, QueuesTypeOK(S), NEW q \in Queue
    PROVE  LET T == DropInput(S, q)
           IN  /\ QueuesTypeOK(T) /\ HeadKept(S, T) /\ LinesTaken(S, T, q) /\ T.at[q].input = <<>>
               /\ T.active = S.active /\ T.idle = S.idle /\ Alloc(T) = Alloc(S)
               /\ \A r \in Queue : T.at[r].usage = S.at[r].usage
               /\ ByUsage(S) => ByUsage(T)
               /\ Resumes(S.at[q]) => Resumes(T.at[q])
<1> DEFINE susp == S.at[q].input_suspended /\ ~(S.at[q].connected /\ S.at[q].input # <<>>)
           t == [S.at[q] EXCEPT !.input = <<>>, !.input_suspended = susp]
           T == [S EXCEPT !.at = [S.at EXCEPT ![q] = t]]
<1>1. S \in Queues /\ S.at \in [Queue -> TQueue] /\ S.at[q] \in TQueue
  BY AllocInQueue DEF Queues
<1>2. susp \in BOOLEAN
  BY <1>1 DEF TQueue
<1>3. <<>> \in Seq(Line)
  BY EmptySeq
<1>4. DropInput(S, q) = T
  BY <1>1 DEF DropInput, Queues, TQueue
<1> HIDE DEF susp
<1>5. /\ t \in TQueue /\ t.usage = S.at[q].usage /\ t.player = S.at[q].player
      /\ t.bg = S.at[q].bg /\ t.num_bg = S.at[q].num_bg
      /\ t.reading = S.at[q].reading /\ t.connected = S.at[q].connected
      /\ t.hold_input = S.at[q].hold_input /\ t.input = <<>>
      /\ t.input_suspended = susp
  BY <1>1, <1>2, <1>3 DEF TQueue
<1> HIDE DEF t
<1>6. /\ QueuesTypeOK(T) /\ HeadKept(S, T)
      /\ T.active = S.active /\ T.idle = S.idle /\ Alloc(T) = Alloc(S)
      /\ T.at = [S.at EXCEPT ![q] = t]
      /\ ByUsage(S) => ByUsage(T)
  BY <1>5, AssignmentType
<1> HIDE DEF T
<1>7. /\ LinesTaken(S, T, q) /\ T.at[q].input = <<>>
      /\ \A r \in Queue : T.at[r].usage = S.at[r].usage
  BY <1>1, <1>5, <1>6 DEF LinesTaken
<1>8. Resumes(S.at[q]) => Resumes(T.at[q])
  <2>1. T.at[q] = t
    BY <1>1, <1>6
  <2> QED  BY <1>5, <2>1 DEF Resumes, susp
<1> QED  BY <1>4, <1>6, <1>7, <1>8

LEMMA DropInputProperties ==
    ASSUME NEW S, Sound(S), NEW q \in Queue
    PROVE  LET T == DropInput(S, q)
           IN  /\ Leads(S, T) /\ LinesTaken(S, T, q) /\ T.at[q].input = <<>>
               /\ T.active = S.active /\ T.idle = S.idle /\ Alloc(T) = Alloc(S)
<1> DEFINE T == DropInput(S, q)
<1>1. /\ QueuesTypeOK(T) /\ HeadKept(S, T) /\ LinesTaken(S, T, q) /\ T.at[q].input = <<>>
      /\ T.active = S.active /\ T.idle = S.idle /\ Alloc(T) = Alloc(S)
      /\ ByUsage(T) /\ Resumes(T.at[q])
  BY DropInputType DEF Sound, Resuming
<1> HIDE DEF T
<1>2. Alloc(S) \subseteq Queue
  BY AllocInQueue DEF Sound
<1>3. OnePerPlayer(T)
  BY <1>1, <1>2 DEF OnePerPlayer, LinesTaken, Sound
<1>4. Resuming(T)
  BY <1>1 DEF LinesTaken, Sound, Resuming
<1> QED  BY <1>1, <1>3, <1>4 DEF Leads, Sound, T

\* enqueue_input_task(): the queue is woken unless its input is held and no
\* task is reading.
LEMMA EnqueueInputProperties ==
    ASSUME NEW S, Sound(S), NEW q \in Alloc(S), NEW l \in Line, NEW atFront \in BOOLEAN
    PROVE  LET T == EnqueueInput(S, q, l, atFront)
           IN  /\ Leads(S, T) /\ Alloc(T) = Alloc(S)
               /\ T.idle \subseteq S.idle
               /\ ~S.at[q].hold_input \/ S.at[q].reading # NoTask => q \notin T.idle
               /\ \A r \in Queue :
                     /\ T.at[r].bg = S.at[r].bg /\ T.at[r].num_bg = S.at[r].num_bg
                     /\ T.at[r].reading = S.at[r].reading
                     /\ T.at[r].connected = S.at[r].connected
                     /\ T.at[r].hold_input = S.at[r].hold_input
                     /\ T.at[r].player = S.at[r].player
                     /\ r # q => Same(S, T, r)
<1> DEFINE lines == IF atFront THEN <<l>> \o S.at[q].input ELSE Append(S.at[q].input, l)
           t1 == [S.at[q] EXCEPT !.input = lines]
           S1 == [S EXCEPT !.at = [S.at EXCEPT ![q] = t1]]
           S2 == IF ~S.at[q].hold_input \/ S.at[q].reading # NoTask
                 THEN EnsureUsage(S1, q) ELSE S1
           susp == S2.at[q].input_suspended \/ (S.at[q].connected /\ InputLength(lines) > HiWat)
           t2 == [S2.at[q] EXCEPT !.input_suspended = susp]
           S3 == [S2 EXCEPT !.at = [S2.at EXCEPT ![q] = t2]]
<1>1. S \in Queues /\ q \in Queue /\ S.at \in [Queue -> TQueue] /\ S.at[q] \in TQueue
  BY AllocInQueue DEF Sound, Queues
<1>2. /\ lines \in Seq(Line) /\ InputLength(lines) \in Nat /\ InputLength(S.at[q].input) \in Nat
      /\ InputLength(S.at[q].input) <= InputLength(lines)
  <2>1. S.at[q].input \in Seq(Line)
    BY <1>1 DEF TQueue
  <2> HIDE DEF lines
  <2> QED  BY <2>1, LineAdded DEF lines
<1>3. S1 = [S EXCEPT !.at[q].input = lines]
  BY <1>1 DEF Queues, TQueue
<1> HIDE DEF lines
<1>4. /\ t1 \in TQueue /\ t1.usage = S.at[q].usage /\ t1.player = S.at[q].player
      /\ t1.bg = S.at[q].bg /\ t1.num_bg = S.at[q].num_bg
      /\ t1.reading = S.at[q].reading /\ t1.connected = S.at[q].connected
      /\ t1.hold_input = S.at[q].hold_input /\ t1.input = lines
      /\ t1.input_suspended = S.at[q].input_suspended
  BY <1>1, <1>2 DEF TQueue
<1> HIDE DEF t1
<1>44. Resumes(t1)
  <2>1. Resumes(S.at[q])
    BY <1>1 DEF Resuming, Sound
  <2> QED  BY <1>2, <1>4, <2>1, LoWatIs DEF Resumes
<1>5. /\ Leads(S, S1)
      /\ S1.active = S.active /\ S1.idle = S.idle /\ Alloc(S1) = Alloc(S)
      /\ S1.at = [S.at EXCEPT ![q] = t1]
  BY <1>1, <1>4, <1>44, AssignmentProperties
<1>6. EnqueueInput(S, q, l, atFront) = [S2 EXCEPT !.at[q].input_suspended = susp]
  BY <1>3 DEF EnqueueInput, lines
<1> HIDE DEF S1
<1>7. /\ Leads(S1, S2) /\ Alloc(S2) = Alloc(S1)
      /\ \A r \in Queue : Same(S1, S2, r)
      /\ S2.idle \subseteq S1.idle
      /\ ~S.at[q].hold_input \/ S.at[q].reading # NoTask => q \notin S2.idle
  <2>1. Sound(S1) /\ QueuesTypeOK(S1) /\ q \in Alloc(S1) /\ S1 \in Queues
    BY <1>5, AllocInQueue DEF Leads, Sound
  <2>2. CASE ~S.at[q].hold_input \/ S.at[q].reading # NoTask
    <3>1. S2 = EnsureUsage(S1, q)
      BY <2>2
    <3>2. /\ Leads(S1, EnsureUsage(S1, q))
          /\ EnsureUsage(S1, q).idle = S1.idle \ {q}
          /\ Alloc(EnsureUsage(S1, q)) = Alloc(S1)
          /\ \A r \in Queue : Same(S1, EnsureUsage(S1, q), r)
      BY <2>1, EnsureUsageLeads
    <3> QED  BY <3>1, <3>2
  <2>3. CASE ~(~S.at[q].hold_input \/ S.at[q].reading # NoTask)
    <3>1. S2 = S1
      BY <2>3
    <3>2. \A r \in Queue : Same(S1, S1, r)
      BY DEF Same
    <3> QED  BY <2>1, <2>3, <3>1, <3>2, LeadsReflexive
  <2> QED  BY <2>2, <2>3
<1> HIDE DEF S2
<1>8. S2 \in Queues /\ Sound(S2)
  BY <1>7, AllocInQueue DEF Leads, Sound
<1>9. susp \in BOOLEAN
  BY <1>1, <1>8 DEF Queues, TQueue
<1>10. S3 = [S2 EXCEPT !.at[q].input_suspended = susp]
  BY <1>1, <1>8 DEF Queues, TQueue
<1> HIDE DEF susp
<1>11. /\ t2 \in TQueue /\ t2.usage = S2.at[q].usage /\ t2.player = S2.at[q].player
       /\ t2.bg = S2.at[q].bg /\ t2.num_bg = S2.at[q].num_bg
       /\ t2.reading = S2.at[q].reading /\ t2.connected = S2.at[q].connected
       /\ t2.hold_input = S2.at[q].hold_input /\ t2.input = S2.at[q].input
       /\ t2.input_suspended = susp
  BY <1>1, <1>8, <1>9 DEF Queues, TQueue
<1> HIDE DEF t2
<1>111. Resumes(t2)
  <2>1. S1.at[q] = t1
    BY <1>1, <1>5
  <2>2. Same(S1, S2, q)
    BY <1>1, <1>7
  <2>3. t2.connected = S.at[q].connected /\ t2.input = lines
    BY <1>4, <1>11, <2>1, <2>2 DEF Same
  <2>4. Resumes(S2.at[q])
    BY <1>1, <1>8 DEF Sound, Resuming
  <2>5. susp = (S2.at[q].input_suspended \/ (S.at[q].connected /\ InputLength(lines) > HiWat))
    BY DEF susp
  <2>6. CASE S2.at[q].input_suspended
    BY <1>11, <2>4, <2>6 DEF Resumes
  <2>7. CASE InputLength(lines) > HiWat
    BY <1>2, <2>3, <2>7, LoWatIs DEF Resumes
  <2>8. CASE ~S2.at[q].input_suspended /\ ~(InputLength(lines) > HiWat)
    BY <1>11, <2>5, <2>8 DEF Resumes
  <2> QED  BY <2>6, <2>7, <2>8
<1>12. /\ Leads(S2, S3)
       /\ S3.active = S2.active /\ S3.idle = S2.idle /\ Alloc(S3) = Alloc(S2)
       /\ S3.at = [S2.at EXCEPT ![q] = t2]
  BY <1>1, <1>8, <1>11, <1>111, AssignmentProperties
<1> HIDE DEF S3
<1>13. Leads(S, S3)
  BY <1>5, <1>7, <1>12, LeadsTransitive
<1>14. ASSUME NEW r \in Queue
       PROVE  /\ S3.at[r].bg = S.at[r].bg /\ S3.at[r].num_bg = S.at[r].num_bg
              /\ S3.at[r].reading = S.at[r].reading
              /\ S3.at[r].connected = S.at[r].connected
              /\ S3.at[r].hold_input = S.at[r].hold_input
              /\ S3.at[r].player = S.at[r].player
              /\ r # q => Same(S, S3, r)
  <2>1. /\ S1.at[r] \in TQueue
        /\ S1.at[r] = IF r = q THEN t1 ELSE S.at[r]
    BY <1>1, <1>4, <1>5 DEF Queues
  <2>2. Same(S1, S2, r)
    BY <1>7
  <2>3. S3.at[r] = IF r = q THEN t2 ELSE S2.at[r]
    BY <1>8, <1>12 DEF Queues
  <2>4. CASE r = q
    BY <1>4, <1>11, <2>1, <2>2, <2>3, <2>4 DEF Same
  <2>5. CASE r # q
    BY <2>1, <2>2, <2>3, <2>5 DEF Same
  <2> QED  BY <2>4, <2>5
<1> QED  BY <1>5, <1>6, <1>7, <1>10, <1>12, <1>13, <1>14

\* free_task_queue(): if a task was reading, the queue is active afterwards.
LEMMA FreeTaskQueueProperties ==
    ASSUME NEW S, Sound(S), NEW q \in Alloc(S)
    PROVE  LET T == FreeTaskQueue(S, q)
           IN  /\ Leads(S, T) /\ Alloc(T) = Alloc(S) /\ T.idle \subseteq S.idle
               /\ S.at[q].reading # NoTask => q \notin T.idle
               /\ \A r \in Queue \ {q} : Same(S, T, r)
               /\ Same([S EXCEPT !.at[q].connected = FALSE], T, q)
<1> DEFINE t == [S.at[q] EXCEPT !.connected = FALSE]
           S1 == [S EXCEPT !.at = [S.at EXCEPT ![q] = t]]
<1>1. S \in Queues /\ q \in Queue /\ S.at \in [Queue -> TQueue] /\ S.at[q] \in TQueue
  BY AllocInQueue DEF Sound, Queues
<1>2. S1 = [S EXCEPT !.at[q].connected = FALSE]
  BY <1>1 DEF Queues, TQueue
<1>3. t \in TQueue /\ t.usage = S.at[q].usage /\ t.player = S.at[q].player /\ ~t.connected
  BY <1>1 DEF TQueue
<1> HIDE DEF t
<1>4. /\ Leads(S, S1)
      /\ S1.active = S.active /\ S1.idle = S.idle /\ Alloc(S1) = Alloc(S)
      /\ S1.at = [S.at EXCEPT ![q] = t]
  <2>1. Resumes(t)
    BY <1>3 DEF Resumes
  <2> QED  BY <1>1, <1>3, <2>1, AssignmentProperties
<1>5. FreeTaskQueue(S, q) = IF S.at[q].reading # NoTask THEN EnsureUsage(S1, q) ELSE S1
  BY <1>2 DEF FreeTaskQueue
<1> HIDE DEF S1
<1>6. \A r \in Queue \ {q} : Same(S, S1, r)
  BY <1>1, <1>4 DEF Queues, Same
<1>7. CASE S.at[q].reading # NoTask
  <2> DEFINE T == EnsureUsage(S1, q)
  <2>1. /\ Leads(S1, T) /\ Alloc(T) = Alloc(S1) /\ T.idle = S1.idle \ {q}
        /\ \A r \in Queue : Same(S1, T, r)
    BY <1>4, EnsureUsageLeads DEF Leads
  <2> HIDE DEF T
  <2>2. Leads(S, T)
    BY <1>4, <2>1, LeadsTransitive
  <2>3. \A r \in Queue \ {q} : Same(S, T, r)
    BY <1>6, <2>1 DEF Same
  <2> QED  BY <1>1, <1>2, <1>4, <1>5, <1>7, <2>1, <2>2, <2>3 DEF T
<1>8. CASE S.at[q].reading = NoTask
  BY <1>2, <1>4, <1>5, <1>6, <1>8 DEF Same
<1> QED  BY <1>7, <1>8

\* The tasks that q leaves to a queue of its old player, made if need be.
TasksLeft(S, T, q, old) ==
    /\ S.at[q].num_bg = 0 => T = S
    /\ S.at[q].num_bg # 0 =>
          \E o \in Alloc(T) \ {q} :
              /\ T.at[o].player = old /\ T.at[o].num_bg = S.at[q].num_bg
              /\ T.at[q].num_bg = 0 /\ T.at[q].bg = <<>>
              /\ o \in Alloc(S) => T.at[o].bg = S.at[o].bg \o S.at[q].bg
              /\ o \notin Alloc(S) =>
                    T.at[o] = [NewTQueue(old) EXCEPT !.num_bg = S.at[q].num_bg,
                                                     !.bg = <<>> \o S.at[q].bg]
              /\ Alloc(T) = Alloc(S) \cup {o} /\ T.idle = S.idle \cup (Alloc(T) \ Alloc(S))
              /\ \A r \in Queue \ {q, o} : T.at[r] = S.at[r]

LEMMA LeaveTasksType ==
    ASSUME NEW S, QueuesTypeOK(S), NEW q \in Alloc(S),
           NEW old \in Player \cup {NOTHING}, S.at[q].player # old, CanLeaveTasks(S, q)
    PROVE  LET T == LeaveTasks(S, q, old)
           IN  /\ QueuesTypeOK(T) /\ HeadKept(S, T) /\ Alloc(S) \subseteq Alloc(T)
               /\ T.active = S.active /\ S.idle \subseteq T.idle
               /\ \A r \in Alloc(S) :
                     /\ T.at[r].player = S.at[r].player /\ T.at[r].usage = S.at[r].usage
                     /\ T.at[r].connected = S.at[r].connected
                     /\ T.at[r].reading = S.at[r].reading /\ T.at[r].input = S.at[r].input
                     /\ T.at[r].hold_input = S.at[r].hold_input
               /\ \A r \in Alloc(T) \ Alloc(S) :
                     /\ T.at[r].player = old /\ Held(S, old) = {}
                     /\ Alloc(T) \ Alloc(S) = {r}
               /\ ByUsage(S) => ByUsage(T)
               /\ Resuming(S) => Resuming(T)
               /\ TasksLeft(S, T, q, old)
<1>1. CASE S.at[q].num_bg = 0
  <2>1. LeaveTasks(S, q, old) = S
    BY <1>1 DEF LeaveTasks
  <2> QED  BY <1>1, <2>1 DEF HeadKept, TasksLeft
<1>2. CASE S.at[q].num_bg # 0
  <2> DEFINE U == WithTQueue(S, old)
             o == FindTQueue(S, old)
             to == [U.at[o] EXCEPT !.num_bg = S.at[q].num_bg, !.bg = U.at[o].bg \o S.at[q].bg]
             tq == [U.at[q] EXCEPT !.num_bg = 0, !.bg = <<>>]
             U1 == [U EXCEPT !.at = [U.at EXCEPT ![o] = to]]
             T == [U1 EXCEPT !.at = [U1.at EXCEPT ![q] = tq]]
  <2>1. Room(S, old)
    BY <1>2 DEF CanLeaveTasks, Room
  <2>2. /\ QueuesTypeOK(U) /\ HeadKept(S, U)
        /\ o \in Alloc(U) /\ U.at[o].player = old /\ Alloc(U) = Alloc(S) \cup {o}
        /\ U.active = S.active
        /\ \A r \in Alloc(S) : U.at[r] = S.at[r]
        /\ Held(S, old) # {} => U = S
        /\ Held(S, old) = {} =>
               /\ o \in Queue \ Alloc(S)
               /\ U.idle = S.idle \cup {o}
               /\ U.at = [S.at EXCEPT ![o] = NewTQueue(old)]
        /\ ByUsage(S) => ByUsage(U)
        /\ Resuming(S) => Resuming(U)
    BY <2>1, WithTQueueType
  <2>3. /\ U \in Queues /\ S \in Queues /\ q \in Queue /\ o \in Queue /\ o # q
        /\ U.at[o] \in TQueue /\ U.at[q] \in TQueue /\ S.at[q] \in TQueue
    BY <2>2, AllocInQueue DEF Queues
  <2>4. LeaveTasks(S, q, old) =
            [U EXCEPT !.at[o].num_bg = S.at[q].num_bg, !.at[o].bg = @ \o S.at[q].bg,
                      !.at[q].num_bg = 0, !.at[q].bg = <<>>]
    BY <1>2 DEF LeaveTasks
  <2> HIDE DEF U, o
  <2>5. U.at[o].bg \o S.at[q].bg \in Seq(Task)
    BY <2>3, ConcatProperties DEF TQueue
  <2>6. to \in TQueue /\ to.usage = U.at[o].usage /\ to.player = U.at[o].player
        /\ to.connected = U.at[o].connected /\ to.reading = U.at[o].reading
        /\ to.input = U.at[o].input /\ to.hold_input = U.at[o].hold_input
        /\ to.input_suspended = U.at[o].input_suspended
        /\ to.num_bg = S.at[q].num_bg /\ to.bg = U.at[o].bg \o S.at[q].bg
    BY <2>3, <2>5 DEF TQueue
  <2>7. tq \in TQueue /\ tq.usage = U.at[q].usage /\ tq.player = U.at[q].player
        /\ tq.connected = U.at[q].connected /\ tq.reading = U.at[q].reading
        /\ tq.input = U.at[q].input /\ tq.hold_input = U.at[q].hold_input
        /\ tq.input_suspended = U.at[q].input_suspended
        /\ tq.num_bg = 0 /\ tq.bg = <<>>
    <3> DEFINE u == U.at[q]
    <3>1. <<>> \in Seq(Task) /\ u \in TQueue
      BY <2>3, EmptySeq
    <3> HIDE DEF u
    <3> DEFINE none == <<>>
               v == [u EXCEPT !.num_bg = 0, !.bg = none]
    <3>3. none \in Seq(Task) /\ 0 \in Int
      BY <3>1
    <3> HIDE DEF none
    <3>2. /\ v \in TQueue /\ v.usage = u.usage /\ v.player = u.player
          /\ v.connected = u.connected /\ v.reading = u.reading
          /\ v.input = u.input /\ v.hold_input = u.hold_input
          /\ v.input_suspended = u.input_suspended /\ v.num_bg = 0 /\ v.bg = none
      BY <3>1, <3>3 DEF TQueue
    <3> QED  BY <3>2 DEF u, none
  <2>8. LeaveTasks(S, q, old) = T
    <3>1. U1 = [U EXCEPT !.at[o].num_bg = S.at[q].num_bg, !.at[o].bg = @ \o S.at[q].bg]
      BY <2>3 DEF Queues, TQueue
    <3>2. U1.at[q] = U.at[q] /\ U1 \in [at : [Queue -> TQueue], idle : SUBSET Queue, active : Seq(Queue)]
      BY <2>3, <2>6 DEF Queues
    <3>3. T = [U1 EXCEPT !.at[q].num_bg = 0, !.at[q].bg = <<>>]
      <4> DEFINE none == <<>>
      <4>1. T = [U1 EXCEPT !.at[q].num_bg = 0, !.at[q].bg = none]
        <5> HIDE DEF none, U1
        <5>1. tq = [U1.at[q] EXCEPT !.num_bg = 0, !.bg = none] /\ U1.at[q] \in TQueue
          BY <2>3, <3>2 DEF none
        <5> HIDE DEF tq
        <5> QED  BY <2>3, <3>2, <5>1 DEF TQueue
      <4> QED  BY <4>1
    <3> QED  BY <2>4, <3>1, <3>3
  <2>88. Held(S, old) = {} => to = [NewTQueue(old) EXCEPT !.num_bg = S.at[q].num_bg,
                                                          !.bg = <<>> \o S.at[q].bg]
    <3>1. Held(S, old) = {} => U.at[o] = NewTQueue(old)
      BY <2>2, <2>3 DEF Queues
    <3>2. NewTQueue(old).bg = <<>>
      BY DEF NewTQueue
    <3> QED  BY <3>1, <3>2
  <2> HIDE DEF to, tq
  <2>9. /\ QueuesTypeOK(U1) /\ HeadKept(U, U1)
        /\ U1.active = U.active /\ U1.idle = U.idle /\ Alloc(U1) = Alloc(U)
        /\ U1.at = [U.at EXCEPT ![o] = to]
        /\ ByUsage(U) => ByUsage(U1)
    BY <2>2, <2>3, <2>6, AssignmentType
  <2> HIDE DEF U1
  <2>10. U1.at[q] = U.at[q] /\ U1 \in Queues
    BY <2>3, <2>9, AllocInQueue DEF Queues
  <2>11. /\ QueuesTypeOK(T) /\ HeadKept(U1, T)
         /\ T.active = U1.active /\ T.idle = U1.idle /\ Alloc(T) = Alloc(U1)
         /\ T.at = [U1.at EXCEPT ![q] = tq]
         /\ ByUsage(U1) => ByUsage(T)
    <3>1. QueuesTypeOK(U1) /\ q \in Queue /\ tq \in TQueue /\ tq.usage = U1.at[q].usage
      BY <2>3, <2>7, <2>9, <2>10
    <3> QED  BY <3>1, AssignmentType
  <2> HIDE DEF T
  <2>12. \A r \in Queue : T.at[r] = IF r = q THEN tq ELSE IF r = o THEN to ELSE U.at[r]
    BY <2>3, <2>9, <2>10, <2>11 DEF Queues
  <2>13. Alloc(S) \subseteq Queue
    BY AllocInQueue
  <2>14. \A r \in Alloc(S) :
             /\ T.at[r].player = S.at[r].player /\ T.at[r].usage = S.at[r].usage
             /\ T.at[r].connected = S.at[r].connected
             /\ T.at[r].reading = S.at[r].reading /\ T.at[r].input = S.at[r].input
             /\ T.at[r].hold_input = S.at[r].hold_input
    BY <2>2, <2>6, <2>7, <2>12, <2>13
  <2>15. \A r \in Alloc(T) \ Alloc(S) :
             T.at[r].player = old /\ Held(S, old) = {} /\ Alloc(T) \ Alloc(S) = {r}
    BY <2>2, <2>3, <2>6, <2>9, <2>11, <2>12
  <2>16. HeadKept(S, T)
    BY <2>2, <2>9, <2>11 DEF HeadKept
  <2>17. S.idle \subseteq T.idle
    BY <2>2, <2>9, <2>11
  <2>18. ByUsage(S) => ByUsage(T)
    BY <2>2, <2>9, <2>11
  <2>19. ASSUME Resuming(S)  PROVE Resuming(T)
    <3>1. /\ Resumes(U.at[o]) /\ Resumes(U.at[q])
          /\ \A r \in Queue : Resumes(U.at[r])
      BY <2>2, <2>3, <2>19 DEF Resuming
    <3>2. Resumes(to) /\ Resumes(tq)
      BY <2>6, <2>7, <3>1 DEF Resumes
    <3> QED  BY <2>12, <3>1, <3>2 DEF Resuming
  <2>20. TasksLeft(S, T, q, old)
    <3>0. \A r \in Queue \ {o} : U.at[r] = S.at[r]
      BY <2>2, <2>3 DEF Queues
    <3>1. /\ T.at[o] = to /\ T.at[q] = tq /\ Alloc(T) = Alloc(S) \cup {o}
          /\ \A r \in Queue \ {q, o} : T.at[r] = S.at[r]
      BY <2>2, <2>3, <2>9, <2>11, <2>12, <3>0
    <3>2. CASE Held(S, old) = {}
      <4>1. o \notin Alloc(S) /\ T.idle = S.idle \cup (Alloc(T) \ Alloc(S))
        BY <2>2, <2>9, <2>11, <3>1, <3>2
      <4>2. /\ T.at[o].player = old /\ T.at[o].num_bg = S.at[q].num_bg
            /\ T.at[q].num_bg = 0 /\ T.at[q].bg = <<>>
        BY <2>2, <2>6, <2>7, <3>1
      <4>3. T.at[o] = [NewTQueue(old) EXCEPT !.num_bg = S.at[q].num_bg,
                                             !.bg = <<>> \o S.at[q].bg]
        BY <2>88, <3>1, <3>2
      <4>4. o \in Alloc(T) \ {q}
        BY <2>3, <3>1
      <4> QED  BY <1>2, <3>1, <4>1, <4>2, <4>3, <4>4 DEF TasksLeft
    <3>3. CASE Held(S, old) # {}
      <4>1. o \in Alloc(S) /\ T.idle = S.idle \cup (Alloc(T) \ Alloc(S))
        BY <2>2, <2>9, <2>11, <3>1, <3>3
      <4>2. U.at[o] = S.at[o]
        BY <2>2, <3>3
      <4> QED  BY <1>2, <2>2, <2>3, <2>6, <2>7, <3>1, <4>1, <4>2 DEF TasksLeft
    <3> QED  BY <3>2, <3>3
  <2> QED  BY <2>2, <2>8, <2>9, <2>11, <2>14, <2>15, <2>16, <2>17, <2>18, <2>19, <2>20
<1> QED  BY <1>1, <1>2

\* The tasks that q takes from a queue, which is left with no player.
TasksTaken(S, T, q, dead) ==
    /\ T.at[q].bg = S.at[q].bg \o S.at[dead].bg
    /\ T.at[q].num_bg = S.at[dead].num_bg
    /\ T.at[q].connected = S.at[q].connected /\ T.at[q].reading = S.at[q].reading

LEMMA TakeTasksType ==
    ASSUME NEW S, QueuesTypeOK(S), NEW q \in Alloc(S), NEW dead \in Alloc(S), q # dead
    PROVE  LET T == TakeTasks(S, q, dead)
           IN  /\ QueuesTypeOK(T) /\ HeadKept(S, T) /\ Alloc(T) = Alloc(S)
               /\ T.active = S.active /\ T.idle = S.idle
               /\ T.at[q].player = S.at[q].player /\ T.at[dead].player = NOTHING
               /\ T.at[dead].bg = <<>> /\ T.at[dead].input = <<>>
               /\ T.at[dead].num_bg = 0
               /\ T.at[dead].reading = S.at[dead].reading
               /\ T.at[dead].connected = S.at[dead].connected
               /\ \A r \in Queue \ {q, dead} : T.at[r] = S.at[r]
               /\ TasksTaken(S, T, q, dead)
               /\ ByUsage(S) => ByUsage(T)
               /\ Resuming(S) => Resuming(T)
<1> DEFINE U == DropInput(S, dead)
           tq == [U.at[q] EXCEPT !.num_bg = S.at[dead].num_bg,
                                 !.bg = U.at[q].bg \o S.at[dead].bg]
           td == [U.at[dead] EXCEPT !.player = NOTHING, !.num_bg = 0, !.bg = <<>>]
           U1 == [U EXCEPT !.at = [U.at EXCEPT ![q] = tq]]
           T == [U1 EXCEPT !.at = [U1.at EXCEPT ![dead] = td]]
<1>1. S \in Queues /\ q \in Queue /\ dead \in Queue /\ S.at \in [Queue -> TQueue]
  BY AllocInQueue DEF Queues
<1>2. /\ QueuesTypeOK(U) /\ HeadKept(S, U) /\ LinesTaken(S, U, dead)
      /\ U.at[dead].input = <<>>
      /\ U.active = S.active /\ U.idle = S.idle /\ Alloc(U) = Alloc(S)
      /\ \A r \in Queue : U.at[r].usage = S.at[r].usage
      /\ ByUsage(S) => ByUsage(U)
      /\ Resumes(S.at[dead]) => Resumes(U.at[dead])
  BY <1>1, DropInputType
<1>3. TakeTasks(S, q, dead) =
          [U EXCEPT !.at[q].num_bg = S.at[dead].num_bg, !.at[q].bg = @ \o S.at[dead].bg,
                    !.at[dead].player = NOTHING, !.at[dead].num_bg = 0, !.at[dead].bg = <<>>]
  BY DEF TakeTasks
<1> HIDE DEF U
<1>4. /\ U \in Queues /\ U.at[q] \in TQueue /\ U.at[dead] \in TQueue
      /\ S.at[dead].num_bg \in Int /\ S.at[dead].bg \in Seq(Task)
      /\ U.at[q].bg \in Seq(Task)
  <2>1. U \in Queues
    BY <1>2, AllocInQueue
  <2>2. U.at[q] \in TQueue /\ U.at[dead] \in TQueue /\ S.at[dead] \in TQueue
    BY <1>1, <2>1 DEF Queues
  <2>3. \A t \in TQueue : t.num_bg \in Int /\ t.bg \in Seq(Task)
    BY DEF TQueue
  <2> QED  BY <2>1, <2>2, <2>3
<1>5. U.at[q].bg \o S.at[dead].bg \in Seq(Task)
  BY <1>4, ConcatProperties
<1>6. /\ tq \in TQueue /\ tq.usage = U.at[q].usage /\ tq.player = U.at[q].player
      /\ tq.input = U.at[q].input /\ tq.connected = U.at[q].connected
      /\ tq.input_suspended = U.at[q].input_suspended /\ tq.reading = U.at[q].reading
      /\ tq.bg = U.at[q].bg \o S.at[dead].bg /\ tq.num_bg = S.at[dead].num_bg
  BY <1>4, <1>5 DEF TQueue
<1>7. /\ td \in TQueue /\ td.usage = U.at[dead].usage /\ td.player = NOTHING
      /\ td.bg = <<>> /\ td.num_bg = 0 /\ td.input = U.at[dead].input
      /\ td.reading = U.at[dead].reading /\ td.connected = U.at[dead].connected
      /\ td.input_suspended = U.at[dead].input_suspended
  <2> DEFINE u == U.at[dead]
             none == <<>>
             v == [u EXCEPT !.player = NOTHING, !.num_bg = 0, !.bg = none]
  <2>1. none \in Seq(Task) /\ u \in TQueue /\ 0 \in Int
    BY <1>4, EmptySeq
  <2> HIDE DEF u, none
  <2>2. /\ v \in TQueue /\ v.usage = u.usage /\ v.player = NOTHING
        /\ v.bg = none /\ v.num_bg = 0 /\ v.input = u.input
        /\ v.reading = u.reading /\ v.connected = u.connected
        /\ v.input_suspended = u.input_suspended
    BY <2>1 DEF TQueue
  <2> QED  BY <2>2 DEF u, none
<1>8. TakeTasks(S, q, dead) = T
  <2>1. U1 = [U EXCEPT !.at[q].num_bg = S.at[dead].num_bg, !.at[q].bg = @ \o S.at[dead].bg]
    BY <1>1, <1>4 DEF Queues, TQueue
  <2>2. /\ U1.at[dead] = U.at[dead]
        /\ U1 \in [at : [Queue -> TQueue], idle : SUBSET Queue, active : Seq(Queue)]
    BY <1>1, <1>4, <1>6 DEF Queues
  <2>3. T = [U1 EXCEPT !.at[dead].player = NOTHING, !.at[dead].num_bg = 0,
                       !.at[dead].bg = <<>>]
    <3> DEFINE none == <<>>
    <3>1. T = [U1 EXCEPT !.at[dead].player = NOTHING, !.at[dead].num_bg = 0,
                         !.at[dead].bg = none]
      <4> HIDE DEF none, U1
      <4>1. U1.at[dead] \in TQueue
        BY <1>4, <2>2
      <4>2. td = [U1.at[dead] EXCEPT !.player = NOTHING, !.num_bg = 0, !.bg = none]
        BY <2>2 DEF none
      <4> HIDE DEF td
      <4> QED  BY <1>1, <2>2, <4>1, <4>2 DEF TQueue
    <3> QED  BY <3>1
  <2> QED  BY <1>3, <2>1, <2>3
<1> HIDE DEF tq, td
<1>9. /\ QueuesTypeOK(U1) /\ HeadKept(U, U1)
      /\ U1.active = U.active /\ U1.idle = U.idle /\ Alloc(U1) = Alloc(U)
      /\ U1.at = [U.at EXCEPT ![q] = tq]
      /\ ByUsage(U) => ByUsage(U1)
  BY <1>1, <1>2, <1>6, AssignmentType
<1> HIDE DEF U1
<1>10. U1.at[dead] = U.at[dead] /\ U1 \in Queues
  BY <1>1, <1>4, <1>9, AllocInQueue DEF Queues
<1>11. /\ QueuesTypeOK(T) /\ HeadKept(U1, T)
       /\ T.active = U1.active /\ T.idle = U1.idle /\ Alloc(T) = Alloc(U1)
       /\ T.at = [U1.at EXCEPT ![dead] = td]
       /\ ByUsage(U1) => ByUsage(T)
  <2>1. QueuesTypeOK(U1) /\ dead \in Queue /\ td \in TQueue /\ td.usage = U1.at[dead].usage
    BY <1>1, <1>7, <1>9, <1>10
  <2> QED  BY <2>1, AssignmentType
<1> HIDE DEF T
<1>12. \A r \in Queue : T.at[r] = IF r = dead THEN td ELSE IF r = q THEN tq ELSE U.at[r]
  BY <1>1, <1>4, <1>9, <1>10, <1>11 DEF Queues
<1>13. HeadKept(S, T)
  BY <1>2, <1>9, <1>11 DEF HeadKept
<1>14. \A r \in Queue \ {q, dead} : T.at[r] = S.at[r]
  BY <1>2, <1>12 DEF LinesTaken
<1>15. /\ T.at[q].player = S.at[q].player /\ T.at[dead].player = NOTHING
       /\ T.at[dead].bg = <<>> /\ T.at[dead].input = <<>>
       /\ T.at[dead].num_bg = 0
       /\ T.at[dead].reading = S.at[dead].reading
       /\ T.at[dead].connected = S.at[dead].connected
  BY <1>1, <1>2, <1>6, <1>7, <1>12 DEF LinesTaken
<1>16. TasksTaken(S, T, q, dead)
  BY <1>1, <1>2, <1>6, <1>12 DEF LinesTaken, TasksTaken
<1>17. ASSUME Resuming(S)  PROVE Resuming(T)
  <2>1. Resumes(U.at[dead]) /\ Resumes(U.at[q])
    BY <1>1, <1>2, <1>17 DEF LinesTaken, Resuming
  <2>2. Resumes(td) /\ Resumes(tq)
    BY <1>6, <1>7, <2>1 DEF Resumes
  <2> QED  BY <1>1, <1>12, <1>14, <1>17, <2>2 DEF Resuming
<1> QED  BY <1>2, <1>8, <1>9, <1>11, <1>13, <1>14, <1>15, <1>16, <1>17

\* A queue takes over a player: afterwards it is that player's only queue,
\* and no other player has two.
LEMMA ReassociateLeads ==
    ASSUME NEW S, Sound(S), NEW q \in Alloc(S), NEW new \in Player,
           S.at[q].player # new, CanLeaveTasks(S, q)
    PROVE  /\ Leads(S, Reassociate(S, q, new))
           /\ Held(S, new) # {} =>
                 Sound(TakeTasks(LeaveTasks([S EXCEPT !.at[q].player = new], q, S.at[q].player),
                                 q, Owner(S, new)))
<1> DEFINE old == S.at[q].player
           S0 == [S EXCEPT !.at[q].player = new]
           S1 == LeaveTasks(S0, q, old)
           dead == Owner(S, new)
           S2 == TakeTasks(S1, q, dead)
<1>1. /\ QueuesTypeOK(S) /\ S \in Queues /\ q \in Queue /\ Alloc(S) \subseteq Queue
      /\ S.at[q] \in TQueue /\ old \in Player \cup {NOTHING} /\ new # NOTHING
  <2>1. /\ QueuesTypeOK(S) /\ S \in Queues /\ q \in Queue /\ Alloc(S) \subseteq Queue
    BY AllocInQueue DEF Sound
  <2>2. S.at[q] \in TQueue
    BY <2>1 DEF Queues
  <2>3. old \in Player \cup {NOTHING}
    BY <2>2 DEF TQueue
  <2>4. new # NOTHING
    BY PlayersAssumption DEF Player, NOTHING
  <2> QED  BY <2>1, <2>2, <2>3, <2>4
<1>2. /\ QueuesTypeOK(S0) /\ HeadKept(S, S0)
      /\ S0.active = S.active /\ S0.idle = S.idle /\ Alloc(S0) = Alloc(S)
      /\ S0.at[q].player = new
      /\ \A r \in Queue \ {q} : S0.at[r] = S.at[r]
      /\ S0.at[q].num_bg = S.at[q].num_bg
      /\ ByUsage(S0) /\ Resuming(S0)
  <2> DEFINE t == [S.at[q] EXCEPT !.player = new]
             T == [S EXCEPT !.at = [S.at EXCEPT ![q] = t]]
  <2>1. S0 = T
    BY <1>1 DEF Queues, TQueue
  <2>2. /\ t \in TQueue /\ t.usage = S.at[q].usage /\ t.player = new
        /\ t.num_bg = S.at[q].num_bg /\ t.connected = S.at[q].connected
        /\ t.input = S.at[q].input /\ t.input_suspended = S.at[q].input_suspended
    BY <1>1 DEF TQueue
  <2> HIDE DEF t
  <2>3. /\ QueuesTypeOK(T) /\ HeadKept(S, T)
        /\ T.active = S.active /\ T.idle = S.idle /\ Alloc(T) = Alloc(S)
        /\ T.at = [S.at EXCEPT ![q] = t]
        /\ ByUsage(T)
    BY <1>1, <2>2, AssignmentType DEF Sound
  <2> HIDE DEF T
  <2>4. T.at[q] = t /\ \A r \in Queue \ {q} : T.at[r] = S.at[r]
    BY <1>1, <2>3 DEF Queues
  <2>5. Resuming(T)
    <3>1. Resumes(S.at[q])
      BY <1>1 DEF Sound, Resuming
    <3>2. Resumes(t)
      BY <2>2, <3>1 DEF Resumes
    <3> QED  BY <2>4, <3>2 DEF Sound, Resuming
  <2> QED  BY <2>1, <2>2, <2>3, <2>4, <2>5
<1> HIDE DEF S0
<1>3. /\ QueuesTypeOK(S1) /\ HeadKept(S0, S1) /\ Alloc(S0) \subseteq Alloc(S1)
      /\ \A r \in Alloc(S0) : S1.at[r].player = S0.at[r].player
                              /\ S1.at[r].connected = S0.at[r].connected
      /\ \A r \in Alloc(S1) \ Alloc(S0) :
            S1.at[r].player = old /\ Held(S0, old) = {} /\ Alloc(S1) \ Alloc(S0) = {r}
      /\ ByUsage(S1) /\ Resuming(S1)
  <2>1. QueuesTypeOK(S0) /\ q \in Alloc(S0) /\ S0.at[q].player # old /\ CanLeaveTasks(S0, q)
    BY <1>2 DEF CanLeaveTasks
  <2> HIDE DEF old
  <2>2. old \in Player \cup {NOTHING}
    BY <1>1 DEF old
  <2> QED  BY <1>2, <2>1, <2>2, LeaveTasksType
<1> HIDE DEF S1
<1>4. /\ \A r \in Alloc(S) : S1.at[r].player = IF r = q THEN new ELSE S.at[r].player
      /\ \A r \in Alloc(S) \ {q} : \A p \in Alloc(S1) \ Alloc(S) :
            S.at[r].player # S1.at[p].player
      /\ \A p \in Alloc(S1) \ Alloc(S) : S1.at[p].player # new
  BY <1>1, <1>2, <1>3 DEF Held
<1>5. CASE Held(S, new) = {}
  <2>1. Reassociate(S, q, new) = S1
    BY <1>5 DEF Reassociate, S1, S0
  <2>2. \A r \in Alloc(S) : S.at[r].player # new
    BY <1>5 DEF Held
  <2>3. OnePerPlayer(S1)
    BY <1>2, <1>3, <1>4, <2>2 DEF OnePerPlayer, Sound
  <2>4. Leads(S, Reassociate(S, q, new))
    BY <1>2, <1>3, <2>1, <2>3 DEF Leads, Sound, HeadKept
  <2> QED  BY <1>5, <2>4
<1>6. CASE Held(S, new) # {}
  <2>1. dead \in Alloc(S) /\ S.at[dead].player = new /\ dead # q
    BY <1>6 DEF Owner, Held
  <2>2. Reassociate(S, q, new) =
            IF S.at[dead].connected THEN FreeTaskQueue(S2, dead) ELSE S2
    BY <1>6 DEF Reassociate, S1, S0
  <2> HIDE DEF dead
  <2>3. q \in Alloc(S1) /\ dead \in Alloc(S1)
    BY <1>2, <1>3, <2>1
  <2>4. /\ QueuesTypeOK(S2) /\ HeadKept(S1, S2) /\ Alloc(S2) = Alloc(S1)
        /\ S2.at[q].player = S1.at[q].player /\ S2.at[dead].player = NOTHING
        /\ \A r \in Queue \ {q, dead} : S2.at[r] = S1.at[r]
        /\ ByUsage(S2) /\ Resuming(S2)
    <3>1. q # dead /\ QueuesTypeOK(S1) /\ ByUsage(S1) /\ Resuming(S1)
      BY <1>3, <2>1
    <3>2. /\ QueuesTypeOK(S2) /\ HeadKept(S1, S2) /\ Alloc(S2) = Alloc(S1)
          /\ S2.at[q].player = S1.at[q].player /\ S2.at[dead].player = NOTHING
          /\ \A r \in Queue \ {q, dead} : S2.at[r] = S1.at[r]
          /\ ByUsage(S1) => ByUsage(S2)
          /\ Resuming(S1) => Resuming(S2)
      BY <2>3, <3>1, TakeTasksType
    <3> QED  BY <3>1, <3>2
  <2> HIDE DEF S2
  <2>5. Alloc(S1) \subseteq Queue
    BY <1>3, AllocInQueue
  <2>6. OnePerPlayer(S2)
    <3> SUFFICES ASSUME NEW a \in Alloc(S2), NEW b \in Alloc(S2),
                        S2.at[a].player = S2.at[b].player, S2.at[a].player # NOTHING
                 PROVE  a = b
      BY DEF OnePerPlayer
    <3>1. a # dead /\ b # dead /\ a \in Alloc(S1) /\ b \in Alloc(S1)
      BY <2>4
    <3>2. S2.at[a].player = S1.at[a].player /\ S2.at[b].player = S1.at[b].player
      BY <2>4, <2>5, <3>1
    <3>3. \A r \in Alloc(S) \ {q, dead} : S.at[r].player # new
      BY <1>1, <2>1 DEF Sound, OnePerPlayer
    <3>4. CASE a \in Alloc(S) /\ b \in Alloc(S)
      <4>1. /\ S1.at[a].player = IF a = q THEN new ELSE S.at[a].player
            /\ S1.at[b].player = IF b = q THEN new ELSE S.at[b].player
        BY <1>4, <3>4
      <4>2. a # q => S.at[a].player # new
        BY <3>1, <3>3, <3>4
      <4>3. b # q => S.at[b].player # new
        BY <3>1, <3>3, <3>4
      <4>4. (a = q) <=> (b = q)
        BY <3>2, <4>1, <4>2, <4>3
      <4>5. a # q /\ b # q => a = b
        BY <3>2, <3>4, <4>1 DEF Sound, OnePerPlayer
      <4> QED  BY <4>4, <4>5
    <3>5. CASE a \notin Alloc(S) /\ b \notin Alloc(S)
      BY <1>2, <1>3, <3>1, <3>5
    <3>6. CASE a \in Alloc(S) /\ b \notin Alloc(S)
      BY <1>4, <3>1, <3>2, <3>6
    <3>7. CASE a \notin Alloc(S) /\ b \in Alloc(S)
      BY <1>4, <3>1, <3>2, <3>7
    <3> QED  BY <3>4, <3>5, <3>6, <3>7
  <2>7. Leads(S, S2) /\ dead \in Alloc(S2)
    BY <1>2, <1>3, <2>3, <2>4, <2>6 DEF Leads, Sound, HeadKept
  <2>8. Leads(S2, FreeTaskQueue(S2, dead))
    BY <2>7, FreeTaskQueueProperties DEF Leads
  <2>9. Leads(S, Reassociate(S, q, new))
    BY <2>2, <2>7, <2>8, LeadsTransitive
  <2>10. Sound(S2)
    BY <2>7 DEF Leads
  <2> QED  BY <2>9, <2>10 DEF S2, S1, S0, dead
<1> QED  BY <1>5, <1>6

(***************************************************************************)
(* The ends of a run: the head of the active list leaves it.               *)
(***************************************************************************)

LEMMA TailOfInjective ==
    ASSUME NEW D, NEW s \in Seq(D), s # <<>>, IsInjective(s)
    PROVE  /\ Tail(s) \in Seq(D) /\ IsInjective(Tail(s))
           /\ Range(Tail(s)) = Range(s) \ {Head(s)}
<1>1. /\ Tail(s) \in Seq(D) /\ Len(Tail(s)) = Len(s) - 1 /\ Len(s) \in Nat
      /\ \A i \in 1..Len(Tail(s)) : Tail(s)[i] = s[i+1]
      /\ Head(s) = s[1] /\ Len(s) > 0
  BY HeadTailProperties, EmptySeq, LenProperties
<1>2. DOMAIN s = 1..Len(s) /\ DOMAIN Tail(s) = 1..Len(s)-1
  BY <1>1, LenProperties
<1> DEFINE t == Tail(s)
<1>3. /\ \A i \in 1..Len(s)-1 : t[i] = s[i+1]
      /\ DOMAIN t = 1..Len(s)-1
  BY <1>1, <1>2
<1> HIDE DEF t
<1>4. \A a, b \in 1..Len(s) : s[a] = s[b] => a = b
  BY <1>2 DEF IsInjective
<1>5. IsInjective(t)
  <2> SUFFICES ASSUME NEW a \in 1..Len(s)-1, NEW b \in 1..Len(s)-1, t[a] = t[b]  PROVE a = b
    BY <1>3 DEF IsInjective
  <2>1. a+1 \in 1..Len(s) /\ b+1 \in 1..Len(s) /\ s[a+1] = s[b+1]
    BY <1>1, <1>3
  <2> QED  BY <1>4, <2>1
<1>6. Range(t) \subseteq Range(s) \ {Head(s)}
  <2> SUFFICES ASSUME NEW a \in 1..Len(s)-1  PROVE t[a] \in Range(s) /\ t[a] # s[1]
    BY <1>1, <1>3 DEF Range
  <2>1. t[a] = s[a+1] /\ a+1 \in 1..Len(s) /\ a+1 # 1 /\ 1 \in 1..Len(s)
    BY <1>1, <1>3
  <2> QED  BY <1>2, <1>4, <2>1 DEF Range
<1>7. Range(s) \ {Head(s)} \subseteq Range(t)
  <2> SUFFICES ASSUME NEW a \in 1..Len(s), s[a] # s[1]  PROVE s[a] \in Range(t)
    BY <1>1, <1>2 DEF Range
  <2>1. a-1 \in 1..Len(s)-1 /\ t[a-1] = s[a]
    BY <1>1, <1>3
  <2> QED  BY <1>3, <2>1 DEF Range
<1> QED  BY <1>1, <1>5, <1>6, <1>7 DEF t

\* run_ready_tasks(): "active_tqueues = tq->next" drops the served queue and
\* no other, when that queue is the head.
LEMMA BehindHead ==
    ASSUME NEW S, QueuesTypeOK(S), S.active # <<>>
    PROVE  Behind(S, Head(S.active)) = Tail(S.active)
<1>1. S.active \in Seq(Queue) /\ IsInjective(S.active) /\ Len(S.active) \in Nat
  BY AllocInQueue, LenProperties DEF QueuesTypeOK
<1>2. Head(S.active) = S.active[1] /\ 1 \in DOMAIN S.active
  BY <1>1
<1>3. (CHOOSE j \in DOMAIN S.active : S.active[j] = Head(S.active)) = 1
  BY <1>1, <1>2 DEF IsInjective
<1>4. Tail(S.active) = SubSeq(S.active, 2, Len(S.active))
  BY <1>1, TailIsSubSeq
<1>5. SubSeq(S.active, 1+1, Len(S.active)) = SubSeq(S.active, 2, Len(S.active))
  <2>1. 1 + 1 = 2
    OBVIOUS
  <2> QED  BY <2>1
<1> QED  BY <1>3, <1>4, <1>5 DEF Behind

\* The lists without the head of the active one, whose usage is set to u.
Unlinked(S, u) == [S EXCEPT !.at[Head(S.active)].usage = u, !.active = Tail(S.active)]

LEMMA UnlinkedProperties ==
    ASSUME NEW S, Sound(S), S.active # <<>>, NEW u \in Int
    PROVE  LET q == Head(S.active)
               U == Unlinked(S, u)
           IN
           /\ QueuesTypeOK(U) /\ q \in Queue /\ q \in Range(S.active)
           /\ q \notin Alloc(U) /\ Alloc(U) \cup {q} = Alloc(S)
           /\ U.active = Tail(S.active) /\ U.idle = S.idle
           /\ U.at[q].usage = u /\ \A r \in Queue : Same(S, U, r)
           /\ \A r \in Queue \ {q} : U.at[r] = S.at[r]
           /\ ByUsage(U)
<1> DEFINE q == Head(S.active)
           U == Unlinked(S, u)
           t == [S.at[q] EXCEPT !.usage = u]
<1>1. /\ S \in Queues /\ QueuesTypeOK(S) /\ q \in Range(S.active) /\ q \in Queue
      /\ Alloc(S) \subseteq Queue /\ S.active \in Seq(Queue)
  BY AllocInQueue DEF Sound, Alloc
<1>2. /\ Tail(S.active) \in Seq(Queue) /\ IsInjective(Tail(S.active))
      /\ Range(Tail(S.active)) = Range(S.active) \ {q}
  BY <1>1, TailOfInjective DEF QueuesTypeOK
<1>0. U = [S EXCEPT !.at[q].usage = u, !.active = Tail(S.active)]
  BY DEF Unlinked
<1> HIDE DEF U, q
<1>3. t \in TQueue /\ t.usage = u
      /\ t.player = S.at[q].player /\ t.connected = S.at[q].connected
      /\ t.input = S.at[q].input /\ t.input_suspended = S.at[q].input_suspended
      /\ t.bg = S.at[q].bg /\ t.num_bg = S.at[q].num_bg
      /\ t.hold_input = S.at[q].hold_input /\ t.reading = S.at[q].reading
  BY <1>1 DEF Queues, TQueue
<1>4. U = [S EXCEPT !.at = [S.at EXCEPT ![q] = t], !.active = Tail(S.active)]
  BY <1>0, <1>1 DEF Queues, TQueue
<1> HIDE DEF t
<1>5. /\ U \in Queues /\ U.active = Tail(S.active) /\ U.idle = S.idle
      /\ U.at = [S.at EXCEPT ![q] = t]
  <2> DEFINE A == [S.at EXCEPT ![q] = t]
  <2>1. A \in [Queue -> TQueue]
    BY <1>1, <1>3 DEF Queues
  <2> HIDE DEF A
  <2>2. U = [S EXCEPT !.at = A, !.active = Tail(S.active)]
    BY <1>4 DEF A
  <2>3. U \in Queues /\ U.active = Tail(S.active) /\ U.idle = S.idle /\ U.at = A
    BY <1>1, <1>2, <2>1, <2>2 DEF Queues
  <2> QED  BY <2>3 DEF A
<1>6. \A r \in Queue : U.at[r] = IF r = q THEN t ELSE S.at[r]
  BY <1>1, <1>5 DEF Queues
<1>7. \A r \in Queue : Same(S, U, r)
  BY <1>3, <1>6 DEF Same
<1>8. q \notin Alloc(U) /\ Alloc(U) \cup {q} = Alloc(S)
  BY <1>1, <1>2, <1>5 DEF Alloc, QueuesTypeOK
<1>9. QueuesTypeOK(U)
  <2>1. \A r \in U.idle : U.at[r].usage = NO_USAGE
    BY <1>1, <1>5, <1>6, <1>8 DEF QueuesTypeOK, Alloc
  <2>2. \A r \in Range(U.active) : U.at[r].usage >= 0
    BY <1>1, <1>2, <1>5, <1>6 DEF QueuesTypeOK, Alloc
  <2>3. U.idle \cap Range(U.active) = {}
    BY <1>1, <1>2, <1>5 DEF QueuesTypeOK
  <2> QED  BY <1>2, <1>5, <2>1, <2>2, <2>3 DEF QueuesTypeOK, Queues
<1>10. ByUsage(U)
  <2> DEFINE b == Tail(S.active)
  <2>1. /\ S.active \in Seq(Queue) /\ b \in Seq(Queue) /\ Len(S.active) \in Nat
        /\ Len(b) = Len(S.active) - 1 /\ \A i \in 1..Len(b) : b[i] = S.active[i + 1]
    BY <1>1, HeadTailProperties, EmptySeq, LenProperties
  <2>2. \A i \in 1..Len(b) : b[i] \in Queue \ {q}
    BY <1>2, <2>1, LenProperties DEF Range
  <2> HIDE DEF b
  <2>3. \A i \in 1..Len(b) : U.at[b[i]].usage = S.at[S.active[i + 1]].usage
    BY <1>6, <2>1, <2>2
  <2>4. \A i, j \in 1..Len(S.active) :
            i < j => S.at[S.active[i]].usage <= S.at[S.active[j]].usage
    BY DEF Sound, ByUsage
  <2>5. ASSUME NEW i \in 1..Len(b), NEW j \in 1..Len(b), i < j
        PROVE  U.at[b[i]].usage <= U.at[b[j]].usage
    <3>1. i + 1 \in 1..Len(S.active) /\ j + 1 \in 1..Len(S.active) /\ i + 1 < j + 1
      BY <2>1, <2>5
    <3> QED  BY <2>3, <2>4, <3>1
  <2>6. U.active = b
    BY <1>5 DEF b
  <2> QED  BY <2>5, <2>6 DEF ByUsage
<1> QED  BY <1>1, <1>3, <1>4, <1>5, <1>6, <1>7, <1>8, <1>9, <1>10 DEF U, q

LEMMA BumpProperties ==
    ASSUME NEW S, Sound(S), S.active # <<>>, now \in Nat, start \in Nat, start <= now
    PROVE  LET T == Bump(S, Head(S.active))
           IN  /\ Sound(T) /\ Alloc(T) = Alloc(S) /\ T.idle = S.idle
               /\ \A r \in Queue : Same(S, T, r)
<1> DEFINE q == Head(S.active)
           u == S.at[q].usage + (now - start)
           U == Unlinked(S, u)
           T == ActivateTQueue(U, q)
<1>1. /\ S \in Queues /\ QueuesTypeOK(S) /\ q \in Range(S.active) /\ q \in Queue
      /\ Alloc(S) \subseteq Queue
  BY AllocInQueue DEF Sound, Alloc
<1>2. S.at[q].usage \in Int /\ S.at[q].usage >= 0
  <2>1. S.at[q] \in TQueue
    BY <1>1 DEF Queues
  <2> QED  BY <1>1, <2>1 DEF QueuesTypeOK, TQueue
<1>3. u \in Int /\ u >= 0
  BY <1>2
<1>4. Bump(S, q) = T
  BY <1>1, BehindHead DEF Bump, Unlinked
<1> HIDE DEF u, T
<1>5. /\ QueuesTypeOK(U) /\ q \in Queue /\ q \in Range(S.active)
      /\ q \notin Alloc(U) /\ Alloc(U) \cup {q} = Alloc(S)
      /\ U.active = Tail(S.active) /\ U.idle = S.idle
      /\ U.at[q].usage = u /\ \A r \in Queue : Same(S, U, r)
      /\ \A r \in Queue \ {q} : U.at[r] = S.at[r]
      /\ ByUsage(U)
  BY <1>3, UnlinkedProperties
<1> USE DEF T
<1> HIDE DEF U, q
<1>6. /\ QueuesTypeOK(T) /\ T.at = U.at /\ T.idle = U.idle
      /\ Range(T.active) = Range(U.active) \cup {q}
      /\ ByUsage(T)
  BY <1>1, <1>3, <1>5, ActivateTQueueProperties
<1> HIDE DEF T
<1>7. Alloc(T) = Alloc(S) /\ \A r \in Queue : Same(S, T, r)
  BY <1>5, <1>6 DEF Alloc, Same
<1>8. OnePerPlayer(T)
  BY <1>1, <1>7 DEF OnePerPlayer, Same, Sound
<1>9. Resuming(T)
  BY <1>7, SameResumes DEF Sound
<1> QED  BY <1>4, <1>5, <1>6, <1>7, <1>8, <1>9 DEF Sound, q

LEMMA DeactivateHeadProperties ==
    ASSUME NEW S, Sound(S), S.active # <<>>
    PROVE  LET T == DeactivateHead(S)
           IN  /\ Sound(T) /\ T.idle = S.idle \cup {Head(S.active)}
               /\ Alloc(T) = Alloc(S) /\ \A r \in Queue : Same(S, T, r)
<1> DEFINE q == Head(S.active)
           U == Unlinked(S, NO_USAGE)
           T == DeactivateHead(S)
<1>1. /\ S \in Queues /\ Alloc(S) \subseteq Queue
  BY AllocInQueue DEF Sound
<1>2. NO_USAGE \in Int
  BY DEF NO_USAGE
<1>3. /\ QueuesTypeOK(U) /\ q \in Queue /\ q \in Range(S.active)
      /\ q \notin Alloc(U) /\ Alloc(U) \cup {q} = Alloc(S)
      /\ U.active = Tail(S.active) /\ U.idle = S.idle
      /\ U.at[q].usage = NO_USAGE /\ \A r \in Queue : Same(S, U, r)
      /\ \A r \in Queue \ {q} : U.at[r] = S.at[r]
      /\ ByUsage(U)
  BY <1>2, UnlinkedProperties
<1>4. T.at = U.at /\ T.idle = U.idle \cup {q} /\ T.active = U.active /\ T \in Queues
  <2>1. U \in Queues
    BY <1>3, AllocInQueue
  <2>2. T = [U EXCEPT !.idle = U.idle \cup {q}]
    BY <1>1 DEF DeactivateHead, Queues, Unlinked
  <2> HIDE DEF U, T, q
  <2> QED  BY <1>3, <2>1, <2>2 DEF Queues
<1> HIDE DEF U, T, q
<1>5. QueuesTypeOK(T)
  <2>1. \A r \in T.idle : T.at[r].usage = NO_USAGE
    BY <1>3, <1>4 DEF QueuesTypeOK
  <2>2. \A r \in Range(T.active) : T.at[r].usage >= 0
    BY <1>3, <1>4 DEF QueuesTypeOK
  <2>3. T.idle \cap Range(T.active) = {} /\ IsInjective(T.active)
    BY <1>3, <1>4 DEF QueuesTypeOK, Alloc
  <2> QED  BY <1>4, <2>1, <2>2, <2>3 DEF QueuesTypeOK, Queues
<1>6. Alloc(T) = Alloc(S) /\ \A r \in Queue : Same(S, T, r)
  BY <1>3, <1>4 DEF Alloc, Same
<1>7. OnePerPlayer(T)
  BY <1>1, <1>6 DEF OnePerPlayer, Same, Sound
<1>8. ByUsage(T) /\ Resuming(T)
  BY <1>3, <1>4, <1>6, SameResumes DEF Sound, ByUsage
<1> QED  BY <1>3, <1>4, <1>5, <1>6, <1>7, <1>8 DEF Sound, T, q

(***************************************************************************)
(* Single assignments, as the handlers make them.                          *)
(***************************************************************************)

Assigned(S, T, q, t) ==
    /\ Leads(S, T) /\ T.active = S.active /\ T.idle = S.idle /\ Alloc(T) = Alloc(S)
    /\ T.at[q] = t /\ \A r \in Queue \ {q} : T.at[r] = S.at[r]

LEMMA AssignedByExcept ==
    ASSUME NEW S, Sound(S), NEW q \in Queue, NEW t \in TQueue,
           t.usage = S.at[q].usage, t.player = S.at[q].player, Resumes(t)
    PROVE  Assigned(S, [S EXCEPT !.at = [S.at EXCEPT ![q] = t]], q, t)
<1> DEFINE T == [S EXCEPT !.at = [S.at EXCEPT ![q] = t]]
<1>1. S.at \in [Queue -> TQueue]
  BY AllocInQueue DEF Sound, Queues
<1>2. /\ Leads(S, T)
      /\ T.active = S.active /\ T.idle = S.idle /\ Alloc(T) = Alloc(S)
      /\ T.at = [S.at EXCEPT ![q] = t]
  BY AssignmentProperties
<1> HIDE DEF T
<1>3. T.at[q] = t /\ \A r \in Queue \ {q} : T.at[r] = S.at[r]
  BY <1>1, <1>2
<1> QED  BY <1>2, <1>3 DEF T, Assigned

LEMMA FieldAssignments ==
    ASSUME NEW S, Sound(S), NEW q \in Queue
    PROVE  /\ \A c \in BOOLEAN : ~S.at[q].input_suspended =>
                 Assigned(S, [S EXCEPT !.at[q].connected = c], q, [S.at[q] EXCEPT !.connected = c])
           /\ \A c \in BOOLEAN :
                 Assigned(S, [S EXCEPT !.at[q].hold_input = c], q, [S.at[q] EXCEPT !.hold_input = c])
           /\ \A id \in Id \cup {NoTask} :
                 Assigned(S, [S EXCEPT !.at[q].reading = id], q, [S.at[q] EXCEPT !.reading = id])
           /\ \A n \in Int :
                 Assigned(S, [S EXCEPT !.at[q].num_bg = n], q, [S.at[q] EXCEPT !.num_bg = n])
           /\ \A b \in Seq(Task) :
                 Assigned(S, [S EXCEPT !.at[q].bg = b], q, [S.at[q] EXCEPT !.bg = b])
           /\ \A b \in Seq(Task), n \in Int :
                 Assigned(S, [S EXCEPT !.at[q].bg = b, !.at[q].num_bg = n], q,
                          [S.at[q] EXCEPT !.bg = b, !.num_bg = n])
<1>1. /\ S \in [at : [Queue -> TQueue], idle : SUBSET Queue, active : Seq(Queue)]
      /\ S.at[q] \in TQueue
  BY AllocInQueue DEF Sound, Queues
<1>0. Resumes(S.at[q])
  BY DEF Sound, Resuming
<1>2. ASSUME NEW c \in BOOLEAN, ~S.at[q].input_suspended
      PROVE  Assigned(S, [S EXCEPT !.at[q].connected = c], q, [S.at[q] EXCEPT !.connected = c])
  <2> DEFINE t == [S.at[q] EXCEPT !.connected = c]
  <2>1. t \in TQueue /\ t.usage = S.at[q].usage /\ t.player = S.at[q].player /\ Resumes(t)
    BY <1>1, <1>2 DEF TQueue, Resumes
  <2>2. [S EXCEPT !.at[q].connected = c] = [S EXCEPT !.at = [S.at EXCEPT ![q] = t]]
    BY <1>1
  <2> HIDE DEF t
  <2>3. Assigned(S, [S EXCEPT !.at = [S.at EXCEPT ![q] = t]], q, t)
    BY <2>1, AssignedByExcept
  <2> QED  BY <2>2, <2>3 DEF t
<1>3. ASSUME NEW c \in BOOLEAN
      PROVE  Assigned(S, [S EXCEPT !.at[q].hold_input = c], q, [S.at[q] EXCEPT !.hold_input = c])
  <2> DEFINE t == [S.at[q] EXCEPT !.hold_input = c]
  <2>1. t \in TQueue /\ t.usage = S.at[q].usage /\ t.player = S.at[q].player /\ Resumes(t)
    BY <1>0, <1>1 DEF TQueue, Resumes
  <2>2. [S EXCEPT !.at[q].hold_input = c] = [S EXCEPT !.at = [S.at EXCEPT ![q] = t]]
    BY <1>1
  <2> HIDE DEF t
  <2>3. Assigned(S, [S EXCEPT !.at = [S.at EXCEPT ![q] = t]], q, t)
    BY <2>1, AssignedByExcept
  <2> QED  BY <2>2, <2>3 DEF t
<1>4. ASSUME NEW id \in Id \cup {NoTask}
      PROVE  Assigned(S, [S EXCEPT !.at[q].reading = id], q, [S.at[q] EXCEPT !.reading = id])
  <2> DEFINE t == [S.at[q] EXCEPT !.reading = id]
  <2>1. t \in TQueue /\ t.usage = S.at[q].usage /\ t.player = S.at[q].player /\ Resumes(t)
    BY <1>0, <1>1 DEF TQueue, Resumes
  <2>2. [S EXCEPT !.at[q].reading = id] = [S EXCEPT !.at = [S.at EXCEPT ![q] = t]]
    BY <1>1
  <2> HIDE DEF t
  <2>3. Assigned(S, [S EXCEPT !.at = [S.at EXCEPT ![q] = t]], q, t)
    BY <2>1, AssignedByExcept
  <2> QED  BY <2>2, <2>3 DEF t
<1>5. ASSUME NEW n \in Int
      PROVE  Assigned(S, [S EXCEPT !.at[q].num_bg = n], q, [S.at[q] EXCEPT !.num_bg = n])
  <2> DEFINE t == [S.at[q] EXCEPT !.num_bg = n]
  <2>1. t \in TQueue /\ t.usage = S.at[q].usage /\ t.player = S.at[q].player /\ Resumes(t)
    BY <1>0, <1>1 DEF TQueue, Resumes
  <2>2. [S EXCEPT !.at[q].num_bg = n] = [S EXCEPT !.at = [S.at EXCEPT ![q] = t]]
    BY <1>1
  <2> HIDE DEF t
  <2>3. Assigned(S, [S EXCEPT !.at = [S.at EXCEPT ![q] = t]], q, t)
    BY <2>1, AssignedByExcept
  <2> QED  BY <2>2, <2>3 DEF t
<1>6. ASSUME NEW b \in Seq(Task)
      PROVE  Assigned(S, [S EXCEPT !.at[q].bg = b], q, [S.at[q] EXCEPT !.bg = b])
  <2> DEFINE t == [S.at[q] EXCEPT !.bg = b]
  <2>1. t \in TQueue /\ t.usage = S.at[q].usage /\ t.player = S.at[q].player /\ Resumes(t)
    BY <1>0, <1>1 DEF TQueue, Resumes
  <2>2. [S EXCEPT !.at[q].bg = b] = [S EXCEPT !.at = [S.at EXCEPT ![q] = t]]
    BY <1>1
  <2> HIDE DEF t
  <2>3. Assigned(S, [S EXCEPT !.at = [S.at EXCEPT ![q] = t]], q, t)
    BY <2>1, AssignedByExcept
  <2> QED  BY <2>2, <2>3 DEF t
<1>7. ASSUME NEW b \in Seq(Task), NEW n \in Int
      PROVE  Assigned(S, [S EXCEPT !.at[q].bg = b, !.at[q].num_bg = n], q,
                      [S.at[q] EXCEPT !.bg = b, !.num_bg = n])
  <2> DEFINE t == [S.at[q] EXCEPT !.bg = b, !.num_bg = n]
  <2>1. t \in TQueue /\ t.usage = S.at[q].usage /\ t.player = S.at[q].player /\ Resumes(t)
    BY <1>0, <1>1 DEF TQueue, Resumes
  <2>2. [S EXCEPT !.at[q].bg = b, !.at[q].num_bg = n] = [S EXCEPT !.at = [S.at EXCEPT ![q] = t]]
    BY <1>1 DEF TQueue
  <2> HIDE DEF t
  <2>3. Assigned(S, [S EXCEPT !.at = [S.at EXCEPT ![q] = t]], q, t)
    BY <2>1, AssignedByExcept
  <2> QED  BY <2>2, <2>3 DEF t
<1> QED  BY <1>2, <1>3, <1>4, <1>5, <1>6, <1>7

LEMMA EnqueueBgProperties ==
    ASSUME NEW S, Sound(S), NEW q \in Queue, NEW t \in Task
    PROVE  Assigned(S, EnqueueBg(S, q, t), q, [S.at[q] EXCEPT !.bg = Append(S.at[q].bg, t)])
<1>1. S.at[q].bg \in Seq(Task)
  BY AllocInQueue DEF Sound, Queues, TQueue
<1> DEFINE b == Append(S.at[q].bg, t)
<1>2. b \in Seq(Task)
  BY <1>1, AppendProperties
<1>3. EnqueueBg(S, q, t) = [S EXCEPT !.at[q].bg = b]
  BY DEF EnqueueBg
<1> HIDE DEF b
<1>4. \A c \in Seq(Task) : Assigned(S, [S EXCEPT !.at[q].bg = c], q, [S.at[q] EXCEPT !.bg = c])
  BY FieldAssignments
<1>5. Assigned(S, [S EXCEPT !.at[q].bg = b], q, [S.at[q] EXCEPT !.bg = b])
  BY <1>2, <1>4
<1> QED  BY <1>3, <1>5 DEF b

LEMMA DequeueBgProperties ==
    ASSUME NEW S, Sound(S), NEW q \in Queue, S.at[q].bg # <<>>
    PROVE  Assigned(S, DequeueBg(S, q), q,
                    [S.at[q] EXCEPT !.bg = Tail(S.at[q].bg), !.num_bg = S.at[q].num_bg - 1])
<1>1. S.at[q].bg \in Seq(Task) /\ S.at[q].num_bg \in Int
  BY AllocInQueue DEF Sound, Queues, TQueue
<1> DEFINE b == Tail(S.at[q].bg)
           n == S.at[q].num_bg - 1
<1>2. b \in Seq(Task) /\ n \in Int
  BY <1>1, HeadTailProperties
<1>3. DequeueBg(S, q) = [S EXCEPT !.at[q].bg = b, !.at[q].num_bg = n]
  BY AllocInQueue DEF DequeueBg, Sound, Queues, TQueue
<1> HIDE DEF b, n
<1>4. \A c \in Seq(Task), m \in Int :
          Assigned(S, [S EXCEPT !.at[q].bg = c, !.at[q].num_bg = m], q,
                   [S.at[q] EXCEPT !.bg = c, !.num_bg = m])
  BY FieldAssignments
<1>5. Assigned(S, [S EXCEPT !.at[q].bg = b, !.at[q].num_bg = n], q,
               [S.at[q] EXCEPT !.bg = b, !.num_bg = n])
  BY <1>2, <1>4
<1> QED  BY <1>3, <1>5 DEF b, n

\* A ready task is enqueued on an active queue: enqueue_bg_task() after or
\* before ensure_usage(), in a queue that find_tqueue() gave.
LEMMA ReadyTaskLeads ==
    ASSUME NEW S, Sound(S), NEW t \in Task, NEW p \in Player, Room(S, p)
    PROVE  LET q == FindTQueue(S, p)
               S0 == WithTQueue(S, p)
           IN  /\ Leads(S, EnqueueBg(EnsureUsage(S0, q), q, t))
               /\ Leads(S, EnsureUsage(EnqueueBg(S0, q, t), q))
<1> DEFINE q == FindTQueue(S, p)
           S0 == WithTQueue(S, p)
<1>1. Leads(S, S0) /\ q \in Alloc(S0)
  BY WithTQueueProperties
<1>2. Sound(S0) /\ q \in Queue
  BY <1>1, AllocInQueue DEF Leads, Sound
<1> HIDE DEF q, S0
<1>3. Leads(S, EnqueueBg(EnsureUsage(S0, q), q, t))
  <2> DEFINE S1 == EnsureUsage(S0, q)
  <2>1. Leads(S0, S1)
    BY <1>1, <1>2, EnsureUsageLeads
  <2> HIDE DEF S1
  <2>2. Leads(S1, EnqueueBg(S1, q, t))
    BY <1>2, <2>1, EnqueueBgProperties DEF Assigned, Leads
  <2>3. Leads(S, EnqueueBg(S1, q, t))
    BY <1>1, <2>1, <2>2, LeadsTransitive
  <2> QED  BY <2>3 DEF S1
<1>4. Leads(S, EnsureUsage(EnqueueBg(S0, q, t), q))
  <2> DEFINE S1 == EnqueueBg(S0, q, t)
  <2>1. Leads(S0, S1) /\ Alloc(S1) = Alloc(S0)
    BY <1>2, EnqueueBgProperties DEF Assigned
  <2> HIDE DEF S1
  <2>2. Leads(S1, EnsureUsage(S1, q))
    BY <1>1, <2>1, EnsureUsageLeads DEF Leads
  <2>3. Leads(S, EnsureUsage(S1, q))
    BY <1>1, <2>1, <2>2, LeadsTransitive
  <2> QED  BY <2>3 DEF S1
<1> QED  BY <1>3, <1>4 DEF q, S0

LEMMA InsertWaitingType ==
    ASSUME NEW D, NEW w \in Seq(D), NEW t \in D
    PROVE  InsertWaiting(w, t) \in Seq(D)
<1> DEFINE n == Len(w)
           early == {i \in DOMAIN w : w[i].start <= t.start}
<1>1. n \in Nat /\ DOMAIN w = 1..n
  BY LenProperties
<1>2. IsFiniteSet(1..n) /\ Cardinality(1..n) = n
  <2> HIDE DEF n
  <2>1. n \in Int /\ 1 \in Int
    BY <1>1
  <2>2. IsFiniteSet(1..n) /\ Cardinality(1..n) = IF 1 > n THEN 0 ELSE n - 1 + 1
    BY <2>1, FS_Interval
  <2> QED  BY <1>1, <2>2
<1>3. early \in SUBSET (1..n)
  BY <1>1
<1> HIDE DEF n
<1>4. IsFiniteSet(early) /\ Cardinality(early) <= n
  BY <1>2, <1>3, FS_Subset
<1>5. Cardinality(early) \in Nat
  BY <1>4, FS_CardinalityType
<1> DEFINE k == Cardinality(early) + 1
<1>6. k \in 1..Len(w)+1
  BY <1>1, <1>4, <1>5 DEF n
<1>7. InsertWaiting(w, t) = InsertAt(w, k, t)
  BY DEF InsertWaiting
<1> HIDE DEF k
<1>8. InsertAt(w, k, t) \in Seq(D)
  BY <1>6, InsertAtProperties
<1> QED  BY <1>7, <1>8

LEMMA RemoveAtType ==
    ASSUME NEW D, NEW s \in Seq(D), NEW i \in DOMAIN s
    PROVE  RemoveAt(s, i) \in Seq(D)
<1>1. DOMAIN s = 1..Len(s) /\ Len(s) \in Nat
  BY LenProperties
<1>2. SubSeq(s, 1, i-1) \in Seq(D)
  <2>1. \A j \in 1..i-1 : s[j] \in D
    BY <1>1, ElementOfSeq
  <2> QED  BY <1>1, <2>1, SubSeqProperties
<1>3. SubSeq(s, i+1, Len(s)) \in Seq(D)
  <2>1. \A j \in i+1..Len(s) : s[j] \in D
    BY <1>1, ElementOfSeq
  <2> QED  BY <1>1, <2>1, SubSeqProperties
<1> QED  BY <1>2, <1>3, ConcatProperties DEF RemoveAt

(***************************************************************************)
(* The inductive invariant.  TypeOK alone is not inductive: that the       *)
(* served queue can be unlinked needs it to be the head, and that a closed *)
(* connection's queue can be activated needs it to exist.                  *)
(***************************************************************************)

RunOK ==
    /\ cur.q # NoQueue =>
          pc \in {"run", "done"} /\ queues.active # <<>> /\ Head(queues.active) = cur.q
    /\ cur.closing # NoQueue => pc \in {"run", "done"} /\ cur.closing \in Alloc(queues)
    /\ cur.login => cur.q # NoQueue

TypesButQueues ==
    /\ waiting \in Seq(Task) /\ ext \in Seq(Task)
    /\ pc \in {"io", "wake", "serve", "run", "done", "sweep"}
    /\ cur \in Run
    /\ now \in Nat /\ start \in Nat /\ start <= now

IInv == Sound(queues) /\ TypesButQueues /\ RunOK

LEMMA IInvIsSound == IInv <=> Sound(queues) /\ TypesButQueues /\ RunOK
BY DEF IInv

LEMMA IInvImplies == IInv => TypeOK /\ OneQueuePerPlayer
BY DEF IInv, TypeOK, OneQueuePerPlayer, Sound, OnePerPlayer, TypesButQueues

\* A step that leads the queues on, with the same run in progress.
LEMMA SameRun ==
    ASSUME IInv, Leads(queues, queues'), UNCHANGED <<pc, cur, now, start>>,
           waiting' \in Seq(Task), ext' \in Seq(Task)
    PROVE  IInv'
<1>1. Sound(queues)' /\ TypesButQueues'
  BY IInvIsSound DEF Leads, TypesButQueues
<1>2. RunOK'
  BY DEF IInv, RunOK, Leads, HeadKept
<1> QED  BY <1>1, <1>2 DEF IInv

LEMMA IInvInit == Init => IInv
<1> SUFFICES ASSUME Init  PROVE IInv
  OBVIOUS
<1>1. /\ queues.at = [q \in Queue |-> NewTQueue(NOTHING)]
      /\ queues.idle = {} /\ queues.active = <<>>
      /\ queues = [at |-> [q \in Queue |-> NewTQueue(NOTHING)], idle |-> {}, active |-> <<>>]
  BY DEF Init
<1>2. NewTQueue(NOTHING) \in TQueue
  <2>1. <<>> \in Seq(Line) /\ <<>> \in Seq(Task)
    BY EmptySeq
  <2> QED  BY <2>1 DEF NewTQueue, TQueue, NO_USAGE
<1>3. Range(queues.active) = {} /\ IsInjective(queues.active)
  BY <1>1 DEF Range, IsInjective
<1>4. QueuesTypeOK(queues)
  <2>1. queues \in Queues
    BY <1>1, <1>2 DEF Queues
  <2> QED  BY <1>1, <1>3, <2>1 DEF QueuesTypeOK, Queues
<1>5. OnePerPlayer(queues)
  BY <1>1, <1>3 DEF OnePerPlayer, Alloc
<1>6. TypesButQueues /\ RunOK
  BY EmptySeq DEF Init, TypesButQueues, RunOK, NoRun, Run
<1>7. ByUsage(queues)
  BY <1>1 DEF ByUsage
<1>8. Resuming(queues)
  <2>1. Resumes(NewTQueue(NOTHING))
    BY DEF Resumes, NewTQueue
  <2> QED  BY <1>1, <2>1 DEF Resuming
<1> QED  BY <1>4, <1>5, <1>6, <1>7, <1>8, IInvIsSound DEF Sound

LEMMA FoundQueue ==
    ASSUME NEW S, Sound(S), NEW p \in Player, Held(S, p) # {}
    PROVE  Owner(S, p) \in Alloc(S) /\ S.at[Owner(S, p)].player = p
BY DEF Owner, Held

LEMMA NetworkStepInductive == IInv /\ NetworkStep => IInv'
<1> SUFFICES ASSUME IInv, NetworkStep  PROVE IInv'
  OBVIOUS
<1>0. Sound(queues) /\ TypesButQueues /\ RunOK /\ Alloc(queues) \subseteq Queue
      /\ queues.at \in [Queue -> TQueue]
  BY IInvIsSound, AllocInQueue DEF Sound, Queues
<1>1. ASSUME NEW g \in Guest, NEW inbound \in BOOLEAN, NewConnection(g, inbound)
      PROVE  IInv'
  <2> DEFINE q == FindTQueue(queues, g)
             S0 == WithTQueue(queues, g)
             S1 == [S0 EXCEPT !.at[q].connected = TRUE]
  <2>1. Leads(queues, S0) /\ q \in Alloc(S0) /\ ~S0.at[q].input_suspended
    <3>1. g \in Player
      BY DEF Player
    <3>2. Held(queues, g) = {} /\ Room(queues, g)
      BY <1>1 DEF NewConnection
    <3>3. /\ Leads(queues, S0) /\ q \in Alloc(S0) /\ q \in Queue
          /\ S0.at = [queues.at EXCEPT ![q] = NewTQueue(g)]
      BY <1>0, <3>1, <3>2, WithTQueueProperties
    <3>4. S0.at[q] = NewTQueue(g)
      BY <1>0, <3>3
    <3> QED  BY <3>3, <3>4 DEF NewTQueue
  <2>2. q \in Queue /\ Sound(S0)
    BY <2>1, AllocInQueue DEF Leads, Sound
  <2> HIDE DEF S0, q
  <2>3. Leads(S0, S1) /\ Alloc(S1) = Alloc(S0)
    <3>1. \A c \in BOOLEAN : ~S0.at[q].input_suspended =>
              Assigned(S0, [S0 EXCEPT !.at[q].connected = c], q, [S0.at[q] EXCEPT !.connected = c])
      BY <2>2, FieldAssignments
    <3>2. Assigned(S0, S1, q, [S0.at[q] EXCEPT !.connected = TRUE])
      BY <2>1, <3>1
    <3> QED  BY <3>2 DEF Assigned
  <2> HIDE DEF S1
  <2>4. Leads(queues, S1) /\ Sound(S1) /\ q \in Alloc(S1)
    BY <2>1, <2>3, LeadsTransitive DEF Leads
  <2>5. "blank" \in Line
    BY DomainsAssumption
  <2>6. Leads(S1, EnqueueInput(S1, q, "blank", FALSE))
    BY <2>4, <2>5, EnqueueInputProperties
  <2>7. Leads(queues, queues')
    BY <1>1, <2>4, <2>6, LeadsTransitive DEF NewConnection, S1, S0, q
  <2> QED  BY <1>0, <1>1, <2>7, SameRun DEF NewConnection, TypesButQueues
<1>2. ASSUME NEW q \in Queue, NEW l \in Line, ReceiveLine(q, l)
      PROVE  IInv'
  <2>1. Leads(queues, queues')
    BY <1>0, <1>2, EnqueueInputProperties DEF ReceiveLine
  <2> QED  BY <1>0, <1>2, <2>1, SameRun DEF ReceiveLine, TypesButQueues
<1>3. ASSUME NEW q \in Queue, ReceiveFlush(q)
      PROVE  IInv'
  <2>1. Leads(queues, queues')
    BY <1>0, <1>3, DropInputProperties DEF ReceiveFlush
  <2> QED  BY <1>0, <1>3, <2>1, SameRun DEF ReceiveFlush, TypesButQueues
<1>4. ASSUME NEW q \in Queue, CloseConnection(q)
      PROVE  IInv'
  <2>1. cur' \in Run /\ cur'.q = NoQueue /\ cur'.closing = q /\ cur'.login = FALSE
    BY <1>4 DEF CloseConnection, NoRun, Run
  <2>2. q # NoQueue
    BY DomainsAssumption
  <2>3. TypesButQueues' /\ RunOK' /\ queues' = queues
    BY <1>0, <1>4, <2>1, <2>2 DEF CloseConnection, TypesButQueues, RunOK
  <2>4. Sound(queues)'
    BY <1>0, <2>3
  <2> QED  BY <2>3, <2>4 DEF IInv
<1>5. ASSUME ResumeExternal
      PROVE  IInv'
  <2> DEFINE t == Head(ext)
             t0 == [t EXCEPT !.start = 0]
             p == t.progr
  <2>1. t \in Task /\ Tail(ext) \in Seq(Task)
    BY <1>0, <1>5, HeadTailProperties DEF ResumeExternal, TypesButQueues
  <2>2. t0 \in Task /\ p \in Player
    BY <2>1 DEF Task
  <2>3. /\ Room(queues, p)
        /\ queues' = EnsureUsage(EnqueueBg(WithTQueue(queues, p), FindTQueue(queues, p), t0),
                                 FindTQueue(queues, p))
    BY <1>5 DEF ResumeExternal
  <2> HIDE DEF t0, p
  <2>4. Leads(queues, queues')
    BY <1>0, <2>2, <2>3, ReadyTaskLeads
  <2> QED  BY <1>0, <1>5, <2>1, <2>4, SameRun DEF ResumeExternal, TypesButQueues
<1>6. ASSUME ServerTask
      PROVE  IInv'
  <2>1. TypesButQueues' /\ RunOK' /\ queues' = queues
    BY <1>0, <1>6 DEF ServerTask, TypesButQueues, RunOK, NoRun, Run
  <2>2. Sound(queues)'
    BY <1>0, <2>1
  <2> QED  BY <2>1, <2>2 DEF IInv
<1> QED  BY <1>1, <1>2, <1>3, <1>4, <1>5, <1>6 DEF NetworkStep

\* A step after which no run is in progress.
LEMMA NoRunAfter ==
    ASSUME Sound(queues)', TypesButQueues',
           cur'.q = NoQueue, cur'.closing = NoQueue, cur'.login = FALSE
    PROVE  IInv'
BY DEF RunOK, IInv, TypeOK, OneQueuePerPlayer, Sound, OnePerPlayer, TypesButQueues

LEMMA StartRunInductive ==
    ASSUME IInv, pc = "serve", queues.active # <<>>, Sound(queues)',
           queues'.active = queues.active, NEW id \in Id \cup {NoTask}, NEW login \in BOOLEAN,
           StartRun(Served, id, login)
    PROVE  IInv'
<1>1. TypesButQueues /\ Served \in Queue
  BY IInvIsSound, AllocInQueue DEF Sound, Served, Alloc
<1>2. cur' = [q |-> Served, closing |-> NoQueue, login |-> login, id |-> id]
  BY DEF StartRun, NoRun
<1>3. cur' \in Run /\ cur'.q = Served /\ cur'.closing = NoQueue
  BY <1>1, <1>2 DEF Run
<1>4. TypesButQueues'
  BY <1>1, <1>3 DEF StartRun, TypesButQueues
<1>5. RunOK'
  <2>1. pc' = "run" /\ Served # NoQueue
    BY <1>1, DomainsAssumption DEF StartRun
  <2> QED  BY <1>3, <2>1 DEF RunOK, Served
<1> QED  BY <1>4, <1>5 DEF IInv

LEMMA FreeIdleSound ==
    ASSUME Sound(queues), FreeIdle
    PROVE  /\ Sound(queues)' /\ queues'.active = queues.active /\ queues'.idle \subseteq queues.idle
           /\ \A q \in Alloc(queues') : q \in Alloc(queues) /\ queues'.at[q] = queues.at[q]
           /\ \A q \in Alloc(queues) \ Alloc(queues') : Empty(queues.at[q])
<1> DEFINE free == {q \in queues.idle : Empty(queues.at[q])}
           T == [queues EXCEPT
                    !.idle = queues.idle \ free,
                    !.at = [q \in Queue |-> IF q \in free THEN NewTQueue(NOTHING)
                                            ELSE queues.at[q]]]
<1>1. /\ queues \in Queues /\ QueuesTypeOK(queues) /\ Alloc(queues) \subseteq Queue
      /\ queues.at \in [Queue -> TQueue]
  BY AllocInQueue DEF Sound, Queues
<1>2. queues' = T
  <2>1. {q \in queues.idle : ~Empty(queues.at[q])} = queues.idle \ free
    OBVIOUS
  <2>2. [q \in Queue |-> IF q \in queues.idle /\ Empty(queues.at[q])
                         THEN NewTQueue(NOTHING) ELSE queues.at[q]]
            = [q \in Queue |-> IF q \in free THEN NewTQueue(NOTHING) ELSE queues.at[q]]
    OBVIOUS
  <2>3. queues' = [queues EXCEPT
                    !.idle = {q \in queues.idle : ~Empty(queues.at[q])},
                    !.at = [q \in Queue |-> IF q \in queues.idle /\ Empty(queues.at[q])
                                            THEN NewTQueue(NOTHING) ELSE queues.at[q]]]
    BY <1>1 DEF FreeIdle, Queues
  <2> QED  BY <2>1, <2>2, <2>3
<1>3. free \subseteq queues.idle
  OBVIOUS
<1> HIDE DEF free
<1>4. NewTQueue(NOTHING) \in TQueue
  <2>1. <<>> \in Seq(Line) /\ <<>> \in Seq(Task)
    BY EmptySeq
  <2> QED  BY <2>1 DEF NewTQueue, TQueue, NO_USAGE
<1>5. /\ T \in Queues /\ T.active = queues.active /\ T.idle = queues.idle \ free
      /\ \A q \in Queue \ free : T.at[q] = queues.at[q]
      /\ \A q \in Queue : q \in free => T.at[q] = NewTQueue(NOTHING)
  <2> DEFINE A == [q \in Queue |-> IF q \in free THEN NewTQueue(NOTHING) ELSE queues.at[q]]
  <2>1. /\ A \in [Queue -> TQueue] /\ \A q \in Queue \ free : A[q] = queues.at[q]
        /\ \A q \in Queue : q \in free => A[q] = NewTQueue(NOTHING)
    BY <1>1, <1>4
  <2> HIDE DEF A
  <2>2. T = [queues EXCEPT !.idle = queues.idle \ free, !.at = A]
    BY DEF A
  <2> HIDE DEF T
  <2> QED  BY <1>1, <2>1, <2>2 DEF Queues
<1> HIDE DEF T
<1>6. QueuesTypeOK(T)
  <2>1. \A q \in T.idle : T.at[q].usage = NO_USAGE
    BY <1>1, <1>5 DEF QueuesTypeOK, Alloc
  <2>2. \A q \in Range(T.active) : T.at[q].usage >= 0
    BY <1>1, <1>3, <1>5 DEF QueuesTypeOK, Alloc
  <2>3. IsInjective(T.active) /\ T.idle \cap Range(T.active) = {}
    BY <1>1, <1>5 DEF QueuesTypeOK
  <2> QED  BY <1>5, <2>1, <2>2, <2>3 DEF QueuesTypeOK, Queues
<1>7. Alloc(T) \subseteq Alloc(queues) /\ \A q \in Alloc(T) : T.at[q] = queues.at[q]
  BY <1>1, <1>3, <1>5 DEF Alloc, QueuesTypeOK
<1>8. OnePerPlayer(T)
  BY <1>7 DEF OnePerPlayer, Sound
<1>9. ByUsage(T)
  <2>1. \A i \in 1..Len(queues.active) : queues.active[i] \in Range(queues.active)
    BY <1>1, LenProperties DEF Queues, Range
  <2>2. \A q \in Range(queues.active) : T.at[q] = queues.at[q]
    BY <1>5, <1>7 DEF Alloc
  <2>3. \A i \in 1..Len(queues.active) : T.at[queues.active[i]] = queues.at[queues.active[i]]
    BY <2>1, <2>2
  <2>4. ByUsage(queues) /\ T.active = queues.active
    BY <1>5 DEF Sound
  <2> QED  BY <2>3, <2>4 DEF ByUsage
<1>10. Resuming(T)
  <2>1. Resumes(NewTQueue(NOTHING))
    BY DEF Resumes, NewTQueue
  <2>2. Resuming(queues)
    BY DEF Sound
  <2> QED  BY <1>5, <2>1, <2>2 DEF Resuming
<1>11. \A q \in Alloc(queues) \ Alloc(T) : Empty(queues.at[q])
  <2>1. \A q \in Alloc(queues) \ Alloc(T) : q \in free
    BY <1>5 DEF Alloc
  <2> QED  BY <2>1 DEF free
<1>12. Sound(T)
  BY <1>6, <1>8, <1>9, <1>10 DEF Sound
<1> QED  BY <1>2, <1>5, <1>7, <1>11, <1>12

LEMMA LoopStepInductive == IInv /\ LoopStep => IInv'
<1> SUFFICES ASSUME IInv, LoopStep  PROVE IInv'
  OBVIOUS
<1>0. /\ Sound(queues) /\ TypesButQueues /\ RunOK /\ queues \in Queues
      /\ Alloc(queues) \subseteq Queue /\ queues.at \in [Queue -> TQueue]
  BY IInvIsSound, AllocInQueue DEF Sound, Queues
<1>00. pc \notin {"run", "done"} => cur.q = NoQueue /\ cur.closing = NoQueue /\ cur.login = FALSE
  BY <1>0 DEF RunOK, TypesButQueues, Run
<1>000. Serving => /\ pc = "serve" /\ queues.active # <<>> /\ Served \in Queue
                   /\ queues.at[Served] \in TQueue
  BY <1>0, AllocInQueue DEF Sound, Serving, Served, Alloc
<1>1. CASE RunReadyTasks
  <2>1. queues' = queues /\ cur' = cur /\ TypesButQueues'
        /\ cur.q = NoQueue /\ cur.closing = NoQueue /\ cur.login = FALSE
    BY <1>0, <1>00, <1>1 DEF RunReadyTasks, TypesButQueues
  <2>2. Sound(queues)'
    BY <1>0, <2>1
  <2> QED  BY <2>1, <2>2, NoRunAfter
<1>2. CASE WakeTask
  <2> DEFINE t == Head(waiting)
             p == t.progr
  <2>1. t \in Task /\ Tail(waiting) \in Seq(Task)
    BY <1>0, <1>2, HeadTailProperties DEF WakeTask, FirstIsDue, TypesButQueues
  <2>2. p \in Player
    BY <2>1 DEF Task
  <2>3. /\ Room(queues, p)
        /\ queues' = EnqueueBg(EnsureUsage(WithTQueue(queues, p), FindTQueue(queues, p)),
                               FindTQueue(queues, p), t)
    BY <1>2 DEF WakeTask
  <2>4. Leads(queues, queues')
    <3> HIDE DEF t, p
    <3> QED  BY <1>0, <2>1, <2>2, <2>3, ReadyTaskLeads
  <2> QED  BY <1>0, <1>2, <2>1, <2>4, SameRun DEF WakeTask, TypesButQueues
<1>3. CASE WakeDone
  <2>1. queues' = queues /\ cur' = cur /\ TypesButQueues'
        /\ cur.q = NoQueue /\ cur.closing = NoQueue /\ cur.login = FALSE
    BY <1>0, <1>00, <1>3 DEF WakeDone, TypesButQueues
  <2>2. Sound(queues)'
    BY <1>0, <2>1
  <2> QED  BY <2>1, <2>2, NoRunAfter
<1>4. CASE ResumeReaderAtEnd
  <2>1. queues.at[Served].reading \in Id \cup {NoTask}
    BY <1>000, <1>4 DEF ResumeReaderAtEnd, TQueue
  <2>2. \A id \in Id \cup {NoTask} :
            Assigned(queues, [queues EXCEPT !.at[Served].reading = id], Served,
                     [queues.at[Served] EXCEPT !.reading = id])
    BY <1>0, <1>000, <1>4, FieldAssignments DEF ResumeReaderAtEnd
  <2>3. Assigned(queues, queues', Served, [queues.at[Served] EXCEPT !.reading = NoTask])
    BY <1>4, <2>2 DEF ResumeReaderAtEnd
  <2>4. Sound(queues)' /\ queues'.active = queues.active
    BY <2>3 DEF Assigned, Leads
  <2> QED  BY <1>000, <1>4, <2>1, <2>4, StartRunInductive DEF ResumeReaderAtEnd
<1>5. CASE OutOfBandCommand
  <2>1. Sound(queues)' /\ queues'.active = queues.active
    BY <1>0, <1>000, <1>5, DequeueInputProperties DEF OutOfBandCommand, TakesInput, Leads
  <2> QED  BY <1>000, <1>5, <2>1, StartRunInductive DEF OutOfBandCommand
<1>6. CASE ResumeReader
  <2> DEFINE S1 == DequeueInput(queues, Served)
  <2>1. queues.at[Served].reading \in Id \cup {NoTask}
    BY <1>000, <1>6 DEF ResumeReader, TQueue
  <2>2. Sound(S1) /\ S1.active = queues.active
    BY <1>0, <1>000, <1>6, DequeueInputProperties DEF ResumeReader, TakesInput, Leads
  <2>3. queues' = [S1 EXCEPT !.at[Served].reading = NoTask]
    BY <1>6 DEF ResumeReader
  <2> HIDE DEF S1
  <2>4. \A id \in Id \cup {NoTask} :
            Assigned(S1, [S1 EXCEPT !.at[Served].reading = id], Served,
                     [S1.at[Served] EXCEPT !.reading = id])
    BY <1>000, <1>6, <2>2, FieldAssignments DEF ResumeReader
  <2>5. Assigned(S1, queues', Served, [S1.at[Served] EXCEPT !.reading = NoTask])
    BY <2>3, <2>4
  <2>6. Sound(queues)' /\ queues'.active = queues.active
    BY <2>2, <2>5 DEF Assigned, Leads
  <2> QED  BY <1>000, <1>6, <2>1, <2>6, StartRunInductive DEF ResumeReader
<1>7. CASE CommandTask
  <2>1. Sound(queues)' /\ queues'.active = queues.active
    BY <1>0, <1>000, <1>7, DequeueInputProperties DEF CommandTask, TakesInput, Leads
  <2>2. (queues.at[Served].player < 0) \in BOOLEAN
    OBVIOUS
  <2> QED  BY <1>000, <1>7, <2>1, <2>2, StartRunInductive DEF CommandTask
<1>8. CASE SkipBlank
  <2>1. Leads(queues, queues')
    BY <1>0, <1>000, <1>8, DequeueInputProperties DEF SkipBlank, TakesInput
  <2> QED  BY <1>0, <1>8, <2>1, SameRun DEF SkipBlank, TypesButQueues
<1>9. CASE BackgroundTask
  <2>1. /\ queues.at[Served].bg \in Seq(Task) /\ queues.at[Served].bg # <<>>
    BY <1>000, <1>9 DEF BackgroundTask, TQueue, TakesBg
  <2>2. Head(queues.at[Served].bg).id \in Id
    <3>1. Head(queues.at[Served].bg) \in Task
      BY <2>1, HeadTailProperties
    <3>2. \A t \in Task : t.id \in Id
      BY DEF Task
    <3> QED  BY <3>1, <3>2
  <2>3. Sound(queues)' /\ queues'.active = queues.active
    BY <1>0, <1>000, <1>9, <2>1, DequeueBgProperties DEF BackgroundTask, Assigned, Leads
  <2> QED  BY <1>000, <1>9, <2>2, <2>3, StartRunInductive DEF BackgroundTask
<1>10. CASE DeactivateServed
  <2>1. Sound(queues)'
    BY <1>0, <1>000, <1>10, DeactivateHeadProperties DEF DeactivateServed
  <2> QED  BY <1>0, <1>00, <1>000, <1>10, <2>1, NoRunAfter DEF DeactivateServed, TypesButQueues
<1>11. CASE ServedNone
  <2>1. queues' = queues /\ cur' = cur /\ TypesButQueues'
        /\ cur.q = NoQueue /\ cur.closing = NoQueue /\ cur.login = FALSE
    BY <1>0, <1>00, <1>11 DEF ServedNone, TypesButQueues
  <2>2. Sound(queues)'
    BY <1>0, <2>1
  <2> QED  BY <2>1, <2>2, NoRunAfter
<1>12. CASE FinishServed
  <2>1. queues.active # <<>> /\ Head(queues.active) = cur.q
    BY <1>0, <1>12 DEF FinishServed, RunOK
  <2>2. Sound(queues)'
    BY <1>0, <1>12, <2>1, BumpProperties DEF FinishServed, TypesButQueues
  <2>3. TypesButQueues' /\ cur'.q = NoQueue /\ cur'.closing = NoQueue /\ cur'.login = FALSE
    BY <1>0, <1>12 DEF FinishServed, TypesButQueues, NoRun, Run
  <2> QED  BY <2>2, <2>3, NoRunAfter
<1>13. CASE FinishServerTask
  <2>1. Sound(queues)'
    BY <1>0, <1>13, FreeTaskQueueProperties DEF FinishServerTask, RunOK, Leads
  <2>2. TypesButQueues' /\ cur'.q = NoQueue /\ cur'.closing = NoQueue /\ cur'.login = FALSE
    BY <1>0, <1>13 DEF FinishServerTask, TypesButQueues, NoRun, Run
  <2> QED  BY <2>1, <2>2, NoRunAfter
<1>14. CASE FreeIdle
  <2>1. Sound(queues)'
    BY <1>0, <1>14, FreeIdleSound
  <2> QED  BY <1>0, <1>00, <1>14, <2>1, NoRunAfter DEF FreeIdle, TypesButQueues
<1> QED  BY <1>1, <1>2, <1>3, <1>4, <1>5, <1>6, <1>7, <1>8, <1>9, <1>10, <1>11, <1>12,
            <1>13, <1>14 DEF LoopStep

\* A step of a task after which the same task runs or has stopped.
LEMMA RunGoesOn ==
    ASSUME IInv, pc = "run", pc' \in {"run", "done"}, Leads(queues, queues'),
           waiting' \in Seq(Task), ext' \in Seq(Task), UNCHANGED <<now, start>>,
           cur' \in Run, cur'.q = cur.q, cur'.closing = cur.closing, cur'.login => cur.login
    PROVE  IInv'
<1>1. Sound(queues)' /\ TypesButQueues'
  BY IInvIsSound DEF Leads, TypesButQueues
<1>2. RunOK'
  BY DEF IInv, RunOK, Leads, HeadKept
<1> QED  BY <1>1, <1>2 DEF IInv

LEMMA CountInLeads ==
    ASSUME NEW S, Sound(S), NEW p \in Player, Room(S, p)
    PROVE  Leads(S, CountIn(S, p))
<1> DEFINE q == FindTQueue(S, p)
           S0 == WithTQueue(S, p)
           n == S0.at[q].num_bg + 1
<1>1. Leads(S, S0) /\ q \in Alloc(S0)
  BY WithTQueueProperties
<1>2. CountIn(S, p) = [S0 EXCEPT !.at[q].num_bg = n]
  BY DEF CountIn
<1> HIDE DEF q, S0
<1>3. Sound(S0) /\ q \in Queue /\ n \in Int
  <2>1. Sound(S0) /\ q \in Queue /\ S0.at[q] \in TQueue
    BY <1>1, AllocInQueue DEF Leads, Sound, Queues
  <2> QED  BY <2>1 DEF TQueue
<1> HIDE DEF n
<1>4. \A m \in Int : Assigned(S0, [S0 EXCEPT !.at[q].num_bg = m], q, [S0.at[q] EXCEPT !.num_bg = m])
  BY <1>3, FieldAssignments
<1>5. Assigned(S0, [S0 EXCEPT !.at[q].num_bg = n], q, [S0.at[q] EXCEPT !.num_bg = n])
  BY <1>3, <1>4
<1>6. Leads(S0, CountIn(S, p))
  <2> DEFINE T == [S0 EXCEPT !.at[q].num_bg = n]
  <2> HIDE DEF T
  <2>1. Leads(S0, T)
    BY <1>5 DEF Assigned, T
  <2> QED  BY <1>2, <2>1 DEF T
<1> QED  BY <1>1, <1>6, LeadsTransitive

LEMMA StartTimeType == ASSUME now \in Nat, NEW delay \in Delay PROVE StartTime(delay) \in Nat
BY BoundsAssumption DEF StartTime

LEMMA TaskStepInductive == IInv /\ TaskStep => IInv'
<1> SUFFICES ASSUME IInv, TaskStep  PROVE IInv'
  OBVIOUS
<1>0. /\ Sound(queues) /\ TypesButQueues /\ RunOK /\ queues \in Queues
      /\ Alloc(queues) \subseteq Queue /\ queues.at \in [Queue -> TQueue]
      /\ \A q \in Queue : queues.at[q] \in TQueue
  BY IInvIsSound, AllocInQueue DEF Sound, Queues
<1>00. \A p \in Programmer : p \in Player
  BY PlayersAssumption
<1>000. /\ [cur EXCEPT !.id = NoTask] \in Run
        /\ [cur EXCEPT !.id = NoTask].q = cur.q
        /\ [cur EXCEPT !.id = NoTask].closing = cur.closing
        /\ [cur EXCEPT !.id = NoTask].login = cur.login
  BY <1>0 DEF TypesButQueues, Run
<1>1. ASSUME NEW id \in Id, NEW p \in Programmer, NEW d \in Delay,
             Fork(id, p, d) \/ Suspend(id, p, d)
      PROVE  IInv'
  <2> DEFINE kind == IF Fork(id, p, d) THEN "forked" ELSE "suspended"
             t == [id |-> id, kind |-> kind, progr |-> p, start |-> StartTime(d)]
  <2>1. t \in Task
    BY <1>0, <1>00, StartTimeType DEF Task, TypesButQueues
  <2>2. /\ queues' = CountIn(queues, p) /\ Room(queues, p)
        /\ waiting' = InsertWaiting(waiting, t)
    BY <1>1 DEF Fork, Suspend, EnqueueWaiting
  <2> HIDE DEF t
  <2>3. Leads(queues, queues')
    BY <1>0, <1>00, <2>2, CountInLeads
  <2>4. waiting' \in Seq(Task)
    BY <1>0, <2>1, <2>2, InsertWaitingType DEF TypesButQueues
  <2>5. CASE Fork(id, p, d)
    BY <1>0, <2>3, <2>4, <2>5, SameRun DEF Fork, TypesButQueues
  <2>6. CASE Suspend(id, p, d)
    <3>1. /\ pc = "run" /\ pc' = "done" /\ ext' = ext /\ UNCHANGED <<now, start>>
          /\ cur' = [cur EXCEPT !.id = NoTask]
      BY <2>6 DEF Suspend, Calls
    <3> QED  BY <1>0, <1>000, <2>3, <2>4, <3>1, RunGoesOn DEF TypesButQueues
  <2> QED  BY <1>1, <2>5, <2>6
<1>2. ASSUME NEW id \in Id, NEW p \in Programmer, ReadStdin(id, p)
      PROVE  IInv'
  <2> DEFINE t == [id |-> id, kind |-> "suspended", progr |-> p, start |-> 0]
  <2>1. t \in Task
    BY <1>00 DEF Task
  <2> HIDE DEF t
  <2>2. <<t>> \o ext \in Seq(Task)
    BY <1>0, <2>1, ConcatProperties DEF TypesButQueues
  <2>3. /\ pc = "run" /\ pc' = "done" /\ ext' = <<t>> \o ext
        /\ queues' = queues /\ waiting' = waiting
        /\ UNCHANGED <<now, start>> /\ cur' = [cur EXCEPT !.id = NoTask]
    BY <1>2 DEF ReadStdin, Calls, t
  <2>4. Leads(queues, queues')
    BY <1>0, <2>3, LeadsReflexive
  <2> QED  BY <1>0, <1>000, <2>2, <2>3, <2>4, RunGoesOn DEF TypesButQueues
<1>3. ASSUME NEW i \in DOMAIN ext, KillExternal(i)
      PROVE  IInv'
  <2>1. ext' \in Seq(Task)
    BY <1>0, <1>3, RemoveAtType DEF KillExternal, TypesButQueues
  <2>2. Leads(queues, queues')
    BY <1>0, <1>3, LeadsReflexive DEF KillExternal
  <2> QED  BY <1>0, <1>3, <2>1, <2>2, SameRun DEF KillExternal, TypesButQueues
<1>4. ASSUME NEW id \in Id, NEW p \in Player, Read(id, p)
      PROVE  IInv'
  <2> DEFINE q == Owner(queues, p)
             S1 == [queues EXCEPT !.at[q].reading = id]
  <2>1. q \in Alloc(queues)
    BY <1>0, <1>4, FoundQueue DEF Read
  <2>2. queues' = S1 \/ queues' = EnsureUsage(S1, q)
    BY <1>4 DEF Read
  <2> HIDE DEF q
  <2>3. \A x \in Id \cup {NoTask} :
            Assigned(queues, [queues EXCEPT !.at[q].reading = x], q,
                     [queues.at[q] EXCEPT !.reading = x])
    BY <1>0, <2>1, FieldAssignments
  <2>4. Assigned(queues, S1, q, [queues.at[q] EXCEPT !.reading = id])
    BY <2>3
  <2> HIDE DEF S1
  <2>5. Leads(queues, S1) /\ q \in Alloc(S1) /\ Sound(S1)
    BY <2>1, <2>4 DEF Assigned, Leads
  <2>6. Leads(S1, EnsureUsage(S1, q))
    BY <2>5, EnsureUsageLeads
  <2>7. Leads(queues, queues')
    BY <2>2, <2>5, <2>6, LeadsTransitive
  <2>8. /\ pc = "run" /\ pc' = "done" /\ ext' = ext /\ waiting' = waiting
        /\ UNCHANGED <<now, start>> /\ cur' = [cur EXCEPT !.id = NoTask]
    BY <1>4 DEF Read, Calls
  <2> QED  BY <1>0, <1>000, <2>7, <2>8, RunGoesOn DEF TypesButQueues
<1>5. ASSUME NEW p \in Player, ReadNow(p)
      PROVE  IInv'
  <2>1. Leads(queues, queues')
    BY <1>0, <1>5, FoundQueue, DequeueInputProperties DEF ReadNow
  <2> QED  BY <1>0, <1>5, <2>1, SameRun DEF ReadNow, TypesButQueues
<1>6. ASSUME NEW p \in Player, FlushInput(p)
      PROVE  IInv'
  <2> DEFINE S0 == WithTQueue(queues, p)
             q == FindTQueue(queues, p)
  <2>1. Leads(queues, S0) /\ q \in Alloc(S0)
    BY <1>0, <1>6, WithTQueueProperties DEF FlushInput
  <2>2. queues' = DropInput(S0, q)
    BY <1>6 DEF FlushInput
  <2> HIDE DEF S0, q
  <2>3. Leads(S0, queues')
    BY <2>1, <2>2, AllocInQueue, DropInputProperties DEF Leads, Sound
  <2>4. Leads(queues, queues')
    BY <2>1, <2>3, LeadsTransitive
  <2> QED  BY <1>0, <1>6, <2>4, SameRun DEF FlushInput, TypesButQueues
<1>7. ASSUME NEW p \in Player, NEW l \in Line, NEW atFront \in BOOLEAN, ForceInput(p, l, atFront)
      PROVE  IInv'
  <2> DEFINE S0 == WithTQueue(queues, p)
             q == FindTQueue(queues, p)
  <2>1. Leads(queues, S0) /\ q \in Alloc(S0)
    BY <1>0, <1>7, WithTQueueProperties DEF ForceInput
  <2>2. queues' = EnqueueInput(S0, q, l, atFront)
    BY <1>7 DEF ForceInput
  <2> HIDE DEF S0, q
  <2>3. Leads(S0, queues')
    BY <2>1, <2>2, EnqueueInputProperties DEF Leads
  <2>4. Leads(queues, queues')
    BY <2>1, <2>3, LeadsTransitive
  <2> QED  BY <1>0, <1>7, <2>4, SameRun DEF ForceInput, TypesButQueues
<1>8. ASSUME NEW i \in DOMAIN waiting, KillWaiting(i)
      PROVE  IInv'
  <2> DEFINE p == waiting[i].progr
             q == Owner(queues, p)
             n == queues.at[q].num_bg - 1
  <2>1. p \in Player
    <3>1. waiting[i] \in Task
      BY <1>0, LenProperties, ElementOfSeq DEF TypesButQueues
    <3> QED  BY <3>1 DEF Task
  <2>2. waiting' \in Seq(Task)
    BY <1>0, <1>8, RemoveAtType DEF KillWaiting, TypesButQueues
  <2>3. CASE Held(queues, p) = {}
    <3>1. Leads(queues, queues')
      BY <1>0, <1>8, <2>3, LeadsReflexive DEF KillWaiting
    <3> QED  BY <1>0, <1>8, <2>2, <3>1, SameRun DEF KillWaiting, TypesButQueues
  <2>4. CASE Held(queues, p) # {}
    <3>1. q \in Alloc(queues)
      BY <1>0, <2>1, <2>4, FoundQueue
    <3>2. queues' = [queues EXCEPT !.at[q].num_bg = n]
      BY <1>8, <2>4 DEF KillWaiting
    <3> HIDE DEF q
    <3>3. q \in Queue /\ n \in Int
      BY <1>0, <3>1 DEF TQueue
    <3> HIDE DEF n
    <3>4. \A m \in Int : Assigned(queues, [queues EXCEPT !.at[q].num_bg = m], q,
                                  [queues.at[q] EXCEPT !.num_bg = m])
      BY <1>0, <3>3, FieldAssignments
    <3>5. Assigned(queues, queues', q, [queues.at[q] EXCEPT !.num_bg = n])
      BY <3>2, <3>3, <3>4
    <3>6. Leads(queues, queues')
      BY <3>5 DEF Assigned
    <3> QED  BY <1>0, <1>8, <2>2, <3>6, SameRun DEF KillWaiting, TypesButQueues
  <2> QED  BY <2>3, <2>4
<1>9. ASSUME NEW i \in DOMAIN waiting, Resume(i)
      PROVE  IInv'
  <2> DEFINE t == [waiting[i] EXCEPT !.start = now]
             p == t.progr
  <2>1. waiting[i] \in Task
    BY <1>0, LenProperties, ElementOfSeq DEF TypesButQueues
  <2>2. t \in Task /\ p \in Player
    BY <1>0, <2>1 DEF Task, TypesButQueues
  <2>3. /\ Room(queues, p)
        /\ queues' = EnqueueBg(EnsureUsage(WithTQueue(queues, p), FindTQueue(queues, p)),
                               FindTQueue(queues, p), t)
    BY <1>9 DEF Resume
  <2>4. Leads(queues, queues')
    <3> HIDE DEF t, p
    <3> QED  BY <1>0, <2>2, <2>3, ReadyTaskLeads
  <2>5. waiting' \in Seq(Task)
    BY <1>0, <1>9, RemoveAtType DEF Resume, TypesButQueues
  <2> QED  BY <1>0, <1>9, <2>4, <2>5, SameRun DEF Resume, TypesButQueues
<1>10. ASSUME NEW q \in Queue, KillReader(q)
       PROVE  IInv'
  <2>1. \A x \in Id \cup {NoTask} :
            Assigned(queues, [queues EXCEPT !.at[q].reading = x], q,
                     [queues.at[q] EXCEPT !.reading = x])
    BY <1>0, FieldAssignments
  <2>2. Assigned(queues, queues', q, [queues.at[q] EXCEPT !.reading = NoTask])
    BY <1>10, <2>1 DEF KillReader
  <2>3. Leads(queues, queues')
    BY <2>2 DEF Assigned
  <2> QED  BY <1>0, <1>10, <2>3, SameRun DEF KillReader, TypesButQueues
<1>11. ASSUME NEW q \in Queue, NEW i \in DOMAIN queues.at[q].bg, KillReady(q, i)
       PROVE  IInv'
  <2> DEFINE b == RemoveAt(queues.at[q].bg, i)
             n == queues.at[q].num_bg - 1
  <2>1. queues.at[q].bg \in Seq(Task) /\ n \in Int
    BY <1>0 DEF TQueue
  <2>2. b \in Seq(Task)
    BY <2>1, RemoveAtType
  <2>3. queues' = [queues EXCEPT !.at[q].bg = b, !.at[q].num_bg = n]
    BY <1>0, <1>11 DEF KillReady, Queues, TQueue
  <2> HIDE DEF b, n
  <2>4. \A c \in Seq(Task), m \in Int :
            Assigned(queues, [queues EXCEPT !.at[q].bg = c, !.at[q].num_bg = m], q,
                     [queues.at[q] EXCEPT !.bg = c, !.num_bg = m])
    BY <1>0, FieldAssignments
  <2>5. Assigned(queues, queues', q, [queues.at[q] EXCEPT !.bg = b, !.num_bg = n])
    BY <2>1, <2>2, <2>3, <2>4
  <2>6. Leads(queues, queues')
    BY <2>5 DEF Assigned
  <2> QED  BY <1>0, <1>11, <2>6, SameRun DEF KillReady, TypesButQueues
<1>12. ASSUME NEW q \in Queue, NEW hold \in BOOLEAN, SetHoldInput(q, hold)
       PROVE  IInv'
  <2> DEFINE S1 == [queues EXCEPT !.at[q].hold_input = hold]
  <2>1. q \in Alloc(queues) /\ (queues' = S1 \/ queues' = EnsureUsage(S1, q))
    BY <1>12 DEF SetHoldInput
  <2>2. \A c \in BOOLEAN : Assigned(queues, [queues EXCEPT !.at[q].hold_input = c], q,
                                   [queues.at[q] EXCEPT !.hold_input = c])
    BY <1>0, FieldAssignments
  <2>3. Assigned(queues, S1, q, [queues.at[q] EXCEPT !.hold_input = hold])
    BY <2>2
  <2> HIDE DEF S1
  <2>4. Leads(queues, S1) /\ q \in Alloc(S1) /\ Sound(S1)
    BY <2>1, <2>3 DEF Assigned, Leads
  <2>5. Leads(S1, EnsureUsage(S1, q))
    BY <2>4, EnsureUsageLeads
  <2>6. Leads(queues, queues')
    BY <2>1, <2>4, <2>5, LeadsTransitive
  <2> QED  BY <1>0, <1>12, <2>6, SameRun DEF SetHoldInput, TypesButQueues
<1>13. ASSUME NEW q \in Queue, NEW new \in User, ReconnectPlayer(q, new)
       PROVE  IInv'
  <2>1. Leads(queues, queues')
    BY <1>0, <1>13, ReassociateLeads DEF ReconnectPlayer, Player
  <2> QED  BY <1>0, <1>13, <2>1, SameRun DEF ReconnectPlayer, TypesButQueues
<1>14. ASSUME NEW new \in User, Login(new)
       PROVE  IInv'
  <2>1. cur.q \in Alloc(queues)
    BY <1>0, <1>14, AllocInQueue DEF Login, RunOK, Alloc, Sound
  <2>2. Leads(queues, queues')
    BY <1>0, <1>14, <2>1, ReassociateLeads DEF Login, Player
  <2>3. /\ cur' \in Run /\ cur'.q = cur.q /\ cur'.closing = cur.closing /\ cur'.login = FALSE
        /\ pc = "run" /\ pc' = "run" /\ UNCHANGED <<waiting, ext, now, start>>
    BY <1>0, <1>14 DEF Login, TypesButQueues, Run
  <2> QED  BY <1>0, <2>2, <2>3, RunGoesOn DEF TypesButQueues
<1> QED  BY <1>1, <1>2, <1>3, <1>4, <1>5, <1>6, <1>7, <1>8, <1>9, <1>10, <1>11, <1>12,
            <1>13, <1>14 DEF TaskStep

LEMMA IInvInductive == IInv /\ [Next]_vars => IInv'
<1> SUFFICES ASSUME IInv, [Next]_vars  PROVE IInv'
  OBVIOUS
<1>0. /\ Sound(queues) /\ TypesButQueues /\ RunOK
  BY IInvIsSound
<1>1. CASE NetworkStep
  BY <1>1, NetworkStepInductive
<1>2. CASE LoopStep
  BY <1>2, LoopStepInductive
<1>3. CASE TaskStep
  BY <1>3, TaskStepInductive
<1>4. CASE EndTask
  <2>1. queues' = queues
    BY <1>4 DEF EndTask
  <2>2. TypesButQueues' /\ RunOK'
    BY <1>0, <1>4 DEF EndTask, TypesButQueues, RunOK
  <2> QED  BY <1>0, <2>1, <2>2 DEF IInv
<1>5. CASE Tick
  <2>1. queues' = queues
    BY <1>5 DEF Tick
  <2>2. TypesButQueues' /\ RunOK'
    BY <1>0, <1>5 DEF Tick, TypesButQueues, RunOK
  <2> QED  BY <1>0, <2>1, <2>2 DEF IInv
<1>6. CASE UNCHANGED vars
  <2>1. queues' = queues
    BY <1>6 DEF vars
  <2>2. TypesButQueues' /\ RunOK'
    BY <1>0, <1>6 DEF vars, TypesButQueues, RunOK
  <2> QED  BY <1>0, <2>1, <2>2 DEF IInv
<1> QED  BY <1>1, <1>2, <1>3, <1>4, <1>5, <1>6 DEF Next

(***************************************************************************)
(* The theorems.  All hold for every program that tasks may run, that is,  *)
(* for every value of Builtins, and for any number of queues and players.  *)
(***************************************************************************)

LEMMA IInvAlways == Spec => []IInv
<1>1. Init => IInv
  BY IInvInit
<1>2. IInv /\ [Next]_vars => IInv'
  BY IInvInductive
<1> QED  BY <1>1, <1>2, PTL DEF Spec

\* Type correctness.  Its content is that every tqueue is on exactly one of
\* idle_tqueues and active_tqueues, and there once, and that its usage tells
\* which: ensure_usage() and deactivate_tqueue() keep the lists by that.
THEOREM TypeCorrect == Spec => []TypeOK
<1>1. IInv => TypeOK
  BY IInvImplies
<1> QED  BY <1>1, IInvAlways, PTL

\* run_ready_tasks() unlinks the queue it served by "active_tqueues =
\* tq->next" after the task is over.  Whatever built-ins that task called, the
\* queue is then still the head, so that no other queue is lost.
THEOREM ServedHead == Spec => []ServedStaysAtHead
<1>1. IInv => ServedStaysAtHead
  BY DEF IInv, RunOK, ServedStaysAtHead
<1> QED  BY <1>1, IInvAlways, PTL

\* find_tqueue() has one queue to find: logins, reconnect_player() and
\* force_input() never leave two queues with one player's number.
THEOREM OneQueue == Spec => []OneQueuePerPlayer
<1>1. IInv => OneQueuePerPlayer
  BY IInvImplies
<1> QED  BY <1>1, IInvAlways, PTL

(***************************************************************************)
(* Both lists in order.                                                    *)
(***************************************************************************)

WaitingOrdered(w) == \A i, j \in 1..Len(w) : i < j => w[i].start <= w[j].start

\* enqueue_waiting() finds the first waiting task that starts later.
LEMMA InsertWaitingOrdered ==
    ASSUME NEW w \in Seq(Task), NEW t \in Task, WaitingOrdered(w)
    PROVE  WaitingOrdered(InsertWaiting(w, t))
<1> DEFINE n == Len(w)
           early == {i \in DOMAIN w : w[i].start <= t.start}
           k == Cardinality(early) + 1
           v == InsertAt(w, k, t)
<1>1. n \in Nat /\ DOMAIN w = 1..n /\ \A i \in 1..n : w[i] \in Task
  BY LenProperties, ElementOfSeq
<1>2. t.start \in Int /\ \A i \in 1..n : w[i].start \in Int
  BY <1>1 DEF Task
<1>3. early \in SUBSET (1..n) /\ \A i \in early : \A j \in 1..i : j \in early
  <2>1. early \in SUBSET (1..n)
    BY <1>1
  <2>2. ASSUME NEW i \in early, NEW j \in 1..i  PROVE j \in early
    <3>1. i \in 1..n /\ w[i].start <= t.start
      BY <2>1
    <3>2. j \in 1..n /\ (j = i \/ j < i)
      BY <1>1, <3>1
    <3>3. w[j].start <= w[i].start
      BY <1>2, <3>1, <3>2 DEF WaitingOrdered
    <3> QED  BY <1>1, <1>2, <3>1, <3>2, <3>3
  <2> QED  BY <2>1, <2>2
<1> HIDE DEF n
<1>4. Cardinality(early) \in 0..n /\ early = 1..Cardinality(early)
  <2> HIDE DEF early
  <2> QED  BY <1>1, <1>3, PrefixIs
<1>5. k \in 1..n + 1 /\ \A i \in 1..n : i < k <=> w[i].start <= t.start
  <2>1. \A i \in 1..n : i \in early <=> w[i].start <= t.start
    BY <1>1
  <2> HIDE DEF early
  <2>2. Cardinality(early) \in Nat
    BY <1>4
  <2>3. \A i \in 1..n : i \in early <=> i < Cardinality(early) + 1
    BY <1>1, <1>4, <2>2
  <2> QED  BY <1>1, <1>4, <2>1, <2>3
<1>6. InsertWaiting(w, t) = v
  BY DEF InsertWaiting
<1> HIDE DEF k
<1>7. /\ Len(v) = n + 1
      /\ \A j \in 1..n + 1 : v[j] = IF j < k THEN w[j] ELSE IF j = k THEN t ELSE w[j-1]
  <2>1. k \in 1..Len(w) + 1
    BY <1>5 DEF n
  <2> QED  BY <2>1, InsertAtProperties DEF n
<1> HIDE DEF v
<1>8. ASSUME NEW i \in 1..n + 1, NEW j \in 1..n + 1, i < j
      PROVE  v[i].start <= v[j].start
  <2>1. ASSUME NEW a \in 1..n, NEW b \in 1..n, a <= b  PROVE w[a].start <= w[b].start
    BY <1>2, <2>1 DEF WaitingOrdered, n
  <2>2. k \in Int /\ i \in Int /\ j \in Int
    BY <1>1, <1>5
  <2>3. CASE j < k
    <3>1. v[i] = w[i] /\ v[j] = w[j] /\ i \in 1..n /\ j \in 1..n
      BY <1>1, <1>5, <1>7, <1>8, <2>2, <2>3
    <3> QED  BY <1>8, <2>1, <2>2, <3>1
  <2>4. CASE j = k
    <3>1. v[i] = w[i] /\ v[j] = t /\ i \in 1..n /\ i < k
      BY <1>1, <1>5, <1>7, <1>8, <2>2, <2>4
    <3> QED  BY <1>5, <3>1
  <2>5. CASE j > k
    <3>1. v[j] = w[j - 1] /\ j - 1 \in 1..n /\ ~(j - 1 < k)
      BY <1>1, <1>5, <1>7, <2>2, <2>5
    <3>2. ~(w[j - 1].start <= t.start) /\ w[j - 1].start \in Int
      BY <1>2, <1>5, <3>1
    <3>3. CASE i < k
      <4>1. v[i] = w[i] /\ i \in 1..n /\ w[i].start \in Int
        BY <1>1, <1>2, <1>5, <1>7, <2>2, <3>3
      <4>2. i <= j - 1
        BY <2>2, <2>5, <3>3
      <4> QED  BY <2>1, <3>1, <4>1, <4>2
    <3>4. CASE i = k
      <4>1. v[i] = t
        BY <1>7, <3>4
      <4> QED  BY <1>2, <3>1, <3>2, <4>1
    <3>5. CASE i > k
      <4>1. v[i] = w[i - 1] /\ i - 1 \in 1..n /\ i - 1 <= j - 1
        BY <1>1, <1>5, <1>7, <1>8, <2>2, <3>5
      <4> QED  BY <2>1, <3>1, <4>1
    <3> QED  BY <2>2, <3>3, <3>4, <3>5
  <2> QED  BY <2>2, <2>3, <2>4, <2>5
<1> QED  BY <1>6, <1>7, <1>8 DEF WaitingOrdered

LEMMA RemoveAtOrdered ==
    ASSUME NEW w \in Seq(Task), NEW k \in DOMAIN w, WaitingOrdered(w)
    PROVE  WaitingOrdered(RemoveAt(w, k))
<1> DEFINE n == Len(w)
           v == RemoveAt(w, k)
<1>1. n \in Nat /\ k \in 1..n
  BY LenProperties
<1>2. /\ Len(v) = n - 1
      /\ \A i \in 1..n - 1 : v[i] = IF i < k THEN w[i] ELSE w[i + 1]
  BY <1>1, RemoveAtIs
<1> HIDE DEF v
<1>3. ASSUME NEW i \in 1..n - 1, NEW j \in 1..n - 1, i < j  PROVE v[i].start <= v[j].start
  <2> DEFINE a == IF i < k THEN i ELSE i + 1
             b == IF j < k THEN j ELSE j + 1
  <2>1. a \in 1..n /\ b \in 1..n /\ a < b
    BY <1>1, <1>3
  <2>2. v[i] = w[a] /\ v[j] = w[b]
    BY <1>2
  <2> HIDE DEF a, b
  <2> QED  BY <2>1, <2>2 DEF WaitingOrdered
<1> QED  BY <1>2, <1>3 DEF WaitingOrdered, v

LEMMA TailOrdered ==
    ASSUME NEW w \in Seq(Task), w # <<>>, WaitingOrdered(w)
    PROVE  WaitingOrdered(Tail(w))
<1>1. Len(w) \in Nat /\ Len(Tail(w)) = Len(w) - 1 /\ \A i \in 1..Len(w) - 1 : Tail(w)[i] = w[i + 1]
  BY LenProperties, HeadTailProperties
<1> DEFINE v == Tail(w)
<1> HIDE DEF v
<1>2. ASSUME NEW i \in 1..Len(w) - 1, NEW j \in 1..Len(w) - 1, i < j
      PROVE  v[i].start <= v[j].start
  <2>1. i + 1 \in 1..Len(w) /\ j + 1 \in 1..Len(w) /\ i + 1 < j + 1
    BY <1>1, <1>2
  <2> QED  BY <1>1, <2>1 DEF WaitingOrdered, v
<1> QED  BY <1>1, <1>2 DEF WaitingOrdered, v

LEMMA WaitingStaysOrdered ==
    ASSUME IInv, WaitingOrdered(waiting), [Next]_vars
    PROVE  WaitingOrdered(waiting')
<1>0. waiting \in Seq(Task) /\ now \in Nat /\ cur \in Run
  BY DEF IInv, TypesButQueues
<1>1. ASSUME NEW id \in Id, NEW p \in Programmer, NEW d \in Delay,
             Fork(id, p, d) \/ Suspend(id, p, d)
      PROVE  WaitingOrdered(waiting')
  <2> DEFINE kind == IF Fork(id, p, d) THEN "forked" ELSE "suspended"
             t == [id |-> id, kind |-> kind, progr |-> p, start |-> StartTime(d)]
  <2>1. t \in Task
    BY <1>0, StartTimeType, PlayersAssumption DEF Task
  <2>2. waiting' = InsertWaiting(waiting, t)
    BY <1>1 DEF Fork, Suspend, EnqueueWaiting
  <2> HIDE DEF t
  <2> QED  BY <1>0, <2>1, <2>2, InsertWaitingOrdered
<1>2. CASE WakeTask
  BY <1>0, <1>2, TailOrdered DEF WakeTask, FirstIsDue
<1>3. ASSUME NEW i \in DOMAIN waiting, KillWaiting(i) \/ Resume(i)
      PROVE  WaitingOrdered(waiting')
  BY <1>0, <1>3, RemoveAtOrdered DEF KillWaiting, Resume
<1>4. ASSUME waiting' = waiting  PROVE WaitingOrdered(waiting')
  BY <1>4
<1>5. CASE NetworkStep
  BY <1>4, <1>5 DEF NetworkStep, NewConnection, ReceiveLine, ReceiveFlush, CloseConnection,
                    ResumeExternal, ServerTask
<1>6. CASE LoopStep
  <2>1. CASE ~WakeTask
    BY <1>4, <1>6, <2>1 DEF LoopStep, RunReadyTasks, WakeDone, ResumeReaderAtEnd,
        OutOfBandCommand, ResumeReader, CommandTask, SkipBlank, BackgroundTask,
        DeactivateServed, ServedNone, FinishServed, FinishServerTask, FreeIdle, StartRun
  <2> QED  BY <1>2, <2>1
<1>7. CASE TaskStep
  BY <1>1, <1>3, <1>4, <1>7 DEF TaskStep, ReadStdin, KillExternal, Read, ReadNow, FlushInput,
      ForceInput, KillReader, KillReady, SetHoldInput, ReconnectPlayer, Login
<1>8. CASE EndTask \/ Tick \/ UNCHANGED vars
  BY <1>4, <1>8 DEF EndTask, Tick, vars
<1> QED  BY <1>5, <1>6, <1>7, <1>8 DEF Next

\* Queues are served in order of usage and tasks woken in order of their start
\* times: the lists are kept in that order by inserting alone, and nothing
\* that a task does while run_ready_tasks() holds a list's head disturbs it.
THEOREM ListsInOrder == Spec => []Ordered
<1>1. Init => IInv /\ WaitingOrdered(waiting)
  BY IInvInit DEF Init, WaitingOrdered
<1>2. (IInv /\ WaitingOrdered(waiting)) /\ [Next]_vars => (IInv /\ WaitingOrdered(waiting))'
  BY IInvInductive, WaitingStaysOrdered
<1>3. IInv /\ WaitingOrdered(waiting) => Ordered
  <2> SUFFICES ASSUME IInv, WaitingOrdered(waiting)  PROVE Ordered
    OBVIOUS
  <2>1. /\ queues.active \in Seq(Queue) /\ ByUsage(queues)
        /\ waiting \in Seq(Task)
    BY DEF IInv, Sound, QueuesTypeOK, TypesButQueues
  <2>2. DOMAIN queues.active = 1..Len(queues.active) /\ DOMAIN waiting = 1..Len(waiting)
    BY <2>1, LenProperties
  <2> QED  BY <2>1, <2>2 DEF Ordered, ByUsage, WaitingOrdered
<1> QED  BY <1>1, <1>2, <1>3, PTL DEF Spec

\* A connection's input does not stay suspended for ever: when it is, so much
\* of it is queued that taking lines will come to resume it.  A connection
\* cut off while suspended, or flushed, or taken over by a login, is covered.
THEOREM SuspendedResumes == Spec => []SuspendedInputResumes
<1>1. IInv => SuspendedInputResumes
  <2> SUFFICES ASSUME IInv  PROVE SuspendedInputResumes
    OBVIOUS
  <2>1. Resuming(queues) /\ Alloc(queues) \subseteq Queue
    BY AllocInQueue DEF IInv, Sound
  <2> QED  BY <2>1 DEF SuspendedInputResumes, Resuming, Resumes
<1> QED  BY <1>1, IInvAlways, PTL

(***************************************************************************)
(* No wakeup is lost.                                                      *)
(***************************************************************************)

\* Idle queues have nothing to do, and only users' queues have tasks.
Calm(S) ==
    /\ \A r \in S.idle : NothingToDo(S.at[r])
    /\ \A r \in Alloc(S) : S.at[r].player \notin User => S.at[r].bg = <<>>

Calms(S, T) ==
    /\ Leads(S, T) /\ Calm(T)
    /\ \A r \in Alloc(S) : T.at[r].player = S.at[r].player

LEMMA CalmsTransitive ==
    ASSUME NEW S, NEW T, NEW U, Calms(S, T), Calms(T, U)
    PROVE  Calms(S, U)
BY LeadsTransitive DEF Calms, Leads

LEMMA CalmsReflexive ==
    ASSUME NEW S, Sound(S), Calm(S)
    PROVE  Calms(S, S)
BY LeadsReflexive DEF Calms

\* A step that changes one queue for the rest.
LEMMA OneChanges ==
    ASSUME NEW S, Calm(S), NEW q \in Queue, NEW T, Leads(S, T),
           T.idle \subseteq S.idle \cup {q}, S.idle \subseteq Queue,
           \A r \in Queue \ {q} : Same(S, T, r),
           q \in Alloc(S) => T.at[q].player = S.at[q].player,
           Alloc(S) \subseteq Queue, Alloc(T) \subseteq Alloc(S) \cup {q},
           q \in T.idle => NothingToDo(T.at[q]),
           T.at[q].player \notin User => T.at[q].bg = <<>>
    PROVE  Calms(S, T)
<1>1. ASSUME NEW r \in T.idle  PROVE NothingToDo(T.at[r])
  <2>1. CASE r = q
    BY <2>1
  <2>2. CASE r # q
    <3>1. r \in S.idle /\ Same(S, T, r) /\ NothingToDo(S.at[r])
      BY <2>2 DEF Calm
    <3> QED  BY <3>1 DEF Same, NothingToDo, TakesInput, IsOutOfInput
  <2> QED  BY <2>1, <2>2
<1>2. \A r \in Alloc(T) : T.at[r].player \notin User => T.at[r].bg = <<>>
  BY DEF Calm, Same
<1>3. \A r \in Alloc(S) : T.at[r].player = S.at[r].player
  BY DEF Same
<1> QED  BY <1>1, <1>2, <1>3 DEF Calms, Calm

LEMMA IdleInQueue ==
    ASSUME NEW S, Sound(S)
    PROVE  /\ S.idle \subseteq Queue /\ Alloc(S) \subseteq Queue /\ S.idle \subseteq Alloc(S)
           /\ S.at \in [Queue -> TQueue] /\ \A r \in Queue : S.at[r] \in TQueue
BY AllocInQueue DEF Sound, Queues, Alloc

LEMMA FoundIn ==
    ASSUME NEW S, Sound(S), NEW p \in Player, Room(S, p)
    PROVE  /\ FindTQueue(S, p) \in Alloc(WithTQueue(S, p))
           /\ WithTQueue(S, p).at[FindTQueue(S, p)].player = p
<1> DEFINE T == WithTQueue(S, p)
           q == FindTQueue(S, p)
<1>1. /\ Leads(S, T) /\ q \in Alloc(T) /\ T.at[q].player = p
      /\ Held(S, p) # {} => T = S
      /\ Held(S, p) = {} =>
             /\ q \in Queue \ Alloc(S)
             /\ T.idle = S.idle \cup {q}
             /\ T.at = [S.at EXCEPT ![q] = NewTQueue(p)]
  BY WithTQueueProperties
<1> QED  BY <1>1

LEMMA WithTQueueCalms ==
    ASSUME NEW S, Sound(S), Calm(S), NEW p \in Player, Room(S, p)
    PROVE  Calms(S, WithTQueue(S, p))
<1> DEFINE T == WithTQueue(S, p)
           q == FindTQueue(S, p)
<1>1. /\ Leads(S, T) /\ q \in Alloc(T)
      /\ Held(S, p) # {} => T = S
      /\ T.active = S.active
      /\ Held(S, p) = {} =>
             /\ q \in Queue \ Alloc(S)
             /\ T.idle = S.idle \cup {q}
             /\ T.at = [S.at EXCEPT ![q] = NewTQueue(p)]
  BY WithTQueueProperties
<1> HIDE DEF T, q
<1>2. CASE Held(S, p) # {}
  BY <1>1, <1>2, CalmsReflexive DEF T
<1>3. CASE Held(S, p) = {}
  <2>1. /\ q \in Queue \ Alloc(S) /\ T.idle = S.idle \cup {q}
        /\ T.at[q] = NewTQueue(p) /\ \A r \in Queue \ {q} : T.at[r] = S.at[r]
    BY <1>1, <1>3, IdleInQueue
  <2>2. NothingToDo(NewTQueue(p)) /\ NewTQueue(p).bg = <<>>
    BY DEF NothingToDo, TakesInput, IsOutOfInput, NewTQueue
  <2>3. \A r \in Queue \ {q} : Same(S, T, r)
    BY <2>1 DEF Same
  <2>4. S.idle \subseteq Queue /\ Alloc(S) \subseteq Queue
    BY IdleInQueue
  <2>5. /\ q \in Alloc(S) => T.at[q].player = S.at[q].player
        /\ NothingToDo(T.at[q]) /\ T.at[q].bg = <<>>
    BY <2>1, <2>2
  <2>6. q \in Queue /\ Alloc(T) \subseteq Alloc(S) \cup {q}
    BY <1>1, <2>1 DEF Alloc
  <2>7. Calms(S, T)
    BY <1>1, <2>1, <2>3, <2>4, <2>5, <2>6, OneChanges
  <2> QED  BY <2>7 DEF T
<1> QED  BY <1>2, <1>3

\* An assignment to fields of a queue that leaves it with nothing to do if it
\* had nothing to do.
LEMMA AssignedCalms ==
    ASSUME NEW S, Sound(S), Calm(S), NEW q \in Alloc(S), NEW T, NEW t, Assigned(S, T, q, t),
           t.player = S.at[q].player,
           q \in S.idle /\ NothingToDo(S.at[q]) => NothingToDo(t),
           t.player \in User \/ t.bg = S.at[q].bg
    PROVE  Calms(S, T)
<1>1. /\ Leads(S, T) /\ T.idle = S.idle /\ T.at[q] = t /\ Alloc(T) = Alloc(S) /\ q \in Queue
      /\ \A r \in Queue \ {q} : Same(S, T, r)
  BY IdleInQueue DEF Assigned, Same
<1>2. /\ q \in T.idle => NothingToDo(T.at[q])
      /\ T.at[q].player \notin User => T.at[q].bg = <<>>
      /\ T.at[q].player = S.at[q].player
  BY <1>1 DEF Calm
<1> QED  BY <1>1, <1>2, OneChanges, IdleInQueue

\* ensure_usage(): no queue has more to do.
LEMMA EnsureUsageCalms ==
    ASSUME NEW S, Sound(S), Calm(S), NEW q \in Alloc(S)
    PROVE  Calms(S, EnsureUsage(S, q))
<1> DEFINE T == EnsureUsage(S, q)
<1>1. /\ Leads(S, T) /\ T.idle = S.idle \ {q} /\ \A r \in Queue : Same(S, T, r)
      /\ Alloc(T) = Alloc(S)
  BY EnsureUsageLeads
<1> HIDE DEF T
<1>2. q \in Queue /\ S.idle \subseteq Queue /\ Alloc(S) \subseteq Queue
  BY IdleInQueue
<1>3. T.at[q].player = S.at[q].player /\ T.at[q].bg = S.at[q].bg
  BY <1>1, <1>2 DEF Same
<1>4. T.at[q].player \notin User => T.at[q].bg = <<>>
  BY <1>2, <1>3 DEF Calm
<1>5. Calms(S, T)
  BY <1>1, <1>2, <1>3, <1>4, OneChanges
<1> QED  BY <1>5 DEF T

\* A queue is given work and then activated.
LEMMA AssignedAndActive ==
    ASSUME NEW S, Sound(S), Calm(S), NEW q \in Alloc(S), NEW U, NEW t, Assigned(S, U, q, t),
           t.player = S.at[q].player, t.player \in User \/ t.bg = S.at[q].bg
    PROVE  Calms(S, EnsureUsage(U, q))
<1> DEFINE T == EnsureUsage(U, q)
<1>1. /\ Leads(S, U) /\ U.idle = S.idle /\ U.at[q] = t /\ Alloc(U) = Alloc(S)
      /\ \A r \in Queue \ {q} : U.at[r] = S.at[r]
  BY DEF Assigned
<1>2. Sound(U) /\ q \in Alloc(U)
  BY <1>1 DEF Leads
<1>3. /\ Leads(U, T) /\ T.idle = U.idle \ {q} /\ \A r \in Queue : Same(U, T, r)
      /\ Alloc(T) = Alloc(U)
  BY <1>2, EnsureUsageLeads
<1> HIDE DEF T
<1>4. Leads(S, T)
  BY <1>1, <1>3, LeadsTransitive
<1>5. q \in Queue /\ S.idle \subseteq Queue /\ Alloc(S) \subseteq Queue
  BY IdleInQueue
<1>6. \A r \in Queue \ {q} : Same(S, T, r)
  BY <1>1, <1>3 DEF Same
<1>7. T.at[q].player = t.player /\ T.at[q].bg = t.bg
  BY <1>1, <1>3, <1>5 DEF Same
<1>8. T.at[q].player \notin User => T.at[q].bg = <<>>
  BY <1>5, <1>7 DEF Calm
<1>9. Calms(S, T)
  BY <1>1, <1>3, <1>4, <1>5, <1>6, <1>7, <1>8, OneChanges
<1> QED  BY <1>9 DEF T

LEMMA EnqueueInputCalms ==
    ASSUME NEW S, Sound(S), Calm(S), NEW q \in Alloc(S), NEW l \in Line, NEW atFront \in BOOLEAN
    PROVE  Calms(S, EnqueueInput(S, q, l, atFront))
<1> DEFINE T == EnqueueInput(S, q, l, atFront)
<1>1. /\ Leads(S, T) /\ Alloc(T) = Alloc(S) /\ T.idle \subseteq S.idle
      /\ ~S.at[q].hold_input \/ S.at[q].reading # NoTask => q \notin T.idle
      /\ \A r \in Queue :
            /\ T.at[r].bg = S.at[r].bg /\ T.at[r].num_bg = S.at[r].num_bg
            /\ T.at[r].reading = S.at[r].reading
            /\ T.at[r].connected = S.at[r].connected
            /\ T.at[r].hold_input = S.at[r].hold_input
            /\ T.at[r].player = S.at[r].player
            /\ r # q => Same(S, T, r)
  BY EnqueueInputProperties
<1> HIDE DEF T
<1>2. q \in Queue /\ S.idle \subseteq Queue /\ Alloc(S) \subseteq Queue
  BY IdleInQueue
<1>3. \A r \in Queue \ {q} : Same(S, T, r)
  BY <1>1 DEF Same
<1>4. ASSUME q \in T.idle  PROVE NothingToDo(T.at[q])
  <2>1. q \in S.idle /\ S.at[q].hold_input /\ S.at[q].reading = NoTask /\ NothingToDo(S.at[q])
    BY <1>1, <1>4 DEF Calm
  <2>2. T.at[q].hold_input /\ T.at[q].reading = NoTask /\ T.at[q].bg = S.at[q].bg
    BY <1>1, <1>2, <2>1
  <2> QED  BY <2>1, <2>2 DEF NothingToDo, TakesInput
<1>5. T.at[q].player \notin User => T.at[q].bg = <<>>
  BY <1>1, <1>2 DEF Calm
<1>6. T.at[q].player = S.at[q].player
  BY <1>1, <1>2
<1>7. Calms(S, T)
  BY <1>1, <1>2, <1>3, <1>4, <1>5, <1>6, OneChanges
<1> QED  BY <1>7 DEF T

LEMMA LinesTakenCalms ==
    ASSUME NEW S, Sound(S), Calm(S), NEW q \in Alloc(S), NEW T, Leads(S, T), T.idle = S.idle,
           Alloc(T) = Alloc(S),
           LinesTaken(S, T, q),
           T.at[q].input # <<>> => S.at[q].input # <<>>,
           T.at[q].input = <<>> /\ S.at[q].input # <<>> /\ q \in S.idle =>
               S.at[q].reading = NoTask
    PROVE  Calms(S, T)
<1>0. q \in Queue
  BY IdleInQueue
<1>1. \A r \in Queue \ {q} : Same(S, T, r)
  BY DEF LinesTaken, Same
<1>2. /\ T.at[q].bg = S.at[q].bg /\ T.at[q].reading = S.at[q].reading
      /\ T.at[q].connected = S.at[q].connected /\ T.at[q].hold_input = S.at[q].hold_input
      /\ T.at[q].player = S.at[q].player
  BY <1>0 DEF LinesTaken
<1>3. ASSUME q \in T.idle  PROVE NothingToDo(T.at[q])
  <2>1. NothingToDo(S.at[q])
    BY <1>3 DEF Calm
  <2>2. CASE T.at[q].input # <<>>
    BY <1>2, <2>1, <2>2 DEF NothingToDo, TakesInput, IsOutOfInput
  <2>3. CASE T.at[q].input = <<>> /\ S.at[q].input # <<>>
    BY <1>2, <1>3, <2>1, <2>3 DEF NothingToDo, TakesInput, IsOutOfInput
  <2>4. CASE T.at[q].input = <<>> /\ S.at[q].input = <<>>
    BY <1>2, <2>1, <2>4 DEF NothingToDo, TakesInput, IsOutOfInput
  <2> QED  BY <2>2, <2>3, <2>4
<1>4. T.at[q].player \notin User => T.at[q].bg = <<>>
  BY <1>2 DEF Calm
<1>5. S.idle \subseteq Queue /\ Alloc(S) \subseteq Queue
  BY IdleInQueue
<1>6. Calms(S, T)
  BY <1>0, <1>1, <1>2, <1>3, <1>4, <1>5, OneChanges
<1> QED  BY <1>6

\* An idle queue that holds input back has no reader.
LEMMA IdleReader ==
    ASSUME NEW S, Calm(S), NEW q \in S.idle, S.at[q].input # <<>>
    PROVE  S.at[q].reading = NoTask
BY DEF Calm, NothingToDo, TakesInput

LEMMA DequeueInputCalms ==
    ASSUME NEW S, Sound(S), Calm(S), NEW q \in Alloc(S), S.at[q].input # <<>>
    PROVE  Calms(S, DequeueInput(S, q))
<1> DEFINE T == DequeueInput(S, q)
<1>1. Leads(S, T) /\ LinesTaken(S, T, q) /\ T.idle = S.idle /\ Alloc(T) = Alloc(S)
  BY IdleInQueue, DequeueInputProperties
<1> HIDE DEF T
<1>2. q \in S.idle => S.at[q].reading = NoTask
  BY IdleReader
<1>3. Calms(S, T)
  BY <1>1, <1>2, LinesTakenCalms
<1> QED  BY <1>3 DEF T

LEMMA DropInputCalms ==
    ASSUME NEW S, Sound(S), Calm(S), NEW q \in Alloc(S)
    PROVE  Calms(S, DropInput(S, q))
<1> DEFINE T == DropInput(S, q)
<1>1. /\ Leads(S, T) /\ LinesTaken(S, T, q) /\ T.idle = S.idle /\ T.at[q].input = <<>>
      /\ Alloc(T) = Alloc(S)
  BY IdleInQueue, DropInputProperties
<1> HIDE DEF T
<1>2. q \in S.idle /\ S.at[q].input # <<>> => S.at[q].reading = NoTask
  BY IdleReader
<1>3. Calms(S, T)
  BY <1>1, <1>2, LinesTakenCalms
<1> QED  BY <1>3 DEF T

LEMMA FreeTaskQueueCalms ==
    ASSUME NEW S, Sound(S), Calm(S), NEW q \in Alloc(S)
    PROVE  Calms(S, FreeTaskQueue(S, q))
<1> DEFINE T == FreeTaskQueue(S, q)
           S1 == [S EXCEPT !.at[q].connected = FALSE]
<1>1. /\ Leads(S, T) /\ T.idle \subseteq S.idle /\ Alloc(T) = Alloc(S)
      /\ S.at[q].reading # NoTask => q \notin T.idle
      /\ \A r \in Queue \ {q} : Same(S, T, r)
      /\ Same(S1, T, q)
  BY FreeTaskQueueProperties
<1>2. /\ q \in Queue /\ S.idle \subseteq Queue /\ Alloc(S) \subseteq Queue
      /\ S \in Queues /\ S.at[q] \in TQueue
  BY IdleInQueue, AllocInQueue DEF Sound, Queues, TQueue
<1>3. /\ S1.at[q].bg = S.at[q].bg /\ S1.at[q].reading = S.at[q].reading
      /\ S1.at[q].input = S.at[q].input /\ S1.at[q].hold_input = S.at[q].hold_input
      /\ S1.at[q].player = S.at[q].player
  BY <1>2 DEF Queues, TQueue
<1> HIDE DEF T, S1
<1>4. ASSUME q \in T.idle  PROVE NothingToDo(T.at[q])
  <2>1. S.at[q].reading = NoTask /\ NothingToDo(S.at[q])
    BY <1>1, <1>4 DEF Calm
  <2> QED  BY <1>1, <1>3, <2>1 DEF Same, NothingToDo, TakesInput
<1>5. T.at[q].player = S.at[q].player /\ T.at[q].bg = S.at[q].bg
  BY <1>1, <1>3 DEF Same
<1>6. T.at[q].player \notin User => T.at[q].bg = <<>>
  BY <1>2, <1>5 DEF Calm
<1>7. Calms(S, T)
  BY <1>1, <1>2, <1>4, <1>5, <1>6, OneChanges
<1> QED  BY <1>7 DEF T

\* A task of a user becomes ready.
LEMMA ReadyTaskCalms ==
    ASSUME NEW S, Sound(S), Calm(S), NEW t \in Task, NEW p \in User, Room(S, p)
    PROVE  LET q == FindTQueue(S, p)
               S0 == WithTQueue(S, p)
           IN  /\ Calms(S, EnqueueBg(EnsureUsage(S0, q), q, t))
               /\ Calms(S, EnsureUsage(EnqueueBg(S0, q, t), q))
<1> DEFINE q == FindTQueue(S, p)
           S0 == WithTQueue(S, p)
<1>1. p \in Player
  BY DEF Player
<1>2. Calms(S, S0) /\ q \in Alloc(S0) /\ S0.at[q].player = p
  <2>1. Calms(S, S0)
    BY <1>1, WithTQueueCalms
  <2>2. q \in Alloc(S0) /\ S0.at[q].player = p
    BY <1>1, FoundIn
  <2> QED  BY <2>1, <2>2
<1>3. Sound(S0) /\ Calm(S0) /\ q \in Queue
  BY <1>2, IdleInQueue DEF Calms, Leads
<1> HIDE DEF q, S0
<1>4. Calms(S, EnsureUsage(EnqueueBg(S0, q, t), q))
  <2> DEFINE b == [S0.at[q] EXCEPT !.bg = Append(S0.at[q].bg, t)]
             U == EnqueueBg(S0, q, t)
  <2>1. Assigned(S0, U, q, b)
    BY <1>3, EnqueueBgProperties
  <2>2. b.player = p
    BY <1>2, <1>3, IdleInQueue DEF TQueue
  <2> HIDE DEF b, U
  <2>3. Calms(S0, EnsureUsage(U, q))
    BY <1>2, <1>3, <2>1, <2>2, AssignedAndActive
  <2>4. Calms(S, EnsureUsage(U, q))
    BY <1>2, <2>3, CalmsTransitive
  <2> QED  BY <2>4 DEF U
<1>5. Calms(S, EnqueueBg(EnsureUsage(S0, q), q, t))
  <2> DEFINE S1 == EnsureUsage(S0, q)
             b == [S1.at[q] EXCEPT !.bg = Append(S1.at[q].bg, t)]
  <2>1. Calms(S0, S1)
    BY <1>2, <1>3, EnsureUsageCalms
  <2>2. S1.idle = S0.idle \ {q} /\ Alloc(S1) = Alloc(S0)
    BY <1>2, <1>3, EnsureUsageLeads
  <2>3. Sound(S1) /\ Calm(S1) /\ S1.at[q].player = p
    BY <1>2, <2>1 DEF Calms, Leads
  <2> HIDE DEF S1
  <2>4. Assigned(S1, EnqueueBg(S1, q, t), q, b)
    BY <1>3, <2>3, EnqueueBgProperties
  <2>5. b.player = p
    BY <1>3, <2>3, IdleInQueue DEF TQueue
  <2> HIDE DEF b
  <2>6. Calms(S1, EnqueueBg(S1, q, t))
    BY <1>2, <1>3, <2>2, <2>3, <2>4, <2>5, AssignedCalms
  <2>7. Calms(S, EnqueueBg(S1, q, t))
    BY <1>2, <2>1, <2>6, CalmsTransitive
  <2> QED  BY <2>7 DEF S1
<1> QED  BY <1>4, <1>5 DEF q, S0

LEMMA CountInCalms ==
    ASSUME NEW S, Sound(S), Calm(S), NEW p \in Player, Room(S, p)
    PROVE  Calms(S, CountIn(S, p))
<1> DEFINE q == FindTQueue(S, p)
           S0 == WithTQueue(S, p)
           n == S0.at[q].num_bg + 1
           t == [S0.at[q] EXCEPT !.num_bg = n]
           T == CountIn(S, p)
<1>1. Calms(S, S0) /\ q \in Alloc(S0)
  <2>1. Calms(S, S0)
    BY WithTQueueCalms
  <2>2. q \in Alloc(S0)
    BY WithTQueueProperties
  <2> QED  BY <2>1, <2>2
<1>2. T = [S0 EXCEPT !.at[q].num_bg = n]
  BY DEF CountIn
<1> HIDE DEF q, S0, T
<1>3. Sound(S0) /\ Calm(S0) /\ q \in Queue /\ S0.at[q] \in TQueue
  BY <1>1, IdleInQueue DEF Calms, Leads
<1>4. n \in Int
  BY <1>3 DEF TQueue
<1>5. /\ t.player = S0.at[q].player /\ t.bg = S0.at[q].bg
      /\ NothingToDo(S0.at[q]) => NothingToDo(t)
  BY <1>3 DEF TQueue, NothingToDo, TakesInput, IsOutOfInput
<1> HIDE DEF n
<1>6. \A m \in Int : Assigned(S0, [S0 EXCEPT !.at[q].num_bg = m], q, [S0.at[q] EXCEPT !.num_bg = m])
  BY <1>3, FieldAssignments
<1>7. Assigned(S0, T, q, t)
  BY <1>2, <1>4, <1>6
<1> HIDE DEF t
<1>8. Calms(S0, T)
  BY <1>1, <1>3, <1>5, <1>7, AssignedCalms
<1> QED  BY <1>1, <1>8, CalmsTransitive DEF T

\* What a connection's taking over a player does to the queues.
Reassociated(S, T, q, new) ==
    LET old == S.at[q].player
        kept == IF S.at[q].num_bg = 0 THEN S.at[q].bg ELSE <<>>
    IN  /\ T.idle \subseteq S.idle \cup (Alloc(T) \ Alloc(S))
        /\ T.at[q].player = new /\ T.at[q].connected = S.at[q].connected
        /\ T.at[q].reading = S.at[q].reading
        /\ Held(S, new) = {} => T.at[q].bg = kept /\ T.at[q].num_bg = 0
        /\ \A r \in Held(S, new) :
              /\ T.at[q].bg = kept \o S.at[r].bg /\ T.at[q].num_bg = S.at[r].num_bg
              /\ T.at[r].player = NOTHING /\ T.at[r].bg = <<>> /\ T.at[r].num_bg = 0
              /\ T.at[r].input = <<>> /\ T.at[r].reading = S.at[r].reading
              /\ ~T.at[r].connected
              /\ r \in T.idle => ~S.at[r].connected \/ S.at[r].reading = NoTask
        /\ \A r \in Alloc(S) \ {q} : r \notin Held(S, new) =>
              /\ T.at[r].player = S.at[r].player /\ T.at[r].input = S.at[r].input
              /\ T.at[r].reading = S.at[r].reading /\ T.at[r].connected = S.at[r].connected
              /\ T.at[r].hold_input = S.at[r].hold_input
              /\ IF S.at[r].player = old /\ S.at[q].num_bg # 0
                 THEN T.at[r].bg = S.at[r].bg \o S.at[q].bg \/ T.at[r].bg = S.at[r].bg
                 ELSE T.at[r].bg = S.at[r].bg /\ T.at[r].num_bg = S.at[r].num_bg
        /\ \A r \in Alloc(T) \ Alloc(S) :
              /\ Alloc(T) = Alloc(S) \cup {r}
              /\ T.at[r].player = old /\ T.at[r].num_bg = S.at[q].num_bg
              /\ T.at[r].bg = <<>> \o S.at[q].bg /\ T.at[r].input = <<>>
              /\ T.at[r].reading = NoTask /\ ~T.at[r].connected
        /\ S.at[q].num_bg # 0 /\ Held(S, old) = {q} => Alloc(T) # Alloc(S)
        /\ \A r \in Queue \ Alloc(T) :
              T.at[r].bg = S.at[r].bg /\ T.at[r].reading = S.at[r].reading

LEMMA ReassociateIs ==
    ASSUME NEW S, Sound(S), NEW q \in Alloc(S), NEW new \in Player,
           S.at[q].player # new, CanLeaveTasks(S, q)
    PROVE  Reassociated(S, Reassociate(S, q, new), q, new)
<1> DEFINE old == S.at[q].player
           kept == IF S.at[q].num_bg = 0 THEN S.at[q].bg ELSE <<>>
           S0 == [S EXCEPT !.at[q].player = new]
           S1 == LeaveTasks(S0, q, old)
           dead == Owner(S, new)
           S2 == TakeTasks(S1, q, dead)
<1>1. /\ QueuesTypeOK(S) /\ S \in Queues /\ q \in Queue /\ Alloc(S) \subseteq Queue
      /\ S.at[q] \in TQueue /\ old \in Player \cup {NOTHING} /\ new # NOTHING
  <2>1. /\ QueuesTypeOK(S) /\ S \in Queues /\ q \in Queue /\ Alloc(S) \subseteq Queue
    BY AllocInQueue DEF Sound
  <2>2. S.at[q] \in TQueue
    BY <2>1 DEF Queues
  <2>3. old \in Player \cup {NOTHING}
    BY <2>2 DEF TQueue
  <2>4. new # NOTHING
    BY PlayersAssumption DEF Player, NOTHING
  <2> QED  BY <2>1, <2>2, <2>3, <2>4
<1>2. /\ QueuesTypeOK(S0)
      /\ S0.active = S.active /\ S0.idle = S.idle /\ Alloc(S0) = Alloc(S)
      /\ S0.at[q].player = new /\ S0.at[q].connected = S.at[q].connected
      /\ S0.at[q].reading = S.at[q].reading
      /\ S0.at[q].num_bg = S.at[q].num_bg /\ S0.at[q].bg = S.at[q].bg
      /\ \A r \in Queue \ {q} : S0.at[r] = S.at[r]
  <2> DEFINE t == [S.at[q] EXCEPT !.player = new]
             T == [S EXCEPT !.at = [S.at EXCEPT ![q] = t]]
  <2>1. S0 = T
    BY <1>1 DEF Queues, TQueue
  <2>2. /\ t \in TQueue /\ t.usage = S.at[q].usage /\ t.player = new
        /\ t.num_bg = S.at[q].num_bg /\ t.connected = S.at[q].connected /\ t.bg = S.at[q].bg
        /\ t.reading = S.at[q].reading
    BY <1>1 DEF TQueue
  <2> HIDE DEF t
  <2>3. /\ QueuesTypeOK(T)
        /\ T.active = S.active /\ T.idle = S.idle /\ Alloc(T) = Alloc(S)
        /\ T.at = [S.at EXCEPT ![q] = t]
    BY <1>1, <2>2, AssignmentType
  <2> HIDE DEF T
  <2>4. T.at[q] = t /\ \A r \in Queue \ {q} : T.at[r] = S.at[r]
    BY <1>1, <2>3 DEF Queues
  <2> QED  BY <2>1, <2>2, <2>3, <2>4
<1> HIDE DEF S0
<1>3. /\ QueuesTypeOK(S1) /\ Alloc(S0) \subseteq Alloc(S1) /\ S1.active = S0.active
      /\ \A r \in Alloc(S0) :
             /\ S1.at[r].player = S0.at[r].player /\ S1.at[r].connected = S0.at[r].connected
             /\ S1.at[r].reading = S0.at[r].reading /\ S1.at[r].input = S0.at[r].input
             /\ S1.at[r].hold_input = S0.at[r].hold_input
      /\ TasksLeft(S0, S1, q, old)
  <2>1. QueuesTypeOK(S0) /\ q \in Alloc(S0) /\ S0.at[q].player # old /\ CanLeaveTasks(S0, q)
    BY <1>2 DEF CanLeaveTasks
  <2> HIDE DEF old
  <2>2. old \in Player \cup {NOTHING}
    BY <1>1 DEF old
  <2> QED  BY <1>2, <2>1, <2>2, LeaveTasksType
<1> HIDE DEF S1
<1> DEFINE fresh == Alloc(S1) \ Alloc(S)
\* What leaving its tasks did.
<1>4. /\ S1.at[q].player = new /\ S1.at[q].connected = S.at[q].connected
      /\ S1.at[q].reading = S.at[q].reading
      /\ S1.at[q].bg = kept /\ S1.at[q].num_bg = 0
      /\ Alloc(S) \subseteq Alloc(S1) /\ Alloc(S1) \subseteq Queue /\ S1.idle \subseteq S.idle \cup fresh
      /\ \A r \in fresh :
             /\ Alloc(S1) = Alloc(S) \cup {r}
             /\ S1.at[r].player = old /\ S1.at[r].num_bg = S.at[q].num_bg
             /\ S1.at[r].bg = <<>> \o S.at[q].bg /\ S1.at[r].input = <<>>
             /\ S1.at[r].reading = NoTask /\ ~S1.at[r].connected
      /\ S.at[q].num_bg # 0 /\ Held(S, old) = {q} => Alloc(S1) # Alloc(S)
  <2>0. Alloc(S1) \subseteq Queue
    BY <1>3, AllocInQueue
  <2>1. CASE S.at[q].num_bg = 0
    <3>1. S1 = S0
      BY <1>2, <1>3, <2>1 DEF TasksLeft
    <3> QED  BY <1>2, <2>0, <2>1, <3>1
  <2>2. CASE S.at[q].num_bg # 0
    <3>1. PICK o \in Alloc(S1) \ {q} :
              /\ S1.at[o].player = old
              /\ S1.at[q].num_bg = 0 /\ S1.at[q].bg = <<>>
              /\ o \notin Alloc(S) =>
                    S1.at[o] = [NewTQueue(old) EXCEPT !.num_bg = S.at[q].num_bg,
                                                      !.bg = <<>> \o S.at[q].bg]
              /\ Alloc(S1) = Alloc(S) \cup {o} /\ S1.idle = S.idle \cup fresh
      BY <1>2, <1>3, <2>2 DEF TasksLeft
    <3>2. /\ S1.at[q].player = new /\ S1.at[q].connected = S.at[q].connected
          /\ S1.at[q].reading = S.at[q].reading
      BY <1>2, <1>3
    <3>22. o \notin Alloc(S) =>
              /\ S1.at[o].player = old /\ S1.at[o].num_bg = S.at[q].num_bg
              /\ S1.at[o].bg = <<>> \o S.at[q].bg /\ S1.at[o].input = <<>>
              /\ S1.at[o].reading = NoTask /\ ~S1.at[o].connected
      BY <3>1 DEF NewTQueue
    <3>3. ASSUME NEW r \in fresh  PROVE r = o /\ o \notin Alloc(S)
      BY <3>1
    <3>4. o \in Alloc(S) => S.at[o].player = old
      BY <1>1, <1>2, <1>3, <3>1
    <3>5. Held(S, old) = {q} => o \notin Alloc(S)
      BY <3>1, <3>4 DEF Held
    <3> QED  BY <2>0, <2>2, <3>1, <3>2, <3>22, <3>3, <3>5
  <2> QED  BY <2>1, <2>2
<1>5. ASSUME NEW r \in Alloc(S) \ {q}
      PROVE  /\ S1.at[r].player = S.at[r].player /\ S1.at[r].input = S.at[r].input
             /\ S1.at[r].reading = S.at[r].reading /\ S1.at[r].connected = S.at[r].connected
             /\ S1.at[r].hold_input = S.at[r].hold_input
             /\ IF S.at[r].player = old /\ S.at[q].num_bg # 0
                THEN S1.at[r].bg = S.at[r].bg \o S.at[q].bg \/ S1.at[r].bg = S.at[r].bg
                ELSE S1.at[r].bg = S.at[r].bg /\ S1.at[r].num_bg = S.at[r].num_bg
  <2>1. S0.at[r] = S.at[r] /\ r \in Alloc(S0)
    BY <1>1, <1>2
  <2>2. CASE S.at[q].num_bg = 0
    <3>1. S1 = S0
      BY <1>2, <1>3, <2>2 DEF TasksLeft
    <3> QED  BY <2>1, <2>2, <3>1
  <2>3. CASE S.at[q].num_bg # 0
    <3>1. PICK o \in Alloc(S1) \ {q} :
              /\ S1.at[o].player = old
              /\ o \in Alloc(S0) => S1.at[o].bg = S0.at[o].bg \o S0.at[q].bg
              /\ \A x \in Queue \ {q, o} : S1.at[x] = S0.at[x]
      BY <1>2, <1>3, <2>3 DEF TasksLeft
    <3>2. CASE r = o
      BY <1>2, <1>3, <2>1, <2>3, <3>1, <3>2
    <3>3. CASE r # o
      BY <1>1, <1>2, <1>3, <2>1, <2>3, <3>1, <3>3
    <3> QED  BY <3>2, <3>3
  <2> QED  BY <2>2, <2>3
\* Storage that is not in use stays as it was.
<1>55. ASSUME NEW r \in Queue \ Alloc(S1)  PROVE S1.at[r] = S.at[r]
  <2>1. S0.at[r] = S.at[r] /\ r # q
    BY <1>2, <1>4
  <2>2. CASE S.at[q].num_bg = 0
    BY <1>2, <1>3, <2>1, <2>2 DEF TasksLeft
  <2>3. CASE S.at[q].num_bg # 0
    <3>1. PICK o \in Alloc(S1) \ {q} : \A x \in Queue \ {q, o} : S1.at[x] = S0.at[x]
      BY <1>2, <1>3, <2>3 DEF TasksLeft
    <3> QED  BY <2>1, <3>1
  <2> QED  BY <2>2, <2>3
<1>6. CASE Held(S, new) = {}
  <2>1. Reassociate(S, q, new) = S1
    BY <1>6 DEF Reassociate, S1, S0
  <2>2. /\ S1.idle \subseteq S.idle \cup fresh /\ \A r \in Held(S, new) : FALSE
        /\ \A r \in Alloc(S) \ {q} : r \notin Held(S, new)
    BY <1>4, <1>6
  <2>3. Reassociated(S, S1, q, new)
    BY <1>4, <1>5, <1>55, <2>2 DEF Reassociated
  <2> QED  BY <2>1, <2>3
<1>7. CASE Held(S, new) # {}
  <2>1. dead \in Alloc(S) /\ S.at[dead].player = new /\ dead # q
    BY <1>7 DEF Owner, Held
  <2>2. Reassociate(S, q, new) =
            IF S.at[dead].connected THEN FreeTaskQueue(S2, dead) ELSE S2
    BY <1>7 DEF Reassociate, S1, S0
  <2>22. Held(S, new) = {dead}
    BY <1>1, <2>1 DEF Held, Sound, OnePerPlayer
  <2> HIDE DEF dead
  <2>3. q \in Alloc(S1) /\ dead \in Alloc(S1) /\ q # dead /\ QueuesTypeOK(S1)
    BY <1>3, <1>4, <2>1
  <2>4. /\ QueuesTypeOK(S2) /\ Alloc(S2) = Alloc(S1)
        /\ S2.active = S1.active /\ S2.idle = S1.idle
        /\ S2.at[q].player = S1.at[q].player /\ S2.at[dead].player = NOTHING
        /\ S2.at[dead].bg = <<>> /\ S2.at[dead].input = <<>>
        /\ S2.at[dead].num_bg = 0
        /\ S2.at[dead].reading = S1.at[dead].reading
        /\ S2.at[dead].connected = S1.at[dead].connected
        /\ \A r \in Queue \ {q, dead} : S2.at[r] = S1.at[r]
        /\ TasksTaken(S1, S2, q, dead)
    BY <2>3, TakeTasksType
  <2> HIDE DEF S2
  <2> DEFINE T == Reassociate(S, q, new)
  <2>5. /\ Alloc(T) = Alloc(S2) /\ T.idle \subseteq S2.idle
        /\ \A r \in Queue \ {dead} : Same(S2, T, r)
        /\ T.at[dead].player = NOTHING /\ T.at[dead].bg = <<>> /\ T.at[dead].num_bg = 0
        /\ T.at[dead].input = <<>> /\ T.at[dead].reading = S.at[dead].reading
        /\ ~T.at[dead].connected
        /\ dead \in T.idle => ~S.at[dead].connected \/ S.at[dead].reading = NoTask
    <3>0. S2 \in Queues /\ dead \in Alloc(S2) /\ dead \in Queue /\ S2.at[dead] \in TQueue
      BY <1>1, <2>1, <2>3, <2>4, AllocInQueue DEF Queues
    <3>1. S2.at[dead].reading = S.at[dead].reading /\ S2.at[dead].connected = S.at[dead].connected
      BY <1>5, <2>1, <2>4
    <3>2. CASE S.at[dead].connected
      <4> DEFINE U == [S2 EXCEPT !.at[dead].connected = FALSE]
      <4>1. T = FreeTaskQueue(S2, dead)
        BY <2>2, <3>2
      <4>2. Sound(S2)
        BY <1>7, ReassociateLeads DEF S2, S1, S0, dead
      <4>3. /\ Alloc(T) = Alloc(S2) /\ T.idle \subseteq S2.idle
            /\ S2.at[dead].reading # NoTask => dead \notin T.idle
            /\ \A r \in Queue \ {dead} : Same(S2, T, r)
            /\ Same(U, T, dead)
        BY <3>0, <4>1, <4>2, FreeTaskQueueProperties
      <4>4. /\ U.at[dead].player = S2.at[dead].player /\ U.at[dead].bg = S2.at[dead].bg
            /\ U.at[dead].num_bg = S2.at[dead].num_bg /\ U.at[dead].input = S2.at[dead].input
            /\ U.at[dead].reading = S2.at[dead].reading /\ ~U.at[dead].connected
        BY <3>0 DEF Queues, TQueue
      <4> HIDE DEF T, U
      <4> QED  BY <2>4, <3>1, <4>3, <4>4 DEF Same
    <3>3. CASE ~S.at[dead].connected
      <4>1. T = S2
        BY <2>2, <3>3
      <4> HIDE DEF T
      <4> QED  BY <2>4, <3>1, <3>3, <4>1 DEF Same
    <3> QED  BY <3>2, <3>3
  <2> HIDE DEF T
  <2>6. dead \in Queue /\ q \in Queue \ {dead} /\ \A r \in Alloc(S1) \ {dead} : r \in Queue \ {dead}
    BY <1>1, <1>4, <2>1
  <2>7. /\ T.at[q].player = new /\ T.at[q].connected = S.at[q].connected
        /\ T.at[q].reading = S.at[q].reading
    BY <1>4, <2>4, <2>5, <2>6 DEF Same, TasksTaken
  <2>8. S1.at[dead].bg = S.at[dead].bg /\ S1.at[dead].num_bg = S.at[dead].num_bg
    BY <1>1, <1>5, <2>1
  <2>9. T.at[q].bg = kept \o S.at[dead].bg /\ T.at[q].num_bg = S.at[dead].num_bg
    BY <1>4, <2>4, <2>5, <2>6, <2>8 DEF Same, TasksTaken
  <2>10. Alloc(T) = Alloc(S1) /\ T.idle \subseteq S.idle \cup fresh
    BY <1>4, <2>4, <2>5
  <2>11. ASSUME NEW r \in Alloc(S) \ {q}, r \notin Held(S, new)
         PROVE  Same(S1, T, r)
    <3>1. r \in Queue \ {q, dead}
      BY <1>1, <2>11, <2>22
    <3> QED  BY <2>4, <2>5, <3>1 DEF Same
  <2>12. ASSUME NEW r \in fresh  PROVE Same(S1, T, r)
    <3>1. r \in Queue \ {q, dead}
      BY <1>4, <2>1
    <3> QED  BY <2>4, <2>5, <3>1 DEF Same
  <2>13. \A r \in Held(S, new) : r = dead
    BY <2>22
  <2>14. \A r \in Alloc(T) \ Alloc(S) : r \in fresh
    BY <2>10
  <2>15. ASSUME NEW r \in Held(S, new)
         PROVE  /\ T.at[q].bg = kept \o S.at[r].bg /\ T.at[q].num_bg = S.at[r].num_bg
                /\ T.at[r].player = NOTHING /\ T.at[r].bg = <<>> /\ T.at[r].num_bg = 0
                /\ T.at[r].input = <<>> /\ T.at[r].reading = S.at[r].reading
                /\ ~T.at[r].connected
                /\ r \in T.idle => ~S.at[r].connected \/ S.at[r].reading = NoTask
    BY <2>5, <2>9, <2>13
  <2>16. ASSUME NEW r \in Alloc(S) \ {q}, r \notin Held(S, new)
         PROVE  /\ T.at[r].player = S.at[r].player /\ T.at[r].input = S.at[r].input
                /\ T.at[r].reading = S.at[r].reading /\ T.at[r].connected = S.at[r].connected
                /\ T.at[r].hold_input = S.at[r].hold_input
                /\ IF S.at[r].player = old /\ S.at[q].num_bg # 0
                   THEN T.at[r].bg = S.at[r].bg \o S.at[q].bg \/ T.at[r].bg = S.at[r].bg
                   ELSE T.at[r].bg = S.at[r].bg /\ T.at[r].num_bg = S.at[r].num_bg
    BY <1>5, <2>11, <2>16 DEF Same
  <2>17. ASSUME NEW r \in Alloc(T) \ Alloc(S)
         PROVE  /\ Alloc(T) = Alloc(S) \cup {r}
                /\ T.at[r].player = old /\ T.at[r].num_bg = S.at[q].num_bg
                /\ T.at[r].bg = <<>> \o S.at[q].bg /\ T.at[r].input = <<>>
                /\ T.at[r].reading = NoTask /\ ~T.at[r].connected
    <3>1. r \in fresh /\ Same(S1, T, r)
      BY <2>12, <2>14
    <3> QED  BY <1>4, <2>10, <3>1 DEF Same
  <2>18. S.at[q].num_bg # 0 /\ Held(S, old) = {q} => Alloc(T) # Alloc(S)
    BY <1>4, <2>10
  <2>19. T.idle \subseteq S.idle \cup (Alloc(T) \ Alloc(S))
    BY <2>10
  <2>20. ASSUME NEW r \in Queue \ Alloc(T)
         PROVE  T.at[r].bg = S.at[r].bg /\ T.at[r].reading = S.at[r].reading
    <3>1. r \in Queue \ {q, dead} /\ S1.at[r] = S.at[r]
      BY <1>4, <1>55, <2>1, <2>10
    <3>2. Same(S1, T, r)
      BY <2>4, <2>5, <3>1 DEF Same
    <3> QED  BY <3>1, <3>2 DEF Same
  <2> QED  BY <1>7, <2>7, <2>15, <2>16, <2>17, <2>18, <2>19, <2>20 DEF Reassociated, T
<1> QED  BY <1>6, <1>7

\* A connection that no user had takes over a user: no task is left behind,
\* and the queue of a connection that is closed by this is made active if a
\* task was reading from it.
LEMMA ReassociateCalm ==
    ASSUME NEW S, Sound(S), Calm(S), NEW q \in Range(S.active), NEW new \in User,
           S.at[q].player \notin User, CanLeaveTasks(S, q)
    PROVE  LET T == Reassociate(S, q, new)
           IN  Leads(S, T) /\ Calm(T) /\ T.at[q].player \in User
<1> DEFINE T == Reassociate(S, q, new)
           old == S.at[q].player
<1>1. q \in Alloc(S) /\ q \notin S.idle /\ new \in Player /\ old # new /\ old \notin User
  BY DEF Sound, QueuesTypeOK, Alloc, Player
<1>2. Leads(S, T) /\ Reassociated(S, T, q, new)
  BY <1>1, ReassociateLeads, ReassociateIs
<1>3. /\ Alloc(S) \subseteq Queue /\ S.idle \subseteq Alloc(S) /\ T.idle \subseteq Alloc(T)
      /\ Sound(T)
  BY <1>2, IdleInQueue DEF Leads
<1> HIDE DEF T
<1>4. S.at[q].bg = <<>>
  BY <1>1 DEF Calm
<1>5. \A r \in Alloc(S) : S.at[r].bg \in Seq(Task)
  BY <1>3, IdleInQueue DEF TQueue
<1>6. ASSUME NEW r \in Alloc(S), r # q, r \notin Held(S, new)
      PROVE  /\ T.at[r].player = S.at[r].player /\ T.at[r].input = S.at[r].input
             /\ T.at[r].reading = S.at[r].reading /\ T.at[r].connected = S.at[r].connected
             /\ T.at[r].hold_input = S.at[r].hold_input /\ T.at[r].bg = S.at[r].bg
  <2>1. S.at[r].bg \o <<>> = S.at[r].bg
    <3> DEFINE b == S.at[r].bg
    <3>1. b \in Seq(Task)
      BY <1>5
    <3> HIDE DEF b
    <3>2. b \o <<>> = b
      BY <3>1, EmptySeq
    <3> QED  BY <3>2 DEF b
  <2> QED  BY <1>2, <1>4, <1>6, <2>1 DEF Reassociated
<1>7. ASSUME NEW r \in Held(S, new)
      PROVE  /\ T.at[r].bg = <<>> /\ T.at[r].input = <<>> /\ T.at[r].reading = S.at[r].reading
             /\ r \in T.idle => ~S.at[r].connected \/ S.at[r].reading = NoTask
             /\ r # q /\ r \in Alloc(S)
  BY <1>1, <1>2 DEF Reassociated, Held
<1>8. ASSUME NEW r \in Alloc(T), r \notin Alloc(S)
      PROVE  T.at[r].bg = <<>> /\ T.at[r].input = <<>> /\ T.at[r].reading = NoTask
  <2>1. T.at[r].bg = <<>> \o <<>> /\ T.at[r].input = <<>> /\ T.at[r].reading = NoTask
    BY <1>2, <1>4, <1>8 DEF Reassociated
  <2>2. <<>> \o <<>> = <<>>
    OBVIOUS
  <2> QED  BY <2>1, <2>2
<1>9. T.at[q].player = new /\ q \notin T.idle
  BY <1>1, <1>2 DEF Reassociated
<1>10. ASSUME NEW r \in T.idle  PROVE NothingToDo(T.at[r])
  <2>1. CASE r \notin Alloc(S)
    BY <1>3, <1>8, <2>1 DEF NothingToDo, TakesInput
  <2>2. CASE r \in Alloc(S)
    <3>1. r \in S.idle /\ NothingToDo(S.at[r]) /\ r # q
      BY <1>2, <1>9, <2>2 DEF Reassociated, Calm
    <3>2. CASE r \in Held(S, new)
      <4>1. T.at[r].reading = NoTask
        BY <1>7, <3>1, <3>2 DEF NothingToDo, TakesInput, IsOutOfInput
      <4> QED  BY <1>7, <3>2, <4>1 DEF NothingToDo, TakesInput
    <3>3. CASE r \notin Held(S, new)
      BY <1>6, <2>2, <3>1, <3>3 DEF NothingToDo, TakesInput, IsOutOfInput
    <3> QED  BY <3>2, <3>3
  <2> QED  BY <2>1, <2>2
<1>11. ASSUME NEW r \in Alloc(T), T.at[r].player \notin User  PROVE T.at[r].bg = <<>>
  <2>1. r # q
    BY <1>9, <1>11
  <2>2. CASE r \notin Alloc(S)
    BY <1>8, <2>2
  <2>3. CASE r \in Held(S, new)
    BY <1>7, <2>3
  <2>4. CASE r \in Alloc(S) /\ r \notin Held(S, new)
    BY <1>6, <1>11, <2>1, <2>4 DEF Calm
  <2> QED  BY <2>2, <2>3, <2>4
<1>12. Calm(T)
  BY <1>10, <1>11 DEF Calm
<1> QED  BY <1>2, <1>9, <1>12 DEF T

\* The run's part: waiting and external tasks are users', and a connection
\* whose line do_login_command() has taken is no user's yet.
UserTask == {t \in Task : t.progr \in User}
TasksOfUsers ==
    /\ waiting \in Seq(UserTask) /\ ext \in Seq(UserTask)
    /\ cur.login => queues.at[cur.q].player \notin User
CalmInv == Calm(queues) /\ TasksOfUsers

LEMMA CalmStep ==
    ASSUME IInv, CalmInv, Calms(queues, queues'), waiting' \in Seq(UserTask), ext' \in Seq(UserTask),
           cur'.login => cur.login /\ cur'.q = cur.q
    PROVE  CalmInv'
<1>1. cur.login => cur.q \in Alloc(queues)
  BY AllocInQueue DEF IInv, RunOK, Sound, Alloc
<1>2. cur'.login => queues'.at[cur'.q].player \notin User
  BY <1>1 DEF CalmInv, TasksOfUsers, Calms
<1> QED  BY <1>2 DEF CalmInv, TasksOfUsers, Calms

LEMMA CalmNetworkStep ==
    ASSUME IInv, CalmInv, NetworkStep
    PROVE  CalmInv'
<1>0. /\ Sound(queues) /\ Calm(queues) /\ Calms(queues, queues)
      /\ waiting \in Seq(UserTask) /\ ext \in Seq(UserTask)
  BY CalmsReflexive DEF IInv, CalmInv, TasksOfUsers
<1>1. ASSUME NEW g \in Guest, NEW inbound \in BOOLEAN, NewConnection(g, inbound)
      PROVE  CalmInv'
  <2> DEFINE q == FindTQueue(queues, g)
             S0 == WithTQueue(queues, g)
             S1 == [S0 EXCEPT !.at[q].connected = TRUE]
             t == [S0.at[q] EXCEPT !.connected = TRUE]
  <2>1. g \in Player /\ Held(queues, g) = {} /\ Room(queues, g)
    BY <1>1 DEF NewConnection, Player
  <2>2. Calms(queues, S0)
    BY <1>0, <2>1, WithTQueueCalms
  <2>3. /\ Leads(queues, S0) /\ q \in Alloc(S0) /\ q \in Queue
        /\ S0.at = [queues.at EXCEPT ![q] = NewTQueue(g)]
    <3>1. Sound(queues)
      BY <1>0
    <3> QED  BY <2>1, <3>1, WithTQueueProperties
  <2>4. S0.at[q] = NewTQueue(g)
    BY <1>0, <2>3, IdleInQueue
  <2> HIDE DEF S0, q
  <2>5. Sound(S0) /\ Calm(S0)
    BY <2>2 DEF Calms, Leads
  <2>6. Assigned(S0, S1, q, t)
    <3>1. \A c \in BOOLEAN : ~S0.at[q].input_suspended =>
              Assigned(S0, [S0 EXCEPT !.at[q].connected = c], q, [S0.at[q] EXCEPT !.connected = c])
      BY <2>3, <2>5, FieldAssignments
    <3>2. ~S0.at[q].input_suspended
      BY <2>4 DEF NewTQueue
    <3> QED  BY <3>1, <3>2
  <2>7. t.player = S0.at[q].player /\ t.bg = S0.at[q].bg /\ NothingToDo(t)
    BY <2>4 DEF NewTQueue, NothingToDo, TakesInput
  <2> HIDE DEF t, S1
  <2>8. Calms(S0, S1)
    BY <2>3, <2>5, <2>6, <2>7, AssignedCalms
  <2>9. Sound(S1) /\ Calm(S1) /\ q \in Alloc(S1) /\ "blank" \in Line
    BY <2>3, <2>6, <2>8, DomainsAssumption DEF Calms, Leads, Assigned
  <2>10. Calms(S1, EnqueueInput(S1, q, "blank", FALSE))
    BY <2>9, EnqueueInputCalms
  <2>11. Calms(queues, queues')
    BY <1>1, <2>2, <2>8, <2>10, CalmsTransitive DEF NewConnection, S1, S0, q
  <2> QED  BY <1>0, <1>1, <2>11, CalmStep DEF NewConnection
<1>2. ASSUME NEW q \in Queue, NEW l \in Line, ReceiveLine(q, l)
      PROVE  CalmInv'
  BY <1>0, <1>2, EnqueueInputCalms, CalmStep DEF ReceiveLine
<1>3. ASSUME NEW q \in Queue, ReceiveFlush(q)
      PROVE  CalmInv'
  BY <1>0, <1>3, DropInputCalms, CalmStep DEF ReceiveFlush
<1>4. ASSUME NEW q \in Queue, CloseConnection(q)
      PROVE  CalmInv'
  BY <1>0, <1>4, CalmStep DEF CloseConnection, NoRun
<1>5. ASSUME ResumeExternal
      PROVE  CalmInv'
  <2> DEFINE t == Head(ext)
             t0 == [t EXCEPT !.start = 0]
             p == t.progr
  <2>1. t \in UserTask /\ Tail(ext) \in Seq(UserTask)
    BY <1>0, <1>5, HeadTailProperties DEF ResumeExternal
  <2>2. t0 \in Task /\ p \in User
    BY <2>1 DEF UserTask, Task
  <2>3. /\ Room(queues, p)
        /\ queues' = EnsureUsage(EnqueueBg(WithTQueue(queues, p), FindTQueue(queues, p), t0),
                                 FindTQueue(queues, p))
    BY <1>5 DEF ResumeExternal
  <2> HIDE DEF t0, p
  <2>4. Calms(queues, queues')
    BY <1>0, <2>2, <2>3, ReadyTaskCalms
  <2> QED  BY <1>0, <1>5, <2>1, <2>4, CalmStep DEF ResumeExternal
<1>6. ASSUME ServerTask
      PROVE  CalmInv'
  BY <1>0, <1>6, CalmStep DEF ServerTask, NoRun
<1> QED  BY <1>1, <1>2, <1>3, <1>4, <1>5, <1>6 DEF NetworkStep

LEMMA CalmLoopStep ==
    ASSUME IInv, CalmInv, LoopStep, IInv'
    PROVE  CalmInv'
<1>0. /\ Sound(queues) /\ Calm(queues) /\ Calms(queues, queues)
      /\ waiting \in Seq(UserTask) /\ ext \in Seq(UserTask)
      /\ queues \in Queues /\ \A q \in Queue : queues.at[q] \in TQueue
  BY CalmsReflexive, IdleInQueue, AllocInQueue DEF IInv, CalmInv, TasksOfUsers, Sound
<1>00. Serving => queues.active # <<>> /\ Served \in Queue /\ Served \in Alloc(queues)
                  /\ Served \notin queues.idle
  BY <1>0, AllocInQueue DEF Sound, Serving, Served, Alloc, QueuesTypeOK
<1>1. CASE RunReadyTasks \/ WakeDone \/ ServedNone
  BY <1>0, <1>1, CalmStep DEF RunReadyTasks, WakeDone, ServedNone
<1>2. CASE WakeTask
  <2> DEFINE t == Head(waiting)
             p == t.progr
  <2>1. t \in UserTask /\ Tail(waiting) \in Seq(UserTask)
    BY <1>0, <1>2, HeadTailProperties DEF WakeTask, FirstIsDue
  <2>2. t \in Task /\ p \in User
    BY <2>1 DEF UserTask
  <2>3. /\ Room(queues, p)
        /\ queues' = EnqueueBg(EnsureUsage(WithTQueue(queues, p), FindTQueue(queues, p)),
                               FindTQueue(queues, p), t)
    BY <1>2 DEF WakeTask
  <2>4. Calms(queues, queues')
    <3> HIDE DEF t, p
    <3> QED  BY <1>0, <2>2, <2>3, ReadyTaskCalms
  <2> QED  BY <1>0, <1>2, <2>1, <2>4, CalmStep DEF WakeTask
\* A run starts: only the served queue, which is not idle, changes.
<1>3. ASSUME NEW id, NEW login \in BOOLEAN, StartRun(Served, id, login), Calms(queues, queues'), Serving,
             login => queues.at[Served].player < 0
      PROVE  CalmInv'
  <2>1. cur' = [q |-> Served, closing |-> NoQueue, login |-> login, id |-> id]
    BY <1>3 DEF StartRun, NoRun
  <2>2. queues'.at[Served].player = queues.at[Served].player
    BY <1>3, <1>00 DEF Calms
  <2>3. cur'.login => queues'.at[cur'.q].player \notin User
    <3>1. \A u \in User : ~(u < 0)
      BY PlayersAssumption
    <3> QED  BY <1>3, <2>1, <2>2, <3>1
  <2> QED  BY <1>0, <1>3, <2>3 DEF StartRun, CalmInv, TasksOfUsers, Calms
<1>4. CASE ResumeReaderAtEnd
  <2> DEFINE t == [queues.at[Served] EXCEPT !.reading = NoTask]
  <2>1. \A id \in Id \cup {NoTask} :
            Assigned(queues, [queues EXCEPT !.at[Served].reading = id], Served,
                     [queues.at[Served] EXCEPT !.reading = id])
    BY <1>0, <1>00, <1>4, FieldAssignments DEF ResumeReaderAtEnd
  <2>2. Assigned(queues, queues', Served, t)
    BY <1>4, <2>1 DEF ResumeReaderAtEnd
  <2>3. t.player = queues.at[Served].player /\ t.bg = queues.at[Served].bg
    BY <1>0, <1>00, <1>4 DEF TQueue, ResumeReaderAtEnd
  <2> HIDE DEF t
  <2>4. Calms(queues, queues')
    BY <1>0, <1>00, <1>4, <2>2, <2>3, AssignedCalms DEF ResumeReaderAtEnd
  <2> QED  BY <1>3, <1>4, <2>4 DEF ResumeReaderAtEnd
<1>5. CASE OutOfBandCommand
  BY <1>0, <1>00, <1>3, <1>5, DequeueInputCalms DEF OutOfBandCommand, TakesInput
<1>6. CASE ResumeReader
  <2> DEFINE S1 == DequeueInput(queues, Served)
             t == [S1.at[Served] EXCEPT !.reading = NoTask]
  <2>1. Calms(queues, S1)
    BY <1>0, <1>00, <1>6, DequeueInputCalms DEF ResumeReader, TakesInput
  <2>2. S1.idle = queues.idle /\ Alloc(S1) = Alloc(queues)
    BY <1>0, <1>00, <1>6, DequeueInputProperties DEF ResumeReader, TakesInput
  <2>3. queues' = [S1 EXCEPT !.at[Served].reading = NoTask]
    BY <1>6 DEF ResumeReader
  <2> HIDE DEF S1
  <2>4. Sound(S1) /\ Calm(S1) /\ S1.at[Served] \in TQueue
    BY <1>00, <1>6, <2>1, IdleInQueue DEF Calms, Leads, ResumeReader
  <2>5. \A id \in Id \cup {NoTask} :
            Assigned(S1, [S1 EXCEPT !.at[Served].reading = id], Served,
                     [S1.at[Served] EXCEPT !.reading = id])
    BY <1>00, <1>6, <2>4, FieldAssignments DEF ResumeReader
  <2>6. Assigned(S1, queues', Served, t)
    BY <2>3, <2>5
  <2>7. t.player = S1.at[Served].player /\ t.bg = S1.at[Served].bg
    BY <2>4 DEF TQueue
  <2> HIDE DEF t
  <2>8. Calms(S1, queues')
    BY <1>00, <1>6, <2>2, <2>4, <2>6, <2>7, AssignedCalms DEF ResumeReader
  <2>9. Calms(queues, queues')
    BY <2>1, <2>8, CalmsTransitive
  <2> QED  BY <1>3, <1>6, <2>9 DEF ResumeReader
<1>7. CASE CommandTask
  <2>1. Calms(queues, queues')
    BY <1>0, <1>00, <1>7, DequeueInputCalms DEF CommandTask, TakesInput
  <2>2. (queues.at[Served].player < 0) \in BOOLEAN
    OBVIOUS
  <2> QED  BY <1>3, <1>7, <2>1, <2>2 DEF CommandTask
<1>8. CASE SkipBlank
  <2>1. Calms(queues, queues')
    BY <1>0, <1>00, <1>8, DequeueInputCalms DEF SkipBlank, TakesInput
  <2> QED  BY <1>0, <1>8, <2>1, CalmStep DEF SkipBlank
<1>9. CASE BackgroundTask
  <2> DEFINE t == [queues.at[Served] EXCEPT !.bg = Tail(queues.at[Served].bg),
                                            !.num_bg = queues.at[Served].num_bg - 1]
  <2>1. Serving /\ queues.at[Served].bg # <<>>
    BY <1>9 DEF BackgroundTask, TakesBg
  <2>2. Assigned(queues, queues', Served, t)
    BY <1>0, <1>00, <1>9, <2>1, DequeueBgProperties DEF BackgroundTask
  <2>3. t.player = queues.at[Served].player /\ queues.at[Served].player \in User
    BY <1>0, <1>00, <2>1 DEF TQueue, Calm
  <2> HIDE DEF t
  <2>4. Calms(queues, queues')
    BY <1>0, <1>00, <2>1, <2>2, <2>3, AssignedCalms
  <2> QED  BY <1>3, <1>9, <2>4 DEF BackgroundTask
<1>10. CASE DeactivateServed
  <2>1. /\ queues'.idle = queues.idle \cup {Served} /\ Alloc(queues') = Alloc(queues)
        /\ \A r \in Queue : Same(queues, queues', r)
    BY <1>0, <1>00, <1>10, DeactivateHeadProperties DEF DeactivateServed, Served
  <2>2. Alloc(queues) \subseteq Queue /\ queues.idle \subseteq Queue
    BY <1>0, IdleInQueue
  <2>3. ASSUME NEW r \in queues'.idle  PROVE NothingToDo(queues'.at[r])
    <3>1. NothingToDo(queues.at[r]) /\ r \in Queue
      BY <1>0, <1>00, <1>10, <2>1, <2>2 DEF DeactivateServed, Calm
    <3>2. Same(queues, queues', r)
      BY <2>1, <3>1
    <3> QED  BY <3>1, <3>2 DEF Same, NothingToDo, TakesInput, IsOutOfInput
  <2>4. Calm(queues')
    BY <1>0, <2>1, <2>2, <2>3 DEF Calm, Same
  <2>5. cur'.login = FALSE
    BY <1>10 DEF DeactivateServed, Serving, IInv, RunOK, TypesButQueues, Run
  <2> QED  BY <1>0, <1>10, <2>4, <2>5 DEF DeactivateServed, CalmInv, TasksOfUsers
<1>11. CASE FinishServed
  <2>1. queues.active # <<>> /\ Head(queues.active) = cur.q
    BY <1>11 DEF FinishServed, RunOK, IInv
  <2>2. /\ queues'.idle = queues.idle /\ Alloc(queues') = Alloc(queues)
        /\ \A r \in Queue : Same(queues, queues', r)
    BY <1>0, <1>11, <2>1, BumpProperties DEF FinishServed, IInv, TypesButQueues
  <2>3. Alloc(queues) \subseteq Queue /\ queues.idle \subseteq Queue
    BY <1>0, IdleInQueue
  <2>4. ASSUME NEW r \in queues'.idle  PROVE NothingToDo(queues'.at[r])
    <3>1. NothingToDo(queues.at[r]) /\ Same(queues, queues', r)
      BY <1>0, <2>2, <2>3 DEF Calm
    <3> QED  BY <3>1 DEF Same, NothingToDo, TakesInput, IsOutOfInput
  <2>5. Calm(queues')
    BY <1>0, <2>2, <2>3, <2>4 DEF Calm, Same
  <2> QED  BY <1>0, <1>11, <2>5 DEF FinishServed, CalmInv, TasksOfUsers, NoRun
<1>12. CASE FinishServerTask
  <2>1. Calms(queues, queues')
    BY <1>0, <1>12, FreeTaskQueueCalms DEF FinishServerTask, IInv, RunOK
  <2> QED  BY <1>0, <1>12, <2>1, CalmStep DEF FinishServerTask, NoRun
<1>13. CASE FreeIdle
  <2>1. /\ queues'.idle \subseteq queues.idle
        /\ \A q \in Alloc(queues') : q \in Alloc(queues) /\ queues'.at[q] = queues.at[q]
    BY <1>0, <1>13, FreeIdleSound
  <2>2. queues'.idle \subseteq Alloc(queues')
    BY DEF Alloc
  <2>3. Calm(queues')
    BY <1>0, <2>1, <2>2 DEF Calm
  <2>4. cur'.login = FALSE
    BY <1>13 DEF FreeIdle, IInv, RunOK, TypesButQueues, Run
  <2> QED  BY <1>0, <1>13, <2>3, <2>4 DEF FreeIdle, CalmInv, TasksOfUsers
<1> QED  BY <1>1, <1>2, <1>4, <1>5, <1>6, <1>7, <1>8, <1>9, <1>10, <1>11, <1>12,
            <1>13 DEF LoopStep

\* No task calls reconnect_player(), and none runs with the permissions of a
\* connection that is not logged in.
LEMMA CalmTaskStep ==
    ASSUME IInv, CalmInv, TaskStep,
           "reconnect_player" \notin Builtins, Programmer \subseteq User
    PROVE  CalmInv'
<1>0. /\ Sound(queues) /\ Calm(queues) /\ Calms(queues, queues) /\ now \in Nat
      /\ waiting \in Seq(UserTask) /\ ext \in Seq(UserTask) /\ cur \in Run
      /\ queues \in Queues /\ \A q \in Queue : queues.at[q] \in TQueue
      /\ Alloc(queues) \subseteq Queue
  BY CalmsReflexive, IdleInQueue, AllocInQueue DEF IInv, CalmInv, TasksOfUsers, Sound, TypesButQueues
<1>00. \A p \in Programmer : p \in Player /\ p \in User
  BY PlayersAssumption
<1>000. [cur EXCEPT !.id = NoTask].q = cur.q /\ [cur EXCEPT !.id = NoTask].login = cur.login
  BY <1>0 DEF Run
<1>1. ASSUME NEW id \in Id, NEW p \in Programmer, NEW d \in Delay,
             Fork(id, p, d) \/ Suspend(id, p, d)
      PROVE  CalmInv'
  <2> DEFINE kind == IF Fork(id, p, d) THEN "forked" ELSE "suspended"
             t == [id |-> id, kind |-> kind, progr |-> p, start |-> StartTime(d)]
  <2>1. t \in UserTask
    BY <1>0, <1>00, StartTimeType DEF Task, UserTask
  <2>2. /\ queues' = CountIn(queues, p) /\ Room(queues, p)
        /\ waiting' = InsertWaiting(waiting, t) /\ ext' = ext
        /\ cur' = cur \/ cur' = [cur EXCEPT !.id = NoTask]
    BY <1>1 DEF Fork, Suspend, EnqueueWaiting
  <2> HIDE DEF t
  <2>3. Calms(queues, queues')
    BY <1>0, <1>00, <2>2, CountInCalms
  <2>4. waiting' \in Seq(UserTask)
    BY <1>0, <2>1, <2>2, InsertWaitingType
  <2> QED  BY <1>0, <1>000, <2>2, <2>3, <2>4, CalmStep
<1>2. ASSUME NEW id \in Id, NEW p \in Programmer, ReadStdin(id, p)
      PROVE  CalmInv'
  <2> DEFINE t == [id |-> id, kind |-> "suspended", progr |-> p, start |-> 0]
  <2>1. t \in UserTask
    BY <1>00 DEF Task, UserTask
  <2> HIDE DEF t
  <2>2. <<t>> \o ext \in Seq(UserTask)
    BY <1>0, <2>1, ConcatProperties
  <2>3. ext' = <<t>> \o ext /\ queues' = queues /\ waiting' = waiting /\ cur' = [cur EXCEPT !.id = NoTask]
    BY <1>2 DEF ReadStdin, t
  <2> QED  BY <1>0, <1>000, <2>2, <2>3, CalmStep
<1>3. ASSUME NEW i \in DOMAIN ext, KillExternal(i)
      PROVE  CalmInv'
  BY <1>0, <1>3, RemoveAtType, CalmStep DEF KillExternal
<1>4. ASSUME NEW id \in Id, NEW p \in Player, Read(id, p)
      PROVE  CalmInv'
  <2> DEFINE q == Owner(queues, p)
             S1 == [queues EXCEPT !.at[q].reading = id]
             t == [queues.at[q] EXCEPT !.reading = id]
  <2>1. q \in Alloc(queues)
    BY <1>0, <1>4, FoundQueue DEF Read
  <2>2. /\ ~IsOutOfInput(queues.at[q])
        /\ queues' = IF queues.at[q].input # <<>> THEN EnsureUsage(S1, q) ELSE S1
    BY <1>4 DEF Read
  <2> HIDE DEF q
  <2>3. q \in Queue /\ queues.at[q] \in TQueue
    BY <1>0, <2>1
  <2>4. \A x \in Id \cup {NoTask} :
            Assigned(queues, [queues EXCEPT !.at[q].reading = x], q,
                     [queues.at[q] EXCEPT !.reading = x])
    BY <1>0, <2>3, FieldAssignments
  <2>5. Assigned(queues, S1, q, t)
    BY <2>4
  <2>6. /\ t.player = queues.at[q].player /\ t.bg = queues.at[q].bg
        /\ t.input = queues.at[q].input /\ t.connected = queues.at[q].connected
    BY <2>3 DEF TQueue
  <2> HIDE DEF t, S1
  <2>7. CASE queues.at[q].input # <<>>
    <3>1. Calms(queues, EnsureUsage(S1, q))
      BY <1>0, <2>1, <2>5, <2>6, AssignedAndActive
    <3>2. Calms(queues, queues')
      BY <2>2, <2>7, <3>1
    <3> QED  BY <1>0, <1>000, <1>4, <3>2, CalmStep DEF Read
  <2>8. CASE queues.at[q].input = <<>>
    <3>1. NothingToDo(queues.at[q]) => NothingToDo(t)
      BY <2>2, <2>6, <2>8 DEF NothingToDo, TakesInput, IsOutOfInput
    <3>2. Calms(queues, S1)
      BY <1>0, <2>1, <2>5, <2>6, <3>1, AssignedCalms
    <3>3. Calms(queues, queues')
      BY <2>2, <2>8, <3>2
    <3> QED  BY <1>0, <1>000, <1>4, <3>3, CalmStep DEF Read
  <2> QED  BY <2>7, <2>8
<1>5. ASSUME NEW p \in Player, ReadNow(p)
      PROVE  CalmInv'
  <2>1. Calms(queues, queues')
    BY <1>0, <1>5, FoundQueue, DequeueInputCalms DEF ReadNow
  <2> QED  BY <1>0, <1>5, <2>1, CalmStep DEF ReadNow
<1>6. ASSUME NEW p \in Player, FlushInput(p)
      PROVE  CalmInv'
  <2> DEFINE S0 == WithTQueue(queues, p)
             q == FindTQueue(queues, p)
  <2>1. Room(queues, p) /\ queues' = DropInput(S0, q)
    BY <1>6 DEF FlushInput
  <2>2. Calms(queues, S0) /\ q \in Alloc(S0)
    BY <1>0, <2>1, FoundIn, WithTQueueCalms
  <2> HIDE DEF S0, q
  <2>3. Calms(S0, queues')
    BY <2>1, <2>2, DropInputCalms DEF Calms, Leads
  <2>4. Calms(queues, queues')
    BY <2>2, <2>3, CalmsTransitive
  <2> QED  BY <1>0, <1>6, <2>4, CalmStep DEF FlushInput
<1>7. ASSUME NEW p \in Player, NEW l \in Line, NEW atFront \in BOOLEAN, ForceInput(p, l, atFront)
      PROVE  CalmInv'
  <2> DEFINE S0 == WithTQueue(queues, p)
             q == FindTQueue(queues, p)
  <2>1. Room(queues, p) /\ queues' = EnqueueInput(S0, q, l, atFront)
    BY <1>7 DEF ForceInput
  <2>2. Calms(queues, S0) /\ q \in Alloc(S0)
    BY <1>0, <2>1, FoundIn, WithTQueueCalms
  <2> HIDE DEF S0, q
  <2>3. Calms(S0, queues')
    BY <2>1, <2>2, EnqueueInputCalms DEF Calms, Leads
  <2>4. Calms(queues, queues')
    BY <2>2, <2>3, CalmsTransitive
  <2> QED  BY <1>0, <1>7, <2>4, CalmStep DEF ForceInput
<1>8. ASSUME NEW i \in DOMAIN waiting, KillWaiting(i)
      PROVE  CalmInv'
  <2> DEFINE p == waiting[i].progr
             q == Owner(queues, p)
             n == queues.at[q].num_bg - 1
             t == [queues.at[q] EXCEPT !.num_bg = n]
  <2>1. p \in Player
    <3>1. waiting[i] \in UserTask
      BY <1>0, LenProperties, ElementOfSeq
    <3> QED  BY <3>1 DEF UserTask, Task
  <2>2. waiting' \in Seq(UserTask)
    BY <1>0, <1>8, RemoveAtType DEF KillWaiting
  <2>3. CASE Held(queues, p) = {}
    BY <1>0, <1>8, <2>2, <2>3, CalmStep DEF KillWaiting
  <2>4. CASE Held(queues, p) # {}
    <3>1. q \in Alloc(queues)
      BY <1>0, <2>1, <2>4, FoundQueue
    <3>2. queues' = [queues EXCEPT !.at[q].num_bg = n]
      BY <1>8, <2>4 DEF KillWaiting
    <3> HIDE DEF q
    <3>3. q \in Queue /\ n \in Int
      BY <1>0, <3>1 DEF TQueue
    <3>4. /\ t.player = queues.at[q].player /\ t.bg = queues.at[q].bg
          /\ NothingToDo(queues.at[q]) => NothingToDo(t)
      BY <1>0, <3>3 DEF TQueue, NothingToDo, TakesInput, IsOutOfInput
    <3> HIDE DEF n
    <3>5. \A m \in Int : Assigned(queues, [queues EXCEPT !.at[q].num_bg = m], q,
                                  [queues.at[q] EXCEPT !.num_bg = m])
      BY <1>0, <3>3, FieldAssignments
    <3>6. Assigned(queues, queues', q, t)
      BY <3>2, <3>3, <3>5
    <3> HIDE DEF t
    <3>7. Calms(queues, queues')
      BY <1>0, <3>1, <3>4, <3>6, AssignedCalms
    <3> QED  BY <1>0, <1>8, <2>2, <3>7, CalmStep DEF KillWaiting
  <2> QED  BY <2>3, <2>4
<1>9. ASSUME NEW i \in DOMAIN waiting, Resume(i)
      PROVE  CalmInv'
  <2> DEFINE t == [waiting[i] EXCEPT !.start = now]
             p == t.progr
  <2>1. waiting[i] \in UserTask
    BY <1>0, LenProperties, ElementOfSeq
  <2>2. t \in Task /\ p \in User
    BY <1>0, <2>1 DEF UserTask, Task
  <2>3. /\ Room(queues, p)
        /\ queues' = EnqueueBg(EnsureUsage(WithTQueue(queues, p), FindTQueue(queues, p)),
                               FindTQueue(queues, p), t)
    BY <1>9 DEF Resume
  <2>4. Calms(queues, queues')
    <3> HIDE DEF t, p
    <3> QED  BY <1>0, <2>2, <2>3, ReadyTaskCalms
  <2>5. waiting' \in Seq(UserTask)
    BY <1>0, <1>9, RemoveAtType DEF Resume
  <2> QED  BY <1>0, <1>9, <2>4, <2>5, CalmStep DEF Resume
<1>10. ASSUME NEW q \in Queue, KillReader(q)
       PROVE  CalmInv'
  <2> DEFINE t == [queues.at[q] EXCEPT !.reading = NoTask]
  <2>1. \A x \in Id \cup {NoTask} :
            Assigned(queues, [queues EXCEPT !.at[q].reading = x], q,
                     [queues.at[q] EXCEPT !.reading = x])
    BY <1>0, FieldAssignments
  <2>2. Assigned(queues, queues', q, t) /\ q \in Alloc(queues)
    BY <1>10, <2>1 DEF KillReader
  <2>3. /\ t.player = queues.at[q].player /\ t.bg = queues.at[q].bg
        /\ NothingToDo(queues.at[q]) => NothingToDo(t)
    BY <1>0 DEF TQueue, NothingToDo, TakesInput, IsOutOfInput
  <2> HIDE DEF t
  <2>4. Calms(queues, queues')
    BY <1>0, <2>2, <2>3, AssignedCalms
  <2> QED  BY <1>0, <1>10, <2>4, CalmStep DEF KillReader
<1>11. ASSUME NEW q \in Queue, NEW i \in DOMAIN queues.at[q].bg, KillReady(q, i)
       PROVE  CalmInv'
  <2> DEFINE b == RemoveAt(queues.at[q].bg, i)
             n == queues.at[q].num_bg - 1
             t == [queues.at[q] EXCEPT !.bg = b, !.num_bg = n]
  <2>1. queues.at[q].bg \in Seq(Task) /\ n \in Int
    BY <1>0 DEF TQueue
  <2>2. b \in Seq(Task)
    BY <2>1, RemoveAtType
  <2>3. queues' = [queues EXCEPT !.at[q].bg = b, !.at[q].num_bg = n]
    BY <1>0, <1>11 DEF KillReady, Queues, TQueue
  <2>33. q \in Alloc(queues) /\ q \notin queues.idle
    BY <1>0, <1>11 DEF KillReady, Alloc, Sound, QueuesTypeOK
  <2>34. queues.at[q].player \in User
    <3>1. queues.at[q].bg # <<>>
      BY <2>1
    <3> QED  BY <1>0, <2>33, <3>1 DEF Calm
  <2> HIDE DEF b, n
  <2>4. \A c \in Seq(Task), m \in Int :
            Assigned(queues, [queues EXCEPT !.at[q].bg = c, !.at[q].num_bg = m], q,
                     [queues.at[q] EXCEPT !.bg = c, !.num_bg = m])
    BY <1>0, FieldAssignments
  <2>5. Assigned(queues, queues', q, t)
    BY <2>1, <2>2, <2>3, <2>4
  <2>6. t.player = queues.at[q].player
    BY <1>0 DEF TQueue
  <2> HIDE DEF t
  <2>7. Calms(queues, queues')
    BY <1>0, <2>33, <2>34, <2>5, <2>6, AssignedCalms
  <2> QED  BY <1>0, <1>11, <2>7, CalmStep DEF KillReady
<1>12. ASSUME NEW q \in Queue, NEW hold \in BOOLEAN, SetHoldInput(q, hold)
       PROVE  CalmInv'
  <2> DEFINE S1 == [queues EXCEPT !.at[q].hold_input = hold]
             t == [queues.at[q] EXCEPT !.hold_input = hold]
  <2>1. /\ q \in Alloc(queues)
        /\ queues' = IF ~hold /\ queues.at[q].input # <<>> THEN EnsureUsage(S1, q) ELSE S1
    BY <1>12 DEF SetHoldInput
  <2>2. \A c \in BOOLEAN : Assigned(queues, [queues EXCEPT !.at[q].hold_input = c], q,
                                   [queues.at[q] EXCEPT !.hold_input = c])
    BY <1>0, FieldAssignments
  <2>3. Assigned(queues, S1, q, t)
    BY <2>2
  <2>4. /\ t.player = queues.at[q].player /\ t.bg = queues.at[q].bg
        /\ t.input = queues.at[q].input /\ t.connected = queues.at[q].connected
        /\ t.reading = queues.at[q].reading /\ t.hold_input = hold
    BY <1>0 DEF TQueue
  <2> HIDE DEF t, S1
  <2>5. CASE ~hold /\ queues.at[q].input # <<>>
    <3>1. Calms(queues, EnsureUsage(S1, q))
      BY <1>0, <2>1, <2>3, <2>4, AssignedAndActive
    <3>2. Calms(queues, queues')
      BY <2>1, <2>5, <3>1
    <3> QED  BY <1>0, <1>12, <3>2, CalmStep DEF SetHoldInput
  <2>6. CASE ~(~hold /\ queues.at[q].input # <<>>)
    <3>1. NothingToDo(queues.at[q]) => NothingToDo(t)
      BY <2>4, <2>6 DEF NothingToDo, TakesInput, IsOutOfInput
    <3>2. Calms(queues, S1)
      BY <1>0, <2>1, <2>3, <2>4, <3>1, AssignedCalms
    <3>3. Calms(queues, queues')
      BY <2>1, <2>6, <3>2
    <3> QED  BY <1>0, <1>12, <3>3, CalmStep DEF SetHoldInput
  <2> QED  BY <2>5, <2>6
<1>13. ASSUME NEW new \in User, Login(new)
       PROVE  CalmInv'
  <2>1. cur.q \in Range(queues.active) /\ queues.at[cur.q].player \notin User
    BY <1>0, <1>13, AllocInQueue DEF Login, IInv, RunOK, Sound, CalmInv, TasksOfUsers
  <2>2. CanLeaveTasks(queues, cur.q) /\ queues' = Reassociate(queues, cur.q, new)
    BY <1>13 DEF Login
  <2>3. Calm(queues')
    BY <1>0, <2>1, <2>2, ReassociateCalm
  <2>4. cur'.login = FALSE /\ waiting' = waiting /\ ext' = ext
    BY <1>0, <1>13 DEF Login, Run
  <2> QED  BY <1>0, <2>3, <2>4 DEF CalmInv, TasksOfUsers
<1>14. \A q \in Queue, new \in User : ~ReconnectPlayer(q, new)
  BY DEF ReconnectPlayer, Calls
<1> QED  BY <1>1, <1>2, <1>3, <1>4, <1>5, <1>6, <1>7, <1>8, <1>9, <1>10, <1>11, <1>12,
            <1>13, <1>14 DEF TaskStep

LEMMA CalmNext ==
    ASSUME IInv, CalmInv, [Next]_vars, IInv',
           "reconnect_player" \notin Builtins, Programmer \subseteq User
    PROVE  CalmInv'
<1>0. /\ Calms(queues, queues) /\ waiting \in Seq(UserTask) /\ ext \in Seq(UserTask)
  BY CalmsReflexive DEF IInv, CalmInv, TasksOfUsers
<1>1. CASE NetworkStep
  BY <1>1, CalmNetworkStep
<1>2. CASE LoopStep
  BY <1>2, CalmLoopStep
<1>3. CASE TaskStep
  BY <1>3, CalmTaskStep
<1>4. CASE EndTask \/ Tick \/ UNCHANGED vars
  BY <1>0, <1>4, CalmStep DEF EndTask, Tick, vars
<1> QED  BY <1>1, <1>2, <1>3, <1>4 DEF Next

\* run_ready_tasks() never looks at an idle queue, so whatever gives a queue
\* something to do must activate it: a line, a line asked for, a task that is
\* due or resumed, the end of a connection someone reads from.  All of them
\* do, as long as no task calls reconnect_player() (TLC shows in the run
\* tasks_reconnect how a task is forgotten otherwise) and no task has the
\* permissions of a connection that is not logged in.
THEOREM WakeupsKept ==
    ASSUME "reconnect_player" \notin Builtins, Programmer \subseteq User
    PROVE  Spec => []NoLostWakeup
<1>1. Init => IInv /\ CalmInv
  <2>1. Init => CalmInv
    <3> SUFFICES ASSUME Init  PROVE CalmInv
      OBVIOUS
    <3>1. queues.idle = {} /\ Alloc(queues) = {}
      BY DEF Init, Alloc, Range
    <3>2. <<>> \in Seq(UserTask)
      BY EmptySeq
    <3> QED  BY <3>1, <3>2 DEF Init, CalmInv, Calm, TasksOfUsers, NoRun
  <2> QED  BY <2>1, IInvInit
<1>2. (IInv /\ CalmInv) /\ [Next]_vars => (IInv /\ CalmInv)'
  BY IInvInductive, CalmNext
<1>3. CalmInv => NoLostWakeup
  BY DEF CalmInv, Calm, NoLostWakeup, Quiet
<1> QED  BY <1>1, <1>2, <1>3, PTL DEF Spec

(***************************************************************************)
(* Tasks are counted.                                                      *)
(***************************************************************************)

\* How many tasks of w are p's.
TasksOf(w, p) == {i \in DOMAIN w : w[i].progr = p}
Count(w, p) == Cardinality(TasksOf(w, p))

LEMMA CountType ==
    ASSUME NEW w \in Seq(Task), NEW p
    PROVE  /\ IsFiniteSet(TasksOf(w, p)) /\ Count(w, p) \in Nat
           /\ Count(w, p) = 0 <=> TasksOf(w, p) = {}
<1>1. DOMAIN w = 1..Len(w) /\ Len(w) \in Nat
  BY LenProperties
<1>2. IsFiniteSet(1..Len(w))
  BY <1>1, FS_Interval
<1>3. TasksOf(w, p) \in SUBSET (1..Len(w))
  BY <1>1 DEF TasksOf
<1>4. IsFiniteSet(TasksOf(w, p))
  BY <1>2, <1>3, FS_Subset
<1> QED  BY <1>4, FS_CardinalityType, FS_EmptySet DEF Count

\* Sequence v is w without its k-th task.
Without(v, w, k) ==
    /\ v \in Seq(Task) /\ w \in Seq(Task) /\ k \in 1..Len(w) /\ Len(w) = Len(v) + 1
    /\ \A i \in 1..Len(v) : v[i] = IF i < k THEN w[i] ELSE w[i + 1]

LEMMA CountWithout ==
    ASSUME NEW w, NEW v, NEW k, Without(v, w, k), NEW p
    PROVE  Count(w, p) = Count(v, p) + (IF w[k].progr = p THEN 1 ELSE 0)
<1> DEFINE n == Len(v)
           V == TasksOf(v, p)
           W == TasksOf(w, p) \ {k}
<1>1. /\ n \in Nat /\ DOMAIN v = 1..n /\ DOMAIN w = 1..n + 1 /\ k \in 1..n + 1
      /\ \A i \in 1..n : v[i] = IF i < k THEN w[i] ELSE w[i + 1]
  BY LenProperties DEF Without
<1>2. IsFiniteSet(V) /\ IsFiniteSet(TasksOf(w, p)) /\ Count(v, p) \in Nat /\ Count(w, p) \in Nat
  BY CountType DEF Without
<1>3. ExistsBijection(V, W)
  <2> DEFINE f == [i \in V |-> IF i < k THEN i ELSE i + 1]
  <2>1. ASSUME NEW i \in V  PROVE f[i] \in W /\ i \in 1..n
    <3>1. i \in 1..n /\ v[i].progr = p
      BY <1>1 DEF TasksOf
    <3>2. CASE i < k
      <4>1. f[i] = i /\ i \in 1..n + 1 /\ w[i].progr = p /\ i # k
        BY <1>1, <3>1, <3>2
      <4> QED  BY <1>1, <3>1, <4>1 DEF TasksOf
    <3>3. CASE ~(i < k)
      <4>1. f[i] = i + 1 /\ i + 1 \in 1..n + 1 /\ w[i + 1].progr = p /\ i + 1 # k
        BY <1>1, <3>1, <3>3
      <4> QED  BY <1>1, <3>1, <4>1 DEF TasksOf
    <3> QED  BY <3>2, <3>3
  <2>2. f \in [V -> W]
    BY <2>1
  <2>3. ASSUME NEW i \in V, NEW j \in V, f[i] = f[j]  PROVE i = j
    <3>1. i \in Int /\ j \in Int /\ k \in Int
      BY <1>1, <2>1
    <3> QED  BY <2>3, <3>1
  <2>4. ASSUME NEW j \in W  PROVE \E i \in V : f[i] = j
    <3>1. j \in 1..n + 1 /\ w[j].progr = p /\ j # k
      BY <1>1 DEF TasksOf
    <3>2. CASE j < k
      <4>1. j \in 1..n /\ v[j] = w[j]
        BY <1>1, <3>1, <3>2
      <4>2. j \in V
        BY <1>1, <3>1, <4>1 DEF TasksOf
      <4> QED  BY <3>2, <4>2
    <3>3. CASE ~(j < k)
      <4>1. j - 1 \in 1..n /\ ~(j - 1 < k) /\ v[j - 1] = w[j] /\ j - 1 + 1 = j
        BY <1>1, <3>1, <3>3
      <4>2. j - 1 \in V
        BY <1>1, <3>1, <4>1 DEF TasksOf
      <4> QED  BY <4>1, <4>2
    <3> QED  BY <3>2, <3>3
  <2> HIDE DEF f
  <2> QED  BY <2>2, <2>3, <2>4 DEF ExistsBijection, Bijection, Injection, IsInjective, Surjection
<1>4. Cardinality(W) = Count(v, p)
  BY <1>2, <1>3, FS_Bijection DEF Count
<1>5. Cardinality(W) = IF k \in TasksOf(w, p) THEN Count(w, p) - 1 ELSE Count(w, p)
  BY <1>2, FS_RemoveElement DEF Count
<1>6. k \in TasksOf(w, p) <=> w[k].progr = p
  BY <1>1 DEF TasksOf
<1> QED  BY <1>2, <1>4, <1>5, <1>6

LEMMA TailWithout ==
    ASSUME NEW w \in Seq(Task), w # <<>>
    PROVE  Without(Tail(w), w, 1) /\ Head(w) = w[1]
<1>1. Len(w) \in Nat /\ Tail(w) \in Seq(Task) /\ Len(Tail(w)) = Len(w) - 1
      /\ \A i \in 1..Len(w) - 1 : Tail(w)[i] = w[i + 1]
  BY LenProperties, HeadTailProperties
<1>2. Len(w) # 0
  BY EmptySeq
<1> DEFINE v == Tail(w)
<1> HIDE DEF v
<1>3. \A i \in 1..Len(v) : v[i] = IF i < 1 THEN w[i] ELSE w[i + 1]
  BY <1>1 DEF v
<1>4. Head(w) = w[1]
  OBVIOUS
<1> QED  BY <1>1, <1>2, <1>3, <1>4 DEF Without, v

LEMMA RemoveAtWithout ==
    ASSUME NEW w \in Seq(Task), NEW k \in DOMAIN w
    PROVE  Without(RemoveAt(w, k), w, k)
<1>1. Len(w) \in Nat /\ k \in 1..Len(w)
  BY LenProperties
<1>2. RemoveAt(w, k) \in Seq(Task) /\ Len(RemoveAt(w, k)) = Len(w) - 1
      /\ \A i \in 1..Len(w) - 1 : RemoveAt(w, k)[i] = IF i < k THEN w[i] ELSE w[i + 1]
  BY <1>1, RemoveAtIs
<1> QED  BY <1>1, <1>2 DEF Without

LEMMA InsertWaitingWithout ==
    ASSUME NEW w \in Seq(Task), NEW t \in Task
    PROVE  \E k : Without(w, InsertWaiting(w, t), k) /\ InsertWaiting(w, t)[k] = t
<1> DEFINE n == Len(w)
           early == {i \in DOMAIN w : w[i].start <= t.start}
           k == Cardinality(early) + 1
           v == InsertAt(w, k, t)
<1>1. n \in Nat /\ DOMAIN w = 1..n
  BY LenProperties
<1>2. IsFiniteSet(1..n) /\ Cardinality(1..n) = n
  <2> HIDE DEF n
  <2>1. n \in Int /\ 1 \in Int
    BY <1>1
  <2>2. IsFiniteSet(1..n) /\ Cardinality(1..n) = IF 1 > n THEN 0 ELSE n - 1 + 1
    BY <2>1, FS_Interval
  <2> QED  BY <1>1, <2>2
<1>3. early \in SUBSET (1..n)
  BY <1>1
<1>4. IsFiniteSet(early) /\ Cardinality(early) <= n
  <2> HIDE DEF n, early
  <2> QED  BY <1>2, <1>3, FS_Subset
<1>5. Cardinality(early) \in Nat
  BY <1>4, FS_CardinalityType
<1>6. k \in 1..n + 1
  BY <1>1, <1>4, <1>5
<1>7. InsertWaiting(w, t) = v
  BY DEF InsertWaiting
<1> HIDE DEF k
<1>8. /\ v \in Seq(Task) /\ Len(v) = n + 1
      /\ \A j \in 1..n + 1 : v[j] = IF j < k THEN w[j] ELSE IF j = k THEN t ELSE w[j - 1]
  BY <1>6, InsertAtProperties
<1> HIDE DEF v, n
<1>9. ASSUME NEW i \in 1..n  PROVE w[i] = IF i < k THEN v[i] ELSE v[i + 1]
  <2>1. i \in Int /\ k \in Int /\ i \in 1..n + 1 /\ i + 1 \in 1..n + 1 /\ i + 1 - 1 = i
    BY <1>1, <1>6
  <2> QED  BY <1>8, <2>1
<1>10. v[k] = t
  BY <1>1, <1>6, <1>8
<1>11. Without(w, v, k)
  BY <1>6, <1>8, <1>9 DEF Without, n
<1> QED  BY <1>7, <1>10, <1>11

\* What a tqueue is when the waiting tasks are w: its ready tasks are its
\* player's, it counts them and its player's waiting ones, and it is within
\* the limit; the queue of a connection has a player.
TaskOf(p) == {t \in Task : t.progr = p}
CountedQueue(tq, w) ==
    /\ tq.bg \in Seq(TaskOf(tq.player))
    /\ tq.num_bg = Len(tq.bg) + Count(w, tq.player)
    /\ tq.num_bg <= Limit
    /\ tq.connected => tq.player # NOTHING
Counted(S, w) ==
    /\ \A r \in Alloc(S) : CountedQueue(S.at[r], w)
    /\ \A i \in DOMAIN w : Held(S, w[i].progr) # {}

\* The count of tq is that of tq0.
SameCount(tq0, tq) ==
    /\ tq.bg = tq0.bg /\ tq.num_bg = tq0.num_bg /\ tq.player = tq0.player
    /\ tq.connected => tq0.connected

LEMMA NoQueueNoTask ==
    ASSUME NEW S, NEW w \in Seq(Task), Counted(S, w), NEW p, Held(S, p) = {}
    PROVE  Count(w, p) = 0
<1>1. TasksOf(w, p) = {}
  BY DEF Counted, TasksOf
<1> QED  BY <1>1, CountType

\* A step that creates queues at most and changes no count.
LEMMA CountsKept ==
    ASSUME NEW S, NEW T, NEW w \in Seq(Task), Counted(S, w), Alloc(S) \subseteq Alloc(T),
           \A r \in Alloc(S) : SameCount(S.at[r], T.at[r]),
           \A r \in Alloc(T) \ Alloc(S) :
               \E p \in Player : T.at[r] = NewTQueue(p) /\ Held(S, p) = {}
    PROVE  Counted(T, w)
<1>1. ASSUME NEW r \in Alloc(T)  PROVE CountedQueue(T.at[r], w)
  <2>1. CASE r \in Alloc(S)
    BY <2>1 DEF Counted, CountedQueue, SameCount
  <2>2. CASE r \notin Alloc(S)
    <3>1. PICK p \in Player : T.at[r] = NewTQueue(p) /\ Held(S, p) = {}
      BY <2>2
    <3>2. /\ T.at[r].bg = <<>> /\ T.at[r].num_bg = 0 /\ T.at[r].player = p
          /\ ~T.at[r].connected
      BY <3>1 DEF NewTQueue
    <3>3. Count(w, p) = 0 /\ Limit \in Nat /\ Len(<<>>) = 0 /\ <<>> \in Seq(TaskOf(p))
      BY <3>1, NoQueueNoTask, BoundsAssumption, EmptySeq
    <3> QED  BY <3>2, <3>3 DEF CountedQueue
  <2> QED  BY <2>1, <2>2
<1>2. ASSUME NEW i \in DOMAIN w  PROVE Held(T, w[i].progr) # {}
  <2>1. PICK r \in Alloc(S) : S.at[r].player = w[i].progr
    BY DEF Counted, Held
  <2>2. r \in Alloc(T) /\ T.at[r].player = w[i].progr
    BY <2>1 DEF SameCount
  <2> QED  BY <2>2 DEF Held
<1> QED  BY <1>1, <1>2 DEF Counted

LEMMA SameQueuesCount ==
    ASSUME NEW S, NEW T, NEW w \in Seq(Task), Counted(S, w), Alloc(S) = Alloc(T),
           \A r \in Alloc(S) : SameCount(S.at[r], T.at[r])
    PROVE  Counted(T, w)
BY CountsKept

LEMMA WithTQueueIs ==
    ASSUME NEW S, Sound(S), NEW p \in Player, Room(S, p)
    PROVE  LET T == WithTQueue(S, p)
               q == FindTQueue(S, p)
           IN  /\ Leads(S, T) /\ Sound(T) /\ q \in Alloc(T) /\ T.at[q].player = p
               /\ \A r \in Alloc(S) : T.at[r] = S.at[r]
               /\ Held(S, p) # {} => T = S
               /\ Held(S, p) = {} =>
                     /\ Alloc(T) = Alloc(S) \cup {q} /\ q \notin Alloc(S)
                     /\ T.at[q] = NewTQueue(p)
<1> DEFINE T == WithTQueue(S, p)
           q == FindTQueue(S, p)
<1>1. /\ Leads(S, T)
      /\ q \in Alloc(T) /\ T.at[q].player = p /\ Held(T, p) = {q}
      /\ T.active = S.active
      /\ \A r \in Alloc(S) : T.at[r] = S.at[r]
      /\ Held(S, p) # {} => T = S
      /\ Held(S, p) = {} =>
            /\ q \in Queue \ Alloc(S)
            /\ T.idle = S.idle \cup {q}
            /\ T.at = [S.at EXCEPT ![q] = NewTQueue(p)]
  BY WithTQueueProperties
<1>2. S.at \in [Queue -> TQueue]
  BY IdleInQueue
<1> HIDE DEF T, q
<1>3. Held(S, p) = {} => Alloc(T) = Alloc(S) \cup {q} /\ q \notin Alloc(S) /\ T.at[q] = NewTQueue(p)
  BY <1>1, <1>2 DEF Alloc
<1> QED  BY <1>1, <1>3 DEF T, q, Leads

LEMMA WithTQueueCounts ==
    ASSUME NEW S, Sound(S), NEW w \in Seq(Task), Counted(S, w), NEW p \in Player, Room(S, p)
    PROVE  Counted(WithTQueue(S, p), w)
<1> DEFINE T == WithTQueue(S, p)
           q == FindTQueue(S, p)
<1>1. /\ Leads(S, T) /\ Sound(T) /\ q \in Alloc(T) /\ T.at[q].player = p
      /\ \A r \in Alloc(S) : T.at[r] = S.at[r]
      /\ Held(S, p) # {} => T = S
      /\ Held(S, p) = {} =>
            /\ Alloc(T) = Alloc(S) \cup {q} /\ q \notin Alloc(S)
            /\ T.at[q] = NewTQueue(p)
  BY WithTQueueIs
<1> HIDE DEF T, q
<1>2. CASE Held(S, p) # {}
  BY <1>1, <1>2 DEF T
<1>3. CASE Held(S, p) = {}
  <2>1. \A r \in Alloc(S) : SameCount(S.at[r], T.at[r])
    BY <1>1 DEF SameCount
  <2>2. Counted(T, w)
    BY <1>1, <1>3, <2>1, CountsKept
  <2> QED  BY <2>2 DEF T
<1> QED  BY <1>2, <1>3

\* A step that changes the tasks of one player: in its queue, among the
\* waiting, or both.
LEMMA OneCounts ==
    ASSUME NEW S, Sound(S), NEW w \in Seq(Task), NEW v \in Seq(Task), Counted(S, w),
           NEW q \in Alloc(S), NEW T, Alloc(T) = Alloc(S),
           \A r \in Alloc(S) \ {q} : SameCount(S.at[r], T.at[r]),
           T.at[q].player = S.at[q].player, S.at[q].player # NOTHING,
           CountedQueue(T.at[q], v),
           \A x : x # S.at[q].player => Count(v, x) = Count(w, x),
           \A i \in DOMAIN v : v[i].progr = S.at[q].player \/ \E j \in DOMAIN w : w[j].progr = v[i].progr
    PROVE  Counted(T, v)
<1>1. ASSUME NEW r \in Alloc(T), r # q  PROVE CountedQueue(T.at[r], v)
  <2>1. S.at[r].player # S.at[q].player
    BY <1>1 DEF Sound, OnePerPlayer
  <2> QED  BY <1>1, <2>1 DEF Counted, CountedQueue, SameCount
<1>2. ASSUME NEW i \in DOMAIN v  PROVE Held(T, v[i].progr) # {}
  <2>1. \A r \in Alloc(S) : T.at[r].player = S.at[r].player
    BY DEF SameCount
  <2>2. \A x : Held(T, x) = Held(S, x)
    BY <2>1 DEF Held
  <2>3. Held(S, v[i].progr) # {}
    BY DEF Counted, Held
  <2> QED  BY <2>2, <2>3
<1> QED  BY <1>1, <1>2 DEF Counted

LEMMA AssignedCounts ==
    ASSUME NEW S, Sound(S), NEW w \in Seq(Task), Counted(S, w), NEW q \in Alloc(S),
           NEW T, NEW t, Assigned(S, T, q, t), SameCount(S.at[q], t)
    PROVE  Counted(T, w)
<1>1. Alloc(S) \subseteq Queue
  BY IdleInQueue
<1>2. Alloc(T) = Alloc(S) /\ \A r \in Alloc(S) : SameCount(S.at[r], T.at[r])
  BY <1>1 DEF Assigned, SameCount
<1> QED  BY <1>2, SameQueuesCount

LEMMA SameCounts ==
    ASSUME NEW S, Sound(S), NEW w \in Seq(Task), Counted(S, w), NEW T, Alloc(T) = Alloc(S),
           \A r \in Queue : Same(S, T, r)
    PROVE  Counted(T, w)
<1>1. \A r \in Alloc(S) : SameCount(S.at[r], T.at[r])
  BY IdleInQueue DEF Same, SameCount
<1> QED  BY <1>1, SameQueuesCount

LEMMA EnsureUsageCounts ==
    ASSUME NEW S, Sound(S), NEW w \in Seq(Task), Counted(S, w), NEW q \in Alloc(S)
    PROVE  Counted(EnsureUsage(S, q), w)
<1> DEFINE T == EnsureUsage(S, q)
<1>1. Leads(S, T) /\ Alloc(T) = Alloc(S) /\ T.idle = S.idle \ {q} /\ \A r \in Queue : Same(S, T, r)
  BY EnsureUsageLeads
<1> HIDE DEF T
<1>2. Counted(T, w)
  BY <1>1, SameCounts
<1> QED  BY <1>2 DEF T

LEMMA EnqueueInputCounts ==
    ASSUME NEW S, Sound(S), NEW w \in Seq(Task), Counted(S, w), NEW q \in Alloc(S),
           NEW l \in Line, NEW atFront \in BOOLEAN
    PROVE  Counted(EnqueueInput(S, q, l, atFront), w)
<1> DEFINE T == EnqueueInput(S, q, l, atFront)
<1>1. /\ Leads(S, T) /\ Alloc(T) = Alloc(S)
      /\ T.idle \subseteq S.idle
      /\ ~S.at[q].hold_input \/ S.at[q].reading # NoTask => q \notin T.idle
      /\ \A r \in Queue :
            /\ T.at[r].bg = S.at[r].bg /\ T.at[r].num_bg = S.at[r].num_bg
            /\ T.at[r].reading = S.at[r].reading
            /\ T.at[r].connected = S.at[r].connected
            /\ T.at[r].hold_input = S.at[r].hold_input
            /\ T.at[r].player = S.at[r].player
            /\ r # q => Same(S, T, r)
  BY EnqueueInputProperties
<1> HIDE DEF T
<1>2. \A r \in Alloc(S) : SameCount(S.at[r], T.at[r])
  BY <1>1, IdleInQueue DEF SameCount
<1>3. Counted(T, w)
  BY <1>1, <1>2, SameQueuesCount
<1> QED  BY <1>3 DEF T

LEMMA LinesTakenCounts ==
    ASSUME NEW S, Sound(S), NEW w \in Seq(Task), Counted(S, w), NEW q, NEW T,
           Alloc(T) = Alloc(S), LinesTaken(S, T, q)
    PROVE  Counted(T, w)
<1>1. \A r \in Alloc(S) : SameCount(S.at[r], T.at[r])
  BY IdleInQueue DEF SameCount, LinesTaken
<1> QED  BY <1>1, SameQueuesCount

LEMMA DequeueInputCounts ==
    ASSUME NEW S, Sound(S), NEW w \in Seq(Task), Counted(S, w), NEW q \in Alloc(S), S.at[q].input # <<>>
    PROVE  Counted(DequeueInput(S, q), w)
<1> DEFINE T == DequeueInput(S, q)
<1>1. Leads(S, T) /\ LinesTaken(S, T, q) /\ T.idle = S.idle /\ Alloc(T) = Alloc(S)
  BY IdleInQueue, DequeueInputProperties
<1> HIDE DEF T
<1>2. Counted(T, w)
  BY <1>1, LinesTakenCounts
<1> QED  BY <1>2 DEF T

LEMMA DropInputCounts ==
    ASSUME NEW S, Sound(S), NEW w \in Seq(Task), Counted(S, w), NEW q \in Alloc(S)
    PROVE  Counted(DropInput(S, q), w)
<1> DEFINE T == DropInput(S, q)
<1>1. /\ Leads(S, T) /\ LinesTaken(S, T, q) /\ T.idle = S.idle /\ T.at[q].input = <<>>
      /\ Alloc(T) = Alloc(S)
  BY IdleInQueue, DropInputProperties
<1> HIDE DEF T
<1>2. Counted(T, w)
  BY <1>1, LinesTakenCounts
<1> QED  BY <1>2 DEF T

LEMMA FreeTaskQueueCounts ==
    ASSUME NEW S, Sound(S), NEW w \in Seq(Task), Counted(S, w), NEW q \in Alloc(S)
    PROVE  Counted(FreeTaskQueue(S, q), w)
<1> DEFINE T == FreeTaskQueue(S, q)
           S1 == [S EXCEPT !.at[q].connected = FALSE]
<1>1. /\ Leads(S, T) /\ Alloc(T) = Alloc(S) /\ T.idle \subseteq S.idle
      /\ S.at[q].reading # NoTask => q \notin T.idle
      /\ \A r \in Queue \ {q} : Same(S, T, r)
      /\ Same(S1, T, q)
  BY FreeTaskQueueProperties
<1>2. /\ q \in Queue /\ Alloc(S) \subseteq Queue /\ S \in Queues /\ S.at[q] \in TQueue
  BY IdleInQueue, AllocInQueue DEF Sound, Queues, TQueue
<1>3. SameCount(S.at[q], S1.at[q])
  BY <1>2 DEF Queues, TQueue, SameCount
<1> HIDE DEF T, S1
<1>4. \A r \in Alloc(S) : SameCount(S.at[r], T.at[r])
  BY <1>1, <1>2, <1>3 DEF SameCount, Same
<1>5. Counted(T, w)
  BY <1>1, <1>4, SameQueuesCount
<1> QED  BY <1>5 DEF T

\* The counts of the other players' tasks do not depend on the task that v
\* lacks, and no player's task is in v only.
LEMMA OthersCount ==
    ASSUME NEW w, NEW v, NEW k, Without(v, w, k)
    PROVE  /\ w \in Seq(Task) /\ v \in Seq(Task) /\ w[k] \in Task /\ k \in DOMAIN w
           /\ Count(w, w[k].progr) = Count(v, w[k].progr) + 1
           /\ \A x : Count(w, x) \in Nat /\ Count(v, x) \in Nat
           /\ \A x : x # w[k].progr => Count(v, x) = Count(w, x)
           /\ \A i \in DOMAIN v : \E j \in DOMAIN w : w[j] = v[i]
           /\ \A i \in DOMAIN w : w[i].progr = w[k].progr \/ \E j \in DOMAIN v : v[j].progr = w[i].progr
<1>1. /\ w \in Seq(Task) /\ v \in Seq(Task) /\ k \in 1..Len(w) /\ Len(w) = Len(v) + 1
      /\ DOMAIN w = 1..Len(w) /\ DOMAIN v = 1..Len(v) /\ Len(v) \in Nat
      /\ \A i \in 1..Len(v) : v[i] = IF i < k THEN w[i] ELSE w[i + 1]
  BY LenProperties DEF Without
<1>2. w[k] \in Task
  BY <1>1, ElementOfSeq
<1>3. \A x : Count(w, x) \in Nat /\ Count(v, x) \in Nat
  BY <1>1, CountType
<1>4. \A x : Count(w, x) = Count(v, x) + (IF w[k].progr = x THEN 1 ELSE 0)
  BY CountWithout
<1>5. ASSUME NEW i \in DOMAIN v  PROVE \E j \in DOMAIN w : w[j] = v[i]
  <2>1. (IF i < k THEN i ELSE i + 1) \in DOMAIN w
    BY <1>1
  <2> QED  BY <1>1, <2>1
<1>6. ASSUME NEW i \in DOMAIN w, i # k  PROVE \E j \in DOMAIN v : v[j] = w[i]
  <2>1. CASE i < k
    <3>1. i \in DOMAIN v
      BY <1>1, <2>1
    <3> QED  BY <1>1, <2>1, <3>1
  <2>2. CASE ~(i < k)
    <3>1. i - 1 \in DOMAIN v /\ ~(i - 1 < k) /\ i - 1 + 1 = i
      BY <1>1, <1>6, <2>2
    <3> QED  BY <1>1, <3>1
  <2> QED  BY <2>1, <2>2
<1>7. ASSUME NEW i \in DOMAIN w
      PROVE  w[i].progr = w[k].progr \/ \E j \in DOMAIN v : v[j].progr = w[i].progr
  BY <1>6
<1>8. k \in DOMAIN w
  BY <1>1
<1> QED  BY <1>1, <1>2, <1>3, <1>4, <1>5, <1>7, <1>8

LEMMA PlayerIsSomeone == \A p \in Player : p # NOTHING
BY PlayersAssumption DEF Player, NOTHING

\* The same, for the queue of the one player whose tasks change.
LEMMA OneAssignedCounts ==
    ASSUME NEW S, Sound(S), NEW w \in Seq(Task), NEW v \in Seq(Task), Counted(S, w),
           NEW q \in Alloc(S), NEW p \in Player, S.at[q].player = p,
           NEW T, NEW t, Assigned(S, T, q, t), t.player = p, CountedQueue(t, v),
           \A x : x # p => Count(v, x) = Count(w, x),
           \A i \in DOMAIN v : v[i].progr = p \/ \E j \in DOMAIN w : w[j].progr = v[i].progr
    PROVE  Counted(T, v)
<1>1. Alloc(S) \subseteq Queue /\ p # NOTHING
  BY IdleInQueue, PlayerIsSomeone
<1>2. /\ Alloc(T) = Alloc(S) /\ T.at[q] = t
      /\ \A r \in Alloc(S) \ {q} : SameCount(S.at[r], T.at[r])
  BY <1>1 DEF Assigned, SameCount
<1> QED  BY <1>1, <1>2, OneCounts

LEMMA QueueOfPlayer ==
    ASSUME NEW S, Sound(S), NEW w \in Seq(Task), Counted(S, w), NEW q \in Alloc(S), NEW p,
           S.at[q].player = p
    PROVE  /\ q \in Queue /\ S.at[q] \in TQueue /\ S.at[q].bg \in Seq(TaskOf(p))
           /\ S.at[q].bg \in Seq(Task) /\ S.at[q].num_bg \in Int
           /\ S.at[q].num_bg = Len(S.at[q].bg) + Count(w, p) /\ S.at[q].num_bg <= Limit
           /\ Len(S.at[q].bg) \in Nat /\ Count(w, p) \in Nat /\ Limit \in Nat
           /\ S.at[q].connected => p # NOTHING
<1>1. q \in Queue /\ S.at[q] \in TQueue
  BY IdleInQueue
<1>2. /\ S.at[q].bg \in Seq(TaskOf(p)) /\ S.at[q].num_bg = Len(S.at[q].bg) + Count(w, p)
      /\ S.at[q].num_bg <= Limit /\ S.at[q].connected => p # NOTHING
  BY DEF Counted, CountedQueue
<1>3. S.at[q].bg \in Seq(Task) /\ S.at[q].num_bg \in Int
  BY <1>1 DEF TQueue
<1>4. Count(w, p) \in Nat /\ Limit \in Nat /\ Len(S.at[q].bg) \in Nat
  BY <1>3, CountType, BoundsAssumption, LenProperties
<1> QED  BY <1>1, <1>2, <1>3, <1>4 DEF Counted, CountedQueue

\* A waiting task becomes ready.
LEMMA EnqueueBgCounts ==
    ASSUME NEW S, Sound(S), NEW w, NEW v, NEW k, Without(v, w, k), Counted(S, w),
           NEW t \in Task, NEW p \in Player, t.progr = p, w[k].progr = p,
           NEW q \in Alloc(S), S.at[q].player = p
    PROVE  Counted(EnqueueBg(S, q, t), v)
<1> DEFINE b == [S.at[q] EXCEPT !.bg = Append(S.at[q].bg, t)]
           T == EnqueueBg(S, q, t)
<1>1. /\ w \in Seq(Task) /\ v \in Seq(Task) /\ Count(w, p) = Count(v, p) + 1
      /\ Count(v, p) \in Nat
      /\ \A x : x # p => Count(v, x) = Count(w, x)
      /\ \A i \in DOMAIN v : \E j \in DOMAIN w : w[j] = v[i]
  BY OthersCount
<1>2. /\ q \in Queue /\ S.at[q] \in TQueue /\ S.at[q].bg \in Seq(TaskOf(p))
      /\ S.at[q].num_bg = Len(S.at[q].bg) + Count(w, p) /\ S.at[q].num_bg <= Limit
      /\ Len(S.at[q].bg) \in Nat
  BY <1>1, QueueOfPlayer
<1>3. Assigned(S, T, q, b)
  BY <1>2, EnqueueBgProperties
<1>4. /\ b.player = p /\ b.bg = Append(S.at[q].bg, t) /\ b.num_bg = S.at[q].num_bg
      /\ b.connected = S.at[q].connected
  BY <1>2 DEF TQueue
<1> HIDE DEF b, T
<1>5. b.bg \in Seq(TaskOf(p)) /\ Len(b.bg) = Len(S.at[q].bg) + 1
  <2>1. t \in TaskOf(p)
    BY DEF TaskOf
  <2> DEFINE s == S.at[q].bg
  <2>2. s \in Seq(TaskOf(p))
    BY <1>2
  <2> HIDE DEF s
  <2>3. Append(s, t) \in Seq(TaskOf(p)) /\ Len(Append(s, t)) = Len(s) + 1
    BY <2>1, <2>2, AppendProperties
  <2> QED  BY <1>4, <2>3 DEF s
<1>6. b.num_bg = Len(b.bg) + Count(v, p)
  <2> DEFINE n == Len(S.at[q].bg)
  <2>1. n \in Nat /\ b.num_bg = n + Count(w, p) /\ Len(b.bg) = n + 1
    BY <1>2, <1>4, <1>5
  <2> HIDE DEF n
  <2> QED  BY <1>1, <2>1
<1>7. CountedQueue(b, v)
  BY <1>2, <1>4, <1>5, <1>6, PlayerIsSomeone DEF CountedQueue
<1>8. Counted(T, v)
  BY <1>1, <1>3, <1>4, <1>7, OneAssignedCounts
<1> QED  BY <1>8 DEF T

LEMMA ReadyTaskCounts ==
    ASSUME NEW S, Sound(S), NEW w, NEW v, NEW k, Without(v, w, k), Counted(S, w),
           NEW t \in Task, NEW p \in Player, t.progr = p, w[k].progr = p, Room(S, p)
    PROVE  LET q == FindTQueue(S, p)
           IN  Counted(EnqueueBg(EnsureUsage(WithTQueue(S, p), q), q, t), v)
<1> DEFINE q == FindTQueue(S, p)
           S0 == WithTQueue(S, p)
           S1 == EnsureUsage(S0, q)
<1>0. w \in Seq(Task)
  BY DEF Without
<1>1. Sound(S0) /\ q \in Alloc(S0) /\ S0.at[q].player = p
  <2>1. /\ Leads(S, S0) /\ Sound(S0) /\ q \in Alloc(S0) /\ S0.at[q].player = p
        /\ \A r \in Alloc(S) : S0.at[r] = S.at[r]
        /\ Held(S, p) # {} => S0 = S
        /\ Held(S, p) = {} =>
              /\ Alloc(S0) = Alloc(S) \cup {q} /\ q \notin Alloc(S)
              /\ S0.at[q] = NewTQueue(p)
    BY WithTQueueIs
  <2> QED  BY <2>1
<1>2. Counted(S0, w)
  BY <1>0, WithTQueueCounts
<1> HIDE DEF q, S0
<1>3. /\ Leads(S0, S1) /\ Alloc(S1) = Alloc(S0) /\ S1.idle = S0.idle \ {q}
      /\ \A r \in Queue : Same(S0, S1, r)
  BY <1>1, EnsureUsageLeads
<1>4. Counted(S1, w)
  BY <1>0, <1>1, <1>2, EnsureUsageCounts
<1> HIDE DEF S1
<1>5. Sound(S1) /\ q \in Alloc(S1) /\ S1.at[q].player = p
  BY <1>1, <1>3, IdleInQueue DEF Leads, Same
<1>6. Counted(EnqueueBg(S1, q, t), v)
  BY <1>4, <1>5, EnqueueBgCounts
<1> QED  BY <1>6 DEF S1, S0, q

\* A task starts to wait: check_user_task_limit() has been asked.
LEMMA CountInCounts ==
    ASSUME NEW S, Sound(S), NEW w, NEW v, NEW k, Without(w, v, k), Counted(S, w),
           NEW p \in Player, v[k].progr = p, Room(S, p),
           IF Held(S, p) = {} THEN 0 < Limit ELSE S.at[Owner(S, p)].num_bg < Limit
    PROVE  Counted(CountIn(S, p), v)
<1> DEFINE q == FindTQueue(S, p)
           S0 == WithTQueue(S, p)
           n == S0.at[q].num_bg + 1
           t == [S0.at[q] EXCEPT !.num_bg = n]
           T == CountIn(S, p)
<1>0. /\ w \in Seq(Task) /\ v \in Seq(Task) /\ Count(v, p) = Count(w, p) + 1
      /\ Count(w, p) \in Nat
      /\ \A x : x # p => Count(v, x) = Count(w, x)
      /\ \A i \in DOMAIN v : v[i].progr = p \/ \E j \in DOMAIN w : w[j].progr = v[i].progr
  <2>1. /\ v \in Seq(Task) /\ w \in Seq(Task) /\ v[k] \in Task /\ k \in DOMAIN v
        /\ Count(v, v[k].progr) = Count(w, v[k].progr) + 1
        /\ \A x : Count(v, x) \in Nat /\ Count(w, x) \in Nat
        /\ \A x : x # v[k].progr => Count(w, x) = Count(v, x)
        /\ \A i \in DOMAIN w : \E j \in DOMAIN v : v[j] = w[i]
        /\ \A i \in DOMAIN v : v[i].progr = v[k].progr \/ \E j \in DOMAIN w : w[j].progr = v[i].progr
    BY OthersCount
  <2> QED  BY <2>1
<1>1. Sound(S0) /\ q \in Alloc(S0) /\ S0.at[q].player = p /\ S0.at[q].num_bg < Limit
  <2>1. /\ Leads(S, S0) /\ Sound(S0) /\ q \in Alloc(S0) /\ S0.at[q].player = p
        /\ \A r \in Alloc(S) : S0.at[r] = S.at[r]
        /\ Held(S, p) # {} => S0 = S
        /\ Held(S, p) = {} =>
              /\ Alloc(S0) = Alloc(S) \cup {q} /\ q \notin Alloc(S)
              /\ S0.at[q] = NewTQueue(p)
    BY WithTQueueIs
  <2>2. S0.at[q].num_bg < Limit
    <3>1. CASE Held(S, p) = {}
      BY <2>1, <3>1 DEF NewTQueue
    <3>2. CASE Held(S, p) # {}
      <4>1. q = Owner(S, p) /\ S0 = S
        BY <2>1, <3>2 DEF FindTQueue
      <4> QED  BY <3>2, <4>1
    <3> QED  BY <3>1, <3>2
  <2> QED  BY <2>1, <2>2
<1>2. Counted(S0, w)
  BY <1>0, WithTQueueCounts
<1>3. T = [S0 EXCEPT !.at[q].num_bg = n]
  BY DEF CountIn
<1> HIDE DEF q, S0, T
<1>4. /\ q \in Queue /\ S0.at[q] \in TQueue /\ S0.at[q].bg \in Seq(TaskOf(p))
      /\ S0.at[q].num_bg \in Int
      /\ S0.at[q].num_bg = Len(S0.at[q].bg) + Count(w, p)
      /\ Len(S0.at[q].bg) \in Nat /\ Limit \in Nat
  BY <1>0, <1>1, <1>2, QueueOfPlayer
<1>5. n \in Int
  BY <1>4
<1>6. \A m \in Int : Assigned(S0, [S0 EXCEPT !.at[q].num_bg = m], q, [S0.at[q] EXCEPT !.num_bg = m])
  BY <1>1, <1>4, FieldAssignments
<1>7. Assigned(S0, T, q, t)
  BY <1>3, <1>5, <1>6
<1>8. /\ t.player = p /\ t.bg = S0.at[q].bg /\ t.num_bg = S0.at[q].num_bg + 1
      /\ t.connected = S0.at[q].connected
  BY <1>1, <1>4 DEF TQueue
<1> HIDE DEF t, n
<1>9. t.num_bg = Len(t.bg) + Count(v, p) /\ t.num_bg <= Limit
  <2> DEFINE m == S0.at[q].num_bg
             l == Len(S0.at[q].bg)
  <2>1. /\ m \in Int /\ l \in Nat /\ m = l + Count(w, p) /\ m < Limit /\ Limit \in Nat
        /\ t.num_bg = m + 1 /\ Len(t.bg) = l
    BY <1>1, <1>4, <1>8
  <2> HIDE DEF m, l
  <2> QED  BY <1>0, <2>1
<1>10. CountedQueue(t, v)
  BY <1>4, <1>8, <1>9, PlayerIsSomeone DEF CountedQueue
<1>11. t.player = p
  BY <1>8
<1>12. Counted(T, v)
  BY <1>0, <1>1, <1>2, <1>7, <1>10, <1>11, OneAssignedCounts
<1> QED  BY <1>12 DEF T

\* A waiting task is killed.
LEMMA UncountedCounts ==
    ASSUME NEW S, Sound(S), NEW w, NEW v, NEW k, Without(v, w, k), Counted(S, w),
           NEW p \in Player, w[k].progr = p, NEW q \in Alloc(S), S.at[q].player = p,
           NEW n, n = S.at[q].num_bg - 1
    PROVE  Counted([S EXCEPT !.at[q].num_bg = n], v)
<1> DEFINE t == [S.at[q] EXCEPT !.num_bg = n]
           T == [S EXCEPT !.at[q].num_bg = n]
<1>0. /\ w \in Seq(Task) /\ v \in Seq(Task) /\ Count(w, p) = Count(v, p) + 1
      /\ Count(v, p) \in Nat
      /\ \A x : x # p => Count(v, x) = Count(w, x)
      /\ \A i \in DOMAIN v : \E j \in DOMAIN w : w[j] = v[i]
  BY OthersCount
<1>1. /\ q \in Queue /\ S.at[q] \in TQueue /\ S.at[q].bg \in Seq(TaskOf(p))
      /\ S.at[q].num_bg \in Int /\ S.at[q].num_bg <= Limit
      /\ S.at[q].num_bg = Len(S.at[q].bg) + Count(w, p)
      /\ Len(S.at[q].bg) \in Nat /\ Limit \in Nat
  BY <1>0, QueueOfPlayer
<1>2. n \in Int
  BY <1>1
<1>3. \A m \in Int : Assigned(S, [S EXCEPT !.at[q].num_bg = m], q, [S.at[q] EXCEPT !.num_bg = m])
  BY <1>1, FieldAssignments
<1>4. Assigned(S, T, q, t)
  BY <1>2, <1>3
<1>5. t.player = p /\ t.bg = S.at[q].bg /\ t.num_bg = n /\ t.connected = S.at[q].connected
  BY <1>1 DEF TQueue
<1> HIDE DEF t, T
<1>6. t.num_bg = Len(t.bg) + Count(v, p) /\ t.num_bg <= Limit
  <2> DEFINE m == S.at[q].num_bg
             l == Len(S.at[q].bg)
             c == Count(v, p)
  <2>1. /\ m \in Int /\ l \in Nat /\ m <= Limit /\ Limit \in Nat
        /\ t.num_bg = m - 1 /\ Len(t.bg) = l
    BY <1>1, <1>5
  <2>2. c \in Nat /\ m = l + (c + 1)
    BY <1>0, <1>1
  <2> HIDE DEF m, l, c
  <2>3. m - 1 = l + c /\ m - 1 <= Limit
    BY <2>1, <2>2
  <2> QED  BY <2>1, <2>3 DEF c
<1>7. CountedQueue(t, v) /\ t.player = p
  BY <1>1, <1>5, <1>6, PlayerIsSomeone DEF CountedQueue
<1>8. Counted(T, v)
  BY <1>0, <1>4, <1>7, OneAssignedCounts
<1> QED  BY <1>8 DEF T

\* A ready task is run, or killed.
LEMMA ReadyTaskGoneCounts ==
    ASSUME NEW S, Sound(S), NEW w \in Seq(Task), Counted(S, w), NEW q \in Alloc(S),
           S.at[q].bg # <<>>, NEW T, NEW t, Assigned(S, T, q, t),
           t.player = S.at[q].player, t.connected = S.at[q].connected,
           t.num_bg = S.at[q].num_bg - 1, t.bg \in Seq(TaskOf(t.player)),
           Len(t.bg) = Len(S.at[q].bg) - 1
    PROVE  Counted(T, w)
<1> DEFINE p == S.at[q].player
           m == S.at[q].num_bg
           l == Len(S.at[q].bg)
<1>1. /\ S.at[q].bg \in Seq(TaskOf(p)) /\ m \in Int /\ m <= Limit /\ l \in Nat /\ Limit \in Nat
      /\ m = l + Count(w, p) /\ Count(w, p) \in Nat
      /\ S.at[q].connected => p # NOTHING
  BY QueueOfPlayer
<1>2. p \in Player
  <2>1. S.at[q].bg[1] \in TaskOf(p)
    BY <1>1, EmptySeq, LenProperties, ElementOfSeq
  <2> QED  BY <2>1 DEF TaskOf, Task
<1>3. t.num_bg = m - 1 /\ Len(t.bg) = l - 1 /\ t.player = p /\ t.bg \in Seq(TaskOf(p))
  OBVIOUS
<1> HIDE DEF p, m, l
<1>4. t.num_bg = Len(t.bg) + Count(w, p) /\ t.num_bg <= Limit
  <2>1. m - 1 = l - 1 + Count(w, p) /\ m - 1 <= Limit
    BY <1>1
  <2> QED  BY <1>3, <2>1
<1>5. CountedQueue(t, w)
  BY <1>2, <1>3, <1>4, PlayerIsSomeone DEF CountedQueue
<1>6. S.at[q].player = p /\ \A i \in DOMAIN w : \E j \in DOMAIN w : w[j].progr = w[i].progr
  BY DEF p
<1> QED  BY <1>2, <1>3, <1>5, <1>6, OneAssignedCounts

LEMMA NoTasks == \A D : <<>> \in Seq(D) /\ Len(<<>>) = 0 /\ \A s \in Seq(D) : <<>> \o s = s /\ (Len(s) = 0 => s = <<>>)
BY EmptySeq

LEMMA NoTaskCounts ==
    ASSUME NEW tq, NEW w, tq.bg = <<>>, tq.num_bg = 0, Count(w, tq.player) = 0,
           tq.connected => tq.player # NOTHING
    PROVE  CountedQueue(tq, w)
<1>1. <<>> \in Seq(TaskOf(tq.player)) /\ Len(<<>>) = 0 /\ Limit \in Nat
  BY NoTasks, BoundsAssumption
<1> QED  BY <1>1 DEF CountedQueue

\* A connection takes over a player: its old player's tasks go to a queue of
\* their own, the new player's come to it, and every queue's count is right.
LEMMA ReassociateCounts ==
    ASSUME NEW S, Sound(S), NEW w \in Seq(Task), Counted(S, w), NEW q \in Alloc(S),
           S.at[q].connected, NEW new \in Player, S.at[q].player # new, CanLeaveTasks(S, q)
    PROVE  Counted(Reassociate(S, q, new), w)
<1> DEFINE T == Reassociate(S, q, new)
           old == S.at[q].player
           n == S.at[q].num_bg
<1>1. Leads(S, T) /\ Reassociated(S, T, q, new)
  BY ReassociateLeads, ReassociateIs
<1>2. /\ Alloc(S) \subseteq Alloc(T) /\ OnePerPlayer(S) /\ new # NOTHING /\ Limit \in Nat
  BY <1>1, PlayerIsSomeone, BoundsAssumption DEF Leads, Sound
<1> HIDE DEF T
<1>3. /\ S.at[q].bg \in Seq(TaskOf(old)) /\ n = Len(S.at[q].bg) + Count(w, old) /\ n <= Limit
      /\ Len(S.at[q].bg) \in Nat /\ Count(w, old) \in Nat /\ old # NOTHING
  BY QueueOfPlayer
<1>4. n = 0 => S.at[q].bg = <<>> /\ Count(w, old) = 0
  <2>1. n = 0 => Len(S.at[q].bg) = 0 /\ Count(w, old) = 0
    <3> DEFINE l == Len(S.at[q].bg)
               c == Count(w, old)
    <3>1. l \in Nat /\ c \in Nat /\ n = l + c
      BY <1>3
    <3> HIDE DEF l, c, n
    <3>2. n = 0 => l = 0 /\ c = 0
      BY <3>1
    <3> QED  BY <3>2 DEF l, c
  <2> QED  BY <1>3, <2>1, NoTasks
<1>5. (IF n = 0 THEN S.at[q].bg ELSE <<>>) = <<>>
  BY <1>4
<1>6. /\ T.at[q].player = new
      /\ Held(S, new) = {} => T.at[q].bg = <<>> /\ T.at[q].num_bg = 0
      /\ \A r \in Held(S, new) :
            /\ T.at[q].bg = <<>> \o S.at[r].bg /\ T.at[q].num_bg = S.at[r].num_bg
            /\ T.at[r].player = NOTHING /\ T.at[r].bg = <<>> /\ T.at[r].num_bg = 0
            /\ ~T.at[r].connected
  <2> DEFINE kept == IF n = 0 THEN S.at[q].bg ELSE <<>>
  <2>1. /\ T.at[q].player = new
        /\ Held(S, new) = {} => T.at[q].bg = kept /\ T.at[q].num_bg = 0
        /\ \A r \in Held(S, new) :
              /\ T.at[q].bg = kept \o S.at[r].bg /\ T.at[q].num_bg = S.at[r].num_bg
              /\ T.at[r].player = NOTHING /\ T.at[r].bg = <<>> /\ T.at[r].num_bg = 0
              /\ ~T.at[r].connected
    BY <1>1 DEF Reassociated
  <2> HIDE DEF kept
  <2>2. kept = <<>>
    BY <1>5 DEF kept
  <2> QED  BY <2>1, <2>2
<1>7. CountedQueue(T.at[q], w)
  <2>1. CASE Held(S, new) = {}
    <3>1. Count(w, new) = 0
      BY <2>1, NoQueueNoTask
    <3>2. T.at[q].player = new /\ T.at[q].bg = <<>> /\ T.at[q].num_bg = 0
      BY <1>6, <2>1
    <3> QED  BY <1>2, <3>1, <3>2, NoTaskCounts
  <2>2. ASSUME NEW d \in Held(S, new)  PROVE CountedQueue(T.at[q], w)
    <3>1. d \in Alloc(S) /\ S.at[d].player = new
      BY DEF Held
    <3>2. /\ S.at[d].bg \in Seq(TaskOf(new)) /\ S.at[d].num_bg <= Limit
          /\ S.at[d].num_bg = Len(S.at[d].bg) + Count(w, new)
      BY <3>1, QueueOfPlayer
    <3>3. T.at[q].bg = S.at[d].bg /\ T.at[q].num_bg = S.at[d].num_bg
      BY <1>6, <3>2, NoTasks
    <3> QED  BY <1>2, <1>6, <3>2, <3>3 DEF CountedQueue
  <2> QED  BY <2>1, <2>2
<1>8. ASSUME NEW r \in Held(S, new)  PROVE CountedQueue(T.at[r], w)
  <2>1. Count(w, NOTHING) = 0
    <3>1. \A i \in DOMAIN w : w[i].progr # NOTHING
      <4>1. \A i \in DOMAIN w : w[i] \in Task
        BY LenProperties, ElementOfSeq
      <4> QED  BY <4>1, PlayerIsSomeone DEF Task
    <3>2. TasksOf(w, NOTHING) = {}
      BY <3>1 DEF TasksOf
    <3> QED  BY <3>2, CountType
  <2>2. /\ T.at[r].player = NOTHING /\ T.at[r].bg = <<>> /\ T.at[r].num_bg = 0
        /\ ~T.at[r].connected
    BY <1>6
  <2> QED  BY <2>1, <2>2, NoTaskCounts
<1>9. ASSUME NEW r \in Alloc(S), r # q, r \notin Held(S, new)
      PROVE  SameCount(S.at[r], T.at[r])
  <2>1. S.at[r].player # old
    BY <1>2, <1>3, <1>9 DEF OnePerPlayer
  <2> QED  BY <1>1, <1>9, <2>1 DEF Reassociated, SameCount
<1>10. ASSUME NEW r \in Alloc(T), r \notin Alloc(S)
       PROVE  T.at[r].player = old /\ CountedQueue(T.at[r], w)
  <2>1. /\ T.at[r].player = old /\ T.at[r].num_bg = n
        /\ T.at[r].bg = <<>> \o S.at[q].bg /\ ~T.at[r].connected
    BY <1>1, <1>10 DEF Reassociated
  <2>2. T.at[r].bg = S.at[q].bg
    BY <1>3, <2>1, NoTasks
  <2> QED  BY <1>3, <2>1, <2>2 DEF CountedQueue
<1>11. ASSUME NEW r \in Alloc(T)  PROVE CountedQueue(T.at[r], w)
  <2>1. ASSUME r \in Alloc(S), r # q, r \notin Held(S, new)  PROVE CountedQueue(T.at[r], w)
    <3>1. SameCount(S.at[r], T.at[r]) /\ CountedQueue(S.at[r], w)
      BY <1>9, <2>1 DEF Counted
    <3> QED  BY <3>1 DEF SameCount, CountedQueue
  <2> QED  BY <1>7, <1>8, <1>10, <2>1
<1>12. ASSUME NEW i \in DOMAIN w  PROVE Held(T, w[i].progr) # {}
  <2>1. PICK r \in Alloc(S) : S.at[r].player = w[i].progr
    BY DEF Counted, Held
  <2>2. CASE r \in Held(S, new)
    <3>1. w[i].progr = new /\ q \in Alloc(T)
      BY <1>2, <2>1, <2>2 DEF Held
    <3> QED  BY <1>6, <3>1 DEF Held
  <2>3. CASE r # q /\ r \notin Held(S, new)
    BY <1>2, <1>9, <2>1, <2>3 DEF Held, SameCount
  <2>4. CASE r = q
    <3>1. i \in TasksOf(w, old)
      BY <2>1, <2>4 DEF TasksOf
    <3>2. n # 0
      BY <1>4, <3>1, CountType
    <3>3. Held(S, old) = {q}
      BY <1>2, <1>3 DEF Held, OnePerPlayer
    <3>4. Alloc(T) # Alloc(S)
      BY <1>1, <3>2, <3>3 DEF Reassociated
    <3>5. PICK x \in Alloc(T) : x \notin Alloc(S)
      BY <1>2, <3>4
    <3> QED  BY <1>10, <2>1, <2>4, <3>5 DEF Held
  <2> QED  BY <2>2, <2>3, <2>4
<1> QED  BY <1>11, <1>12 DEF Counted, T

CountInv == Counted(queues, waiting) /\ ext = <<>>

LEMMA CountNetworkStep ==
    ASSUME IInv, CountInv, NetworkStep
    PROVE  CountInv'
<1>0. /\ Sound(queues) /\ Counted(queues, waiting) /\ waiting \in Seq(Task) /\ ext = <<>>
  BY DEF IInv, CountInv, TypesButQueues
<1>1. ASSUME NEW g \in Guest, NEW inbound \in BOOLEAN, NewConnection(g, inbound)
      PROVE  CountInv'
  <2> DEFINE q == FindTQueue(queues, g)
             S0 == WithTQueue(queues, g)
             S1 == [S0 EXCEPT !.at[q].connected = TRUE]
             t == [S0.at[q] EXCEPT !.connected = TRUE]
  <2>1. g \in Player /\ Held(queues, g) = {} /\ Room(queues, g) /\ g # NOTHING
    BY <1>1, PlayerIsSomeone DEF NewConnection, Player
  <2>2. Counted(S0, waiting)
    BY <1>0, <2>1, WithTQueueCounts
  <2>3. Sound(S0) /\ q \in Alloc(S0) /\ S0.at[q] = NewTQueue(g)
    <3>1. Sound(queues)
      BY <1>0
    <3>2. /\ Leads(queues, S0) /\ Sound(S0) /\ q \in Alloc(S0) /\ S0.at[q].player = g
          /\ \A r \in Alloc(queues) : S0.at[r] = queues.at[r]
          /\ Held(queues, g) # {} => S0 = queues
          /\ Held(queues, g) = {} =>
                /\ Alloc(S0) = Alloc(queues) \cup {q} /\ q \notin Alloc(queues)
                /\ S0.at[q] = NewTQueue(g)
      BY <2>1, <3>1, WithTQueueIs
    <3> QED  BY <2>1, <3>2
  <2> HIDE DEF S0, q
  <2>4. q \in Queue
    BY <2>3, IdleInQueue
  <2>5. Assigned(S0, S1, q, t)
    <3>1. \A c \in BOOLEAN : ~S0.at[q].input_suspended =>
              Assigned(S0, [S0 EXCEPT !.at[q].connected = c], q, [S0.at[q] EXCEPT !.connected = c])
      BY <2>3, <2>4, FieldAssignments
    <3>2. ~S0.at[q].input_suspended
      BY <2>3 DEF NewTQueue
    <3> QED  BY <3>1, <3>2
  <2>6. /\ t.player = g /\ t.bg = <<>> /\ t.num_bg = 0
        /\ S0.at[q].bg = <<>> /\ S0.at[q].num_bg = 0 /\ S0.at[q].player = g
    BY <2>3 DEF NewTQueue
  <2> HIDE DEF t, S1
  <2>7. Count(waiting, g) = 0
    BY <1>0, <2>1, NoQueueNoTask
  <2>8. CountedQueue(t, waiting)
    BY <2>1, <2>6, <2>7, NoTaskCounts
  <2>9. \A i \in DOMAIN waiting : \E j \in DOMAIN waiting : waiting[j].progr = waiting[i].progr
    OBVIOUS
  <2>10. Counted(S1, waiting)
    BY <1>0, <2>1, <2>2, <2>3, <2>5, <2>6, <2>8, <2>9, OneAssignedCounts
  <2>11. Sound(S1) /\ q \in Alloc(S1) /\ "blank" \in Line
    BY <2>3, <2>5, DomainsAssumption DEF Leads, Assigned
  <2>12. Counted(EnqueueInput(S1, q, "blank", FALSE), waiting)
    BY <1>0, <2>10, <2>11, EnqueueInputCounts
  <2>13. Counted(queues', waiting)
    BY <1>1, <2>10, <2>12 DEF NewConnection, S1, S0, q
  <2> QED  BY <1>0, <1>1, <2>13 DEF NewConnection, CountInv
<1>2. ASSUME NEW q \in Queue, NEW l \in Line, ReceiveLine(q, l)
      PROVE  CountInv'
  BY <1>0, <1>2, EnqueueInputCounts DEF ReceiveLine, CountInv
<1>3. ASSUME NEW q \in Queue, ReceiveFlush(q)
      PROVE  CountInv'
  BY <1>0, <1>3, DropInputCounts DEF ReceiveFlush, CountInv
<1>4. ASSUME NEW q \in Queue, CloseConnection(q)
      PROVE  CountInv'
  BY <1>0, <1>4 DEF CloseConnection, CountInv
<1>5. ~ResumeExternal
  BY <1>0 DEF ResumeExternal
<1>6. ASSUME ServerTask
      PROVE  CountInv'
  BY <1>0, <1>6 DEF ServerTask, CountInv
<1> QED  BY <1>1, <1>2, <1>3, <1>4, <1>5, <1>6 DEF NetworkStep

LEMMA CountLoopStep ==
    ASSUME IInv, CountInv, LoopStep, IInv'
    PROVE  CountInv'
<1>0. /\ Sound(queues) /\ Counted(queues, waiting) /\ waiting \in Seq(Task) /\ ext = <<>>
      /\ queues \in Queues /\ \A q \in Queue : queues.at[q] \in TQueue
      /\ now \in Nat /\ start \in Nat /\ start <= now
  BY IdleInQueue, AllocInQueue DEF IInv, CountInv, TypesButQueues, Sound
<1>00. Serving => queues.active # <<>> /\ Served \in Queue /\ Served \in Alloc(queues)
  BY <1>0, AllocInQueue DEF Sound, Serving, Served, Alloc, QueuesTypeOK
<1>1. CASE RunReadyTasks \/ WakeDone \/ ServedNone
  BY <1>0, <1>1 DEF RunReadyTasks, WakeDone, ServedNone, CountInv
<1>2. CASE WakeTask
  <2> DEFINE t == Head(waiting)
             p == t.progr
             v == Tail(waiting)
  <2>1. Without(v, waiting, 1) /\ t = waiting[1]
    BY <1>0, <1>2, TailWithout DEF WakeTask, FirstIsDue
  <2>2. t \in Task
    BY <1>0, <2>1, LenProperties, ElementOfSeq DEF Without
  <2>3. p \in Player
    BY <2>2 DEF Task
  <2>4. /\ Room(queues, p) /\ waiting' = v /\ ext' = ext
        /\ queues' = EnqueueBg(EnsureUsage(WithTQueue(queues, p), FindTQueue(queues, p)),
                               FindTQueue(queues, p), t)
    BY <1>2 DEF WakeTask
  <2>5. t.progr = p /\ waiting[1].progr = p
    BY <2>1
  <2> HIDE DEF t, p, v
  <2>6. Counted(queues', v)
    BY <1>0, <2>1, <2>2, <2>3, <2>4, <2>5, ReadyTaskCounts
  <2> QED  BY <1>0, <2>4, <2>6 DEF CountInv
\* A run starts.
<1>3. ASSUME NEW id, NEW login, StartRun(Served, id, login), Counted(queues', waiting)
      PROVE  CountInv'
  BY <1>0, <1>3 DEF StartRun, CountInv
<1>4. CASE ResumeReaderAtEnd
  <2> DEFINE t == [queues.at[Served] EXCEPT !.reading = NoTask]
  <2>1. Serving /\ Served \in Queue /\ Served \in Alloc(queues)
    BY <1>00, <1>4 DEF ResumeReaderAtEnd
  <2>2. \A id \in Id \cup {NoTask} :
            Assigned(queues, [queues EXCEPT !.at[Served].reading = id], Served,
                     [queues.at[Served] EXCEPT !.reading = id])
    BY <1>0, <2>1, FieldAssignments
  <2>3. Assigned(queues, queues', Served, t)
    BY <1>4, <2>2 DEF ResumeReaderAtEnd
  <2>4. SameCount(queues.at[Served], t)
    BY <1>0, <2>1 DEF TQueue, SameCount
  <2> HIDE DEF t
  <2>5. Counted(queues', waiting)
    BY <1>0, <2>1, <2>3, <2>4, AssignedCounts
  <2> QED  BY <1>3, <1>4, <2>5 DEF ResumeReaderAtEnd
<1>5. CASE OutOfBandCommand \/ CommandTask
  <2>1. /\ Served \in Alloc(queues) /\ queues.at[Served].input # <<>>
        /\ queues' = DequeueInput(queues, Served)
    BY <1>00, <1>5 DEF OutOfBandCommand, CommandTask, TakesInput
  <2>2. Counted(queues', waiting)
    BY <1>0, <2>1, DequeueInputCounts
  <2> QED  BY <1>3, <1>5, <2>2 DEF OutOfBandCommand, CommandTask
<1>6. CASE ResumeReader
  <2> DEFINE S1 == DequeueInput(queues, Served)
             t == [S1.at[Served] EXCEPT !.reading = NoTask]
  <2>0. Served \in Alloc(queues) /\ Served \in Queue /\ queues.at[Served].input # <<>>
    BY <1>00, <1>6 DEF ResumeReader, TakesInput
  <2>1. Counted(S1, waiting)
    BY <1>0, <2>0, DequeueInputCounts
  <2>2. Leads(queues, S1) /\ LinesTaken(queues, S1, Served) /\ S1.active = queues.active
        /\ S1.idle = queues.idle /\ Alloc(S1) = Alloc(queues)
    BY <1>0, <2>0, DequeueInputProperties
  <2>3. queues' = [S1 EXCEPT !.at[Served].reading = NoTask]
    BY <1>6 DEF ResumeReader
  <2> HIDE DEF S1
  <2>4. Sound(S1) /\ S1.at[Served] \in TQueue
    BY <2>0, <2>2, IdleInQueue DEF Leads
  <2>5. \A id \in Id \cup {NoTask} :
            Assigned(S1, [S1 EXCEPT !.at[Served].reading = id], Served,
                     [S1.at[Served] EXCEPT !.reading = id])
    BY <2>0, <2>4, FieldAssignments
  <2>6. Assigned(S1, queues', Served, t)
    BY <2>3, <2>5
  <2>7. SameCount(S1.at[Served], t)
    BY <2>4 DEF TQueue, SameCount
  <2> HIDE DEF t
  <2>8. Counted(queues', waiting)
    BY <1>0, <2>0, <2>1, <2>2, <2>4, <2>6, <2>7, AssignedCounts
  <2> QED  BY <1>3, <1>6, <2>8 DEF ResumeReader
<1>7. CASE SkipBlank
  <2>1. /\ Served \in Alloc(queues) /\ queues.at[Served].input # <<>>
        /\ queues' = DequeueInput(queues, Served)
    BY <1>00, <1>7 DEF SkipBlank, TakesInput
  <2>2. Counted(queues', waiting)
    BY <1>0, <2>1, DequeueInputCounts
  <2> QED  BY <1>0, <1>7, <2>2 DEF SkipBlank, CountInv
<1>8. CASE BackgroundTask
  <2> DEFINE s == queues.at[Served].bg
             t == [queues.at[Served] EXCEPT !.bg = Tail(s), !.num_bg = queues.at[Served].num_bg - 1]
             p == queues.at[Served].player
  <2>1. Served \in Alloc(queues) /\ Served \in Queue /\ s # <<>>
    BY <1>00, <1>8 DEF BackgroundTask, TakesBg
  <2>2. Assigned(queues, queues', Served, t)
    BY <1>0, <1>8, <2>1, DequeueBgProperties DEF BackgroundTask
  <2>3. s \in Seq(TaskOf(p))
    BY <1>0, <2>1, QueueOfPlayer
  <2>4. /\ t.player = p /\ t.connected = queues.at[Served].connected
        /\ t.num_bg = queues.at[Served].num_bg - 1 /\ t.bg = Tail(s)
    BY <1>0, <2>1 DEF TQueue
  <2>5. Tail(s) \in Seq(TaskOf(p)) /\ Len(Tail(s)) = Len(s) - 1
    <3> HIDE DEF s, p
    <3> QED  BY <2>1, <2>3, HeadTailProperties
  <2> HIDE DEF t
  <2>6. Counted(queues', waiting)
    BY <1>0, <2>1, <2>2, <2>4, <2>5, ReadyTaskGoneCounts
  <2> QED  BY <1>3, <1>8, <2>6 DEF BackgroundTask
<1>9. CASE DeactivateServed
  <2>1. /\ Sound(queues') /\ queues'.idle = queues.idle \cup {Head(queues.active)}
        /\ Alloc(queues') = Alloc(queues) /\ \A r \in Queue : Same(queues, queues', r)
    BY <1>0, <1>00, <1>9, DeactivateHeadProperties DEF DeactivateServed
  <2>2. Counted(queues', waiting)
    BY <1>0, <2>1, SameCounts
  <2> QED  BY <1>0, <1>9, <2>2 DEF DeactivateServed, CountInv
<1>10. CASE FinishServed
  <2>1. queues.active # <<>> /\ Head(queues.active) = cur.q
    BY <1>10 DEF FinishServed, RunOK, IInv
  <2>2. /\ Sound(queues') /\ Alloc(queues') = Alloc(queues) /\ queues'.idle = queues.idle
        /\ \A r \in Queue : Same(queues, queues', r)
    BY <1>0, <1>10, <2>1, BumpProperties DEF FinishServed
  <2>3. Counted(queues', waiting)
    BY <1>0, <2>2, SameCounts
  <2> QED  BY <1>0, <1>10, <2>3 DEF FinishServed, CountInv
<1>11. CASE FinishServerTask
  <2>1. cur.closing # NoQueue => cur.closing \in Alloc(queues)
    BY DEF IInv, RunOK
  <2>2. Counted(queues', waiting)
    BY <1>0, <1>11, <2>1, FreeTaskQueueCounts DEF FinishServerTask
  <2> QED  BY <1>0, <1>11, <2>2 DEF FinishServerTask, CountInv
\* Only queues that count no task are freed.
<1>12. CASE FreeIdle
  <2>1. /\ Sound(queues)' /\ queues'.active = queues.active /\ queues'.idle \subseteq queues.idle
        /\ \A q \in Alloc(queues') : q \in Alloc(queues) /\ queues'.at[q] = queues.at[q]
        /\ \A q \in Alloc(queues) \ Alloc(queues') : Empty(queues.at[q])
    BY <1>0, <1>12, FreeIdleSound
  <2>2. waiting' = waiting /\ ext' = ext
    BY <1>12 DEF FreeIdle
  <2>3. ASSUME NEW i \in DOMAIN waiting  PROVE Held(queues', waiting[i].progr) # {}
    <3>1. PICK q \in Alloc(queues) : queues.at[q].player = waiting[i].progr
      BY <1>0 DEF Counted, Held
    <3>2. queues.at[q].num_bg # 0
      <4> DEFINE p == waiting[i].progr
                 c == Count(waiting, p)
                 l == Len(queues.at[q].bg)
      <4>1. i \in TasksOf(waiting, p)
        BY DEF TasksOf
      <4>2. c \in Nat /\ c # 0
        BY <1>0, <4>1, CountType
      <4>3. queues.at[q].num_bg = l + c /\ l \in Nat
        BY <1>0, <3>1, QueueOfPlayer
      <4> HIDE DEF p, c, l
      <4>4. l + c # 0
        BY <4>2, <4>3
      <4> QED  BY <4>3, <4>4
    <3>3. q \in Alloc(queues')
      BY <2>1, <3>2 DEF Empty
    <3>4. queues'.at[q].player = waiting[i].progr
      BY <2>1, <3>1, <3>3
    <3> QED  BY <3>3, <3>4 DEF Held
  <2>4. Counted(queues', waiting)
    BY <1>0, <2>1, <2>3 DEF Counted
  <2> QED  BY <1>0, <2>2, <2>4 DEF CountInv
<1> QED  BY <1>1, <1>2, <1>4, <1>5, <1>6, <1>7, <1>8, <1>9, <1>10, <1>11, <1>12 DEF LoopStep

\* No task goes to the queue of read_stdin(), where it would not be counted.
LEMMA CountTaskStep ==
    ASSUME IInv, CountInv, TaskStep, "read_stdin" \notin Builtins
    PROVE  CountInv'
<1>0. /\ Sound(queues) /\ Counted(queues, waiting) /\ waiting \in Seq(Task) /\ ext = <<>>
      /\ queues \in Queues /\ now \in Nat /\ \A q \in Queue : queues.at[q] \in TQueue
  BY IdleInQueue, AllocInQueue DEF IInv, CountInv, TypesButQueues, Sound
<1>1. ASSUME NEW id \in Id, NEW p \in Programmer, NEW d \in Delay,
             Fork(id, p, d) \/ Suspend(id, p, d)
      PROVE  CountInv'
  <2> DEFINE kind == IF Fork(id, p, d) THEN "forked" ELSE "suspended"
             t == [id |-> id, kind |-> kind, progr |-> p, start |-> StartTime(d)]
             v == InsertWaiting(waiting, t)
  <2>1. t \in Task /\ p \in Player
    BY <1>0, StartTimeType, PlayersAssumption DEF Task
  <2>2. /\ queues' = CountIn(queues, p) /\ Room(queues, p) /\ UnderLimit(p)
        /\ waiting' = v /\ ext' = ext
    BY <1>1 DEF Fork, Suspend, EnqueueWaiting
  <2>3. t.progr = p
    OBVIOUS
  <2> HIDE DEF t
  <2>4. PICK k : Without(waiting, v, k) /\ v[k] = t
    BY <1>0, <2>1, InsertWaitingWithout
  <2> HIDE DEF v
  <2>5. IF Held(queues, p) = {} THEN 0 < Limit ELSE queues.at[Owner(queues, p)].num_bg < Limit
    BY <2>2 DEF UnderLimit
  <2>55. v[k].progr = p
    BY <2>3, <2>4
  <2>6. Counted(CountIn(queues, p), v)
    BY <1>0, <2>1, <2>2, <2>4, <2>5, <2>55, CountInCounts
  <2> QED  BY <1>0, <2>2, <2>6 DEF CountInv
<1>2. \A id \in Id, p \in Programmer : ~ReadStdin(id, p)
  BY DEF ReadStdin, Calls
<1>3. \A i \in DOMAIN ext : ~KillExternal(i)
  BY <1>0
<1>4. ASSUME NEW id \in Id, NEW p \in Player, Read(id, p)
      PROVE  CountInv'
  <2> DEFINE q == Owner(queues, p)
             S1 == [queues EXCEPT !.at[q].reading = id]
             t == [queues.at[q] EXCEPT !.reading = id]
  <2>1. q \in Alloc(queues)
    BY <1>0, <1>4, FoundQueue DEF Read
  <2>2. queues' = IF queues.at[q].input # <<>> THEN EnsureUsage(S1, q) ELSE S1
    BY <1>4 DEF Read
  <2> HIDE DEF q
  <2>3. q \in Queue /\ queues.at[q] \in TQueue
    BY <1>0, <2>1, IdleInQueue
  <2>4. \A x \in Id \cup {NoTask} :
            Assigned(queues, [queues EXCEPT !.at[q].reading = x], q,
                     [queues.at[q] EXCEPT !.reading = x])
    BY <1>0, <2>3, FieldAssignments
  <2>5. Assigned(queues, S1, q, t)
    BY <2>4
  <2>6. SameCount(queues.at[q], t)
    BY <2>3 DEF TQueue, SameCount
  <2> HIDE DEF t, S1
  <2>7. Counted(S1, waiting)
    BY <1>0, <2>1, <2>5, <2>6, AssignedCounts
  <2>8. Sound(S1) /\ q \in Alloc(S1)
    BY <2>1, <2>5 DEF Assigned, Leads
  <2>9. Counted(EnsureUsage(S1, q), waiting)
    BY <1>0, <2>7, <2>8, EnsureUsageCounts
  <2> QED  BY <1>0, <1>4, <2>2, <2>7, <2>9 DEF Read, CountInv
<1>5. ASSUME NEW p \in Player, ReadNow(p)
      PROVE  CountInv'
  <2>1. Counted(queues', waiting)
    BY <1>0, <1>5, FoundQueue, DequeueInputCounts DEF ReadNow
  <2> QED  BY <1>0, <1>5, <2>1 DEF ReadNow, CountInv
<1>6. ASSUME NEW p \in Player, FlushInput(p)
      PROVE  CountInv'
  <2> DEFINE S0 == WithTQueue(queues, p)
             q == FindTQueue(queues, p)
  <2>1. Room(queues, p) /\ queues' = DropInput(S0, q)
    BY <1>6 DEF FlushInput
  <2>2. Counted(S0, waiting)
    BY <1>0, <2>1, WithTQueueCounts
  <2>3. Sound(S0) /\ q \in Alloc(S0)
    <3>1. Leads(queues, S0)
      BY <1>0, <2>1, WithTQueueCalms, WithTQueueProperties
    <3>2. q \in Alloc(S0)
      BY <1>0, <2>1, FoundIn
    <3> QED  BY <3>1, <3>2 DEF Leads
  <2> HIDE DEF S0, q
  <2>4. Counted(queues', waiting)
    BY <1>0, <2>1, <2>2, <2>3, DropInputCounts
  <2> QED  BY <1>0, <1>6, <2>4 DEF FlushInput, CountInv
<1>7. ASSUME NEW p \in Player, NEW l \in Line, NEW atFront \in BOOLEAN, ForceInput(p, l, atFront)
      PROVE  CountInv'
  <2> DEFINE S0 == WithTQueue(queues, p)
             q == FindTQueue(queues, p)
  <2>1. Room(queues, p) /\ queues' = EnqueueInput(S0, q, l, atFront)
    BY <1>7 DEF ForceInput
  <2>2. Counted(S0, waiting)
    BY <1>0, <2>1, WithTQueueCounts
  <2>3. Sound(S0) /\ q \in Alloc(S0)
    <3>1. Leads(queues, S0)
      BY <1>0, <2>1, WithTQueueCalms, WithTQueueProperties
    <3>2. q \in Alloc(S0)
      BY <1>0, <2>1, FoundIn
    <3> QED  BY <3>1, <3>2 DEF Leads
  <2> HIDE DEF S0, q
  <2>4. Counted(queues', waiting)
    BY <1>0, <2>1, <2>2, <2>3, EnqueueInputCounts
  <2> QED  BY <1>0, <1>7, <2>4 DEF ForceInput, CountInv
<1>8. ASSUME NEW i \in DOMAIN waiting, KillWaiting(i)
      PROVE  CountInv'
  <2> DEFINE p == waiting[i].progr
             q == Owner(queues, p)
             n == queues.at[q].num_bg - 1
             v == RemoveAt(waiting, i)
  <2>1. p \in Player
    <3>1. waiting[i] \in Task
      BY <1>0, LenProperties, ElementOfSeq
    <3> QED  BY <3>1 DEF Task
  <2>2. Without(v, waiting, i)
    BY <1>0, RemoveAtWithout
  <2>3. Held(queues, p) # {}
    BY <1>0 DEF Counted
  <2>4. q \in Alloc(queues) /\ queues.at[q].player = p
    BY <1>0, <2>1, <2>3, FoundQueue
  <2>5. queues' = [queues EXCEPT !.at[q].num_bg = n] /\ waiting' = v /\ ext' = ext
    BY <1>8, <2>3 DEF KillWaiting
  <2>6. waiting[i].progr = p /\ n = queues.at[q].num_bg - 1
    OBVIOUS
  <2> HIDE DEF p, q, n, v
  <2>7. Counted([queues EXCEPT !.at[q].num_bg = n], v)
    BY <1>0, <2>1, <2>2, <2>4, <2>6, UncountedCounts
  <2> QED  BY <1>0, <2>5, <2>7 DEF CountInv
<1>9. ASSUME NEW i \in DOMAIN waiting, Resume(i)
      PROVE  CountInv'
  <2> DEFINE t == [waiting[i] EXCEPT !.start = now]
             p == t.progr
             v == RemoveAt(waiting, i)
  <2>1. waiting[i] \in Task
    BY <1>0, LenProperties, ElementOfSeq
  <2>2. t \in Task /\ p \in Player /\ waiting[i].progr = p
    BY <1>0, <2>1 DEF Task
  <2>3. /\ Room(queues, p) /\ waiting' = v /\ ext' = ext
        /\ queues' = EnqueueBg(EnsureUsage(WithTQueue(queues, p), FindTQueue(queues, p)),
                               FindTQueue(queues, p), t)
    BY <1>9 DEF Resume
  <2>4. Without(v, waiting, i) /\ t.progr = p
    BY <1>0, RemoveAtWithout
  <2> HIDE DEF t, p, v
  <2>5. Counted(queues', v)
    BY <1>0, <2>2, <2>3, <2>4, ReadyTaskCounts
  <2> QED  BY <1>0, <2>3, <2>5 DEF CountInv
<1>10. ASSUME NEW q \in Queue, KillReader(q)
       PROVE  CountInv'
  <2> DEFINE t == [queues.at[q] EXCEPT !.reading = NoTask]
  <2>1. \A x \in Id \cup {NoTask} :
            Assigned(queues, [queues EXCEPT !.at[q].reading = x], q,
                     [queues.at[q] EXCEPT !.reading = x])
    BY <1>0, FieldAssignments
  <2>2. Assigned(queues, queues', q, t) /\ q \in Alloc(queues)
    BY <1>10, <2>1 DEF KillReader
  <2>3. SameCount(queues.at[q], t)
    BY <1>0 DEF TQueue, SameCount
  <2> HIDE DEF t
  <2>4. Counted(queues', waiting)
    BY <1>0, <2>2, <2>3, AssignedCounts
  <2> QED  BY <1>0, <1>10, <2>4 DEF KillReader, CountInv
<1>11. ASSUME NEW q \in Queue, NEW i \in DOMAIN queues.at[q].bg, KillReady(q, i)
       PROVE  CountInv'
  <2> DEFINE s == queues.at[q].bg
             b == RemoveAt(s, i)
             n == queues.at[q].num_bg - 1
             t == [queues.at[q] EXCEPT !.bg = b, !.num_bg = n]
             p == queues.at[q].player
  <2>1. q \in Alloc(queues) /\ s # <<>>
    <3>1. s \in Seq(Task)
      BY <1>0 DEF TQueue
    <3>2. s # <<>>
      BY <3>1
    <3> QED  BY <1>11, <3>2 DEF KillReady, Alloc
  <2>2. s \in Seq(TaskOf(p)) /\ s \in Seq(Task) /\ n \in Int
    BY <1>0, <2>1, QueueOfPlayer
  <2>3. b \in Seq(TaskOf(p)) /\ b \in Seq(Task) /\ Len(b) = Len(s) - 1
    <3>1. i \in 1..Len(s)
      BY <2>2, LenProperties
    <3> HIDE DEF s, p
    <3> QED  BY <2>2, <3>1, RemoveAtIs
  <2>4. queues' = [queues EXCEPT !.at[q].bg = b, !.at[q].num_bg = n]
    <3>1. queues' = [queues EXCEPT !.at[q].bg = RemoveAt(@, i), !.at[q].num_bg = @ - 1]
      BY <1>11 DEF KillReady
    <3> QED  BY <1>0, <3>1 DEF Queues, TQueue
  <2> HIDE DEF b, n
  <2>5. \A c \in Seq(Task), m \in Int :
            Assigned(queues, [queues EXCEPT !.at[q].bg = c, !.at[q].num_bg = m], q,
                     [queues.at[q] EXCEPT !.bg = c, !.num_bg = m])
    BY <1>0, FieldAssignments
  <2>6. Assigned(queues, queues', q, t)
    BY <2>2, <2>3, <2>4, <2>5
  <2>7. /\ t.player = p /\ t.connected = queues.at[q].connected
        /\ t.num_bg = queues.at[q].num_bg - 1 /\ t.bg = b
    BY <1>0 DEF TQueue, n
  <2> HIDE DEF t
  <2>8. Counted(queues', waiting)
    BY <1>0, <2>1, <2>3, <2>6, <2>7, ReadyTaskGoneCounts
  <2> QED  BY <1>0, <1>11, <2>8 DEF KillReady, CountInv
<1>12. ASSUME NEW q \in Queue, NEW hold \in BOOLEAN, SetHoldInput(q, hold)
       PROVE  CountInv'
  <2> DEFINE S1 == [queues EXCEPT !.at[q].hold_input = hold]
             t == [queues.at[q] EXCEPT !.hold_input = hold]
  <2>1. /\ q \in Alloc(queues)
        /\ queues' = IF ~hold /\ queues.at[q].input # <<>> THEN EnsureUsage(S1, q) ELSE S1
    BY <1>12 DEF SetHoldInput
  <2>2. \A c \in BOOLEAN : Assigned(queues, [queues EXCEPT !.at[q].hold_input = c], q,
                                   [queues.at[q] EXCEPT !.hold_input = c])
    BY <1>0, FieldAssignments
  <2>3. Assigned(queues, S1, q, t)
    BY <2>2
  <2>4. SameCount(queues.at[q], t)
    BY <1>0 DEF TQueue, SameCount
  <2> HIDE DEF t, S1
  <2>5. Counted(S1, waiting)
    BY <1>0, <2>1, <2>3, <2>4, AssignedCounts
  <2>6. Sound(S1) /\ q \in Alloc(S1)
    BY <2>1, <2>3 DEF Assigned, Leads
  <2>7. Counted(EnsureUsage(S1, q), waiting)
    BY <1>0, <2>5, <2>6, EnsureUsageCounts
  <2> QED  BY <1>0, <1>12, <2>1, <2>5, <2>7 DEF SetHoldInput, CountInv
<1>13. ASSUME NEW q \in Alloc(queues), NEW new \in User, queues.at[q].connected,
              queues.at[q].player # new, CanLeaveTasks(queues, q),
              queues' = Reassociate(queues, q, new), waiting' = waiting, ext' = ext
       PROVE  CountInv'
  <2>1. new \in Player
    BY DEF Player
  <2>2. Counted(Reassociate(queues, q, new), waiting)
    BY <1>0, <1>13, <2>1, ReassociateCounts
  <2> QED  BY <1>0, <1>13, <2>2 DEF CountInv
<1>14. ASSUME NEW q \in Queue, NEW new \in User, ReconnectPlayer(q, new)
       PROVE  CountInv'
  BY <1>13, <1>14 DEF ReconnectPlayer
<1>15. ASSUME NEW new \in User, Login(new)
       PROVE  CountInv'
  <2>1. cur.q \in Alloc(queues)
    BY <1>0, <1>15, AllocInQueue DEF Login, IInv, RunOK, Sound, Alloc
  <2> QED  BY <1>13, <1>15, <2>1 DEF Login
<1> QED  BY <1>1, <1>2, <1>3, <1>4, <1>5, <1>6, <1>7, <1>8, <1>9, <1>10, <1>11, <1>12,
            <1>14, <1>15 DEF TaskStep

LEMMA CountNext ==
    ASSUME IInv, CountInv, [Next]_vars, IInv', "read_stdin" \notin Builtins
    PROVE  CountInv'
<1>1. CASE NetworkStep
  BY <1>1, CountNetworkStep
<1>2. CASE LoopStep
  BY <1>2, CountLoopStep
<1>3. CASE TaskStep
  BY <1>3, CountTaskStep
<1>4. CASE EndTask \/ Tick \/ UNCHANGED vars
  BY <1>4 DEF EndTask, Tick, vars, CountInv
<1> QED  BY <1>1, <1>2, <1>3, <1>4 DEF Next

LEMMA CountAlways ==
    ASSUME "read_stdin" \notin Builtins
    PROVE  Spec => [](IInv /\ CountInv)
<1>1. Init => IInv /\ CountInv
  <2>1. Init => CountInv
    <3> SUFFICES ASSUME Init  PROVE CountInv
      OBVIOUS
    <3>1. queues.idle = {} /\ Alloc(queues) = {} /\ waiting = <<>> /\ ext = <<>>
      BY DEF Init, Alloc, Range
    <3> QED  BY <3>1 DEF CountInv, Counted
  <2> QED  BY <2>1, IInvInit
<1>2. (IInv /\ CountInv) /\ [Next]_vars => (IInv /\ CountInv)'
  BY IInvInductive, CountNext
<1> QED  BY <1>1, <1>2, PTL DEF Spec

\* num_bg_tasks says how many tasks of a player are queued: forks, wakeups,
\* kills, logins that move the tasks from queue to queue and freed queues
\* keep it exact, as long as no task calls read_stdin() (whose tasks are
\* discounted when they run and were never counted).
THEOREM TasksCounted ==
    ASSUME "read_stdin" \notin Builtins
    PROVE  Spec => []BgCounted
<1>1. CountInv => BgCounted
  <2> SUFFICES ASSUME CountInv  PROVE BgCounted
    OBVIOUS
  <2>1. Counted(queues, waiting)
    BY DEF CountInv
  <2>2. \A q \in Alloc(queues) :
            queues.at[q].num_bg = Len(queues.at[q].bg) + Cardinality(WaitingOf(queues.at[q].player))
    BY <2>1 DEF Counted, CountedQueue, Count, TasksOf, WaitingOf
  <2> QED  BY <2>1, <2>2 DEF BgCounted, Counted
<1> QED  BY <1>1, CountAlways, PTL

\* The ready tasks of a queue are those of the player it is for, though the
\* queues of connections change players: a task's permissions are those of
\* the queue that kill_task() finds it in.
THEOREM ReadyTasksOwned ==
    ASSUME "read_stdin" \notin Builtins
    PROVE  Spec => []ReadyTaskOfOwner
<1>1. IInv /\ CountInv => ReadyTaskOfOwner
  <2> SUFFICES ASSUME IInv, CountInv, NEW q \in Alloc(queues), NEW t \in Range(queues.at[q].bg)
               PROVE  t.progr = queues.at[q].player
    BY DEF ReadyTaskOfOwner
  <2> DEFINE p == queues.at[q].player
             s == queues.at[q].bg
  <2>1. s \in Seq(TaskOf(p))
    BY DEF CountInv, Counted, CountedQueue
  <2> HIDE DEF s, p
  <2>2. t \in TaskOf(p)
    <3>1. t \in Range(s)
      BY DEF s
    <3> QED  BY <2>1, <3>1, LenProperties, ElementOfSeq DEF Range
  <2> QED  BY <2>2 DEF TaskOf, p
<1> QED  BY <1>1, CountAlways, PTL

LEMMA ReadyOfNone ==
    ASSUME IInv, CountInv, NEW p, Held(queues, p) = {}
    PROVE  ReadyOf(p) = {} /\ WaitingOf(p) = {}
<1>0. Sound(queues) /\ Counted(queues, waiting) /\ waiting \in Seq(Task)
  BY DEF IInv, CountInv, TypesButQueues
<1>1. WaitingOf(p) = {}
  BY <1>0 DEF Counted, WaitingOf
<1>2. ASSUME NEW q \in Alloc(queues), NEW j \in DOMAIN queues.at[q].bg
      PROVE  queues.at[q].bg[j].progr = queues.at[q].player
  <2> DEFINE x == queues.at[q].player
             s == queues.at[q].bg
  <2>1. s \in Seq(TaskOf(x))
    BY <1>0 DEF Counted, CountedQueue
  <2> HIDE DEF s, x
  <2>2. s[j] \in TaskOf(x)
    BY <2>1, LenProperties, ElementOfSeq DEF s
  <2> QED  BY <2>2 DEF TaskOf, s, x
<1>3. \A q \in Alloc(queues) : queues.at[q].player # p
  BY DEF Held
<1> QED  BY <1>1, <1>2, <1>3 DEF ReadyOf

LEMMA ReadyOfOne ==
    ASSUME IInv, CountInv, NEW p \in Player, NEW o \in Alloc(queues), queues.at[o].player = p
    PROVE  Cardinality(ReadyOf(p)) = Len(queues.at[o].bg)
<1>0. Sound(queues) /\ Counted(queues, waiting) /\ waiting \in Seq(Task)
  BY DEF IInv, CountInv, TypesButQueues
<1> DEFINE l == Len(queues.at[o].bg)
           R == {<<o, i>> : i \in 1..l}
<1>1. l \in Nat /\ DOMAIN queues.at[o].bg = 1..l
  <2> DEFINE s == queues.at[o].bg
  <2>1. s \in Seq(Task)
    BY <1>0, QueueOfPlayer
  <2> HIDE DEF s
  <2>2. Len(s) \in Nat /\ DOMAIN s = 1..Len(s)
    BY <2>1, LenProperties
  <2> QED  BY <2>2 DEF s
<1>2. ASSUME NEW q \in Alloc(queues), NEW j \in DOMAIN queues.at[q].bg
      PROVE  queues.at[q].bg[j].progr = queues.at[q].player
  <2> DEFINE x == queues.at[q].player
             s == queues.at[q].bg
  <2>1. s \in Seq(TaskOf(x))
    BY <1>0 DEF Counted, CountedQueue
  <2> HIDE DEF s, x
  <2>2. s[j] \in TaskOf(x)
    BY <2>1, LenProperties, ElementOfSeq DEF s
  <2> QED  BY <2>2 DEF TaskOf, s, x
<1>3. \A q \in Alloc(queues) : queues.at[q].player = p => q = o
  BY <1>0, PlayerIsSomeone DEF Sound, OnePerPlayer
<1>4. ReadyOf(p) = R
  <2>1. ASSUME NEW q \in Alloc(queues), q # o
        PROVE  {j \in DOMAIN queues.at[q].bg : queues.at[q].bg[j].progr = p} = {}
    BY <1>2, <1>3, <2>1
  <2>2. {j \in DOMAIN queues.at[o].bg : queues.at[o].bg[j].progr = p} = 1..l
    BY <1>1, <1>2
  <2> HIDE DEF l
  <2> QED  BY <2>1, <2>2 DEF ReadyOf
<1> HIDE DEF l
<1>5. ExistsBijection(1..l, R)
  <2> DEFINE f == [i \in 1..l |-> <<o, i>>]
  <2>1. f \in [1..l -> R] /\ \A x \in R : \E i \in 1..l : f[i] = x
    OBVIOUS
  <2>2. \A i, j \in 1..l : f[i] = f[j] => i = j
    OBVIOUS
  <2> HIDE DEF f, R
  <2> QED  BY <2>1, <2>2 DEF ExistsBijection, Bijection, Injection, IsInjective, Surjection
<1>6. IsFiniteSet(1..l) /\ Cardinality(1..l) = l
  <2>1. 1 \in Int /\ l \in Int
    BY <1>1
  <2>2. IsFiniteSet(1..l) /\ Cardinality(1..l) = IF 1 > l THEN 0 ELSE l - 1 + 1
    BY <2>1, FS_Interval
  <2> QED  BY <1>1, <2>2
<1>7. Cardinality(R) = l
  BY <1>5, <1>6, FS_Bijection
<1> QED  BY <1>4, <1>7 DEF l

\* queued_task_limit is a limit: check_user_task_limit() is asked only as a
\* task is queued, of one queue's count, and yet no player ever has more.
THEOREM QuotaKept ==
    ASSUME "read_stdin" \notin Builtins
    PROVE  Spec => []QuotaRespected
<1>1. IInv /\ CountInv => QuotaRespected
  <2> SUFFICES ASSUME IInv, CountInv, NEW p \in Programmer
               PROVE  Cardinality(WaitingOf(p)) + Cardinality(ReadyOf(p)) <= Limit
    BY DEF QuotaRespected
  <2>0. p \in Player /\ Sound(queues) /\ Counted(queues, waiting) /\ waiting \in Seq(Task)
    BY PlayersAssumption DEF IInv, CountInv, TypesButQueues
  <2>1. CASE Held(queues, p) = {}
    <3>1. ReadyOf(p) = {} /\ WaitingOf(p) = {}
      BY <2>1, ReadyOfNone
    <3>2. Cardinality({}) = 0 /\ Limit \in Nat
      BY FS_EmptySet, BoundsAssumption
    <3>3. Cardinality(WaitingOf(p)) = 0 /\ Cardinality(ReadyOf(p)) = 0
      BY <3>1, <3>2
    <3> QED  BY <3>2, <3>3
  <2>2. ASSUME NEW o \in Alloc(queues), queues.at[o].player = p
        PROVE  Cardinality(WaitingOf(p)) + Cardinality(ReadyOf(p)) <= Limit
    <3> DEFINE l == Len(queues.at[o].bg)
               c == Count(waiting, p)
    <3>1. Cardinality(ReadyOf(p)) = l
      BY <2>0, <2>2, ReadyOfOne
    <3>2. Cardinality(WaitingOf(p)) = c
      BY DEF WaitingOf, Count, TasksOf
    <3>3. queues.at[o].num_bg = l + c /\ queues.at[o].num_bg <= Limit /\ l \in Nat /\ c \in Nat /\ Limit \in Nat
      BY <2>0, <2>2, QueueOfPlayer
    <3> HIDE DEF l, c
    <3>4. c + l <= Limit
      BY <3>3
    <3> QED  BY <3>1, <3>2, <3>4
  <2> QED  BY <2>1, <2>2 DEF Held
<1> QED  BY <1>1, CountAlways, PTL
=============================================================================
