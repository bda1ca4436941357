----------------------- MODULE TaskPersistenceProofs ------------------------
(***************************************************************************)
(* The queues implement TaskLife, whatever the players, queues, tasks and  *)
(* bounds: no task is ever in two places, none is lost but by kill_task(), *)
(* and what a checkpoint wrote comes back after a crash.                   *)
(***************************************************************************)
EXTENDS TaskPersistence, TaskQueuesProofs

-----------------------------------------------------------------------------
(* Lists of tasks.                                                         *)

Ids(s) == {s[i].id : i \in DOMAIN s}
Distinct(s) == \A i, j \in DOMAIN s : s[i].id = s[j].id => i = j

LEMMA NoIds == Ids(<<>>) = {} /\ Distinct(<<>>)
BY DEF Ids, Distinct

LEMMA ConcatIds ==
    ASSUME NEW D, NEW s \in Seq(D), NEW t \in Seq(D)
    PROVE  /\ s \o t \in Seq(D) /\ Ids(s \o t) = Ids(s) \cup Ids(t)
           /\ Distinct(s) /\ Distinct(t) /\ Ids(s) \cap Ids(t) = {} => Distinct(s \o t)
<1> DEFINE u == s \o t
           m == Len(s)
           n == Len(t)
<1>1. /\ u \in Seq(D) /\ Len(u) = m + n /\ m \in Nat /\ n \in Nat
      /\ DOMAIN s = 1..m /\ DOMAIN t = 1..n /\ DOMAIN u = 1..m + n
      /\ \A i \in 1..m + n : u[i] = IF i <= m THEN s[i] ELSE t[i - m]
  BY ConcatProperties, LenProperties
<1> HIDE DEF u, m, n
<1>2. \A i \in 1..m : i \in 1..m + n /\ u[i] = s[i]
  BY <1>1
<1>3. \A i \in 1..n : i + m \in 1..m + n /\ u[i + m] = t[i]
  BY <1>1
<1>4. Ids(u) = Ids(s) \cup Ids(t)
  <2>1. ASSUME NEW i \in 1..m + n PROVE u[i].id \in Ids(s) \cup Ids(t)
    <3>1. CASE i <= m
      <4>1. i \in 1..m /\ u[i] = s[i]
        BY <1>1, <3>1
      <4> QED  BY <1>1, <4>1 DEF Ids
    <3>2. CASE ~(i <= m)
      <4>1. i - m \in 1..n /\ u[i] = t[i - m]
        BY <1>1, <3>2
      <4> QED  BY <1>1, <4>1 DEF Ids
    <3> QED  BY <3>1, <3>2
  <2>2. \A i \in 1..m : s[i].id \in Ids(u)
    BY <1>1, <1>2 DEF Ids
  <2>3. \A i \in 1..n : t[i].id \in Ids(u)
    BY <1>1, <1>3 DEF Ids
  <2>4. Ids(s) \subseteq Ids(u) /\ Ids(t) \subseteq Ids(u)
    BY <1>1, <2>2, <2>3 DEF Ids
  <2>5. Ids(u) \subseteq Ids(s) \cup Ids(t)
    BY <1>1, <2>1 DEF Ids
  <2> QED  BY <2>4, <2>5
<1>5. ASSUME Distinct(s), Distinct(t), Ids(s) \cap Ids(t) = {},
             NEW i \in 1..m + n, NEW j \in 1..m + n, u[i].id = u[j].id
      PROVE  i = j
  <2>1. CASE i <= m /\ j <= m
    <3>1. i \in DOMAIN s /\ j \in DOMAIN s /\ u[i] = s[i] /\ u[j] = s[j]
      BY <1>1, <2>1
    <3>2. s[i].id = s[j].id
      BY <1>5, <3>1
    <3> QED  BY <1>5, <3>1, <3>2 DEF Distinct
  <2>2. CASE i > m /\ j > m
    <3>1. i - m \in 1..n /\ j - m \in 1..n /\ u[i] = t[i - m] /\ u[j] = t[j - m]
      BY <1>1, <2>2
    <3>2. i - m = j - m
      BY <1>1, <1>5, <3>1 DEF Distinct
    <3> QED  BY <1>1, <3>2
  <2>3. ASSUME NEW k \in 1..m + n, NEW l \in 1..m + n, k <= m, l > m
        PROVE  u[k].id # u[l].id
    <3>1. l - m \in 1..n /\ u[l] = t[l - m] /\ k \in 1..m /\ u[k] = s[k]
      BY <1>1, <2>3
    <3> QED  BY <1>1, <1>5, <3>1 DEF Ids
  <2> QED  BY <1>1, <1>5, <2>1, <2>2, <2>3
<1>6. Distinct(s) /\ Distinct(t) /\ Ids(s) \cap Ids(t) = {} => Distinct(u)
  BY <1>1, <1>5 DEF Distinct
<1> QED  BY <1>1, <1>4, <1>6 DEF u

LEMMA OneId == \A D : \A t \in D : <<t>> \in Seq(D) /\ Ids(<<t>>) = {t.id} /\ Distinct(<<t>>)
BY DEF Ids, Distinct

LEMMA AppendIds ==
    ASSUME NEW D, NEW s \in Seq(D), NEW t \in D
    PROVE  /\ Append(s, t) \in Seq(D) /\ Ids(Append(s, t)) = Ids(s) \cup {t.id}
           /\ Distinct(s) /\ t.id \notin Ids(s) => Distinct(Append(s, t))
<1>1. Append(s, t) = s \o <<t>>
  OBVIOUS
<1>2. <<t>> \in Seq(D) /\ Ids(<<t>>) = {t.id} /\ Distinct(<<t>>)
  BY OneId
<1>3. /\ s \o <<t>> \in Seq(D) /\ Ids(s \o <<t>>) = Ids(s) \cup Ids(<<t>>)
      /\ Distinct(s) /\ Distinct(<<t>>) /\ Ids(s) \cap Ids(<<t>>) = {} => Distinct(s \o <<t>>)
  BY <1>2, ConcatIds
<1> QED  BY <1>1, <1>2, <1>3

LEMMA WithoutIds ==
    ASSUME NEW v, NEW w, NEW k, Without(v, w, k)
    PROVE  /\ Ids(w) = Ids(v) \cup {w[k].id}
           /\ Distinct(w) => Distinct(v) /\ Ids(v) = Ids(w) \ {w[k].id}
           /\ Distinct(v) /\ w[k].id \notin Ids(v) => Distinct(w)
<1> DEFINE n == Len(v)
<1>1. /\ n \in Nat /\ DOMAIN v = 1..n /\ DOMAIN w = 1..n + 1 /\ k \in 1..n + 1
      /\ \A i \in 1..n : v[i] = IF i < k THEN w[i] ELSE w[i + 1]
  BY LenProperties DEF Without
<1> HIDE DEF n
<1>2. \A i \in 1..n : \E j \in 1..n + 1 : j # k /\ v[i] = w[j] /\ j = IF i < k THEN i ELSE i + 1
  BY <1>1
<1>3. \A j \in 1..n + 1 : j # k =>
          \E i \in 1..n : v[i] = w[j] /\ i = IF j < k THEN j ELSE j - 1
  <2> SUFFICES ASSUME NEW j \in 1..n + 1, j # k
               PROVE  \E i \in 1..n : v[i] = w[j] /\ i = IF j < k THEN j ELSE j - 1
    OBVIOUS
  <2>1. CASE j < k
    BY <1>1, <2>1
  <2>2. CASE j > k
    <3>1. j - 1 \in 1..n /\ ~(j - 1 < k) /\ (j - 1) + 1 = j
      BY <1>1, <2>2
    <3> QED  BY <1>1, <2>2, <3>1
  <2> QED  BY <1>1, <2>1, <2>2
<1>4. Ids(w) = Ids(v) \cup {w[k].id}
  <2>1. \A j \in 1..n + 1 : w[j].id \in Ids(v) \cup {w[k].id}
    BY <1>1, <1>3 DEF Ids
  <2>2. \A i \in 1..n : v[i].id \in Ids(w)
    BY <1>1, <1>2 DEF Ids
  <2> QED  BY <1>1, <2>1, <2>2 DEF Ids
<1>5. ASSUME Distinct(w) PROVE Distinct(v) /\ w[k].id \notin Ids(v)
  <2>1. ASSUME NEW i \in 1..n, NEW j \in 1..n, v[i].id = v[j].id PROVE i = j
    <3>1. PICK x \in 1..n + 1 : v[i] = w[x] /\ x = IF i < k THEN i ELSE i + 1
      BY <1>2
    <3>2. PICK y \in 1..n + 1 : v[j] = w[y] /\ y = IF j < k THEN j ELSE j + 1
      BY <1>2
    <3>3. x = y
      BY <1>1, <1>5, <2>1, <3>1, <3>2 DEF Distinct
    <3> QED  BY <1>1, <3>1, <3>2, <3>3
  <2>2. ASSUME NEW i \in 1..n PROVE v[i].id # w[k].id
    BY <1>1, <1>2, <1>5 DEF Distinct
  <2> QED  BY <1>1, <2>1, <2>2 DEF Distinct, Ids
<1>6. ASSUME Distinct(v), w[k].id \notin Ids(v) PROVE Distinct(w)
  <2>0. \A i \in 1..n : v[i].id # w[k].id
    BY <1>1, <1>6 DEF Ids
  <2>1. ASSUME NEW i \in 1..n + 1, NEW j \in 1..n + 1, w[i].id = w[j].id PROVE i = j
    <3>1. CASE i = k \/ j = k
      BY <1>3, <2>0, <2>1, <3>1
    <3>2. CASE i # k /\ j # k
      <4>1. PICK x \in 1..n : v[x] = w[i] /\ x = IF i < k THEN i ELSE i - 1
        BY <1>3, <3>2
      <4>2. PICK y \in 1..n : v[y] = w[j] /\ y = IF j < k THEN j ELSE j - 1
        BY <1>3, <3>2
      <4>3. x = y
        BY <1>1, <1>6, <2>1, <4>1, <4>2 DEF Distinct
      <4> QED  BY <1>1, <3>2, <4>1, <4>2, <4>3
    <3> QED  BY <3>1, <3>2
  <2> QED  BY <1>1, <2>1 DEF Distinct
<1> QED  BY <1>4, <1>5, <1>6
-----------------------------------------------------------------------------
(* The tasks in the queues.                                                *)

ProgrTask == {t \in Task : t.progr \in Programmer}

\* Every ready task is in one queue and once, every reader in one queue, and
\* storage that is not in use has none.
NoneOutside(S) ==
    \A q \in Queue \ Alloc(S) : S.at[q].bg = <<>> /\ S.at[q].reading = NoTask
Apart(S) ==
    /\ NoneOutside(S)
    /\ \A q \in Queue : S.at[q].bg \in Seq(ProgrTask) /\ Distinct(S.at[q].bg)
    /\ \A q, r \in Queue : q # r =>
          /\ Ids(S.at[q].bg) \cap Ids(S.at[r].bg) = {}
          /\ S.at[q].reading # NoTask => S.at[q].reading # S.at[r].reading

ReadyIds(S) == UNION {Ids(S.at[q].bg) : q \in Queue}
Reading(S) == {S.at[q].reading : q \in Queue} \ {NoTask}
Tasks(S, ready, reading) == Apart(S) /\ ReadyIds(S) = ready /\ Reading(S) = reading
SameTasks(S, T, q) == T.at[q].bg = S.at[q].bg /\ T.at[q].reading = S.at[q].reading

LEMMA InAllocOnly ==
    ASSUME NEW S, Alloc(S) \subseteq Queue, NoneOutside(S)
    PROVE  {t.id : t \in BgTasks(S)} = ReadyIds(S) /\ Readers(S) = Reading(S)
<1>1. {t.id : t \in BgTasks(S)} \subseteq ReadyIds(S)
  BY DEF BgTasks, Range, ReadyIds, Ids
<1>2. ASSUME NEW x \in ReadyIds(S) PROVE x \in {t.id : t \in BgTasks(S)}
  <2>1. PICK q \in Queue : x \in Ids(S.at[q].bg)
    BY DEF ReadyIds
  <2>2. q \in Alloc(S)
    BY <2>1, NoIds DEF NoneOutside
  <2>3. PICK i \in DOMAIN S.at[q].bg : x = S.at[q].bg[i].id
    BY <2>1 DEF Ids
  <2>4. S.at[q].bg[i] \in BgTasks(S)
    BY <2>2, <2>3 DEF BgTasks, Range
  <2> QED  BY <2>3, <2>4
<1>3. Readers(S) = Reading(S)
  BY DEF Readers, Reading, NoneOutside
<1> QED  BY <1>1, <1>2, <1>3

LEMMA NoneOutsideKept ==
    ASSUME NEW S, NEW T, NoneOutside(S), Alloc(S) \subseteq Alloc(T),
           \A q \in Queue \ Alloc(T) : SameTasks(S, T, q)
    PROVE  NoneOutside(T)
BY DEF NoneOutside, SameTasks

LEMMA TasksKept ==
    ASSUME NEW S, Apart(S), NEW T, NoneOutside(T), \A q \in Queue : SameTasks(S, T, q)
    PROVE  Tasks(T, ReadyIds(S), Reading(S))
<1>1. \A q \in Queue : T.at[q].bg = S.at[q].bg /\ T.at[q].reading = S.at[q].reading
  BY DEF SameTasks
<1>2. ReadyIds(T) = ReadyIds(S) /\ Reading(T) = Reading(S)
  BY <1>1 DEF ReadyIds, Reading
<1>3. Apart(T)
  BY <1>1 DEF Apart
<1> QED  BY <1>2, <1>3 DEF Tasks

\* The tasks ready in other queues than q.
Elsewhere(S, q) == UNION {Ids(S.at[r].bg) : r \in Queue \ {q}}

LEMMA ElsewhereIs ==
    ASSUME NEW S, NEW T, NEW q \in Queue, \A r \in Queue \ {q} : SameTasks(S, T, r), Apart(S)
    PROVE  /\ ReadyIds(S) = Elsewhere(S, q) \cup Ids(S.at[q].bg)
           /\ ReadyIds(T) = Elsewhere(S, q) \cup Ids(T.at[q].bg)
           /\ Elsewhere(S, q) \cap Ids(S.at[q].bg) = {}
           /\ \A r \in Queue \ {q} : Ids(S.at[r].bg) \subseteq Elsewhere(S, q)
<1>1. ReadyIds(S) = Elsewhere(S, q) \cup Ids(S.at[q].bg)
  BY DEF ReadyIds, Elsewhere
<1>2. ReadyIds(T) = Elsewhere(S, q) \cup Ids(T.at[q].bg)
  BY DEF ReadyIds, SameTasks, Elsewhere
<1>3. Elsewhere(S, q) \cap Ids(S.at[q].bg) = {}
  BY DEF Apart, Elsewhere
<1>4. \A r \in Queue \ {q} : Ids(S.at[r].bg) \subseteq Elsewhere(S, q)
  BY DEF Elsewhere
<1> QED  BY <1>1, <1>2, <1>3, <1>4

LEMMA ReadyListChanged ==
    ASSUME NEW S, Apart(S), NEW T, NEW q \in Alloc(T), q \in Queue, NoneOutside(T),
           \A r \in Queue \ {q} : SameTasks(S, T, r), T.at[q].reading = S.at[q].reading,
           T.at[q].bg \in Seq(ProgrTask), Distinct(T.at[q].bg),
           \A r \in Queue \ {q} : Ids(T.at[q].bg) \cap Ids(S.at[r].bg) = {}
    PROVE  Apart(T) /\ Reading(T) = Reading(S)
<1>1. \A r \in Queue : T.at[r].reading = S.at[r].reading
  BY DEF SameTasks
<1>2. Reading(T) = Reading(S)
  BY <1>1 DEF Reading
<1>3. \A r \in Queue : T.at[r].bg \in Seq(ProgrTask) /\ Distinct(T.at[r].bg)
  BY DEF Apart, SameTasks
<1>4. ASSUME NEW r \in Queue, NEW s \in Queue, r # s
      PROVE  Ids(T.at[r].bg) \cap Ids(T.at[s].bg) = {}
  <2>1. CASE r = q
    BY <1>4, <2>1 DEF SameTasks
  <2>2. CASE s = q
    BY <1>4, <2>2 DEF SameTasks
  <2>3. CASE r # q /\ s # q
    BY <1>4, <2>3 DEF SameTasks, Apart
  <2> QED  BY <2>1, <2>2, <2>3
<1> QED  BY <1>1, <1>2, <1>3, <1>4 DEF Apart

LEMMA ReadyAdded ==
    ASSUME NEW S, Apart(S), NEW T, NEW q \in Alloc(T), q \in Queue, NoneOutside(T),
           \A r \in Queue \ {q} : SameTasks(S, T, r), T.at[q].reading = S.at[q].reading,
           NEW t \in ProgrTask, t.id \notin ReadyIds(S), T.at[q].bg = Append(S.at[q].bg, t)
    PROVE  Tasks(T, ReadyIds(S) \cup {t.id}, Reading(S))
<1>1. /\ ReadyIds(S) = Elsewhere(S, q) \cup Ids(S.at[q].bg)
      /\ ReadyIds(T) = Elsewhere(S, q) \cup Ids(T.at[q].bg)
      /\ Elsewhere(S, q) \cap Ids(S.at[q].bg) = {}
      /\ \A r \in Queue \ {q} : Ids(S.at[r].bg) \subseteq Elsewhere(S, q)
  BY ElsewhereIs
<1>2. S.at[q].bg \in Seq(ProgrTask) /\ Distinct(S.at[q].bg)
  BY DEF Apart
<1>3. /\ T.at[q].bg \in Seq(ProgrTask) /\ Ids(T.at[q].bg) = Ids(S.at[q].bg) \cup {t.id}
      /\ Distinct(T.at[q].bg)
  BY <1>1, <1>2, AppendIds
<1>4. \A r \in Queue \ {q} : Ids(T.at[q].bg) \cap Ids(S.at[r].bg) = {}
  BY <1>1, <1>3
<1>5. Apart(T) /\ Reading(T) = Reading(S)
  BY <1>3, <1>4, ReadyListChanged
<1> QED  BY <1>1, <1>3, <1>5 DEF Tasks

LEMMA ReadyTaken ==
    ASSUME NEW S, Apart(S), NEW T, NEW q \in Alloc(T), q \in Queue, NoneOutside(T),
           \A r \in Queue \ {q} : SameTasks(S, T, r), T.at[q].reading = S.at[q].reading,
           NEW k, Without(T.at[q].bg, S.at[q].bg, k), T.at[q].bg \in Seq(ProgrTask)
    PROVE  Tasks(T, ReadyIds(S) \ {S.at[q].bg[k].id}, Reading(S))
<1>1. /\ ReadyIds(S) = Elsewhere(S, q) \cup Ids(S.at[q].bg)
      /\ ReadyIds(T) = Elsewhere(S, q) \cup Ids(T.at[q].bg)
      /\ Elsewhere(S, q) \cap Ids(S.at[q].bg) = {}
      /\ \A r \in Queue \ {q} : Ids(S.at[r].bg) \subseteq Elsewhere(S, q)
  BY ElsewhereIs
<1>2. Distinct(S.at[q].bg)
  BY DEF Apart
<1>3. /\ Ids(S.at[q].bg) = Ids(T.at[q].bg) \cup {S.at[q].bg[k].id} /\ Distinct(T.at[q].bg)
      /\ Ids(T.at[q].bg) = Ids(S.at[q].bg) \ {S.at[q].bg[k].id}
  BY <1>2, WithoutIds
<1>4. \A r \in Queue \ {q} : Ids(T.at[q].bg) \cap Ids(S.at[r].bg) = {}
  BY <1>1, <1>3
<1>5. Apart(T) /\ Reading(T) = Reading(S)
  BY <1>3, <1>4, ReadyListChanged
<1>6. S.at[q].bg[k].id \notin Elsewhere(S, q)
  BY <1>1, <1>3
<1> QED  BY <1>1, <1>3, <1>5, <1>6 DEF Tasks

LEMMA ReaderChanged ==
    ASSUME NEW S, Apart(S), NEW T, NEW q \in Alloc(T), q \in Queue, NoneOutside(T),
           \A r \in Queue \ {q} : SameTasks(S, T, r), T.at[q].bg = S.at[q].bg
    PROVE  /\ T.at[q].reading \notin Reading(S) /\ S.at[q].reading = NoTask =>
                 Tasks(T, ReadyIds(S), Reading(S) \cup ({T.at[q].reading} \ {NoTask}))
           /\ T.at[q].reading = NoTask =>
                 Tasks(T, ReadyIds(S), Reading(S) \ {S.at[q].reading})
<1>1. \A r \in Queue : T.at[r].bg = S.at[r].bg
  BY DEF SameTasks
<1>2. ReadyIds(T) = ReadyIds(S)
  BY <1>1 DEF ReadyIds
<1>3. \A r \in Queue \ {q} : T.at[r].reading = S.at[r].reading
  BY DEF SameTasks
<1>4. ASSUME T.at[q].reading \notin Reading(S), S.at[q].reading = NoTask
      PROVE  Tasks(T, ReadyIds(S), Reading(S) \cup ({T.at[q].reading} \ {NoTask}))
  <2>1. Reading(T) = Reading(S) \cup ({T.at[q].reading} \ {NoTask})
    BY <1>3, <1>4 DEF Reading
  <2>2. \A r \in Queue \ {q} : S.at[r].reading # NoTask => S.at[r].reading # T.at[q].reading
    BY <1>4 DEF Reading
  <2>3. \A r, s \in Queue : r # s /\ T.at[r].reading # NoTask => T.at[r].reading # T.at[s].reading
    BY <1>3, <2>2 DEF Apart
  <2>4. Apart(T)
    BY <1>1, <2>3 DEF Apart
  <2> QED  BY <1>2, <2>1, <2>4 DEF Tasks
<1>5. ASSUME T.at[q].reading = NoTask
      PROVE  Tasks(T, ReadyIds(S), Reading(S) \ {S.at[q].reading})
  <2>1. Reading(T) = Reading(S) \ {S.at[q].reading}
    BY <1>3, <1>5 DEF Reading, Apart
  <2>2. Apart(T)
    BY <1>1, <1>3, <1>5 DEF Apart
  <2> QED  BY <1>2, <2>1, <2>2 DEF Tasks
<1> QED  BY <1>4, <1>5

LEMMA TasksMoved ==
    ASSUME NEW S, Apart(S), NEW T, NEW q \in Queue, NEW d \in Queue, q # d, NoneOutside(T),
           \A r \in Queue : T.at[r].reading = S.at[r].reading,
           \A r \in Queue \ {q, d} : T.at[r].bg = S.at[r].bg,
           S.at[q].bg = <<>>, T.at[q].bg = S.at[d].bg, T.at[d].bg = <<>>
    PROVE  Tasks(T, ReadyIds(S), Reading(S))
<1>1. Reading(T) = Reading(S)
  BY DEF Reading
<1> DEFINE from(r) == IF r = q THEN d ELSE IF r = d THEN q ELSE r
<1>2. \A r \in Queue : from(r) \in Queue /\ T.at[r].bg = S.at[from(r)].bg /\ from(from(r)) = r
  OBVIOUS
<1>3. \A r, s \in Queue : r # s => from(r) # from(s)
  OBVIOUS
<1> HIDE DEF from
<1>4. ReadyIds(T) \subseteq ReadyIds(S)
  BY <1>2 DEF ReadyIds
<1>5. ReadyIds(S) \subseteq ReadyIds(T)
  <2>1. \A r \in Queue : S.at[r].bg = T.at[from(r)].bg
    BY <1>2
  <2> QED  BY <1>2, <2>1 DEF ReadyIds
<1>6. \A r \in Queue : T.at[r].bg \in Seq(ProgrTask) /\ Distinct(T.at[r].bg)
  BY <1>2 DEF Apart
<1>7. \A r, s \in Queue : r # s => Ids(T.at[r].bg) \cap Ids(T.at[s].bg) = {}
  <2> SUFFICES ASSUME NEW r \in Queue, NEW s \in Queue, r # s
               PROVE  Ids(T.at[r].bg) \cap Ids(T.at[s].bg) = {}
    OBVIOUS
  <2>1. from(r) \in Queue /\ from(s) \in Queue /\ from(r) # from(s)
    BY <1>2, <1>3
  <2>2. Ids(S.at[from(r)].bg) \cap Ids(S.at[from(s)].bg) = {}
    BY <2>1 DEF Apart
  <2> QED  BY <1>2, <2>2
<1> QED  BY <1>1, <1>4, <1>5, <1>6, <1>7 DEF Apart, Tasks

-----------------------------------------------------------------------------
(* What the operators on tqueues leave where it is.                        *)

Keeps(S, T) == NoneOutside(T) /\ \A q \in Queue : SameTasks(S, T, q)

LEMMA KeepsTransitive ==
    ASSUME NEW S, NEW T, NEW U, Keeps(S, T), Keeps(T, U)
    PROVE  Keeps(S, U)
BY DEF Keeps, SameTasks

LEMMA KeepsTasks ==
    ASSUME NEW S, Apart(S), NEW T, Keeps(S, T)
    PROVE  Tasks(T, ReadyIds(S), Reading(S))
BY TasksKept DEF Keeps

LEMMA KeepsApart ==
    ASSUME NEW S, Apart(S), NEW T, Keeps(S, T)
    PROVE  Apart(T) /\ ReadyIds(T) = ReadyIds(S) /\ Reading(T) = Reading(S)
BY KeepsTasks DEF Tasks

LEMMA KeptBy ==
    ASSUME NEW S, NEW T, NoneOutside(S), Alloc(S) \subseteq Alloc(T),
           \A q \in Queue : SameTasks(S, T, q)
    PROVE  Keeps(S, T)
BY NoneOutsideKept DEF Keeps

LEMMA SameKeeps ==
    ASSUME NEW S, NEW T, NoneOutside(S), Alloc(S) \subseteq Alloc(T),
           \A r \in Queue : Same(S, T, r)
    PROVE  Keeps(S, T)
BY KeptBy DEF Same, SameTasks

LEMMA LinesTakenKeeps ==
    ASSUME NEW S, NEW T, NEW q, NoneOutside(S), Alloc(S) \subseteq Alloc(T), LinesTaken(S, T, q)
    PROVE  Keeps(S, T)
BY KeptBy DEF LinesTaken, SameTasks

LEMMA AssignedKeeps ==
    ASSUME NEW S, NEW T, NEW q, NEW t, NoneOutside(S), Assigned(S, T, q, t),
           t.bg = S.at[q].bg, t.reading = S.at[q].reading
    PROVE  Keeps(S, T)
<1>1. T.at[q] = t /\ (\A r \in Queue \ {q} : T.at[r] = S.at[r]) /\ Alloc(T) = Alloc(S)
  BY DEF Assigned
<1>2. \A r \in Queue : SameTasks(S, T, r)
  BY <1>1 DEF SameTasks
<1> QED  BY <1>1, <1>2, KeptBy

LEMMA WithTQueueKeeps ==
    ASSUME NEW S, Sound(S), NoneOutside(S), NEW p \in Player, Room(S, p)
    PROVE  Keeps(S, WithTQueue(S, p))
<1> DEFINE T == WithTQueue(S, p)
           q == FindTQueue(S, p)
<1>1. /\ Leads(S, T)
      /\ q \in Alloc(T) /\ T.at[q].player = p /\ Held(T, p) = {q}
      /\ T.active = S.active
      /\ \A r \in Alloc(S) : T.at[r] = S.at[r]
      /\ Held(S, p) # {} => T = S
      /\ Held(S, p) = {} =>
            /\ q \in Queue \ Alloc(S)
            /\ T.idle = S.idle \cup {q}
            /\ T.at = [S.at EXCEPT ![q] = NewTQueue(p)]
  BY WithTQueueProperties
<1>2. S.at \in [Queue -> TQueue] /\ Alloc(S) \subseteq Alloc(T)
  BY <1>1, AllocInQueue DEF Sound, Queues, Leads
<1> HIDE DEF T, q
<1>3. \A r \in Queue : SameTasks(S, T, r)
  <2>1. CASE Held(S, p) # {}
    BY <1>1, <2>1 DEF SameTasks
  <2>2. CASE Held(S, p) = {}
    <3>1. S.at[q].bg = <<>> /\ S.at[q].reading = NoTask
      BY <1>1, <2>2 DEF NoneOutside
    <3>2. T.at[q] = NewTQueue(p) /\ \A r \in Queue \ {q} : T.at[r] = S.at[r]
      BY <1>1, <1>2, <2>2
    <3> QED  BY <3>1, <3>2 DEF NewTQueue, SameTasks
  <2> QED  BY <2>1, <2>2
<1>4. Keeps(S, T)
  BY <1>2, <1>3, KeptBy
<1> QED  BY <1>4 DEF T

LEMMA EnsureUsageKeeps ==
    ASSUME NEW S, Sound(S), NoneOutside(S), NEW q \in Alloc(S)
    PROVE  Keeps(S, EnsureUsage(S, q))
<1> DEFINE T == EnsureUsage(S, q)
<1>1. Alloc(T) = Alloc(S) /\ \A r \in Queue : Same(S, T, r)
  BY EnsureUsageLeads
<1> HIDE DEF T
<1>2. Keeps(S, T)
  BY <1>1, SameKeeps
<1> QED  BY <1>2 DEF T

LEMMA EnqueueInputKeeps ==
    ASSUME NEW S, Sound(S), NoneOutside(S), NEW q \in Alloc(S), NEW l \in Line, NEW atFront \in BOOLEAN
    PROVE  Keeps(S, EnqueueInput(S, q, l, atFront))
<1> DEFINE T == EnqueueInput(S, q, l, atFront)
<1>1. /\ Alloc(T) = Alloc(S)
      /\ \A r \in Queue : T.at[r].bg = S.at[r].bg /\ T.at[r].reading = S.at[r].reading
  BY EnqueueInputProperties
<1> HIDE DEF T
<1>2. \A r \in Queue : SameTasks(S, T, r)
  BY <1>1 DEF SameTasks
<1>3. Keeps(S, T)
  BY <1>1, <1>2, KeptBy
<1> QED  BY <1>3 DEF T

LEMMA DequeueInputKeeps ==
    ASSUME NEW S, Sound(S), NoneOutside(S), NEW q \in Queue, S.at[q].input # <<>>
    PROVE  Keeps(S, DequeueInput(S, q))
<1> DEFINE T == DequeueInput(S, q)
<1>1. Alloc(T) = Alloc(S) /\ LinesTaken(S, T, q)
  BY DequeueInputProperties
<1> HIDE DEF T
<1>2. Keeps(S, T)
  BY <1>1, LinesTakenKeeps
<1> QED  BY <1>2 DEF T

LEMMA DropInputKeeps ==
    ASSUME NEW S, Sound(S), NoneOutside(S), NEW q \in Queue
    PROVE  Keeps(S, DropInput(S, q))
<1> DEFINE T == DropInput(S, q)
<1>1. Alloc(T) = Alloc(S) /\ LinesTaken(S, T, q)
  BY DropInputProperties
<1> HIDE DEF T
<1>2. Keeps(S, T)
  BY <1>1, LinesTakenKeeps
<1> QED  BY <1>2 DEF T

LEMMA FreeTaskQueueKeeps ==
    ASSUME NEW S, Sound(S), NoneOutside(S), NEW q \in Alloc(S)
    PROVE  Keeps(S, FreeTaskQueue(S, q))
<1> DEFINE T == FreeTaskQueue(S, q)
           U == [S EXCEPT !.at[q].connected = FALSE]
<1>0. S \in Queues /\ q \in Queue
  BY AllocInQueue DEF Sound
<1>1. /\ Alloc(T) = Alloc(S) /\ \A r \in Queue \ {q} : Same(S, T, r)
      /\ Same(U, T, q)
  BY FreeTaskQueueProperties
<1>2. U.at[q].bg = S.at[q].bg /\ U.at[q].reading = S.at[q].reading
  BY <1>0 DEF Queues, TQueue
<1> HIDE DEF T, U
<1>3. \A r \in Queue : SameTasks(S, T, r)
  BY <1>1, <1>2 DEF Same, SameTasks
<1>4. Keeps(S, T)
  BY <1>1, <1>3, KeptBy
<1> QED  BY <1>4 DEF T

LEMMA CountInKeeps ==
    ASSUME NEW S, Sound(S), NoneOutside(S), NEW p \in Player, Room(S, p)
    PROVE  Keeps(S, CountIn(S, p))
<1> DEFINE q == FindTQueue(S, p)
           S0 == WithTQueue(S, p)
           n == S0.at[q].num_bg + 1
           T == [S0 EXCEPT !.at[q].num_bg = n]
<1>1. /\ Leads(S, S0) /\ q \in Alloc(S0) /\ Keeps(S, S0)
  BY WithTQueueIs, WithTQueueKeeps
<1>2. Sound(S0)
  BY <1>1 DEF Leads
<1>3. CountIn(S, p) = T
  BY DEF CountIn
<1> HIDE DEF S0, q
<1>4. q \in Queue /\ S0.at[q] \in TQueue
  BY <1>1, <1>2, IdleInQueue
<1>5. n \in Int
  BY <1>4 DEF TQueue
<1> HIDE DEF n
<1>6. Assigned(S0, T, q, [S0.at[q] EXCEPT !.num_bg = n])
  BY <1>2, <1>4, <1>5, FieldAssignments
<1>7. /\ [S0.at[q] EXCEPT !.num_bg = n].bg = S0.at[q].bg
      /\ [S0.at[q] EXCEPT !.num_bg = n].reading = S0.at[q].reading
  BY <1>4 DEF TQueue
<1> HIDE DEF T
<1>8. Keeps(S0, T)
  BY <1>1, <1>6, <1>7, AssignedKeeps DEF Keeps
<1> QED  BY <1>1, <1>3, <1>8, KeepsTransitive

LEMMA ReadyTaskAdded ==
    ASSUME NEW S, Sound(S), Apart(S), NEW t \in ProgrTask, t.id \notin ReadyIds(S),
           NEW p \in Player, Room(S, p)
    PROVE  LET q == FindTQueue(S, p)
               S0 == WithTQueue(S, p)
           IN  /\ Tasks(EnqueueBg(EnsureUsage(S0, q), q, t), ReadyIds(S) \cup {t.id}, Reading(S))
               /\ Tasks(EnsureUsage(EnqueueBg(S0, q, t), q), ReadyIds(S) \cup {t.id}, Reading(S))
<1> DEFINE q == FindTQueue(S, p)
           S0 == WithTQueue(S, p)
           S1 == EnsureUsage(S0, q)
           U == EnqueueBg(S0, q, t)
<1>1. Leads(S, S0) /\ q \in Alloc(S0) /\ t \in Task
  BY WithTQueueIs DEF ProgrTask
<1>2. Sound(S0) /\ NoneOutside(S)
  BY <1>1 DEF Leads, Apart
<1>3. Keeps(S, S0)
  BY <1>2, WithTQueueKeeps
<1> HIDE DEF S0, q
<1>4. q \in Queue
  BY <1>1, <1>2, IdleInQueue
<1>5. Apart(S0) /\ ReadyIds(S0) = ReadyIds(S) /\ Reading(S0) = Reading(S) /\ NoneOutside(S0)
  BY <1>3, KeepsApart DEF Keeps
<1>6. ASSUME NEW X, Sound(X), Apart(X), q \in Alloc(X), t.id \notin ReadyIds(X)
      PROVE  Tasks(EnqueueBg(X, q, t), ReadyIds(X) \cup {t.id}, Reading(X))
  <2> DEFINE b == Append(X.at[q].bg, t)
             T == EnqueueBg(X, q, t)
             tq == [X.at[q] EXCEPT !.bg = b]
  <2>1. X.at[q] \in TQueue
    BY <1>4, <1>6, IdleInQueue
  <2>2. Assigned(X, T, q, tq)
    BY <1>1, <1>4, <1>6, EnqueueBgProperties
  <2> HIDE DEF T
  <2>3. tq.bg = b /\ tq.reading = X.at[q].reading
    <3> HIDE DEF b
    <3> QED  BY <2>1 DEF TQueue
  <2> HIDE DEF tq
  <2>4. /\ T.at[q] = tq /\ (\A r \in Queue \ {q} : T.at[r] = X.at[r]) /\ Alloc(T) = Alloc(X)
    BY <2>2 DEF Assigned
  <2>5. NoneOutside(T) /\ \A r \in Queue \ {q} : SameTasks(X, T, r)
    BY <1>4, <1>6, <2>4 DEF NoneOutside, SameTasks, Apart
  <2>6. T.at[q].bg = Append(X.at[q].bg, t) /\ T.at[q].reading = X.at[q].reading /\ q \in Alloc(T)
    BY <1>6, <2>3, <2>4
  <2>7. Tasks(T, ReadyIds(X) \cup {t.id}, Reading(X))
    BY <1>4, <1>6, <2>5, <2>6, ReadyAdded
  <2> QED  BY <2>7 DEF T
<1>7. Tasks(EnqueueBg(S1, q, t), ReadyIds(S) \cup {t.id}, Reading(S))
  <2>1. Leads(S0, S1) /\ Alloc(S1) = Alloc(S0) /\ Keeps(S0, S1)
    <3>1. Leads(S0, S1) /\ Alloc(S1) = Alloc(S0) /\ S1.idle = S0.idle \ {q}
          /\ \A r \in Queue : Same(S0, S1, r)
      BY <1>1, <1>2, EnsureUsageLeads
    <3>2. Keeps(S0, S1)
      BY <1>1, <1>2, <1>5, EnsureUsageKeeps
    <3> QED  BY <3>1, <3>2
  <2> HIDE DEF S1
  <2>2. Sound(S1) /\ Apart(S1) /\ ReadyIds(S1) = ReadyIds(S) /\ Reading(S1) = Reading(S)
    BY <1>5, <2>1, KeepsApart DEF Leads
  <2>3. Tasks(EnqueueBg(S1, q, t), ReadyIds(S1) \cup {t.id}, Reading(S1))
    BY <1>1, <1>6, <2>1, <2>2
  <2> QED  BY <2>2, <2>3
<1>8. Tasks(EnsureUsage(U, q), ReadyIds(S) \cup {t.id}, Reading(S))
  <2>1. Tasks(U, ReadyIds(S) \cup {t.id}, Reading(S))
    <3>1. Tasks(U, ReadyIds(S0) \cup {t.id}, Reading(S0))
      BY <1>1, <1>2, <1>5, <1>6
    <3> QED  BY <1>5, <3>1
  <2>2. Leads(S0, U) /\ Alloc(U) = Alloc(S0)
    BY <1>1, <1>2, <1>4, EnqueueBgProperties DEF Assigned
  <2> HIDE DEF U
  <2>3. /\ Sound(U) /\ q \in Alloc(U) /\ Apart(U) /\ NoneOutside(U)
        /\ ReadyIds(U) = ReadyIds(S) \cup {t.id} /\ Reading(U) = Reading(S)
    BY <1>1, <2>1, <2>2 DEF Leads, Tasks, Apart
  <2>4. Keeps(U, EnsureUsage(U, q))
    BY <2>3, EnsureUsageKeeps
  <2>5. Tasks(EnsureUsage(U, q), ReadyIds(U), Reading(U))
    BY <2>3, <2>4, KeepsTasks
  <2> QED  BY <2>3, <2>5
<1> QED  BY <1>7, <1>8 DEF S1, U, S0, q

\* A connection that has no ready task takes over those of a user.
LEMMA ReassociateKeepsTasks ==
    ASSUME NEW S, Sound(S), Apart(S), NEW q \in Alloc(S), NEW new \in Player,
           S.at[q].player # new, CanLeaveTasks(S, q), S.at[q].bg = <<>>
    PROVE  Tasks(Reassociate(S, q, new), ReadyIds(S), Reading(S))
<1> DEFINE T == Reassociate(S, q, new)
           old == S.at[q].player
<1>1. Reassociated(S, T, q, new) /\ Leads(S, T)
  BY ReassociateIs, ReassociateLeads
<1> HIDE DEF T
<1>2. /\ q \in Queue /\ Alloc(S) \subseteq Queue /\ Alloc(T) \subseteq Queue
      /\ Alloc(S) \subseteq Alloc(T) /\ NoneOutside(S)
  BY <1>1, IdleInQueue DEF Leads, Apart
<1>3. \A s \in Seq(ProgrTask) : <<>> \o s = s /\ s \o <<>> = s
  BY EmptySeq
<1>4. /\ \A r \in Queue : S.at[r].bg \in Seq(ProgrTask)
      /\ \A r \in Queue \ Alloc(S) : S.at[r].bg = <<>> /\ S.at[r].reading = NoTask
  BY <1>2 DEF Apart, NoneOutside
<1>5. <<>> \o <<>> = <<>>
  OBVIOUS
<1>6. ASSUME NEW r \in Alloc(T) \ Alloc(S)
      PROVE  T.at[r].bg = S.at[r].bg /\ T.at[r].reading = S.at[r].reading
  <2>1. T.at[r].bg = <<>> \o <<>> /\ T.at[r].reading = NoTask
    BY <1>1 DEF Reassociated
  <2> QED  BY <1>2, <1>4, <1>5, <2>1
<1>7. ASSUME NEW r \in Queue \ Alloc(T)
      PROVE  T.at[r].bg = S.at[r].bg /\ T.at[r].reading = S.at[r].reading
  BY <1>1 DEF Reassociated
<1>8. ASSUME NEW r \in Alloc(S) \ {q}, r \notin Held(S, new)
      PROVE  T.at[r].bg = S.at[r].bg /\ T.at[r].reading = S.at[r].reading
  <2>1. S.at[r].bg \o <<>> = S.at[r].bg
    BY <1>2, <1>3, <1>4
  <2> QED  BY <1>1, <1>8, <2>1 DEF Reassociated
<1>9. T.at[q].reading = S.at[q].reading
  BY <1>1 DEF Reassociated
<1>10. NoneOutside(T)
  BY <1>2, <1>4, <1>7 DEF NoneOutside
<1>11. CASE Held(S, new) = {}
  <2>1. T.at[q].bg = <<>>
    BY <1>1, <1>11 DEF Reassociated
  <2>2. \A r \in Queue : SameTasks(S, T, r)
    BY <1>6, <1>7, <1>8, <1>9, <1>11, <2>1 DEF SameTasks
  <2>3. Tasks(T, ReadyIds(S), Reading(S))
    BY <1>10, <2>2, TasksKept
  <2> QED  BY <2>3 DEF T
<1>12. CASE Held(S, new) # {}
  <2>1. PICK d \in Held(S, new) : TRUE
    BY <1>12
  <2>2. d \in Alloc(S) /\ d # q /\ d \in Queue /\ S.at[d].player = new
    BY <1>2, <2>1 DEF Held
  <2>3. \A r \in Held(S, new) : r = d
    BY <1>2, <2>2, PlayerIsSomeone DEF Held, Sound, OnePerPlayer
  <2>4. /\ T.at[q].bg = <<>> \o S.at[d].bg /\ T.at[d].bg = <<>>
        /\ T.at[d].reading = S.at[d].reading
    BY <1>1, <2>1 DEF Reassociated
  <2>5. T.at[q].bg = S.at[d].bg
    BY <1>3, <1>4, <2>2, <2>4
  <2>6. \A r \in Queue \ {q, d} : T.at[r].bg = S.at[r].bg /\ T.at[r].reading = S.at[r].reading
    BY <1>6, <1>7, <1>8, <2>3
  <2>7. \A r \in Queue : T.at[r].reading = S.at[r].reading
    BY <1>9, <2>4, <2>6
  <2>8. Tasks(T, ReadyIds(S), Reading(S))
    BY <1>2, <1>10, <2>2, <2>4, <2>5, <2>6, <2>7, TasksMoved
  <2> QED  BY <2>8 DEF T
<1> QED  BY <1>11, <1>12

\* A queue that is freed has no task.
LEMMA FreeIdleKeeps ==
    ASSUME Sound(queues), Calm(queues), NoneOutside(queues), FreeIdle
    PROVE  Keeps(queues, queues')
<1>1. /\ Sound(queues)' /\ queues'.active = queues.active /\ queues'.idle \subseteq queues.idle
      /\ \A q \in Alloc(queues') : q \in Alloc(queues) /\ queues'.at[q] = queues.at[q]
      /\ \A q \in Alloc(queues) \ Alloc(queues') : Empty(queues.at[q])
  BY FreeIdleSound
<1>2. /\ queues.at \in [Queue -> TQueue]
      /\ queues.idle \subseteq Queue /\ queues \in Queues /\ Alloc(queues) \subseteq Queue
  BY IdleInQueue, AllocInQueue DEF Sound
<1>3. \A q \in Queue : queues'.at[q] = IF q \in queues.idle /\ Empty(queues.at[q])
                                      THEN NewTQueue(NOTHING) ELSE queues.at[q]
  BY <1>2 DEF FreeIdle, Queues
<1>4. ASSUME NEW q \in queues.idle, Empty(queues.at[q])
      PROVE  queues.at[q].bg = <<>> /\ queues.at[q].reading = NoTask
  BY <1>4 DEF Calm, NothingToDo, Empty, IsOutOfInput
<1>5. \A q \in Queue : SameTasks(queues, queues', q)
  BY <1>3, <1>4 DEF SameTasks, NewTQueue
<1>6. ASSUME NEW q \in Queue \ Alloc(queues')
      PROVE  queues'.at[q].bg = <<>> /\ queues'.at[q].reading = NoTask
  <2>1. CASE q \notin Alloc(queues)
    BY <1>5, <2>1 DEF SameTasks, NoneOutside
  <2>2. CASE q \in Alloc(queues)
    <3>1. Empty(queues.at[q]) /\ q \in queues.idle
      BY <1>1, <1>6, <2>2 DEF Alloc
    <3> QED  BY <1>3, <3>1 DEF NewTQueue
  <2> QED  BY <2>1, <2>2
<1> QED  BY <1>5, <1>6 DEF Keeps, NoneOutside

-----------------------------------------------------------------------------
(* The lists of waiting and external tasks.                                *)

Listed(s) == s \in Seq(ProgrTask) /\ Distinct(s)

LEMMA SeqOfTasks == \A s \in Seq(ProgrTask) : s \in Seq(Task)
BY DEF ProgrTask

LEMMA InsertedIds ==
    ASSUME NEW w, Listed(w), NEW t \in ProgrTask, t.id \notin Ids(w)
    PROVE  Listed(InsertWaiting(w, t)) /\ Ids(InsertWaiting(w, t)) = Ids(w) \cup {t.id}
<1> DEFINE v == InsertWaiting(w, t)
<1>1. v \in Seq(ProgrTask)
  BY InsertWaitingType DEF Listed
<1>2. w \in Seq(Task) /\ t \in Task
  BY SeqOfTasks DEF Listed, ProgrTask
<1>3. \E k : Without(w, v, k) /\ v[k] = t
  BY <1>2, InsertWaitingWithout
<1> HIDE DEF v
<1>4. PICK k : Without(w, v, k) /\ v[k] = t
  BY <1>3
<1>5. Ids(v) = Ids(w) \cup {v[k].id} /\ (Distinct(w) /\ v[k].id \notin Ids(w) => Distinct(v))
  BY <1>4, WithoutIds
<1>6. Listed(v) /\ Ids(v) = Ids(w) \cup {t.id}
  BY <1>1, <1>4, <1>5 DEF Listed
<1> QED  BY <1>6 DEF v

LEMMA RemovedIds ==
    ASSUME NEW w, Listed(w), NEW k \in DOMAIN w
    PROVE  /\ Listed(RemoveAt(w, k)) /\ Ids(RemoveAt(w, k)) = Ids(w) \ {w[k].id}
           /\ w[k] \in ProgrTask /\ w[k].id \in Ids(w)
<1> DEFINE v == RemoveAt(w, k)
<1>1. v \in Seq(ProgrTask) /\ w \in Seq(Task)
  BY RemoveAtType, SeqOfTasks DEF Listed
<1>2. Without(v, w, k)
  BY <1>1, RemoveAtWithout
<1> HIDE DEF v
<1>3. Distinct(v) /\ Ids(v) = Ids(w) \ {w[k].id}
  BY <1>2, WithoutIds DEF Listed
<1>4. w[k] \in ProgrTask /\ w[k].id \in Ids(w)
  BY DEF Listed, Ids
<1> QED  BY <1>1, <1>3, <1>4 DEF v, Listed

LEMMA TailIds ==
    ASSUME NEW w, Listed(w), w # <<>>
    PROVE  /\ Listed(Tail(w)) /\ Ids(Tail(w)) = Ids(w) \ {Head(w).id}
           /\ Head(w) \in ProgrTask /\ Head(w).id \in Ids(w)
<1> DEFINE v == Tail(w)
<1>1. w \in Seq(ProgrTask) /\ v \in Seq(ProgrTask) /\ w \in Seq(Task) /\ 1 \in DOMAIN w
  BY SeqOfTasks DEF Listed
<1>2. Without(v, w, 1) /\ Head(w) = w[1]
  BY <1>1, TailWithout
<1> HIDE DEF v
<1>3. Distinct(v) /\ Ids(v) = Ids(w) \ {w[1].id}
  BY <1>2, WithoutIds DEF Listed
<1>4. w[1] \in ProgrTask /\ w[1].id \in Ids(w)
  BY <1>1 DEF Ids
<1> QED  BY <1>1, <1>2, <1>3, <1>4 DEF v, Listed

LEMMA PrependedIds ==
    ASSUME NEW w, Listed(w), NEW t \in ProgrTask, t.id \notin Ids(w)
    PROVE  Listed(<<t>> \o w) /\ Ids(<<t>> \o w) = Ids(w) \cup {t.id}
<1>1. <<t>> \in Seq(ProgrTask) /\ Ids(<<t>>) = {t.id} /\ Distinct(<<t>>)
  BY OneId
<1>2. /\ <<t>> \o w \in Seq(ProgrTask) /\ Ids(<<t>> \o w) = Ids(<<t>>) \cup Ids(w)
      /\ Distinct(<<t>>) /\ Distinct(w) /\ Ids(<<t>>) \cap Ids(w) = {} => Distinct(<<t>> \o w)
  BY <1>1, ConcatIds DEF Listed
<1> QED  BY <1>1, <1>2 DEF Listed

-----------------------------------------------------------------------------
(* Where the tasks are, place by place.                                    *)

Place == {"waiting", "ready", "external", "reading", "running"}

Where == [waiting |-> Ids(waiting), ready |-> ReadyIds(queues), external |-> Ids(ext),
          reading |-> Reading(queues), running |-> {cur.id} \ {NoTask}]

\* W says of each place which tasks are there.
OnePlace(W) ==
    /\ W \in [Place -> SUBSET Id]
    /\ \A a, b \in Place : a # b => W[a] \cap W[b] = {}
Found(W, id) == IF \E a \in Place : id \in W[a] THEN CHOOSE a \in Place : id \in W[a] ELSE "none"

\* Task id moves to a place, or is gone.
Moved(W, id, to) == [a \in Place |-> IF a = to THEN W[a] \cup {id} ELSE W[a] \ {id}]

LEMMA FoundThere ==
    ASSUME NEW W, OnePlace(W), NEW id, NEW a \in Place, id \in W[a]
    PROVE  Found(W, id) = a
BY DEF OnePlace, Found

LEMMA FoundNowhere ==
    ASSUME NEW W, NEW id, \A a \in Place : id \notin W[a]
    PROVE  Found(W, id) = "none"
BY DEF Found

LEMMA MovedIs ==
    ASSUME NEW W, OnePlace(W), NEW id \in Id, NEW to \in Place \cup {"none"}
    PROVE  /\ OnePlace(Moved(W, id, to)) /\ Found(Moved(W, id, to), id) = to
           /\ \A i \in Id \ {id} : Found(Moved(W, id, to), i) = Found(W, i)
<1> DEFINE V == Moved(W, id, to)
<1>1. \A a \in Place : V[a] = IF a = to THEN W[a] \cup {id} ELSE W[a] \ {id}
  BY DEF Moved
<1>2. OnePlace(V)
  <2>1. V \in [Place -> SUBSET Id]
    BY DEF Moved, OnePlace
  <2> HIDE DEF V
  <2> QED  BY <1>1, <2>1 DEF OnePlace
<1> HIDE DEF V
<1>3. Found(V, id) = to
  <2>1. CASE to \in Place
    BY <1>1, <1>2, <2>1, FoundThere
  <2>2. CASE to \notin Place
    BY <1>1, <2>2, FoundNowhere
  <2> QED  BY <2>1, <2>2
<1>4. ASSUME NEW i \in Id \ {id}  PROVE Found(V, i) = Found(W, i)
  <2>1. \A a \in Place : i \in V[a] <=> i \in W[a]
    BY <1>1
  <2>2. CASE \E a \in Place : i \in W[a]
    BY <1>2, <2>1, <2>2, FoundThere
  <2>3. CASE \A a \in Place : i \notin W[a]
    <3>1. Found(W, i) = "none" /\ Found(V, i) = "none"
      BY <2>1, <2>3, FoundNowhere
    <3> QED  BY <3>1
  <2> QED  BY <2>2, <2>3
<1> QED  BY <1>2, <1>3, <1>4 DEF V

Lives(W) == [id \in Id |-> Found(W, id)]

LEMMA MovedLives ==
    ASSUME NEW W, OnePlace(W), NEW id \in Id, NEW to \in Place \cup {"none"}
    PROVE  Lives(Moved(W, id, to)) = [Lives(W) EXCEPT ![id] = to]
<1> DEFINE V == Moved(W, id, to)
<1>1. Found(V, id) = to /\ \A i \in Id \ {id} : Found(V, i) = Found(W, i)
  BY MovedIs
<1> HIDE DEF V
<1>2. Lives(V) = [Lives(W) EXCEPT ![id] = to]
  BY <1>1 DEF Lives
<1> QED  BY <1>2 DEF V

\* What a move from place a to place b (or from or to none) makes of W.
LEMMA MoveIs ==
    ASSUME NEW W, OnePlace(W), NEW V \in [Place -> SUBSET Id], NEW id \in Id,
           NEW a \in Place \cup {"none"}, NEW b \in Place \cup {"none"}, a # b,
           IF a = "none" THEN \A c \in Place : id \notin W[c]
           ELSE id \in W[a] /\ V[a] = W[a] \ {id},
           b \in Place => V[b] = W[b] \cup {id},
           \A c \in Place \ {a, b} : V[c] = W[c]
    PROVE  Found(W, id) = a /\ V = Moved(W, id, b)
<1>0. "none" \notin Place
  BY DEF Place
<1>1. Found(W, id) = a
  <2>1. CASE a = "none"
    BY <2>1, FoundNowhere
  <2>2. CASE a # "none"
    BY <2>2, FoundThere
  <2> QED  BY <2>1, <2>2
<1>2. \A c \in Place \ {a} : id \notin W[c]
  <2>1. CASE a = "none"
    BY <2>1
  <2>2. CASE a # "none"
    <3>1. a \in Place /\ id \in W[a]
      BY <2>2
    <3> QED  BY <3>1 DEF OnePlace
  <2> QED  BY <2>1, <2>2
<1>3. ASSUME NEW c \in Place
      PROVE  V[c] = IF c = b THEN W[c] \cup {id} ELSE W[c] \ {id}
  <2>1. CASE c = b
    BY <2>1
  <2>2. CASE c # b /\ c = a
    BY <1>0, <2>2
  <2>3. CASE c # b /\ c # a
    <3>1. V[c] = W[c] /\ id \notin W[c]
      BY <1>2, <2>3
    <3>2. W[c] = W[c] \ {id}
      BY <3>1
    <3> QED  BY <2>3, <3>1, <3>2
  <2> QED  BY <2>1, <2>2, <2>3
<1>4. V = [c \in Place |-> IF c = b THEN W[c] \cup {id} ELSE W[c] \ {id}]
  BY <1>3
<1> QED  BY <1>1, <1>4 DEF Moved

-----------------------------------------------------------------------------
(* The invariant, and what a step does to the tasks.                       *)

RunOnly ==
    /\ pc \notin {"run", "done"} => cur.id = NoTask
    /\ cur.login => cur.id = NoTask
LifeParts == Apart(queues) /\ Listed(waiting) /\ Listed(ext) /\ RunOnly
LifeInv == LifeParts /\ OnePlace(Where)

LEMMA WhereIs ==
    /\ Where["waiting"] = Ids(waiting) /\ Where["ready"] = ReadyIds(queues)
    /\ Where["external"] = Ids(ext) /\ Where["reading"] = Reading(queues)
    /\ Where["running"] = {cur.id} \ {NoTask}
BY DEF Where

LEMMA IdsOfTasks == \A s \in Seq(ProgrTask) : Ids(s) \subseteq Id
<1> SUFFICES ASSUME NEW s \in Seq(ProgrTask) PROVE Ids(s) \subseteq Id
  OBVIOUS
<1>1. \A i \in DOMAIN s : s[i] \in ProgrTask
  OBVIOUS
<1> QED  BY <1>1 DEF Ids, ProgrTask, Task

LEMMA WhereType ==
    ASSUME IInv, LifeParts
    PROVE  Where \in [Place -> SUBSET Id]
<1>1. Ids(waiting) \subseteq Id /\ Ids(ext) \subseteq Id
  BY IdsOfTasks DEF LifeParts, Listed
<1>2. ReadyIds(queues) \subseteq Id
  <2>1. \A q \in Queue : Ids(queues.at[q].bg) \subseteq Id
    BY IdsOfTasks DEF LifeParts, Apart
  <2> QED  BY <2>1 DEF ReadyIds
<1>3. Reading(queues) \subseteq Id
  <2>1. \A q \in Queue : queues.at[q].reading \in Id \cup {NoTask}
    BY IdleInQueue DEF IInv, TQueue
  <2> QED  BY <2>1 DEF Reading
<1>4. {cur.id} \ {NoTask} \subseteq Id
  BY DEF IInv, TypesButQueues, Run
<1>5. DOMAIN Where = Place
  BY DEF Where, Place
<1> QED  BY <1>1, <1>2, <1>3, <1>4 DEF Where, Place

Goes(id, from, to) == Found(Where, id) \in from /\ Where' = Moved(Where, id, to)
LifeStep ==
    \/ Where' = Where
    \/ \E id \in Id :
          \/ \E place \in {"waiting", "external", "reading"} :
                pc = "run" /\ Goes(id, {"none", "running"}, place)
          \/ (pc' = "run" <=> pc = "run") /\ Goes(id, {"waiting", "external"}, "ready")
          \/ pc # "run" /\ pc' = "run" /\ Goes(id, {"ready", "reading"}, "running")
          \/ pc = "run" /\ pc' = "run" /\ Goes(id, Life!Pending, "none")
          \/ pc # "run" /\ pc' # "run" /\ Goes(id, {"running"}, "none")

\* No place has an identifier that is new.
LEMMA NewIsNowhere ==
    ASSUME IInv, LifeParts, NEW id, NewId(id)
    PROVE  \A a \in Place : id \notin Where[a]
<1>1. {t.id : t \in BgTasks(queues)} = ReadyIds(queues) /\ Readers(queues) = Reading(queues)
  <2>1. Alloc(queues) \subseteq Queue /\ NoneOutside(queues)
    BY IdleInQueue DEF IInv, LifeParts, Apart
  <2> QED  BY <2>1, InAllocOnly
<1>2. id \notin Ids(waiting) /\ id \notin Ids(ext)
  BY DEF NewId, UsedIds, Range, Ids
<1>3. id \notin ReadyIds(queues)
  BY <1>1 DEF NewId, UsedIds
<1>4. id \notin Reading(queues) /\ id \notin {cur.id} \ {NoTask}
  BY <1>1 DEF NewId, UsedIds
<1> QED  BY <1>2, <1>3, <1>4, WhereIs DEF Place

\* The running task goes where it is to wait.
LEMMA RunTaskGoes ==
    ASSUME IInv, LifeInv, pc = "run", NEW id \in Id, RunId(id),
           NEW b \in {"waiting", "external", "reading"}, cur'.id = NoTask,
           IInv', LifeParts', Where'[b] = Where[b] \cup {id},
           \A c \in {"waiting", "ready", "external", "reading"} \ {b} : Where'[c] = Where[c]
    PROVE  LifeStep
<1>1. Where' \in [Place -> SUBSET Id] /\ OnePlace(Where)
  <2>1. (IInv /\ LifeParts => Where \in [Place -> SUBSET Id])'
    BY WhereType, PTL
  <2> QED  BY <2>1 DEF LifeInv
<1>2. Where'["running"] = {} /\ Where["running"] = {cur.id} \ {NoTask}
  BY DEF Where
<1>3. CASE cur.id = NoTask
  <2>1. \A a \in Place : id \notin Where[a]
    BY <1>3, NewIsNowhere DEF RunId, LifeInv
  <2>2. \A c \in Place \ {"none", b} : Where'[c] = Where[c]
    BY <1>2, <1>3 DEF Place
  <2>3. Found(Where, id) = "none" /\ Where' = Moved(Where, id, b)
    <3> DEFINE a == "none"
    <3>1. a \in Place \cup {"none"} /\ b \in Place /\ a # b /\ a = "none"
      BY DEF Place
    <3> HIDE DEF a
    <3> QED  BY <1>1, <2>1, <2>2, <3>1, MoveIs
  <2> QED  BY <2>3 DEF LifeStep, Goes
<1>4. CASE cur.id # NoTask
  <2> DEFINE a == "running"
  <2>1. id \in Where[a] /\ Where'[a] = Where[a] \ {id}
    BY <1>2, <1>4 DEF RunId
  <2>2. a \in Place /\ b \in Place /\ a # b /\ a # "none" /\ a = "running"
    BY DEF Place
  <2> HIDE DEF a
  <2>3. \A c \in Place \ {a, b} : Where'[c] = Where[c]
    BY <2>2 DEF Place
  <2>4. Found(Where, id) = a /\ Where' = Moved(Where, id, b)
    BY <1>1, <2>1, <2>2, <2>3, MoveIs
  <2> QED  BY <2>2, <2>4 DEF LifeStep, Goes
<1> QED  BY <1>3, <1>4

LEMMA TaskGoes ==
    ASSUME LifeInv, IInv', LifeParts', NEW id \in Id, NEW a \in Place, NEW b \in Place \cup {"none"},
           a # b, id \in Where[a], Where'[a] = Where[a] \ {id}, b \in Place => Where'[b] = Where[b] \cup {id},
           \A c \in Place \ {a, b} : Where'[c] = Where[c]
    PROVE  Goes(id, {a}, b)
<1>1. (IInv /\ LifeParts => Where \in [Place -> SUBSET Id])'
  BY WhereType, PTL
<1>2. Where' \in [Place -> SUBSET Id] /\ OnePlace(Where) /\ a # "none"
  BY <1>1 DEF LifeInv, Place
<1>3. Found(Where, id) = a /\ Where' = Moved(Where, id, b)
  BY <1>2, MoveIs
<1> QED  BY <1>3 DEF Goes

LEMMA WhereIsNext ==
    /\ Where'["waiting"] = Ids(waiting') /\ Where'["ready"] = ReadyIds(queues')
    /\ Where'["external"] = Ids(ext') /\ Where'["reading"] = Reading(queues')
    /\ Where'["running"] = {cur'.id} \ {NoTask}
BY DEF Where

LEMMA OnlyOnePlace ==
    ASSUME LifeInv, NEW id, NEW a \in Place, id \in Where[a]
    PROVE  id \in Id /\ \A b \in Place \ {a} : id \notin Where[b]
BY DEF LifeInv, OnePlace

\* A step that leaves all tasks where they are.
LEMMA StaysPut ==
    ASSUME LifeInv, Keeps(queues, queues'), UNCHANGED <<waiting, ext>>,
           cur'.id = cur.id, RunOnly'
    PROVE  LifeParts' /\ Where' = Where
<1>1. Apart(queues') /\ ReadyIds(queues') = ReadyIds(queues) /\ Reading(queues') = Reading(queues)
  BY KeepsApart DEF LifeInv, LifeParts
<1>2. LifeParts'
  BY <1>1 DEF LifeInv, LifeParts
<1>3. Where' = Where
  BY <1>1 DEF Where
<1> QED  BY <1>2, <1>3

LEMMA PutStep ==
    ASSUME LifeInv, Keeps(queues, queues'), UNCHANGED <<waiting, ext>>,
           cur'.id = cur.id, RunOnly'
    PROVE  LifeParts' /\ LifeStep
BY StaysPut DEF LifeStep

\* A task of a list that is ready now goes to a queue.
LEMMA BecomesReady ==
    ASSUME IInv, LifeInv, IInv', RunOnly', NEW t \in ProgrTask, NEW t0 \in ProgrTask,
           t0.id = t.id, NEW p \in Player, Room(queues, p),
           LET q == FindTQueue(queues, p)
               S0 == WithTQueue(queues, p)
           IN  \/ queues' = EnqueueBg(EnsureUsage(S0, q), q, t0)
               \/ queues' = EnsureUsage(EnqueueBg(S0, q, t0), q),
           NEW a \in {"waiting", "external"}, t.id \in Where[a], Where'[a] = Where[a] \ {t.id},
           Listed(waiting)', Listed(ext)', cur'.id = cur.id, pc' = pc,
           \A c \in {"waiting", "external"} \ {a} : Where'[c] = Where[c]
    PROVE  LifeParts' /\ LifeStep
<1>1. Sound(queues) /\ Apart(queues) /\ a \in Place
  BY DEF IInv, LifeInv, LifeParts, Place
<1>2. t.id \in Id /\ t0.id \notin ReadyIds(queues)
  <2>1. "ready" \in Place \ {a}
    BY DEF Place
  <2>2. t.id \in Id /\ t.id \notin Where["ready"]
    BY <1>1, <2>1, OnlyOnePlace
  <2> QED  BY <2>2, WhereIs
<1>3. Tasks(queues', ReadyIds(queues) \cup {t.id}, Reading(queues))
  BY <1>1, <1>2, ReadyTaskAdded
<1>4. /\ Apart(queues') /\ ReadyIds(queues') = ReadyIds(queues) \cup {t.id}
      /\ Reading(queues') = Reading(queues)
  BY <1>3 DEF Tasks
<1>5. LifeParts'
  BY <1>4 DEF LifeParts
<1>6. /\ Where'["ready"] = Where["ready"] \cup {t.id} /\ Where'["reading"] = Where["reading"]
      /\ Where'["running"] = Where["running"]
  BY <1>4, WhereIs, WhereIsNext
<1>7. \A c \in Place \ {a, "ready"} : Where'[c] = Where[c]
  BY <1>6 DEF Place
<1>8. "ready" \in Place \cup {"none"} /\ a # "ready"
  BY DEF Place
<1>9. Goes(t.id, {a}, "ready")
  <2> DEFINE b == "ready"
  <2>1. Where'[b] = Where[b] \cup {t.id} /\ \A c \in Place \ {a, b} : Where'[c] = Where[c]
    BY <1>6, <1>7
  <2>2. b \in Place \cup {"none"} /\ a # b
    BY <1>8
  <2> HIDE DEF b
  <2>3. Goes(t.id, {a}, b)
    BY <1>1, <1>2, <1>5, <2>1, <2>2, TaskGoes
  <2> QED  BY <2>3 DEF b
<1>10. LifeStep
  BY <1>2, <1>9 DEF LifeStep, Goes
<1> QED  BY <1>5, <1>10

-----------------------------------------------------------------------------
(* Each step.                                                              *)

LEMMA LifeNow ==
    ASSUME IInv, LifeInv
    PROVE  /\ Sound(queues) /\ Apart(queues) /\ NoneOutside(queues) /\ Keeps(queues, queues)
           /\ Listed(waiting) /\ Listed(ext) /\ cur \in Run
           /\ \A p \in Programmer : p \in Player
           /\ \A g \in Guest : g \in Player
           /\ Alloc(queues) \subseteq Queue
BY IdleInQueue, PlayersAssumption
   DEF IInv, LifeInv, LifeParts, Apart, Keeps, SameTasks, TypesButQueues, Player

LEMMA LifeNetworkStep ==
    ASSUME IInv, LifeInv, NetworkStep, IInv'
    PROVE  LifeParts' /\ LifeStep
<1>0. /\ Sound(queues) /\ Apart(queues) /\ NoneOutside(queues) /\ Keeps(queues, queues)
      /\ Listed(waiting) /\ Listed(ext) /\ cur \in Run
      /\ \A p \in Programmer : p \in Player
      /\ \A g \in Guest : g \in Player
      /\ Alloc(queues) \subseteq Queue
  BY LifeNow
<1>00. RunOnly
  BY DEF LifeInv, LifeParts
<1>1. ASSUME NEW g \in Guest, NEW inbound \in BOOLEAN, NewConnection(g, inbound)
      PROVE  LifeParts' /\ LifeStep
  <2> DEFINE q == FindTQueue(queues, g)
             S0 == WithTQueue(queues, g)
             S1 == [S0 EXCEPT !.at[q].connected = TRUE]
             t == [S0.at[q] EXCEPT !.connected = TRUE]
  <2>1. g \in Player /\ Held(queues, g) = {} /\ Room(queues, g)
    BY <1>0, <1>1 DEF NewConnection
  <2>2. Keeps(queues, S0)
    BY <1>0, <2>1, WithTQueueKeeps
  <2>3. /\ Leads(queues, S0)
        /\ q \in Alloc(S0) /\ S0.at[q].player = g /\ Held(S0, g) = {q}
        /\ S0.active = queues.active
        /\ \A r \in Alloc(queues) : S0.at[r] = queues.at[r]
        /\ Held(queues, g) # {} => S0 = queues
        /\ Held(queues, g) = {} =>
              /\ q \in Queue \ Alloc(queues)
              /\ S0.idle = queues.idle \cup {q}
              /\ S0.at = [queues.at EXCEPT ![q] = NewTQueue(g)]
    BY <1>0, <2>1, WithTQueueProperties
  <2>4. S0.at[q] = NewTQueue(g) /\ q \in Queue
    BY <1>0, <2>1, <2>3, IdleInQueue
  <2> HIDE DEF S0, q
  <2>5. Sound(S0) /\ NoneOutside(S0)
    BY <2>2, <2>3 DEF Keeps, Leads
  <2>6. Assigned(S0, S1, q, t)
    <3>1. \A c \in BOOLEAN : ~S0.at[q].input_suspended =>
              Assigned(S0, [S0 EXCEPT !.at[q].connected = c], q, [S0.at[q] EXCEPT !.connected = c])
      BY <2>4, <2>5, FieldAssignments
    <3>2. ~S0.at[q].input_suspended
      BY <2>4 DEF NewTQueue
    <3> QED  BY <3>1, <3>2
  <2>7. t.bg = S0.at[q].bg /\ t.reading = S0.at[q].reading
    BY <2>4 DEF NewTQueue
  <2> HIDE DEF t, S1
  <2>8. Keeps(S0, S1)
    BY <2>5, <2>6, <2>7, AssignedKeeps
  <2>9. Sound(S1) /\ NoneOutside(S1) /\ q \in Alloc(S1) /\ "blank" \in Line
    BY <2>3, <2>6, <2>8, DomainsAssumption DEF Keeps, Leads, Assigned
  <2>10. Keeps(S1, EnqueueInput(S1, q, "blank", FALSE))
    BY <2>9, EnqueueInputKeeps
  <2>11. Keeps(queues, queues')
    BY <1>1, <2>2, <2>8, <2>10, KeepsTransitive DEF NewConnection, S1, S0, q
  <2> QED  BY <1>00, <1>1, <2>11, PutStep DEF NewConnection, RunOnly
<1>2. ASSUME NEW q \in Queue, NEW l \in Line, ReceiveLine(q, l)
      PROVE  LifeParts' /\ LifeStep
  <2>1. Keeps(queues, queues')
    BY <1>0, <1>2, EnqueueInputKeeps DEF ReceiveLine
  <2> QED  BY <1>00, <1>2, <2>1, PutStep DEF ReceiveLine, RunOnly
<1>3. ASSUME NEW q \in Queue, ReceiveFlush(q)
      PROVE  LifeParts' /\ LifeStep
  <2>1. Keeps(queues, queues')
    BY <1>0, <1>3, DropInputKeeps DEF ReceiveFlush
  <2> QED  BY <1>00, <1>3, <2>1, PutStep DEF ReceiveFlush, RunOnly
<1>4. ASSUME NEW q \in Queue, CloseConnection(q)
      PROVE  LifeParts' /\ LifeStep
  <2>1. cur'.id = NoTask /\ cur'.login = FALSE /\ cur.id = NoTask
    BY <1>00, <1>4 DEF CloseConnection, NoRun, RunOnly
  <2> QED  BY <1>0, <1>4, <2>1, PutStep DEF CloseConnection, RunOnly
<1>5. ASSUME ServerTask
      PROVE  LifeParts' /\ LifeStep
  <2>1. cur'.id = NoTask /\ cur'.login = FALSE /\ cur.id = NoTask
    BY <1>00, <1>5 DEF ServerTask, NoRun, RunOnly
  <2> QED  BY <1>0, <1>5, <2>1, PutStep DEF ServerTask, RunOnly
<1>6. ASSUME ResumeExternal
      PROVE  LifeParts' /\ LifeStep
  <2> DEFINE t == Head(ext)
             t0 == [t EXCEPT !.start = 0]
             p == t.progr
  <2>1. /\ Listed(ext') /\ Ids(ext') = Ids(ext) \ {t.id}
        /\ t \in ProgrTask /\ t.id \in Ids(ext)
    BY <1>0, <1>6, TailIds DEF ResumeExternal
  <2>2. t0 \in ProgrTask /\ t0.id = t.id /\ p \in Player
    BY <1>0, <2>1 DEF ProgrTask, Task
  <2>3. /\ Room(queues, p)
        /\ queues' = EnsureUsage(EnqueueBg(WithTQueue(queues, p), FindTQueue(queues, p), t0),
                                 FindTQueue(queues, p))
    BY <1>6 DEF ResumeExternal
  <2> HIDE DEF t0, p, t
  <2>4. UNCHANGED <<waiting, pc, cur>>
    BY <1>6 DEF ResumeExternal
  <2> DEFINE a == "external"
  <2>5. /\ t.id \in Where[a] /\ Where'[a] = Where[a] \ {t.id}
        /\ \A c \in {"waiting", "external"} \ {a} : Where'[c] = Where[c]
    BY <2>1, <2>4, WhereIs, WhereIsNext
  <2>6. a \in {"waiting", "external"}
    OBVIOUS
  <2> HIDE DEF a
  <2>7. RunOnly' /\ Listed(waiting)' /\ Listed(ext)' /\ cur'.id = cur.id /\ pc' = pc
    BY <1>0, <1>00, <2>1, <2>4 DEF RunOnly
  <2> QED  BY <2>1, <2>2, <2>3, <2>5, <2>6, <2>7, BecomesReady
<1> QED  BY <1>1, <1>2, <1>3, <1>4, <1>5, <1>6 DEF NetworkStep

\* The reader of a queue stops, or starts, reading.
LEMMA ReaderGone ==
    ASSUME NEW S, Sound(S), Apart(S), NEW q \in Alloc(S)
    PROVE  Tasks([S EXCEPT !.at[q].reading = NoTask], ReadyIds(S), Reading(S) \ {S.at[q].reading})
<1> DEFINE T == [S EXCEPT !.at[q].reading = NoTask]
           tq == [S.at[q] EXCEPT !.reading = NoTask]
<1>1. q \in Queue /\ S.at[q] \in TQueue
  BY IdleInQueue
<1>2. Assigned(S, T, q, tq)
  BY <1>1, FieldAssignments
<1>3. tq.bg = S.at[q].bg /\ tq.reading = NoTask
  BY <1>1 DEF TQueue
<1> HIDE DEF T, tq
<1>4. /\ T.at[q] = tq /\ (\A r \in Queue \ {q} : T.at[r] = S.at[r]) /\ Alloc(T) = Alloc(S)
  BY <1>2 DEF Assigned
<1>5. NoneOutside(T) /\ \A r \in Queue \ {q} : SameTasks(S, T, r)
  BY <1>1, <1>4 DEF NoneOutside, SameTasks, Apart
<1>6. Tasks(T, ReadyIds(S), Reading(S) \ {S.at[q].reading})
  BY <1>1, <1>3, <1>4, <1>5, ReaderChanged
<1> QED  BY <1>6 DEF T

LEMMA ReaderThere ==
    ASSUME NEW S, Sound(S), Apart(S), NEW q \in Alloc(S), NEW id \in Id, id \notin Reading(S),
           S.at[q].reading = NoTask
    PROVE  LET T == [S EXCEPT !.at[q].reading = id]
           IN  Tasks(T, ReadyIds(S), Reading(S) \cup {id}) /\ Leads(S, T) /\ Alloc(T) = Alloc(S)
<1> DEFINE T == [S EXCEPT !.at[q].reading = id]
           tq == [S.at[q] EXCEPT !.reading = id]
<1>1. q \in Queue /\ S.at[q] \in TQueue /\ id # NoTask
  BY IdleInQueue, DomainsAssumption
<1>2. Assigned(S, T, q, tq)
  <2>1. \A i \in Id \cup {NoTask} :
            Assigned(S, [S EXCEPT !.at[q].reading = i], q, [S.at[q] EXCEPT !.reading = i])
    BY <1>1, FieldAssignments
  <2> QED  BY <2>1
<1>3. tq.bg = S.at[q].bg /\ tq.reading = id
  BY <1>1 DEF TQueue
<1> HIDE DEF T, tq
<1>4. /\ T.at[q] = tq /\ (\A r \in Queue \ {q} : T.at[r] = S.at[r]) /\ Alloc(T) = Alloc(S)
      /\ Leads(S, T)
  BY <1>2 DEF Assigned
<1>5. NoneOutside(T) /\ \A r \in Queue \ {q} : SameTasks(S, T, r)
  BY <1>1, <1>4 DEF NoneOutside, SameTasks, Apart
<1>6. T.at[q].bg = S.at[q].bg /\ T.at[q].reading = id /\ q \in Alloc(T)
  BY <1>3, <1>4
<1>7. Tasks(T, ReadyIds(S), Reading(S) \cup ({id} \ {NoTask}))
  BY <1>1, <1>5, <1>6, ReaderChanged
<1>8. {id} \ {NoTask} = {id}
  BY <1>1
<1> QED  BY <1>4, <1>7, <1>8 DEF T

\* A task that is ready or reading starts: it becomes the running one.
LEMMA RunStarts ==
    ASSUME LifeInv, IInv', RunOnly, pc = "serve", NEW a \in {"ready", "reading"},
           NEW id \in Id, id \in Where[a], Tasks(queues', IF a = "ready" THEN ReadyIds(queues) \ {id}
                                                         ELSE ReadyIds(queues),
                                               IF a = "reading" THEN Reading(queues) \ {id}
                                               ELSE Reading(queues)),
           NEW q, StartRun(q, id, FALSE)
    PROVE  LifeParts' /\ LifeStep
<1>1. /\ cur'.id = id /\ cur'.login = FALSE /\ pc' = "run" /\ UNCHANGED <<waiting, ext>>
      /\ cur.id = NoTask /\ id # NoTask
  BY DomainsAssumption DEF StartRun, NoRun, RunOnly
<1>2. LifeParts'
  BY <1>1 DEF LifeInv, LifeParts, RunOnly, Tasks
<1>3. /\ Where'["waiting"] = Where["waiting"] /\ Where'["external"] = Where["external"]
      /\ Where["running"] = {} /\ Where'["running"] = {id}
  BY <1>1, WhereIs, WhereIsNext
<1>4. /\ Where'[a] = Where[a] \ {id}
      /\ \A c \in {"ready", "reading"} \ {a} : Where'[c] = Where[c]
  <2>1. CASE a = "ready"
    BY <2>1, WhereIs, WhereIsNext DEF Tasks
  <2>2. CASE a = "reading"
    BY <2>2, WhereIs, WhereIsNext DEF Tasks
  <2> QED  BY <2>1, <2>2
<1> DEFINE b == "running"
<1>5. /\ a \in Place /\ b \in Place \cup {"none"} /\ a # b /\ Where'[b] = Where[b] \cup {id}
      /\ \A c \in Place \ {a, b} : Where'[c] = Where[c]
  BY <1>3, <1>4 DEF Place
<1> HIDE DEF b
<1>6. Goes(id, {a}, b)
  BY <1>2, <1>4, <1>5, TaskGoes
<1>7. pc # "run"
  OBVIOUS
<1>8. Goes(id, {"ready", "reading"}, "running")
  BY <1>6 DEF Goes, b
<1> QED  BY <1>1, <1>2, <1>7, <1>8 DEF LifeStep

\* The end of a run.
LEMMA RunIsOver ==
    ASSUME IInv, LifeInv, IInv', pc = "done", pc' # "run", Keeps(queues, queues'),
           UNCHANGED <<waiting, ext>>, cur' = NoRun
    PROVE  LifeParts' /\ LifeStep
<1>1. cur'.id = NoTask /\ cur'.login = FALSE
  BY DEF NoRun
<1>2. RunOnly'
  BY <1>1 DEF RunOnly
<1>3. CASE cur.id = NoTask
  BY <1>1, <1>2, <1>3, PutStep
<1>4. CASE cur.id # NoTask
  <2>1. Apart(queues') /\ ReadyIds(queues') = ReadyIds(queues) /\ Reading(queues') = Reading(queues)
    BY KeepsApart DEF LifeInv, LifeParts
  <2>2. LifeParts'
    BY <1>2, <2>1 DEF LifeInv, LifeParts
  <2> DEFINE a == "running"
             b == "none"
             id == cur.id
  <2>3. id \in Where[a] /\ Where'[a] = Where[a] \ {id} /\ id \in Id
    BY <1>1, <1>4, WhereIs, WhereIsNext DEF IInv, TypesButQueues, Run
  <2>4. \A c \in Place \ {a, b} : Where'[c] = Where[c]
    BY <2>1, WhereIs, WhereIsNext DEF Place
  <2>5. a \in Place /\ b \in Place \cup {"none"} /\ b \notin Place /\ a # b
    BY DEF Place
  <2> HIDE DEF a, b, id
  <2>6. Goes(id, {a}, b)
    BY <2>2, <2>3, <2>4, <2>5, TaskGoes
  <2>7. pc # "run"
    OBVIOUS
  <2> QED  BY <2>2, <2>3, <2>6, <2>7 DEF LifeStep, a, b
<1> QED  BY <1>3, <1>4

LEMMA LifeLoopStep ==
    ASSUME IInv, LifeInv, Calm(queues), LoopStep, IInv'
    PROVE  LifeParts' /\ LifeStep
<1>0. /\ Sound(queues) /\ Apart(queues) /\ NoneOutside(queues) /\ Keeps(queues, queues)
      /\ Listed(waiting) /\ Listed(ext) /\ cur \in Run
      /\ \A p \in Programmer : p \in Player
      /\ \A g \in Guest : g \in Player
      /\ Alloc(queues) \subseteq Queue
  BY LifeNow
<1>00. RunOnly
  BY DEF LifeInv, LifeParts
<1>000. Serving => queues.active # <<>> /\ Served \in Queue /\ Served \in Alloc(queues) /\ pc = "serve"
  BY <1>0, AllocInQueue DEF Sound, Serving, Served, Alloc, QueuesTypeOK
<1>1. CASE RunReadyTasks \/ WakeDone \/ ServedNone
  BY <1>0, <1>00, <1>1, PutStep DEF RunReadyTasks, WakeDone, ServedNone, RunOnly
<1>2. CASE WakeTask
  <2> DEFINE t == Head(waiting)
             p == t.progr
  <2>1. /\ Listed(waiting') /\ Ids(waiting') = Ids(waiting) \ {t.id}
        /\ t \in ProgrTask /\ t.id \in Ids(waiting)
    BY <1>0, <1>2, TailIds DEF WakeTask, FirstIsDue
  <2>2. p \in Player
    BY <1>0, <2>1 DEF ProgrTask
  <2>3. /\ Room(queues, p)
        /\ queues' = EnqueueBg(EnsureUsage(WithTQueue(queues, p), FindTQueue(queues, p)),
                               FindTQueue(queues, p), t)
    BY <1>2 DEF WakeTask
  <2> HIDE DEF p, t
  <2>4. UNCHANGED <<ext, pc, cur>>
    BY <1>2 DEF WakeTask
  <2> DEFINE a == "waiting"
  <2>5. /\ t.id \in Where[a] /\ Where'[a] = Where[a] \ {t.id}
        /\ \A c \in {"waiting", "external"} \ {a} : Where'[c] = Where[c]
    BY <2>1, <2>4, WhereIs, WhereIsNext
  <2>6. a \in {"waiting", "external"}
    OBVIOUS
  <2> HIDE DEF a
  <2>7. RunOnly' /\ Listed(waiting)' /\ Listed(ext)' /\ cur'.id = cur.id /\ pc' = pc
    BY <1>0, <1>00, <2>1, <2>4 DEF RunOnly
  <2> QED  BY <2>1, <2>2, <2>3, <2>5, <2>6, <2>7, BecomesReady
\* A run without a task of its own.
<1>3. ASSUME NEW login \in BOOLEAN, StartRun(Served, NoTask, login), Keeps(queues, queues'), Serving
      PROVE  LifeParts' /\ LifeStep
  <2>1. cur'.id = NoTask /\ cur.id = NoTask
    BY <1>00, <1>000, <1>3 DEF StartRun, NoRun, RunOnly
  <2> QED  BY <1>3, <2>1, PutStep DEF StartRun, RunOnly
<1>4. CASE ResumeReaderAtEnd
  <2> DEFINE id == queues.at[Served].reading
  <2>1. /\ id # NoTask /\ queues.at[Served] \in TQueue /\ Served \in Queue /\ Served \in Alloc(queues)
        /\ pc = "serve"
    BY <1>0, <1>000, <1>4, IdleInQueue DEF ResumeReaderAtEnd
  <2>2. queues' = [queues EXCEPT !.at[Served].reading = NoTask] /\ StartRun(Served, id, FALSE)
    BY <1>4 DEF ResumeReaderAtEnd
  <2>3. id \in Id /\ id \in Where["reading"]
    BY <2>1, WhereIs DEF TQueue, Reading
  <2>4. Tasks(queues', ReadyIds(queues), Reading(queues) \ {id})
    BY <1>0, <2>1, <2>2, ReaderGone
  <2> HIDE DEF id
  <2> DEFINE a == "reading"
  <2>5. /\ a \in {"ready", "reading"} /\ id \in Where[a]
        /\ Tasks(queues', IF a = "ready" THEN ReadyIds(queues) \ {id} ELSE ReadyIds(queues),
                          IF a = "reading" THEN Reading(queues) \ {id} ELSE Reading(queues))
    BY <2>3, <2>4
  <2> HIDE DEF a
  <2> QED  BY <1>00, <2>1, <2>2, <2>3, <2>5, RunStarts
<1>5. CASE OutOfBandCommand
  <2>1. Keeps(queues, queues') /\ StartRun(Served, NoTask, FALSE) /\ Serving
    BY <1>0, <1>000, <1>5, DequeueInputKeeps DEF OutOfBandCommand, TakesInput
  <2> QED  BY <1>3, <2>1
<1>6. CASE ResumeReader
  <2> DEFINE S1 == DequeueInput(queues, Served)
             id == queues.at[Served].reading
  <2>1. /\ id # NoTask /\ queues.at[Served] \in TQueue /\ Served \in Queue /\ Served \in Alloc(queues)
        /\ pc = "serve" /\ queues.at[Served].input # <<>>
    BY <1>0, <1>000, <1>6, IdleInQueue DEF ResumeReader, TakesInput
  <2>2. queues' = [S1 EXCEPT !.at[Served].reading = NoTask] /\ StartRun(Served, id, FALSE)
    BY <1>6 DEF ResumeReader
  <2>3. id \in Id /\ id \in Where["reading"]
    BY <2>1, WhereIs DEF TQueue, Reading
  <2>4. /\ Leads(queues, S1) /\ LinesTaken(queues, S1, Served)
        /\ S1.active = queues.active /\ S1.idle = queues.idle /\ Alloc(S1) = Alloc(queues)
    BY <1>0, <2>1, DequeueInputProperties
  <2>5. Keeps(queues, S1)
    BY <1>0, <2>1, DequeueInputKeeps
  <2> HIDE DEF S1
  <2>6. /\ Apart(S1) /\ ReadyIds(S1) = ReadyIds(queues) /\ Reading(S1) = Reading(queues)
        /\ Sound(S1) /\ Served \in Alloc(S1) /\ S1.at[Served].reading = id
    BY <1>0, <2>1, <2>4, <2>5, KeepsApart DEF Leads, Keeps, SameTasks
  <2>7. Tasks(queues', ReadyIds(S1), Reading(S1) \ {id})
    BY <2>2, <2>6, ReaderGone
  <2> HIDE DEF id
  <2> DEFINE a == "reading"
  <2>8. /\ a \in {"ready", "reading"} /\ id \in Where[a]
        /\ Tasks(queues', IF a = "ready" THEN ReadyIds(queues) \ {id} ELSE ReadyIds(queues),
                          IF a = "reading" THEN Reading(queues) \ {id} ELSE Reading(queues))
    BY <2>3, <2>6, <2>7
  <2> HIDE DEF a
  <2> QED  BY <1>00, <2>1, <2>2, <2>3, <2>8, RunStarts
<1>7. CASE CommandTask
  <2>1. Keeps(queues, queues') /\ Serving
    BY <1>0, <1>000, <1>7, DequeueInputKeeps DEF CommandTask, TakesInput
  <2>2. (queues.at[Served].player < 0) \in BOOLEAN
    OBVIOUS
  <2> QED  BY <1>3, <1>7, <2>1, <2>2 DEF CommandTask
<1>8. CASE SkipBlank
  <2>1. Keeps(queues, queues') /\ Serving
    BY <1>0, <1>000, <1>8, DequeueInputKeeps DEF SkipBlank, TakesInput
  <2> QED  BY <1>00, <1>8, <2>1, PutStep DEF SkipBlank, RunOnly
<1>9. CASE BackgroundTask
  <2> DEFINE S == queues
             b == S.at[Served].bg
             n == S.at[Served].num_bg
             v == Tail(b)
             tq == [S.at[Served] EXCEPT !.bg = v, !.num_bg = n - 1]
             id == Head(b).id
  <2>1. /\ b # <<>> /\ S.at[Served] \in TQueue /\ Served \in Queue /\ Served \in Alloc(S)
        /\ pc = "serve" /\ StartRun(Served, id, FALSE) /\ queues' = DequeueBg(S, Served)
    BY <1>0, <1>000, <1>9, IdleInQueue DEF BackgroundTask, TakesBg
  <2>2. Assigned(S, queues', Served, tq)
    BY <1>0, <2>1, DequeueBgProperties
  <2>3. Listed(b)
    BY <1>0, <2>1 DEF Apart, Listed
  <2>4. v \in Seq(ProgrTask) /\ b \in Seq(Task) /\ Head(b) \in ProgrTask /\ id \in Ids(b)
    BY <2>1, <2>3, TailIds, SeqOfTasks DEF Listed
  <2>5. Without(v, b, 1) /\ b[1] = Head(b)
    BY <2>1, <2>4, TailWithout
  <2>6. tq.bg = v /\ tq.reading = S.at[Served].reading
    <3> DEFINE m == n - 1
    <3> HIDE DEF v, m
    <3> QED  BY <2>1 DEF TQueue, m
  <2>7. id \in Id /\ id \in Where["ready"]
    BY <2>1, <2>4, WhereIs DEF ReadyIds, ProgrTask, Task
  <2> HIDE DEF tq, v
  <2>8. /\ queues'.at[Served] = tq /\ Alloc(queues') = Alloc(S)
        /\ \A r \in Queue \ {Served} : queues'.at[r] = S.at[r]
    BY <2>2 DEF Assigned
  <2>9. NoneOutside(queues') /\ \A r \in Queue \ {Served} : SameTasks(S, queues', r)
    BY <1>0, <2>1, <2>8 DEF NoneOutside, SameTasks
  <2>10. Tasks(queues', ReadyIds(S) \ {S.at[Served].bg[1].id}, Reading(S))
    <3> DEFINE T == queues'
    <3>1. /\ Served \in Alloc(T) /\ NoneOutside(T) /\ \A r \in Queue \ {Served} : SameTasks(S, T, r)
      BY <2>1, <2>8, <2>9
    <3>2. /\ T.at[Served].reading = S.at[Served].reading
          /\ Without(T.at[Served].bg, S.at[Served].bg, 1) /\ T.at[Served].bg \in Seq(ProgrTask)
      BY <2>4, <2>5, <2>6, <2>8
    <3> HIDE DEF T
    <3>3. Tasks(T, ReadyIds(S) \ {S.at[Served].bg[1].id}, Reading(S))
      BY <1>0, <2>1, <3>1, <3>2, ReadyTaken
    <3> QED  BY <3>3 DEF T
  <2>11. Tasks(queues', ReadyIds(queues) \ {id}, Reading(queues))
    BY <2>5, <2>10
  <2> HIDE DEF id
  <2> DEFINE a == "ready"
  <2>12. /\ a \in {"ready", "reading"} /\ id \in Where[a]
         /\ Tasks(queues', IF a = "ready" THEN ReadyIds(queues) \ {id} ELSE ReadyIds(queues),
                           IF a = "reading" THEN Reading(queues) \ {id} ELSE Reading(queues))
    BY <2>7, <2>11
  <2> HIDE DEF a
  <2> QED  BY <1>00, <2>1, <2>7, <2>12, RunStarts
<1>10. CASE DeactivateServed
  <2>1. Alloc(queues') = Alloc(queues) /\ \A r \in Queue : Same(queues, queues', r)
    BY <1>0, <1>000, <1>10, DeactivateHeadProperties DEF DeactivateServed
  <2>2. Keeps(queues, queues')
    BY <1>0, <2>1, SameKeeps
  <2> QED  BY <1>00, <1>10, <2>2, PutStep DEF DeactivateServed, RunOnly
<1>11. CASE FinishServed
  <2>1. queues.active # <<>> /\ Head(queues.active) = cur.q
    BY <1>11 DEF FinishServed, RunOK, IInv
  <2>2. Alloc(queues') = Alloc(queues) /\ \A r \in Queue : Same(queues, queues', r)
    BY <1>0, <1>11, <2>1, BumpProperties DEF FinishServed, IInv, TypesButQueues
  <2>3. Keeps(queues, queues')
    BY <1>0, <2>2, SameKeeps
  <2> QED  BY <1>11, <2>3, RunIsOver DEF FinishServed
<1>12. CASE FinishServerTask
  <2>1. Keeps(queues, queues')
    BY <1>0, <1>12, FreeTaskQueueKeeps DEF FinishServerTask, IInv, RunOK
  <2> QED  BY <1>12, <2>1, RunIsOver DEF FinishServerTask
<1>13. CASE FreeIdle
  <2>1. Keeps(queues, queues')
    BY <1>0, <1>13, FreeIdleKeeps
  <2> QED  BY <1>00, <1>13, <2>1, PutStep DEF FreeIdle, RunOnly
<1> QED  BY <1>1, <1>2, <1>4, <1>5, <1>6, <1>7, <1>8, <1>9, <1>10, <1>11, <1>12,
            <1>13 DEF LoopStep

\* A task that is new comes to a place.
LEMMA NewTaskGoes ==
    ASSUME LifeInv, IInv', LifeParts', NEW id \in Id, \A c \in Place : id \notin Where[c],
           NEW b \in Place, Where'[b] = Where[b] \cup {id}, \A c \in Place \ {b} : Where'[c] = Where[c]
    PROVE  Goes(id, {"none"}, b)
<1> DEFINE a == "none"
<1>1. (IInv /\ LifeParts => Where \in [Place -> SUBSET Id])'
  BY WhereType, PTL
<1>2. a \in Place \cup {"none"} /\ b \in Place /\ a # b /\ a = "none"
  BY DEF Place
<1>3. Where' \in [Place -> SUBSET Id] /\ OnePlace(Where) /\ \A c \in Place \ {a, b} : Where'[c] = Where[c]
  BY <1>1 DEF LifeInv
<1> HIDE DEF a
<1>4. Found(Where, id) = a /\ Where' = Moved(Where, id, b)
  BY <1>2, <1>3, MoveIs
<1> QED  BY <1>4 DEF Goes, a

\* kill_task(): the task is nowhere any more.
LEMMA TaskKilled ==
    ASSUME LifeInv, IInv', LifeParts', pc = "run", pc' = "run", NEW id \in Id,
           NEW a \in Life!Pending, id \in Where[a], Where'[a] = Where[a] \ {id},
           \A c \in Place \ {a} : Where'[c] = Where[c]
    PROVE  LifeStep
<1> DEFINE b == "none"
<1>1. a \in Place /\ b \in Place \cup {"none"} /\ b \notin Place /\ a # b
  BY DEF Life!Pending, Place
<1> HIDE DEF b
<1>2. Goes(id, {a}, b)
  BY <1>1, TaskGoes
<1>3. Goes(id, Life!Pending, "none")
  BY <1>2 DEF Goes, b
<1> QED  BY <1>3 DEF LifeStep

LEMMA FieldsKeep ==
    ASSUME NEW S, Sound(S), NoneOutside(S), NEW q \in Alloc(S)
    PROVE  /\ \A c \in BOOLEAN : Keeps(S, [S EXCEPT !.at[q].hold_input = c])
                                /\ Leads(S, [S EXCEPT !.at[q].hold_input = c])
           /\ \A n \in Int : Keeps(S, [S EXCEPT !.at[q].num_bg = n])
<1>1. q \in Queue /\ S.at[q] \in TQueue
  BY IdleInQueue
<1>2. ASSUME NEW c \in BOOLEAN
      PROVE  /\ Keeps(S, [S EXCEPT !.at[q].hold_input = c])
             /\ Leads(S, [S EXCEPT !.at[q].hold_input = c])
  <2> DEFINE T == [S EXCEPT !.at[q].hold_input = c]
             t == [S.at[q] EXCEPT !.hold_input = c]
  <2>1. \A d \in BOOLEAN :
            Assigned(S, [S EXCEPT !.at[q].hold_input = d], q, [S.at[q] EXCEPT !.hold_input = d])
    BY <1>1, FieldAssignments
  <2>2. Assigned(S, T, q, t)
    BY <2>1
  <2>3. t.bg = S.at[q].bg /\ t.reading = S.at[q].reading
    BY <1>1 DEF TQueue
  <2> HIDE DEF t, T
  <2>4. Keeps(S, T) /\ Leads(S, T)
    BY <2>2, <2>3, AssignedKeeps DEF Assigned
  <2> QED  BY <2>4 DEF T
<1>3. ASSUME NEW n \in Int  PROVE Keeps(S, [S EXCEPT !.at[q].num_bg = n])
  <2> DEFINE T == [S EXCEPT !.at[q].num_bg = n]
             t == [S.at[q] EXCEPT !.num_bg = n]
  <2>1. \A d \in Int :
            Assigned(S, [S EXCEPT !.at[q].num_bg = d], q, [S.at[q] EXCEPT !.num_bg = d])
    BY <1>1, FieldAssignments
  <2>2. Assigned(S, T, q, t)
    BY <2>1
  <2>3. t.bg = S.at[q].bg /\ t.reading = S.at[q].reading
    BY <1>1 DEF TQueue
  <2> HIDE DEF t, T
  <2>4. Keeps(S, T)
    BY <2>2, <2>3, AssignedKeeps
  <2> QED  BY <2>4 DEF T
<1> QED  BY <1>2, <1>3

LEMMA ReadyTaskGone ==
    ASSUME NEW S, Sound(S), Apart(S), NEW q \in Alloc(S), NEW i \in DOMAIN S.at[q].bg
    PROVE  /\ Tasks([S EXCEPT !.at[q].bg = RemoveAt(@, i), !.at[q].num_bg = @ - 1],
                    ReadyIds(S) \ {S.at[q].bg[i].id}, Reading(S))
           /\ S.at[q].bg[i].id \in ReadyIds(S) /\ S.at[q].bg[i].id \in Id
<1> DEFINE b == S.at[q].bg
           v == RemoveAt(b, i)
           n == S.at[q].num_bg - 1
           T == [S EXCEPT !.at[q].bg = v, !.at[q].num_bg = n]
           t == [S.at[q] EXCEPT !.bg = v, !.num_bg = n]
<1>1. q \in Queue /\ S.at[q] \in TQueue /\ S \in Queues
  BY IdleInQueue, AllocInQueue DEF Sound
<1>2. [S EXCEPT !.at[q].bg = RemoveAt(@, i), !.at[q].num_bg = @ - 1] = T
  BY <1>1 DEF Queues, TQueue
<1>3. Listed(b) /\ n \in Int /\ i \in DOMAIN b
  BY <1>1 DEF Apart, Listed, TQueue
<1>4. /\ v \in Seq(ProgrTask) /\ v \in Seq(Task) /\ b[i] \in ProgrTask /\ b[i].id \in Ids(b)
      /\ Without(v, b, i)
  <2>1. Listed(v) /\ b[i] \in ProgrTask /\ b[i].id \in Ids(b)
    BY <1>3, RemovedIds
  <2>2. b \in Seq(Task) /\ v \in Seq(Task) /\ v \in Seq(ProgrTask)
    BY <1>3, <2>1, SeqOfTasks DEF Listed
  <2> HIDE DEF b
  <2> QED  BY <1>3, <2>1, <2>2, RemoveAtWithout
<1> HIDE DEF v, n
<1>5. t.bg = v /\ t.reading = S.at[q].reading
  BY <1>1 DEF TQueue
<1>6. Assigned(S, T, q, t)
  <2>1. \A c \in Seq(Task), m \in Int :
            Assigned(S, [S EXCEPT !.at[q].bg = c, !.at[q].num_bg = m], q,
                     [S.at[q] EXCEPT !.bg = c, !.num_bg = m])
    BY <1>1, FieldAssignments
  <2> QED  BY <1>3, <1>4, <2>1
<1> HIDE DEF t, T
<1>7. T.at[q] = t /\ Alloc(T) = Alloc(S) /\ \A r \in Queue \ {q} : T.at[r] = S.at[r]
  BY <1>6 DEF Assigned
<1>8. NoneOutside(T) /\ \A r \in Queue \ {q} : SameTasks(S, T, r)
  BY <1>7 DEF NoneOutside, SameTasks, Apart
<1>9. /\ T.at[q].reading = S.at[q].reading /\ q \in Alloc(T)
      /\ Without(T.at[q].bg, S.at[q].bg, i) /\ T.at[q].bg \in Seq(ProgrTask)
  BY <1>4, <1>5, <1>7
<1>10. Tasks(T, ReadyIds(S) \ {S.at[q].bg[i].id}, Reading(S))
  BY <1>1, <1>8, <1>9, ReadyTaken
<1>11. b[i].id \in ReadyIds(S) /\ b[i].id \in Id
  BY <1>1, <1>4 DEF ReadyIds, ProgrTask, Task
<1> QED  BY <1>2, <1>10, <1>11

LEMMA LifeTaskStep ==
    ASSUME IInv, LifeInv, CalmInv, TaskStep, IInv', "reconnect_player" \notin Builtins
    PROVE  LifeParts' /\ LifeStep
<1>0. /\ Sound(queues) /\ Apart(queues) /\ NoneOutside(queues) /\ Keeps(queues, queues)
      /\ Listed(waiting) /\ Listed(ext) /\ cur \in Run
      /\ \A p \in Programmer : p \in Player
      /\ \A g \in Guest : g \in Player
      /\ Alloc(queues) \subseteq Queue
  BY LifeNow
<1>00. RunOnly /\ now \in Nat
  BY DEF LifeInv, LifeParts, IInv, TypesButQueues
<1>000. [cur EXCEPT !.id = NoTask].id = NoTask
  BY <1>0 DEF Run
<1>1. ASSUME NEW id \in Id, NEW p \in Programmer, NEW d \in Delay, Fork(id, p, d)
      PROVE  LifeParts' /\ LifeStep
  <2> DEFINE t == [id |-> id, kind |-> "forked", progr |-> p, start |-> StartTime(d)]
  <2>1. t \in ProgrTask /\ t.id = id
    BY <1>0, <1>00, StartTimeType DEF Task, ProgrTask
  <2>2. /\ queues' = CountIn(queues, p) /\ Room(queues, p) /\ pc = "run" /\ NewId(id)
        /\ waiting' = InsertWaiting(waiting, t) /\ UNCHANGED <<ext, pc, cur>>
    BY <1>1 DEF Fork, EnqueueWaiting, Calls
  <2> HIDE DEF t
  <2>3. \A a \in Place : id \notin Where[a]
    BY <2>2, NewIsNowhere DEF LifeInv
  <2>4. t.id \notin Ids(waiting)
    BY <2>1, <2>3, WhereIs DEF Place
  <2>5. Listed(waiting') /\ Ids(waiting') = Ids(waiting) \cup {id}
    BY <1>0, <2>1, <2>2, <2>4, InsertedIds
  <2>6. Keeps(queues, queues')
    BY <1>0, <2>2, CountInKeeps
  <2>7. Apart(queues') /\ ReadyIds(queues') = ReadyIds(queues) /\ Reading(queues') = Reading(queues)
    BY <1>0, <2>6, KeepsApart
  <2>8. LifeParts'
    BY <1>0, <1>00, <2>2, <2>5, <2>7 DEF LifeParts, RunOnly
  <2> DEFINE b == "waiting"
  <2>9. b \in Place /\ Where'[b] = Where[b] \cup {id}
    BY <2>5, WhereIs, WhereIsNext DEF Place
  <2>10. \A c \in Place \ {b} : Where'[c] = Where[c]
    BY <2>2, <2>7, WhereIs, WhereIsNext DEF Place
  <2> HIDE DEF b
  <2>11. Goes(id, {"none"}, b)
    BY <2>3, <2>8, <2>9, <2>10, NewTaskGoes
  <2> QED  BY <2>2, <2>8, <2>11 DEF LifeStep, Goes, b
\* Any task that waits: it is not in the list yet.
<1>2. ASSUME NEW id \in Id, RunId(id)
      PROVE  id \notin Ids(waiting) /\ id \notin Ids(ext) /\ id \notin Reading(queues)
  <2>1. CASE cur.id = NoTask
    <3>1. \A a \in Place : id \notin Where[a]
      BY <1>2, <2>1, NewIsNowhere DEF RunId, LifeInv
    <3> QED  BY <3>1, WhereIs DEF Place
  <2>2. CASE cur.id # NoTask
    <3> DEFINE a == "running"
    <3>1. id \in Where[a] /\ a \in Place
      BY <1>2, <2>2, WhereIs DEF RunId, Place
    <3> HIDE DEF a
    <3>2. \A b \in Place \ {a} : id \notin Where[b]
      BY <3>1, OnlyOnePlace
    <3> QED  BY <3>2, WhereIs DEF Place, a
  <2> QED  BY <2>1, <2>2
<1>3. ASSUME NEW id \in Id, NEW p \in Programmer, NEW d \in Delay, Suspend(id, p, d)
      PROVE  LifeParts' /\ LifeStep
  <2> DEFINE t == [id |-> id, kind |-> "suspended", progr |-> p, start |-> StartTime(d)]
  <2>1. t \in ProgrTask /\ t.id = id
    BY <1>0, <1>00, StartTimeType DEF Task, ProgrTask
  <2>2. /\ queues' = CountIn(queues, p) /\ Room(queues, p) /\ pc = "run" /\ RunId(id)
        /\ waiting' = InsertWaiting(waiting, t) /\ UNCHANGED ext /\ pc' = "done"
        /\ cur' = [cur EXCEPT !.id = NoTask]
    BY <1>3 DEF Suspend, EnqueueWaiting, Calls
  <2> HIDE DEF t
  <2>3. Listed(waiting') /\ Ids(waiting') = Ids(waiting) \cup {id}
    BY <1>0, <1>2, <2>1, <2>2, InsertedIds
  <2>4. Keeps(queues, queues')
    BY <1>0, <2>2, CountInKeeps
  <2>5. Apart(queues') /\ ReadyIds(queues') = ReadyIds(queues) /\ Reading(queues') = Reading(queues)
    BY <1>0, <2>4, KeepsApart
  <2>6. LifeParts' /\ cur'.id = NoTask
    BY <1>0, <1>00, <1>000, <2>2, <2>3, <2>5 DEF LifeParts, RunOnly
  <2> DEFINE b == "waiting"
  <2>7. /\ b \in {"waiting", "external", "reading"} /\ Where'[b] = Where[b] \cup {id}
        /\ \A c \in {"waiting", "ready", "external", "reading"} \ {b} : Where'[c] = Where[c]
    BY <2>2, <2>3, <2>5, WhereIs, WhereIsNext
  <2> HIDE DEF b
  <2> QED  BY <2>2, <2>6, <2>7, RunTaskGoes
<1>4. ASSUME NEW id \in Id, NEW p \in Programmer, ReadStdin(id, p)
      PROVE  LifeParts' /\ LifeStep
  <2> DEFINE t == [id |-> id, kind |-> "suspended", progr |-> p, start |-> 0]
  <2>1. t \in ProgrTask /\ t.id = id
    BY <1>0 DEF Task, ProgrTask
  <2>2. /\ pc = "run" /\ RunId(id) /\ ext' = <<t>> \o ext /\ UNCHANGED <<queues, waiting>>
        /\ pc' = "done" /\ cur' = [cur EXCEPT !.id = NoTask]
    BY <1>4 DEF ReadStdin, Calls
  <2> HIDE DEF t
  <2>3. Listed(ext') /\ Ids(ext') = Ids(ext) \cup {id}
    BY <1>0, <1>2, <2>1, <2>2, PrependedIds
  <2>4. LifeParts' /\ cur'.id = NoTask
    BY <1>0, <1>00, <1>000, <2>2, <2>3 DEF LifeParts, RunOnly
  <2> DEFINE b == "external"
  <2>5. /\ b \in {"waiting", "external", "reading"} /\ Where'[b] = Where[b] \cup {id}
        /\ \A c \in {"waiting", "ready", "external", "reading"} \ {b} : Where'[c] = Where[c]
    BY <2>2, <2>3, WhereIs, WhereIsNext
  <2> HIDE DEF b
  <2> QED  BY <2>2, <2>4, <2>5, RunTaskGoes
<1>5. ASSUME NEW id \in Id, NEW p \in Player, Read(id, p)
      PROVE  LifeParts' /\ LifeStep
  <2> DEFINE q == Owner(queues, p)
             S1 == [queues EXCEPT !.at[q].reading = id]
  <2>1. q \in Alloc(queues)
    BY <1>0, <1>5, FoundQueue DEF Read
  <2>2. /\ queues.at[q].reading = NoTask /\ pc = "run" /\ RunId(id)
        /\ queues' = (IF queues.at[q].input # <<>> THEN EnsureUsage(S1, q) ELSE S1)
        /\ UNCHANGED <<waiting, ext>> /\ pc' = "done" /\ cur' = [cur EXCEPT !.id = NoTask]
    BY <1>5 DEF Read, Calls
  <2> HIDE DEF q
  <2>3. Tasks(S1, ReadyIds(queues), Reading(queues) \cup {id}) /\ Leads(queues, S1) /\ Alloc(S1) = Alloc(queues)
    BY <1>0, <1>2, <2>1, <2>2, ReaderThere
  <2> HIDE DEF S1
  <2>4. /\ Sound(S1) /\ Apart(S1) /\ NoneOutside(S1) /\ q \in Alloc(S1)
        /\ ReadyIds(S1) = ReadyIds(queues) /\ Reading(S1) = Reading(queues) \cup {id}
    BY <2>1, <2>3 DEF Leads, Tasks, Apart
  <2>5. Keeps(S1, EnsureUsage(S1, q)) /\ Keeps(S1, S1)
    BY <2>4, EnsureUsageKeeps DEF Keeps, SameTasks
  <2>6. Keeps(S1, queues')
    BY <2>2, <2>5
  <2>7. /\ Apart(queues') /\ ReadyIds(queues') = ReadyIds(queues)
        /\ Reading(queues') = Reading(queues) \cup {id}
    BY <2>4, <2>6, KeepsApart
  <2>8. LifeParts' /\ cur'.id = NoTask
    BY <1>0, <1>00, <1>000, <2>2, <2>7 DEF LifeParts, RunOnly
  <2> DEFINE b == "reading"
  <2>9. /\ b \in {"waiting", "external", "reading"} /\ Where'[b] = Where[b] \cup {id}
        /\ \A c \in {"waiting", "ready", "external", "reading"} \ {b} : Where'[c] = Where[c]
    BY <2>2, <2>7, WhereIs, WhereIsNext
  <2> HIDE DEF b
  <2> QED  BY <2>2, <2>8, <2>9, RunTaskGoes
\* A built-in that only moves input lines or queues.
<1>6. ASSUME Keeps(queues, queues'), UNCHANGED <<waiting, ext, pc, cur>>
      PROVE  LifeParts' /\ LifeStep
  BY <1>00, <1>6, PutStep DEF RunOnly
<1>7. ASSUME NEW p \in Player, ReadNow(p)
      PROVE  LifeParts' /\ LifeStep
  <2>1. Owner(queues, p) \in Queue
    BY <1>0, <1>7, FoundQueue DEF ReadNow
  <2>2. Keeps(queues, queues')
    BY <1>0, <1>7, <2>1, DequeueInputKeeps DEF ReadNow
  <2> QED  BY <1>6, <1>7, <2>2 DEF ReadNow
<1>8. ASSUME NEW p \in Player, Room(queues, p)
      PROVE  LET S0 == WithTQueue(queues, p)
                 q == FindTQueue(queues, p)
             IN  Keeps(queues, S0) /\ Sound(S0) /\ NoneOutside(S0) /\ q \in Alloc(S0) /\ q \in Queue
  <2> DEFINE S0 == WithTQueue(queues, p)
             q == FindTQueue(queues, p)
  <2>1. Keeps(queues, S0) /\ Leads(queues, S0) /\ q \in Alloc(S0)
    BY <1>0, <1>8, WithTQueueIs, WithTQueueKeeps
  <2> HIDE DEF S0, q
  <2>2. Sound(S0) /\ NoneOutside(S0)
    BY <2>1 DEF Leads, Keeps
  <2>3. q \in Queue
    BY <2>1, <2>2, IdleInQueue
  <2> QED  BY <2>1, <2>2, <2>3 DEF S0, q
<1>9. ASSUME NEW p \in Player, FlushInput(p)
      PROVE  LifeParts' /\ LifeStep
  <2> DEFINE S0 == WithTQueue(queues, p)
             q == FindTQueue(queues, p)
  <2>1. Room(queues, p) /\ queues' = DropInput(S0, q)
    BY <1>9 DEF FlushInput
  <2>2. Keeps(queues, S0) /\ Sound(S0) /\ NoneOutside(S0) /\ q \in Alloc(S0) /\ q \in Queue
    BY <1>8, <2>1
  <2> HIDE DEF S0, q
  <2>3. Keeps(S0, queues')
    BY <2>1, <2>2, DropInputKeeps
  <2>4. Keeps(queues, queues')
    BY <2>2, <2>3, KeepsTransitive
  <2> QED  BY <1>6, <1>9, <2>4 DEF FlushInput
<1>10. ASSUME NEW p \in Player, NEW l \in Line, NEW atFront \in BOOLEAN, ForceInput(p, l, atFront)
       PROVE  LifeParts' /\ LifeStep
  <2> DEFINE S0 == WithTQueue(queues, p)
             q == FindTQueue(queues, p)
  <2>1. Room(queues, p) /\ queues' = EnqueueInput(S0, q, l, atFront)
    BY <1>10 DEF ForceInput
  <2>2. Keeps(queues, S0) /\ Sound(S0) /\ NoneOutside(S0) /\ q \in Alloc(S0) /\ q \in Queue
    BY <1>8, <2>1
  <2> HIDE DEF S0, q
  <2>3. Keeps(S0, queues')
    BY <2>1, <2>2, EnqueueInputKeeps
  <2>4. Keeps(queues, queues')
    BY <2>2, <2>3, KeepsTransitive
  <2> QED  BY <1>6, <1>10, <2>4 DEF ForceInput
<1>11. ASSUME NEW q \in Queue, NEW hold \in BOOLEAN, SetHoldInput(q, hold)
       PROVE  LifeParts' /\ LifeStep
  <2> DEFINE S1 == [queues EXCEPT !.at[q].hold_input = hold]
  <2>1. /\ q \in Alloc(queues)
        /\ queues' = IF ~hold /\ queues.at[q].input # <<>> THEN EnsureUsage(S1, q) ELSE S1
    BY <1>11 DEF SetHoldInput
  <2>2. Keeps(queues, S1) /\ Leads(queues, S1)
    BY <1>0, <2>1, FieldsKeep
  <2> HIDE DEF S1
  <2>3. Sound(S1) /\ NoneOutside(S1) /\ q \in Alloc(S1)
    BY <2>1, <2>2 DEF Leads, Keeps
  <2>4. Keeps(S1, EnsureUsage(S1, q))
    BY <2>3, EnsureUsageKeeps
  <2>5. Keeps(queues, queues')
    BY <2>1, <2>2, <2>4, KeepsTransitive
  <2> QED  BY <1>6, <1>11, <2>5 DEF SetHoldInput
<1>12. ASSUME NEW i \in DOMAIN waiting, KillWaiting(i)
       PROVE  LifeParts' /\ LifeStep
  <2> DEFINE p == waiting[i].progr
             q == Owner(queues, p)
             n == queues.at[q].num_bg - 1
             id == waiting[i].id
  <2>1. /\ Listed(RemoveAt(waiting, i)) /\ Ids(RemoveAt(waiting, i)) = Ids(waiting) \ {id}
        /\ waiting[i] \in ProgrTask /\ id \in Ids(waiting)
    BY <1>0, RemovedIds
  <2>2. p \in Player /\ id \in Id
    BY <1>0, <2>1 DEF ProgrTask, Task
  <2>3. Keeps(queues, queues')
    <3>1. CASE Held(queues, p) = {}
      BY <1>0, <1>12, <3>1 DEF KillWaiting
    <3>2. CASE Held(queues, p) # {}
      <4>1. q \in Alloc(queues)
        BY <1>0, <2>2, <3>2, FoundQueue
      <4>2. queues' = [queues EXCEPT !.at[q].num_bg = n]
        BY <1>12, <3>2 DEF KillWaiting
      <4> HIDE DEF q
      <4>3. n \in Int
        BY <1>0, <4>1, IdleInQueue DEF TQueue
      <4> HIDE DEF n
      <4> QED  BY <1>0, <4>1, <4>2, <4>3, FieldsKeep
    <3> QED  BY <3>1, <3>2
  <2>4. waiting' = RemoveAt(waiting, i) /\ UNCHANGED <<ext, pc, cur>> /\ pc = "run"
    BY <1>12 DEF KillWaiting, Calls
  <2> HIDE DEF p, id, q
  <2>5. Apart(queues') /\ ReadyIds(queues') = ReadyIds(queues) /\ Reading(queues') = Reading(queues)
    BY <1>0, <2>3, KeepsApart
  <2>6. LifeParts'
    BY <1>0, <1>00, <2>1, <2>4, <2>5 DEF LifeParts, RunOnly
  <2> DEFINE a == "waiting"
  <2>7. a \in Life!Pending /\ id \in Where[a] /\ Where'[a] = Where[a] \ {id}
    BY <2>1, <2>4, WhereIs, WhereIsNext DEF Life!Pending
  <2>8. \A c \in Place \ {a} : Where'[c] = Where[c]
    BY <2>4, <2>5, WhereIs, WhereIsNext DEF Place
  <2> HIDE DEF a
  <2> QED  BY <2>2, <2>4, <2>6, <2>7, <2>8, TaskKilled
<1>13. ASSUME NEW i \in DOMAIN ext, KillExternal(i)
       PROVE  LifeParts' /\ LifeStep
  <2> DEFINE id == ext[i].id
  <2>1. /\ Listed(RemoveAt(ext, i)) /\ Ids(RemoveAt(ext, i)) = Ids(ext) \ {id}
        /\ ext[i] \in ProgrTask /\ id \in Ids(ext)
    BY <1>0, RemovedIds
  <2>2. id \in Id
    BY <1>0, <2>1 DEF ProgrTask, Task
  <2>3. ext' = RemoveAt(ext, i) /\ UNCHANGED <<queues, waiting, pc, cur>> /\ pc = "run"
    BY <1>13 DEF KillExternal, Calls
  <2> HIDE DEF id
  <2>4. LifeParts'
    BY <1>0, <1>00, <2>1, <2>3 DEF LifeParts, RunOnly
  <2> DEFINE a == "external"
  <2>5. a \in Life!Pending /\ id \in Where[a] /\ Where'[a] = Where[a] \ {id}
    BY <2>1, <2>3, WhereIs, WhereIsNext DEF Life!Pending
  <2>6. \A c \in Place \ {a} : Where'[c] = Where[c]
    BY <2>3, WhereIs, WhereIsNext DEF Place
  <2> HIDE DEF a
  <2> QED  BY <2>2, <2>3, <2>4, <2>5, <2>6, TaskKilled
<1>14. ASSUME NEW q \in Queue, KillReader(q)
       PROVE  LifeParts' /\ LifeStep
  <2> DEFINE id == queues.at[q].reading
  <2>1. /\ q \in Alloc(queues) /\ id # NoTask /\ queues' = [queues EXCEPT !.at[q].reading = NoTask]
        /\ UNCHANGED <<waiting, ext, pc, cur>> /\ pc = "run"
    BY <1>14 DEF KillReader, Calls
  <2>2. Tasks(queues', ReadyIds(queues), Reading(queues) \ {id})
    BY <1>0, <2>1, ReaderGone
  <2>3. id \in Id /\ id \in Reading(queues)
    BY <1>0, <2>1, IdleInQueue DEF Reading, TQueue
  <2> HIDE DEF id
  <2>4. Apart(queues') /\ ReadyIds(queues') = ReadyIds(queues) /\ Reading(queues') = Reading(queues) \ {id}
    BY <2>2 DEF Tasks
  <2>5. LifeParts'
    BY <1>0, <1>00, <2>1, <2>4 DEF LifeParts, RunOnly
  <2> DEFINE a == "reading"
  <2>6. a \in Life!Pending /\ id \in Where[a] /\ Where'[a] = Where[a] \ {id}
    BY <2>3, <2>4, WhereIs, WhereIsNext DEF Life!Pending
  <2>7. \A c \in Place \ {a} : Where'[c] = Where[c]
    BY <2>1, <2>4, WhereIs, WhereIsNext DEF Place
  <2> HIDE DEF a
  <2> QED  BY <2>1, <2>3, <2>5, <2>6, <2>7, TaskKilled
<1>15. ASSUME NEW q \in Queue, NEW i \in DOMAIN queues.at[q].bg, KillReady(q, i)
       PROVE  LifeParts' /\ LifeStep
  <2> DEFINE id == queues.at[q].bg[i].id
  <2>1. /\ q \in Alloc(queues) /\ UNCHANGED <<waiting, ext, pc, cur>> /\ pc = "run"
        /\ queues' = [queues EXCEPT !.at[q].bg = RemoveAt(@, i), !.at[q].num_bg = @ - 1]
    BY <1>15 DEF KillReady, Calls, Alloc
  <2>2. id \in Id /\ id \in ReadyIds(queues) /\ Tasks(queues', ReadyIds(queues) \ {id}, Reading(queues))
    BY <1>0, <2>1, ReadyTaskGone
  <2> HIDE DEF id
  <2>3. Apart(queues') /\ ReadyIds(queues') = ReadyIds(queues) \ {id} /\ Reading(queues') = Reading(queues)
    BY <2>2 DEF Tasks
  <2>4. LifeParts'
    BY <1>0, <1>00, <2>1, <2>3 DEF LifeParts, RunOnly
  <2> DEFINE a == "ready"
  <2>5. a \in Life!Pending /\ id \in Where[a] /\ Where'[a] = Where[a] \ {id}
    BY <2>2, <2>3, WhereIs, WhereIsNext DEF Life!Pending
  <2>6. \A c \in Place \ {a} : Where'[c] = Where[c]
    BY <2>1, <2>3, WhereIs, WhereIsNext DEF Place
  <2> HIDE DEF a
  <2> QED  BY <2>1, <2>2, <2>4, <2>5, <2>6, TaskKilled
<1>16. ASSUME NEW i \in DOMAIN waiting, Resume(i)
       PROVE  LifeParts' /\ LifeStep
  <2> DEFINE t == waiting[i]
             t0 == [t EXCEPT !.start = now]
             p == t0.progr
  <2>1. /\ Listed(RemoveAt(waiting, i)) /\ Ids(RemoveAt(waiting, i)) = Ids(waiting) \ {t.id}
        /\ t \in ProgrTask /\ t.id \in Ids(waiting)
    BY <1>0, RemovedIds
  <2>2. t0 \in ProgrTask /\ t0.id = t.id /\ p \in Player
    BY <1>0, <1>00, <2>1 DEF ProgrTask, Task
  <2>3. /\ Room(queues, p)
        /\ queues' = EnqueueBg(EnsureUsage(WithTQueue(queues, p), FindTQueue(queues, p)),
                               FindTQueue(queues, p), t0)
    BY <1>16 DEF Resume
  <2>4. UNCHANGED <<ext, pc, cur>> /\ waiting' = RemoveAt(waiting, i)
    BY <1>16 DEF Resume
  <2> HIDE DEF t0, p, t
  <2> DEFINE a == "waiting"
  <2>5. /\ t.id \in Where[a] /\ Where'[a] = Where[a] \ {t.id}
        /\ \A c \in {"waiting", "external"} \ {a} : Where'[c] = Where[c]
    BY <2>1, <2>4, WhereIs, WhereIsNext
  <2>6. a \in {"waiting", "external"}
    OBVIOUS
  <2> HIDE DEF a
  <2>7. RunOnly' /\ Listed(waiting)' /\ Listed(ext)' /\ cur'.id = cur.id /\ pc' = pc
    BY <1>0, <1>00, <2>1, <2>4 DEF RunOnly
  <2> QED  BY <2>1, <2>2, <2>3, <2>5, <2>6, <2>7, BecomesReady
<1>17. ASSUME NEW new \in User, Login(new)
       PROVE  LifeParts' /\ LifeStep
  <2>1. /\ cur.q \in Alloc(queues) /\ queues.at[cur.q].player \notin User /\ new \in Player
        /\ cur.id = NoTask
    BY <1>0, <1>00, <1>17, AllocInQueue
       DEF Login, IInv, RunOK, Sound, CalmInv, TasksOfUsers, Alloc, Player, RunOnly
  <2>2. /\ CanLeaveTasks(queues, cur.q) /\ queues' = Reassociate(queues, cur.q, new)
        /\ UNCHANGED <<waiting, ext, pc>> /\ queues.at[cur.q].player # new
    BY <1>17 DEF Login
  <2>3. cur'.id = NoTask /\ cur'.login = FALSE
    BY <1>0, <1>17 DEF Login, Run
  <2>4. queues.at[cur.q].bg = <<>>
    BY <2>1 DEF CalmInv, Calm
  <2>5. Tasks(queues', ReadyIds(queues), Reading(queues))
    BY <1>0, <2>1, <2>2, <2>4, ReassociateKeepsTasks
  <2>6. Apart(queues') /\ ReadyIds(queues') = ReadyIds(queues) /\ Reading(queues') = Reading(queues)
    BY <2>5 DEF Tasks
  <2>7. LifeParts'
    BY <1>0, <1>00, <2>2, <2>3, <2>6 DEF LifeParts, RunOnly
  <2>8. Where' = Where
    BY <2>1, <2>2, <2>3, <2>6 DEF Where
  <2> QED  BY <2>7, <2>8 DEF LifeStep
<1>18. \A q \in Queue, new \in User : ~ReconnectPlayer(q, new)
  BY DEF ReconnectPlayer, Calls
<1> QED  BY <1>1, <1>3, <1>4, <1>5, <1>7, <1>9, <1>10, <1>11, <1>12, <1>13, <1>14, <1>15,
            <1>16, <1>17, <1>18 DEF TaskStep

\* Whatever happens in one run of the server, each task goes one way at most.
LEMMA LifeNextStep ==
    ASSUME IInv, LifeInv, CalmInv, [Next]_vars, IInv', "reconnect_player" \notin Builtins
    PROVE  LifeInv' /\ LifeStep
<1>0. Keeps(queues, queues) /\ RunOnly /\ OnePlace(Where)
  BY LifeNow DEF LifeInv, LifeParts
<1>1. LifeParts' /\ LifeStep
  <2>1. CASE NetworkStep
    BY <2>1, LifeNetworkStep
  <2>2. CASE LoopStep
    BY <2>2, LifeLoopStep DEF CalmInv
  <2>3. CASE TaskStep
    BY <2>3, LifeTaskStep
  <2>4. CASE EndTask \/ Tick \/ UNCHANGED vars
    BY <1>0, <2>4, PutStep DEF EndTask, Tick, vars, RunOnly
  <2> QED  BY <2>1, <2>2, <2>3, <2>4 DEF Next
<1>2. \A id \in Id, to \in Place \cup {"none"} : OnePlace(Moved(Where, id, to))
  BY <1>0, MovedIs
<1>3. OnePlace(Where')
  <2>1. {"waiting", "external", "reading", "ready", "running", "none"} \subseteq Place \cup {"none"}
    BY DEF Place
  <2> QED  BY <1>0, <1>1, <1>2, <2>1 DEF LifeStep, Goes
<1>4. OnePlace(Where)'
  BY <1>3 DEF OnePlace
<1> QED  BY <1>1, <1>4 DEF LifeInv

-----------------------------------------------------------------------------
(* The refinement mapping, and the steps it maps.                          *)

LEMMA InPlaceIs ==
    ASSUME IInv, LifeInv, NEW id \in Id, NEW a \in Place
    PROVE  InPlace(id, a) <=> id \in Where[a]
<1>1. {t.id : t \in BgTasks(queues)} = ReadyIds(queues) /\ Readers(queues) = Reading(queues)
  BY IdleInQueue, InAllocOnly DEF IInv, LifeInv, LifeParts, Apart
<1>2. (\E t \in BgTasks(queues) : t.id = id) <=> id \in ReadyIds(queues)
  BY <1>1
<1>3. id # NoTask
  BY DomainsAssumption
<1>4. CASE a = "waiting"
  BY <1>4, WhereIs DEF InPlace, Ids
<1>5. CASE a = "ready"
  BY <1>2, <1>5, WhereIs DEF InPlace
<1>6. CASE a = "external"
  BY <1>6, WhereIs DEF InPlace, Ids
<1>7. CASE a = "reading"
  BY <1>1, <1>7, WhereIs DEF InPlace
<1>8. CASE a = "running"
  BY <1>3, <1>8, WhereIs DEF InPlace
<1> QED  BY <1>4, <1>5, <1>6, <1>7, <1>8 DEF Place

LEMMA LifeIsWhere ==
    ASSUME IInv, LifeInv
    PROVE  [id \in Id |-> LifeOf(id)] = Lives(Where)
<1> SUFFICES ASSUME NEW id \in Id  PROVE LifeOf(id) = Found(Where, id)
  BY DEF Lives
<1> DEFINE places == {place \in {"waiting", "ready", "external", "reading", "running"} :
                         InPlace(id, place)}
<1>1. places = {a \in Place : id \in Where[a]}
  BY InPlaceIs DEF Place
<1>2. LifeOf(id) = IF places = {} THEN "none"
                   ELSE IF Cardinality(places) = 1 THEN CHOOSE place \in places : TRUE
                   ELSE "lost"
  BY DEF LifeOf
<1> HIDE DEF places
<1>3. CASE \A a \in Place : id \notin Where[a]
  <2>1. places = {} /\ Found(Where, id) = "none"
    BY <1>1, <1>3, FoundNowhere
  <2> QED  BY <1>2, <2>1
<1>4. ASSUME NEW a \in Place, id \in Where[a]
      PROVE  LifeOf(id) = Found(Where, id)
  <2>1. places = {a} /\ Found(Where, id) = a
    BY <1>1, <1>4, FoundThere, OnlyOnePlace DEF LifeInv
  <2>2. Cardinality(places) = 1
    BY <2>1, FS_Singleton
  <2>3. places # {} /\ \A place \in places : place = a
    BY <2>1
  <2> QED  BY <1>2, <2>1, <2>2, <2>3
<1> QED  BY <1>3, <1>4

LEMMA LifeTransition ==
    ASSUME IInv, LifeInv, IInv', LifeInv', LifeStep, disk' = disk
    PROVE  [Life!LifeNext]_<<[id \in Id |-> LifeOf(id)], pc = "run", {disk[i].id : i \in DOMAIN disk}>>
<1>1. [id \in Id |-> LifeOf(id)] = Lives(Where)
  BY LifeIsWhere
<1>2. [id \in Id |-> LifeOf(id)]' = Lives(Where')
  <2>1. (IInv /\ LifeInv => [id \in Id |-> LifeOf(id)] = Lives(Where))'
    BY LifeIsWhere, PTL
  <2> QED  BY <2>1 DEF Lives
<1>3. {disk[i].id : i \in DOMAIN disk}' = {disk[i].id : i \in DOMAIN disk}
  OBVIOUS
<1>4. CASE Where' = Where
  <2>1. [id \in Id |-> LifeOf(id)]' = [id \in Id |-> LifeOf(id)]
    BY <1>1, <1>2, <1>4
  <2>2. CASE (pc = "run")' = (pc = "run")
    BY <1>3, <2>1, <2>2
  <2>3. CASE (pc = "run")' # (pc = "run")
    <3>1. (pc = "run")' = ~(pc = "run")
      BY <2>3
    <3>2. Life!Switch
      BY <1>3, <2>1, <3>1 DEF Life!Switch
    <3> QED  BY <3>2 DEF Life!LifeNext
  <2> QED  BY <2>2, <2>3
<1>5. ASSUME NEW id \in Id, NEW from, NEW to \in Place \cup {"none"}, Goes(id, from, to)
      PROVE  Life!Moves(id, from, to)
  <2>1. Lives(Where)[id] \in from
    BY <1>5 DEF Goes, Lives
  <2>2. Lives(Where') = [Lives(Where) EXCEPT ![id] = to]
    BY <1>5, MovedLives DEF LifeInv, Goes
  <2> QED  BY <1>1, <1>2, <1>3, <2>1, <2>2 DEF Life!Moves
<1>6. {"waiting", "external", "reading", "ready", "running", "none"} \subseteq Place \cup {"none"}
  BY DEF Place
<1>7. ASSUME NEW id \in Id, NEW place \in {"waiting", "external", "reading"},
             pc = "run", Goes(id, {"none", "running"}, place)
      PROVE  Life!LifeNext
  <2>1. Life!Moves(id, {"none", "running"}, place) /\ (pc = "run")' \in BOOLEAN
    BY <1>5, <1>6, <1>7
  <2>2. Life!Enqueue(id, place)
    BY <1>7, <2>1 DEF Life!Enqueue
  <2> QED  BY <2>2 DEF Life!LifeNext
<1>8. ASSUME NEW id \in Id, pc' = "run" <=> pc = "run", Goes(id, {"waiting", "external"}, "ready")
      PROVE  Life!LifeNext
  <2>1. Life!MakeReady(id)
    BY <1>5, <1>6, <1>8 DEF Life!MakeReady
  <2> QED  BY <2>1 DEF Life!LifeNext
<1>9. ASSUME NEW id \in Id, pc # "run", pc' = "run", Goes(id, {"ready", "reading"}, "running")
      PROVE  Life!LifeNext
  <2>1. Life!StartTask(id)
    BY <1>5, <1>6, <1>9 DEF Life!StartTask
  <2> QED  BY <2>1 DEF Life!LifeNext
<1>10. ASSUME NEW id \in Id, pc = "run", pc' = "run", Goes(id, Life!Pending, "none")
       PROVE  Life!LifeNext
  <2>1. Life!Kill(id)
    BY <1>5, <1>6, <1>10 DEF Life!Kill
  <2> QED  BY <2>1 DEF Life!LifeNext
<1>11. ASSUME NEW id \in Id, pc # "run", pc' # "run", Goes(id, {"running"}, "none")
       PROVE  Life!LifeNext
  <2>1. Life!Finish(id)
    BY <1>5, <1>6, <1>11 DEF Life!Finish
  <2> QED  BY <2>1 DEF Life!LifeNext
<1> QED  BY <1>4, <1>7, <1>8, <1>9, <1>10, <1>11 DEF LifeStep

-----------------------------------------------------------------------------
(* What a checkpoint writes.                                               *)

IdsOf(kind, s, m) == {s[i].id : i \in {j \in 1..m : s[j].kind = kind}}

LEMMA OnlyIs ==
    ASSUME NEW kind, NEW s, Listed(s)
    PROVE  Listed(Only(kind, s)) /\ Ids(Only(kind, s)) = IdsOf(kind, s, Len(s))
<1> DEFINE n == Len(s)
           D == Seq(ProgrTask)
           step == [m \in 1..n |-> [x \in D |-> IF s[m].kind = kind THEN Append(x, s[m]) ELSE x]]
           Upto(f) == f = [m \in 0..n |-> IF m = 0 THEN <<>>
                                          ELSE IF s[m].kind = kind THEN Append(f[m - 1], s[m])
                                          ELSE f[m - 1]]
           g == CHOOSE f : Upto(f)
<1>1. n \in Nat /\ DOMAIN s = 1..n /\ \A m \in 1..n : s[m] \in ProgrTask
  BY LenProperties DEF Listed
<1>2. Only(kind, s) = g[n]
  BY DEF Only
<1>3. \E f \in [0..n -> D] : Upto(f)
  <2>1. <<>> \in D /\ \A x \in D, t \in ProgrTask : Append(x, t) \in D
    BY EmptySeq, AppendIds
  <2> HIDE DEF n, D
  <2>2. step \in [1..n -> [D -> D]]
    BY <1>1, <2>1
  <2>3. \A m \in 1..n, x \in D :
            step[m][x] = IF s[m].kind = kind THEN Append(x, s[m]) ELSE x
    OBVIOUS
  <2> HIDE DEF step
  <2>4. PICK f \in [0..n -> D] : f[0] = <<>> /\ \A m \in 1..n : f[m] = step[m][f[m - 1]]
    <3>1. Steps(n, D, <<>>, step)
      BY <1>1, <2>1, <2>2 DEF Steps
    <3>2. \E f : Built(f, n, D, <<>>, step)
      BY <3>1, StepByStep
    <3> QED  BY <3>2 DEF Built
  <2>5. ASSUME NEW m \in 0..n, m # 0
        PROVE  f[m] = IF s[m].kind = kind THEN Append(f[m - 1], s[m]) ELSE f[m - 1]
    <3>1. m \in 1..n /\ m - 1 \in 0..n
      BY <1>1, <2>5
    <3>2. f[m - 1] \in D
      BY <3>1
    <3> QED  BY <2>3, <2>4, <2>5, <3>1, <3>2
  <2>6. f = [m \in 0..n |-> f[m]]
    OBVIOUS
  <2>7. Upto(f)
    BY <2>4, <2>5, <2>6
  <2> QED  BY <2>7
<1>4. Upto(g)
  <2> HIDE DEF Upto
  <2> QED  BY <1>3
<1> HIDE DEF g, n, D
<1>5. \A m \in 0..n : g[m] = IF m = 0 THEN <<>>
                             ELSE IF s[m].kind = kind THEN Append(g[m - 1], s[m]) ELSE g[m - 1]
  BY <1>4
<1> DEFINE Good(m) == Listed(g[m]) /\ Ids(g[m]) = IdsOf(kind, s, m)
           S == {m \in 0..n : Good(m)}
<1>6. 0 \in S
  <2>1. g[0] = <<>> /\ IdsOf(kind, s, 0) = {} /\ 0 \in 0..n
    BY <1>1, <1>5 DEF IdsOf
  <2>2. Listed(<<>>)
    BY NoIds, EmptySeq DEF Listed
  <2> QED  BY <2>1, <2>2, NoIds
<1>7. ASSUME NEW m \in 0..n - 1, m \in S  PROVE m + 1 \in S
  <2> DEFINE k == m + 1
             t == s[k]
  <2>1. k \in 1..n /\ k \in 0..n /\ k # 0 /\ k - 1 = m /\ m \in 0..n
    BY <1>1
  <2>2. t \in ProgrTask /\ Listed(g[m]) /\ Ids(g[m]) = IdsOf(kind, s, m)
    BY <1>1, <1>7, <2>1
  <2>3. IdsOf(kind, s, k) = IF t.kind = kind THEN IdsOf(kind, s, m) \cup {t.id} ELSE IdsOf(kind, s, m)
    <3>1. \A j \in 1..k : j \in 1..m \/ j = k
      BY <1>1, <2>1
    <3>2. \A j \in 1..m : j \in 1..k
      BY <1>1, <2>1
    <3>3. k \in 1..k
      BY <1>1, <2>1
    <3> HIDE DEF k
    <3> QED  BY <3>1, <3>2, <3>3 DEF IdsOf
  <2>4. t.id \notin IdsOf(kind, s, m)
    <3>1. \A j \in 1..m : j \in DOMAIN s /\ k \in DOMAIN s /\ j # k
      BY <1>1, <2>1
    <3> HIDE DEF k
    <3> QED  BY <3>1 DEF IdsOf, Listed, Distinct
  <2>5. g[k] = IF t.kind = kind THEN Append(g[m], t) ELSE g[m]
    BY <1>5, <2>1
  <2> HIDE DEF k, t
  <2>6. /\ Append(g[m], t) \in Seq(ProgrTask) /\ Ids(Append(g[m], t)) = Ids(g[m]) \cup {t.id}
        /\ Distinct(g[m]) /\ t.id \notin Ids(g[m]) => Distinct(Append(g[m], t))
    BY <2>2, AppendIds DEF Listed
  <2>7. Good(k)
    BY <2>2, <2>3, <2>4, <2>5, <2>6 DEF Listed
  <2> QED  BY <2>1, <2>7 DEF k
<1>8. n \in S
  <2> HIDE DEF S
  <2>1. 0..n \subseteq S
    BY <1>1, <1>6, <1>7, CountingUp
  <2>2. n \in 0..n
    BY <1>1
  <2> QED  BY <2>1, <2>2
<1> QED  BY <1>2, <1>8 DEF n

LEMMA OneKindEach ==
    ASSUME NEW s, Listed(s)
    PROVE  LET f == Only("forked", s)
               u == Only("suspended", s)
           IN  Listed(f) /\ Listed(u) /\ Ids(f) \cup Ids(u) = Ids(s) /\ Ids(f) \cap Ids(u) = {}
<1> DEFINE n == Len(s)
           f == Only("forked", s)
           u == Only("suspended", s)
<1>1. n \in Nat /\ DOMAIN s = 1..n /\ \A m \in 1..n : s[m].kind \in {"forked", "suspended"}
  <2>1. n \in Nat /\ DOMAIN s = 1..n /\ \A m \in 1..n : s[m] \in ProgrTask
    BY LenProperties DEF Listed
  <2> QED  BY <2>1 DEF ProgrTask, Task
<1>2. /\ Listed(f) /\ Ids(f) = IdsOf("forked", s, n)
      /\ Listed(u) /\ Ids(u) = IdsOf("suspended", s, n)
  BY OnlyIs
<1> HIDE DEF f, u, n
<1>3. IdsOf("forked", s, n) \cup IdsOf("suspended", s, n) = Ids(s)
  BY <1>1 DEF IdsOf, Ids
<1>4. IdsOf("forked", s, n) \cap IdsOf("suspended", s, n) = {}
  <2>1. \A i, j \in 1..n : s[i].id = s[j].id => i = j
    BY <1>1 DEF Listed, Distinct
  <2> QED  BY <2>1 DEF IdsOf
<1> QED  BY <1>2, <1>3, <1>4 DEF f, u

\* Idle queues have no ready task, so the active ones have them all.
LEMMA ReadyTasksIs ==
    ASSUME Sound(queues), Apart(queues), Calm(queues)
    PROVE  Listed(ReadyTasks) /\ Ids(ReadyTasks) = ReadyIds(queues)
<1> DEFINE a == queues.active
           n == Len(a)
           D == Seq(ProgrTask)
           bg(m) == queues.at[a[m]].bg
           step == [m \in 1..n |-> [x \in D |-> x \o bg(m)]]
           Upto(f) == f = [m \in 0..n |-> IF m = 0 THEN <<>> ELSE f[m - 1] \o bg(m)]
           g == CHOOSE f : Upto(f)
<1>1. /\ n \in Nat /\ DOMAIN a = 1..n /\ \A m \in 1..n : a[m] \in Queue
      /\ \A i, j \in 1..n : a[i] = a[j] => i = j
      /\ \A q \in Range(a) : \E m \in 1..n : q = a[m]
  <2>1. a \in Seq(Queue) /\ IsInjective(a)
    BY DEF Sound, QueuesTypeOK
  <2> HIDE DEF a
  <2>2. n \in Nat /\ DOMAIN a = 1..n /\ \A m \in 1..n : a[m] \in Queue
    BY <2>1, LenProperties
  <2> QED  BY <2>1, <2>2 DEF IsInjective, Range
<1>2. ReadyTasks = g[n]
  BY DEF ReadyTasks
<1>3. \A m \in 1..n : bg(m) \in D /\ Distinct(bg(m))
  BY <1>1 DEF Apart
<1>4. \E f \in [0..n -> D] : Upto(f)
  <2>1. <<>> \in D /\ \A x, y \in D : x \o y \in D
    BY EmptySeq, ConcatIds
  <2> HIDE DEF n, D, bg
  <2>2. step \in [1..n -> [D -> D]]
    BY <1>1, <1>3, <2>1
  <2>3. \A m \in 1..n, x \in D : step[m][x] = x \o bg(m)
    OBVIOUS
  <2> HIDE DEF step
  <2>4. PICK f \in [0..n -> D] : f[0] = <<>> /\ \A m \in 1..n : f[m] = step[m][f[m - 1]]
    <3>1. Steps(n, D, <<>>, step)
      BY <1>1, <2>1, <2>2 DEF Steps
    <3>2. \E f : Built(f, n, D, <<>>, step)
      BY <3>1, StepByStep
    <3> QED  BY <3>2 DEF Built
  <2>5. ASSUME NEW m \in 0..n, m # 0  PROVE f[m] = f[m - 1] \o bg(m)
    <3>1. m \in 1..n /\ m - 1 \in 0..n
      BY <1>1, <2>5
    <3>2. f[m - 1] \in D
      BY <3>1
    <3> QED  BY <2>3, <2>4, <2>5, <3>1, <3>2
  <2>6. f = [m \in 0..n |-> f[m]]
    OBVIOUS
  <2>7. Upto(f)
    BY <2>4, <2>5, <2>6
  <2> QED  BY <2>7
<1>5. Upto(g)
  <2> HIDE DEF Upto
  <2> QED  BY <1>4
<1> DEFINE Of(m) == UNION {Ids(bg(i)) : i \in 1..m}
<1> HIDE DEF g, n, D, bg
<1>6. \A m \in 0..n : g[m] = IF m = 0 THEN <<>> ELSE g[m - 1] \o bg(m)
  BY <1>5
<1> DEFINE Good(m) == Listed(g[m]) /\ Ids(g[m]) = Of(m)
           S == {m \in 0..n : Good(m)}
<1>7. 0 \in S
  <2>1. g[0] = <<>> /\ Of(0) = {} /\ 0 \in 0..n
    BY <1>1, <1>6
  <2>2. Listed(<<>>)
    BY NoIds, EmptySeq DEF Listed
  <2> QED  BY <2>1, <2>2, NoIds
<1>8. ASSUME NEW m \in 0..n - 1, m \in S  PROVE m + 1 \in S
  <2> DEFINE k == m + 1
  <2>1. k \in 1..n /\ k \in 0..n /\ k # 0 /\ k - 1 = m /\ m \in 0..n
    BY <1>1
  <2>2. Listed(g[m]) /\ Ids(g[m]) = Of(m) /\ Listed(bg(k))
    BY <1>3, <1>8, <2>1 DEF Listed, D
  <2>3. Of(k) = Of(m) \cup Ids(bg(k))
    <3>1. \A j \in 1..k : j \in 1..m \/ j = k
      BY <1>1, <2>1
    <3>2. \A j \in 1..m : j \in 1..k
      BY <1>1, <2>1
    <3>3. k \in 1..k
      BY <1>1, <2>1
    <3> HIDE DEF k
    <3> QED  BY <3>1, <3>2, <3>3
  <2>4. Ids(bg(k)) \cap Of(m) = {}
    <3>1. ASSUME NEW j \in 1..m  PROVE Ids(bg(k)) \cap Ids(bg(j)) = {}
      <4>1. a[j] \in Queue /\ a[k] \in Queue /\ a[j] # a[k]
        BY <1>1, <2>1
      <4> QED  BY <4>1 DEF Apart, bg
    <3> QED  BY <3>1
  <2>5. g[k] = g[m] \o bg(k)
    BY <1>6, <2>1
  <2> HIDE DEF k, Of
  <2>6. /\ g[m] \o bg(k) \in Seq(ProgrTask) /\ Ids(g[m] \o bg(k)) = Ids(g[m]) \cup Ids(bg(k))
        /\ Distinct(g[m]) /\ Distinct(bg(k)) /\ Ids(g[m]) \cap Ids(bg(k)) = {} => Distinct(g[m] \o bg(k))
    BY <2>2, ConcatIds DEF Listed
  <2>7. Good(k)
    BY <2>2, <2>3, <2>4, <2>5, <2>6 DEF Listed
  <2> QED  BY <2>1, <2>7 DEF k
<1>9. n \in S
  <2> HIDE DEF S
  <2>1. 0..n \subseteq S
    BY <1>1, <1>7, <1>8, CountingUp
  <2>2. n \in 0..n
    BY <1>1
  <2> QED  BY <2>1, <2>2
<1>10. Of(n) = ReadyIds(queues)
  <2>1. Of(n) \subseteq ReadyIds(queues)
    BY <1>1 DEF ReadyIds, bg
  <2>2. ASSUME NEW x \in ReadyIds(queues)  PROVE x \in Of(n)
    <3>1. PICK q \in Queue : x \in Ids(queues.at[q].bg)
      BY DEF ReadyIds
    <3>2. queues.at[q].bg # <<>>
      BY <3>1, NoIds
    <3>3. q \in Range(a)
      BY <3>2 DEF Apart, NoneOutside, Alloc, Calm, NothingToDo
    <3>4. PICK m \in 1..n : q = a[m]
      BY <1>1, <3>3
    <3> QED  BY <3>1, <3>4 DEF bg
  <2> QED  BY <2>1, <2>2
<1> QED  BY <1>2, <1>9, <1>10

LEMMA JoinedIds ==
    ASSUME NEW s, Listed(s), NEW t, Listed(t), Ids(s) \cap Ids(t) = {}
    PROVE  Listed(s \o t) /\ Ids(s \o t) = Ids(s) \cup Ids(t)
BY ConcatIds DEF Listed

\* The checkpoint has every task that waits or is ready, once.
LEMMA WrittenIs ==
    ASSUME IInv, LifeInv, Calm(queues)
    PROVE  Listed(Written) /\ Ids(Written) = Ids(waiting) \cup ReadyIds(queues)
<1> DEFINE wf == Only("forked", waiting)
           ws == Only("suspended", waiting)
           rf == Only("forked", ReadyTasks)
           rs == Only("suspended", ReadyTasks)
<1>1. Listed(ReadyTasks) /\ Ids(ReadyTasks) = ReadyIds(queues) /\ Listed(waiting)
  BY ReadyTasksIs DEF IInv, LifeInv, LifeParts
<1>2. Listed(wf) /\ Listed(ws) /\ Ids(wf) \cup Ids(ws) = Ids(waiting) /\ Ids(wf) \cap Ids(ws) = {}
  BY <1>1, OneKindEach
<1>3. Listed(rf) /\ Listed(rs) /\ Ids(rf) \cup Ids(rs) = ReadyIds(queues) /\ Ids(rf) \cap Ids(rs) = {}
  BY <1>1, OneKindEach
<1>4. Ids(waiting) \cap ReadyIds(queues) = {}
  BY WhereIs DEF LifeInv, OnePlace, Place
<1>5. Written = (wf \o rf) \o (ws \o rs)
  BY DEF Written
<1> HIDE DEF wf, ws, rf, rs
<1>6. Listed(wf \o rf) /\ Ids(wf \o rf) = Ids(wf) \cup Ids(rf)
  BY <1>2, <1>3, <1>4, JoinedIds
<1>7. Listed(ws \o rs) /\ Ids(ws \o rs) = Ids(ws) \cup Ids(rs)
  BY <1>2, <1>3, <1>4, JoinedIds
<1>8. Ids(wf \o rf) \cap Ids(ws \o rs) = {}
  BY <1>2, <1>3, <1>4, <1>6, <1>7
<1>9. Listed(Written) /\ Ids(Written) = Ids(wf \o rf) \cup Ids(ws \o rs)
  BY <1>5, <1>6, <1>7, <1>8, JoinedIds
<1> QED  BY <1>2, <1>3, <1>6, <1>7, <1>9

LEMMA DumpIsCheckpoint ==
    ASSUME IInv, LifeInv, Calm(queues), Dump
    PROVE  Listed(disk') /\ Life!Checkpoint
<1>1. Listed(disk') /\ Ids(disk') = Where["waiting"] \cup Where["ready"]
  BY WrittenIs, WhereIs DEF Dump
<1>2. [id \in Id |-> LifeOf(id)] = Lives(Where)
  BY LifeIsWhere
<1>3. \A id \in Id : Lives(Where)[id] \in {"waiting", "ready"}
                        <=> id \in Where["waiting"] \cup Where["ready"]
  <2> SUFFICES ASSUME NEW id \in Id
               PROVE  Found(Where, id) \in {"waiting", "ready"}
                        <=> id \in Where["waiting"] \cup Where["ready"]
    BY DEF Lives
  <2>1. CASE \A a \in Place : id \notin Where[a]
    <3>1. Found(Where, id) = "none"
      BY <2>1, FoundNowhere
    <3> QED  BY <2>1, <3>1 DEF Place
  <2>2. ASSUME NEW a \in Place, id \in Where[a]
        PROVE  Found(Where, id) \in {"waiting", "ready"}
                 <=> id \in Where["waiting"] \cup Where["ready"]
    <3>1. Found(Where, id) = a
      BY <2>2, FoundThere DEF LifeInv
    <3>2. \A b \in Place \ {a} : id \notin Where[b]
      BY <2>2, OnlyOnePlace
    <3>3. "waiting" \in Place /\ "ready" \in Place
      BY DEF Place
    <3> QED  BY <2>2, <3>1, <3>2, <3>3
  <2> QED  BY <2>1, <2>2
<1>4. Where["waiting"] \cup Where["ready"] \subseteq Id
  BY DEF LifeInv, OnePlace, Place
<1>5. {disk[i].id : i \in DOMAIN disk}' = {id \in Id : [i \in Id |-> LifeOf(i)][id] \in {"waiting", "ready"}}
  <2>1. {disk[i].id : i \in DOMAIN disk}' = Ids(disk')
    BY DEF Ids
  <2> QED  BY <1>1, <1>2, <1>3, <1>4, <2>1
<1>6. [id \in Id |-> LifeOf(id)]' = [id \in Id |-> LifeOf(id)] /\ pc = "io" /\ pc' = pc
  BY DEF Dump, vars, LifeOf, InPlace, BgTasks, Readers, Alloc
<1>7. Life!Checkpoint
  BY <1>5, <1>6 DEF Life!Checkpoint
<1> QED  BY <1>1, <1>7

-----------------------------------------------------------------------------
(* What a restart reads.                                                   *)

EnoughQueues == IsFiniteSet(Programmer) /\ Cardinality(Programmer) <= Cardinality(Queue)

\* Queues made by read_task_queue() only.
Bare(S) ==
    /\ Sound(S) /\ Calm(S) /\ NoneOutside(S)
    /\ \A q \in Queue : S.at[q].bg = <<>> /\ S.at[q].reading = NoTask
    /\ \A q \in Alloc(S) : S.at[q].player \in Programmer

LEMMA NoQueuesBare == Bare(NoQueues)
<1> DEFINE S == NoQueues
<1>1. S.at = [q \in Queue |-> NewTQueue(NOTHING)] /\ S.idle = {} /\ S.active = <<>>
  BY DEF NoQueues
<1>2. NewTQueue(NOTHING) \in TQueue
  <2>1. <<>> \in Seq(Line) /\ <<>> \in Seq(Task)
    BY EmptySeq
  <2> QED  BY <2>1 DEF NewTQueue, TQueue, NO_USAGE
<1>3. Range(S.active) = {} /\ IsInjective(S.active) /\ Alloc(S) = {}
  BY <1>1 DEF Range, IsInjective, Alloc
<1>4. QueuesTypeOK(S)
  <2>1. S \in Queues
    BY <1>2 DEF Queues, NoQueues
  <2> QED  BY <1>1, <1>3, <2>1 DEF QueuesTypeOK, Queues
<1>5. OnePerPlayer(S) /\ ByUsage(S) /\ Calm(S)
  BY <1>1, <1>3 DEF OnePerPlayer, ByUsage, Calm
<1>6. Resuming(S)
  <2>1. Resumes(NewTQueue(NOTHING))
    BY DEF Resumes, NewTQueue
  <2> QED  BY <1>1, <2>1 DEF Resuming
<1>7. \A q \in Queue : S.at[q].bg = <<>> /\ S.at[q].reading = NoTask
  BY <1>1 DEF NewTQueue
<1> HIDE DEF S
<1>8. Bare(S)
  BY <1>3, <1>4, <1>5, <1>6, <1>7 DEF Bare, Sound, NoneOutside
<1> QED  BY <1>8 DEF S

\* One queue for each programmer at most: one without a queue finds room.
LEMMA RoomLeft ==
    ASSUME EnoughQueues, NEW S, Bare(S), NEW p \in Programmer
    PROVE  Room(S, p)
<1> SUFFICES ASSUME Held(S, p) = {}, Queue \subseteq Alloc(S)  PROVE FALSE
  BY DEF Room
<1> DEFINE P == Programmer \ {p}
           f == [q \in Queue |-> S.at[q].player]
<1>1. Alloc(S) = Queue /\ \A q \in Queue : S.at[q].player \in P
  BY IdleInQueue DEF Bare, Held
<1>2. \A q, r \in Queue : S.at[q].player = S.at[r].player => q = r
  <2>1. \A q \in Queue : S.at[q].player # NOTHING
    BY <1>1, PlayersAssumption, PlayerIsSomeone DEF Bare
  <2> QED  BY <1>1, <2>1 DEF Bare, Sound, OnePerPlayer
<1>3. IsFiniteSet(P) /\ Cardinality(P) = Cardinality(Programmer) - 1
  BY FS_RemoveElement DEF EnoughQueues
<1>4. f \in Injection(Queue, P)
  BY <1>1, <1>2 DEF Injection, IsInjective
<1> HIDE DEF f, P
<1>5. Cardinality(Queue) <= Cardinality(P)
  BY <1>3, <1>4, FS_Injection
<1>6. Cardinality(Queue) \in Nat /\ Cardinality(Programmer) \in Nat
  BY DomainsAssumption, FS_CardinalityType DEF EnoughQueues
<1> QED  BY <1>3, <1>5, <1>6 DEF EnoughQueues

LEMMA CountInBare ==
    ASSUME EnoughQueues, NEW S, Bare(S), NEW p \in Programmer
    PROVE  Bare(CountIn(S, p))
<1> DEFINE T == CountIn(S, p)
           S0 == WithTQueue(S, p)
           q == FindTQueue(S, p)
<1>1. Sound(S) /\ Calm(S) /\ NoneOutside(S) /\ p \in Player /\ Room(S, p)
  BY RoomLeft, PlayersAssumption DEF Bare
<1>2. Leads(S, T) /\ Calms(S, T) /\ Keeps(S, T)
  BY <1>1, CountInLeads, CountInCalms, CountInKeeps
<1>3. /\ Leads(S, S0) /\ Sound(S0) /\ q \in Alloc(S0) /\ S0.at[q].player = p
      /\ \A r \in Alloc(S) : S0.at[r] = S.at[r]
      /\ Held(S, p) # {} => S0 = S
      /\ Held(S, p) = {} =>
            /\ Alloc(S0) = Alloc(S) \cup {q} /\ q \notin Alloc(S)
            /\ S0.at[q] = NewTQueue(p)
  BY <1>1, WithTQueueIs
<1>4. T = [S0 EXCEPT !.at[q].num_bg = @ + 1]
  BY DEF CountIn
<1> HIDE DEF T, S0, q
<1>5. \A r \in Alloc(S0) : S0.at[r].player \in Programmer
  BY <1>3 DEF Bare
<1>6. /\ S0.at \in [Queue -> TQueue] /\ Alloc(S0) \subseteq Queue
      /\ T.idle = S0.idle /\ T.active = S0.active
      /\ \A r \in Queue : T.at[r].player = S0.at[r].player
  <2>1. S0 \in Queues /\ S0.at \in [Queue -> TQueue] /\ Alloc(S0) \subseteq Queue
    BY <1>3, IdleInQueue, AllocInQueue DEF Sound
  <2>2. T.idle = S0.idle /\ T.active = S0.active
    BY <1>4, <2>1 DEF Queues
  <2>3. T.at = [S0.at EXCEPT ![q].num_bg = @ + 1]
    BY <1>4, <2>1 DEF Queues
  <2>4. \A r \in Queue : T.at[r].player = S0.at[r].player
    BY <2>1, <2>3 DEF TQueue
  <2> QED  BY <2>1, <2>2, <2>4
<1>7. \A r \in Alloc(T) : T.at[r].player \in Programmer
  BY <1>5, <1>6 DEF Alloc
<1>8. \A r \in Queue : T.at[r].bg = <<>> /\ T.at[r].reading = NoTask
  BY <1>2 DEF Keeps, SameTasks, Bare
<1>9. Bare(T)
  BY <1>2, <1>7, <1>8 DEF Bare, Leads, Calms, Keeps
<1> QED  BY <1>9 DEF T

LEMMA ReloadIs ==
    ASSUME EnoughQueues, NEW s, Listed(s)
    PROVE  LET r == Reload(s)
           IN  Bare(r.q) /\ Listed(r.w) /\ Ids(r.w) = Ids(s)
<1> DEFINE n == Len(s)
           D == {r \in [q : Queues, w : Seq(ProgrTask)] : Bare(r.q)}
           first == [q |-> NoQueues, w |-> <<>>]
           step == [m \in 1..n |-> [r \in D |-> Loaded(r, s[m])]]
           Upto(f) == f = [m \in 0..n |-> IF m = 0 THEN [q |-> NoQueues, w |-> <<>>]
                                          ELSE Loaded(f[m - 1], s[m])]
           g == CHOOSE f : Upto(f)
<1>1. n \in Nat /\ DOMAIN s = 1..n /\ \A m \in 1..n : s[m] \in ProgrTask
  BY LenProperties DEF Listed
<1>2. Reload(s) = g[n]
  BY DEF Reload
<1>3. first \in D
  <2>1. NoQueues \in Queues /\ <<>> \in Seq(ProgrTask)
    BY NoQueuesBare, EmptySeq, AllocInQueue DEF Bare, Sound
  <2> QED  BY <2>1, NoQueuesBare
<1>4. ASSUME NEW r \in D, NEW t \in ProgrTask  PROVE Loaded(r, t) \in D
  <2>1. Bare(CountIn(r.q, t.progr))
    BY CountInBare DEF ProgrTask
  <2>2. CountIn(r.q, t.progr) \in Queues
    BY <2>1, AllocInQueue DEF Bare, Sound
  <2>3. InsertWaiting(r.w, t) \in Seq(ProgrTask)
    BY InsertWaitingType
  <2> QED  BY <2>1, <2>2, <2>3 DEF Loaded
<1> HIDE DEF n, D, first, g
<1>5. PICK f \in [0..n -> D] : f[0] = first /\ \A m \in 1..n : f[m] = Loaded(f[m - 1], s[m])
  <2>1. step \in [1..n -> [D -> D]]
    BY <1>1, <1>4
  <2>2. \A m \in 1..n, r \in D : step[m][r] = Loaded(r, s[m])
    OBVIOUS
  <2> HIDE DEF step
  <2>3. Steps(n, D, first, step)
    BY <1>1, <1>3, <2>1 DEF Steps
  <2>4. PICK f : Built(f, n, D, first, step)
    BY <2>3, StepByStep
  <2>5. ASSUME NEW m \in 1..n  PROVE f[m] = Loaded(f[m - 1], s[m])
    <3>1. m - 1 \in 0..n
      BY <1>1
    <3>2. f[m - 1] \in D
      BY <2>4, <3>1 DEF Built
    <3> QED  BY <2>2, <2>4, <3>2 DEF Built
  <2> QED  BY <2>4, <2>5 DEF Built
<1>6. Upto(f)
  <2>1. ASSUME NEW m \in 0..n, m # 0  PROVE f[m] = Loaded(f[m - 1], s[m])
    <3>1. m \in 1..n
      BY <1>1, <2>1
    <3> QED  BY <1>5, <3>1
  <2>2. f = [m \in 0..n |-> f[m]]
    BY <1>5
  <2>3. \A m \in 0..n : f[m] = IF m = 0 THEN [q |-> NoQueues, w |-> <<>>] ELSE Loaded(f[m - 1], s[m])
    BY <1>5, <2>1 DEF first
  <2> QED  BY <2>2, <2>3
<1>7. Upto(g)
  <2> HIDE DEF Upto
  <2> QED  BY <1>6 DEF g
<1>8. \A m \in 0..n : g[m] = IF m = 0 THEN first ELSE Loaded(g[m - 1], s[m])
  BY <1>7 DEF first
<1> DEFINE ReadFrom(m) == {s[i].id : i \in 1..m}
           Good(m) == g[m] \in D /\ Listed(g[m].w) /\ Ids(g[m].w) = ReadFrom(m)
           S == {m \in 0..n : Good(m)}
<1>9. 0 \in S
  <2>1. g[0] = first /\ 0 \in 0..n /\ first.w = <<>> /\ ReadFrom(0) = {}
    BY <1>1, <1>8 DEF first
  <2>2. Listed(<<>>)
    BY NoIds, EmptySeq DEF Listed
  <2> QED  BY <1>3, <2>1, <2>2, NoIds
<1>10. ASSUME NEW m \in 0..n - 1, m \in S  PROVE m + 1 \in S
  <2> DEFINE k == m + 1
             t == s[k]
  <2>1. k \in 1..n /\ k \in 0..n /\ k # 0 /\ k - 1 = m /\ m \in 0..n
    BY <1>1
  <2>2. t \in ProgrTask /\ g[m] \in D /\ Listed(g[m].w) /\ Ids(g[m].w) = ReadFrom(m)
    BY <1>1, <1>10, <2>1
  <2>3. ReadFrom(k) = ReadFrom(m) \cup {t.id}
    <3>1. \A j \in 1..k : j \in 1..m \/ j = k
      BY <1>1, <2>1
    <3>2. \A j \in 1..m : j \in 1..k
      BY <1>1, <2>1
    <3>3. k \in 1..k
      BY <1>1, <2>1
    <3> HIDE DEF k
    <3> QED  BY <3>1, <3>2, <3>3
  <2>4. t.id \notin ReadFrom(m)
    <3>1. \A j \in 1..m : j \in DOMAIN s /\ k \in DOMAIN s /\ j # k
      BY <1>1, <2>1
    <3> HIDE DEF k
    <3> QED  BY <3>1 DEF Listed, Distinct
  <2>5. g[k] = Loaded(g[m], t)
    BY <1>8, <2>1
  <2> HIDE DEF k, t, ReadFrom
  <2>6. g[k] \in D
    BY <1>4, <2>2, <2>5
  <2>7. g[k].w = InsertWaiting(g[m].w, t)
    BY <2>5 DEF Loaded
  <2>8. Listed(g[k].w) /\ Ids(g[k].w) = Ids(g[m].w) \cup {t.id}
    BY <2>2, <2>4, <2>7, InsertedIds
  <2>9. Good(k)
    BY <2>2, <2>3, <2>6, <2>8
  <2> QED  BY <2>1, <2>9 DEF k
<1>11. n \in S
  <2> HIDE DEF S
  <2>1. 0..n \subseteq S
    BY <1>1, <1>9, <1>10, CountingUp
  <2>2. n \in 0..n
    BY <1>1
  <2> QED  BY <2>1, <2>2
<1>12. ReadFrom(n) = Ids(s)
  BY <1>1 DEF Ids
<1>13. Bare(g[n].q) /\ Listed(g[n].w) /\ Ids(g[n].w) = Ids(s)
  BY <1>11, <1>12 DEF D
<1> QED  BY <1>2, <1>13

\* After a crash every task of the checkpoint waits, and nothing else is there.
LEMMA RestartIsCrash ==
    ASSUME EnoughQueues, Programmer \subseteq User, IInv, Listed(disk), CrashRestart
    PROVE  IInv' /\ CalmInv' /\ LifeInv' /\ Listed(disk)' /\ Life!Crash
<1>1. Bare(queues') /\ Listed(waiting') /\ Ids(waiting') = Ids(disk)
  <2>1. LET r == Reload(disk)
        IN  Bare(r.q) /\ Listed(r.w) /\ Ids(r.w) = Ids(disk)
    BY ReloadIs
  <2> QED  BY <2>1 DEF CrashRestart
<1>2. ext' = <<>> /\ pc' = "io" /\ cur' = NoRun /\ UNCHANGED <<now, start, disk>>
  BY DEF CrashRestart
<1>3. <<>> \in Seq(ProgrTask) /\ Listed(<<>>) /\ Ids(<<>>) = {}
  BY EmptySeq, NoIds DEF Listed
<1>4. IInv'
  <2>1. TypesButQueues'
    <3>1. waiting' \in Seq(Task) /\ ext' \in Seq(Task)
      BY <1>1, <1>2, <1>3, SeqOfTasks DEF Listed
    <3>2. cur' \in Run
      BY <1>2 DEF NoRun, Run
    <3> QED  BY <1>2, <3>1, <3>2 DEF IInv, TypesButQueues
  <2>2. Sound(queues)'
    BY <1>1 DEF Bare
  <2>3. cur'.q = NoQueue /\ cur'.closing = NoQueue /\ cur'.login = FALSE
    BY <1>2 DEF NoRun
  <2> QED  BY <2>1, <2>2, <2>3, NoRunAfter
<1>5. CalmInv'
  <2>1. \A s \in Seq(ProgrTask) : s \in Seq(UserTask)
    BY DEF ProgrTask, UserTask
  <2>2. waiting' \in Seq(UserTask) /\ ext' \in Seq(UserTask)
    BY <1>1, <1>2, <1>3, <2>1 DEF Listed
  <2>3. Calm(queues')
    BY <1>1 DEF Bare
  <2>4. cur'.login = FALSE
    BY <1>2 DEF NoRun
  <2> QED  BY <2>2, <2>3, <2>4 DEF CalmInv, TasksOfUsers, Calm, Alloc, NothingToDo
<1>6. /\ Where'["waiting"] = Ids(disk) /\ Where'["ready"] = {} /\ Where'["external"] = {}
      /\ Where'["reading"] = {} /\ Where'["running"] = {}
  <2>1. ReadyIds(queues') = {} /\ Reading(queues') = {}
    BY <1>1, NoIds DEF Bare, ReadyIds, Reading
  <2>2. {cur'.id} \ {NoTask} = {} /\ Ids(ext') = {}
    BY <1>2, <1>3 DEF NoRun
  <2> QED  BY <1>1, <2>1, <2>2, WhereIsNext
<1>7. LifeParts'
  <2>1. Apart(queues')
    BY <1>1, <1>3, NoIds DEF Bare, Apart
  <2>2. Listed(waiting') /\ Listed(ext')
    BY <1>1, <1>2, <1>3
  <2>3. RunOnly'
    BY <1>2 DEF RunOnly, NoRun
  <2> QED  BY <2>1, <2>2, <2>3 DEF LifeParts, Apart, NoneOutside, Alloc, Ids, Listed, Distinct
<1>8. LifeInv'
  <2>1. (IInv /\ LifeParts => Where \in [Place -> SUBSET Id])'
    BY WhereType, PTL
  <2>2. OnePlace(Where')
    BY <1>4, <1>6, <1>7, <2>1 DEF OnePlace, Place
  <2> QED  BY <1>7, <2>2 DEF LifeInv, OnePlace
<1>9. [id \in Id |-> LifeOf(id)]' = [id \in Id |-> IF id \in Ids(disk) THEN "waiting" ELSE "none"]
  <2>1. (IInv /\ LifeInv => [id \in Id |-> LifeOf(id)] = Lives(Where))'
    BY LifeIsWhere, PTL
  <2>2. [id \in Id |-> LifeOf(id)]' = Lives(Where')
    BY <1>4, <1>8, <2>1 DEF Lives
  <2>3. ASSUME NEW id \in Id
        PROVE  Found(Where', id) = IF id \in Ids(disk) THEN "waiting" ELSE "none"
    <3>1. OnePlace(Where')
      BY <1>8 DEF LifeInv, OnePlace
    <3>2. CASE id \in Ids(disk)
      BY <1>6, <3>1, <3>2, FoundThere DEF Place
    <3>3. CASE id \notin Ids(disk)
      BY <1>6, <3>3, FoundNowhere DEF Place
    <3> QED  BY <3>2, <3>3
  <2> QED  BY <2>2, <2>3 DEF Lives
<1>10. Life!Crash
  <2>1. {disk[i].id : i \in DOMAIN disk} = Ids(disk)
    BY DEF Ids
  <2>2. {disk[i].id : i \in DOMAIN disk}' = {disk[i].id : i \in DOMAIN disk}
    BY <1>2
  <2>3. (pc = "run")' = FALSE
    BY <1>2
  <2> QED  BY <1>9, <2>1, <2>2, <2>3 DEF Life!Crash
<1>11. Listed(disk)'
  BY <1>2 DEF Listed, Distinct
<1> QED  BY <1>4, <1>5, <1>8, <1>10, <1>11

LEMMA StartsEmpty ==
    ASSUME PInit
    PROVE  IInv /\ CalmInv /\ LifeInv /\ Listed(disk) /\ Life!LifeInit
<1>1. /\ queues = NoQueues /\ waiting = <<>> /\ ext = <<>> /\ pc = "io" /\ cur = NoRun /\ disk = <<>>
  BY DEF PInit, Init, NoQueues
<1>2. IInv
  BY IInvInit DEF PInit
<1>3. Listed(<<>>) /\ Ids(<<>>) = {}
  BY EmptySeq, NoIds DEF Listed
<1>4. CalmInv
  <2>1. <<>> \in Seq(UserTask)
    BY EmptySeq
  <2> QED  BY <1>1, <2>1, NoQueuesBare DEF CalmInv, TasksOfUsers, Bare, NoRun
<1>5. LifeParts
  <2>1. Apart(queues)
    BY <1>1, <1>3, NoIds, NoQueuesBare DEF Bare, Apart, Listed
  <2> QED  BY <1>1, <1>3, <2>1 DEF LifeParts, RunOnly, NoRun
<1>6. \A a \in Place : Where[a] = {}
  <2>1. ReadyIds(queues) = {} /\ Reading(queues) = {}
    BY <1>1, NoIds, NoQueuesBare DEF Bare, ReadyIds, Reading
  <2>2. {cur.id} \ {NoTask} = {}
    BY <1>1 DEF NoRun
  <2> QED  BY <1>1, <1>3, <2>1, <2>2, WhereIs DEF Place
<1>7. LifeInv
  BY <1>2, <1>5, <1>6, WhereType DEF LifeInv, OnePlace
<1>8. [id \in Id |-> LifeOf(id)] = [id \in Id |-> "none"]
  <2>1. \A id \in Id : Found(Where, id) = "none"
    BY <1>6, FoundNowhere
  <2> QED  BY <1>2, <1>7, <2>1, LifeIsWhere DEF Lives
<1>9. Life!LifeInit
  <2>1. {disk[i].id : i \in DOMAIN disk} = {}
    BY <1>1, <1>3 DEF Ids
  <2> QED  BY <1>1, <1>8, <2>1 DEF Life!LifeInit
<1> QED  BY <1>1, <1>2, <1>3, <1>4, <1>7, <1>9

KeptInv == IInv /\ CalmInv /\ LifeInv /\ Listed(disk)
LifeSubscript == <<[id \in Id |-> LifeOf(id)], pc = "run", {disk[i].id : i \in DOMAIN disk}>>

LEMMA KeptNext ==
    ASSUME EnoughQueues, Programmer \subseteq User, "reconnect_player" \notin Builtins,
           KeptInv, [PNext]_pvars
    PROVE  KeptInv' /\ [Life!LifeNext]_LifeSubscript
<1>0. IInv /\ CalmInv /\ LifeInv /\ Listed(disk)
  BY DEF KeptInv
<1>1. CASE [Next]_vars /\ disk' = disk
  <2>1. IInv'
    BY <1>0, <1>1, IInvInductive
  <2>2. CalmInv'
    BY <1>0, <1>1, <2>1, CalmNext
  <2>3. LifeInv' /\ LifeStep
    BY <1>0, <1>1, <2>1, LifeNextStep
  <2>4. Listed(disk)'
    BY <1>0, <1>1 DEF Listed, Distinct
  <2>5. [Life!LifeNext]_<<[id \in Id |-> LifeOf(id)], pc = "run", {disk[i].id : i \in DOMAIN disk}>>
    BY <1>0, <1>1, <2>1, <2>3, LifeTransition
  <2> QED  BY <2>1, <2>2, <2>3, <2>4, <2>5 DEF KeptInv, LifeSubscript
<1>2. CASE Dump
  <2>1. Listed(disk') /\ Life!Checkpoint
    BY <1>0, <1>2, DumpIsCheckpoint DEF CalmInv
  <2>2. UNCHANGED vars
    BY <1>2 DEF Dump
  <2>3. IInv'
    BY <1>0, <2>2, IInvInductive
  <2>4. CalmInv'
    BY <1>0, <2>2, <2>3, CalmNext
  <2>5. LifeInv'
    BY <1>0, <2>2, <2>3, LifeNextStep
  <2> QED  BY <2>1, <2>3, <2>4, <2>5 DEF KeptInv, Life!LifeNext, Listed, Distinct
<1>3. CASE CrashRestart
  <2>1. IInv' /\ CalmInv' /\ LifeInv' /\ Listed(disk)' /\ Life!Crash
    BY <1>0, <1>3, RestartIsCrash
  <2> QED  BY <2>1 DEF KeptInv, Life!LifeNext
<1> QED  BY <1>1, <1>2, <1>3 DEF PNext, pvars

\* The queues keep TaskLife's promise: whatever runs, is killed, resumed,
\* read from or reconnects in between, no task is forgotten or in two places,
\* a checkpoint has every forked or suspended task, and a restart brings the
\* tasks of the last checkpoint back.  MOO code does not call
\* reconnect_player() (TLC shows in tasks_reconnect how a task is forgotten
\* then), tasks have the permissions of users, and there is storage for a
\* queue for each of them: the server's malloc() does not return without.
THEOREM TasksAreKept ==
    ASSUME "reconnect_player" \notin Builtins, Programmer \subseteq User,
           IsFiniteSet(Programmer), Cardinality(Programmer) <= Cardinality(Queue)
    PROVE  PSpec => EachTaskKept
<1>0. EnoughQueues
  BY DEF EnoughQueues
<1>1. PInit => KeptInv /\ Life!LifeInit
  BY <1>0, StartsEmpty DEF KeptInv
<1>2. KeptInv /\ [PNext]_pvars => KeptInv' /\ [Life!LifeNext]_LifeSubscript
  BY <1>0, KeptNext
<1>3. KeptInv /\ [PNext]_pvars => KeptInv' /\
        [Life!LifeNext]_<<[id \in Id |-> LifeOf(id)], pc = "run", {disk[i].id : i \in DOMAIN disk}>>
  BY <1>2 DEF LifeSubscript
<1> QED  BY <1>1, <1>3, PTL DEF PSpec, EachTaskKept, Life!LifeSpec
=============================================================================
