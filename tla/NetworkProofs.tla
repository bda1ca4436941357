--------------------------- MODULE NetworkProofs ----------------------------
(***************************************************************************)
(* Proofs about Connections, for any numbers of connections, players,      *)
(* listeners and calls, and about NetOutput, for every limit, all lengths  *)
(* of lines and any number of them.                                        *)
(***************************************************************************)
EXTENDS Connections, NetOutput, Facts, TLAPS

-----------------------------------------------------------------------------
(* Lists.                                                                  *)

LEMMA PlaceIs ==
  ASSUME NEW D, NEW s \in Seq(D), NEW c \in Range(s)
  PROVE  Place(s, c) \in 1..Len(s) /\ s[Place(s, c)] = c
  BY PlaceOf DEF Place

\* In a list without duplicates what comes after an element is another one.
LEMMA AfterIs ==
  ASSUME NEW D, NEW s \in Seq(D), IsInjective(s), NEW c \in Range(s), After(s, c) # Null
  PROVE  After(s, c) \in Range(s) \ {c}
<1> DEFINE n == Place(s, c)
<1>1. Len(s) \in Nat /\ DOMAIN s = 1..Len(s) /\ Range(s) = {s[i] : i \in 1..Len(s)}
  BY LenProperties, RangeEquality
<1>2. n \in 1..Len(s) /\ s[n] = c
  BY PlaceIs
<1>3. n # Len(s) /\ After(s, c) = s[n + 1]
  <2>1. After(s, c) = IF n = Len(s) THEN Null ELSE s[n + 1]
    BY DEF After
  <2> HIDE DEF n
  <2> QED
    BY <2>1
<1> HIDE DEF n
<1>4. n + 1 \in 1..Len(s) /\ n + 1 # n
  <2>1. Len(s) \in Nat /\ n \in 1..Len(s) /\ n # Len(s)
    BY <1>1, <1>2, <1>3
  <2> HIDE <1>1, <1>2, <1>3
  <2> QED
    BY <2>1
<1>5. s[n + 1] # s[n]
  BY <1>1, <1>2, <1>4 DEF IsInjective
<1> QED
  BY <1>1, <1>2, <1>3, <1>4, <1>5

LEMMA FromIs ==
  ASSUME NEW D, NEW s \in Seq(D), NEW c \in Range(s) \cup {Null}
  PROVE  From(s, c) \subseteq Range(s)
<1>1. Len(s) \in Nat /\ Range(s) = {s[i] : i \in 1..Len(s)}
  BY LenProperties, RangeEquality
<1>2. CASE c = Null
  BY <1>2 DEF From
<1>3. CASE c # Null
  <2>1. Place(s, c) \in 1..Len(s)
    BY <1>3, PlaceIs
  <2>2. \A i \in Place(s, c)..Len(s) : i \in 1..Len(s)
    BY <1>1, <2>1
  <2> QED
    BY <1>1, <1>3, <2>2 DEF From
<1> QED
  BY <1>2, <1>3

LEMMA FirstIs ==
  ASSUME NEW D, NEW s \in Seq(D)
  PROVE  First(s) \in Range(s) \cup {Null}
<1>1. CASE s = <<>>
  BY <1>1 DEF First
<1>2. CASE s # <<>>
  <2>1. Len(s) \in Nat \ {0} /\ Head(s) = s[1] /\ Range(s) = {s[i] : i \in 1..Len(s)}
    BY <1>2, EmptySeq, RangeEquality
  <2> QED
    BY <1>2, <2>1 DEF First
<1> QED
  BY <1>1, <1>2

LEMMA FindShandleIs ==
  ASSUME shandles \in Seq(Conn), NEW p
  PROVE  \/ FindShandle(p) = Null /\ \A c \in Open : Owner(c) # p
         \/ FindShandle(p) \in Open /\ Owner(FindShandle(p)) = p
<1> DEFINE I == {i \in 1..Len(shandles) : Owner(shandles[i]) = p}
<1>1. FindShandle(p) = IF I # {} THEN (IF Min(I) = 0 THEN Null ELSE shandles[Min(I)]) ELSE Null
  BY DEF FindShandle, SelectInSeq
<1>2. I \in SUBSET Nat /\ Open = {shandles[i] : i \in 1..Len(shandles)}
  BY RangeEquality, LenProperties DEF Open
<1>3. CASE I = {}
  BY <1>1, <1>2, <1>3
<1>4. CASE I # {}
  <2>1. Min(I) \in I
    <3> HIDE DEF I
    <3> QED
      BY <1>2, <1>4, MinIs
  <2>2. Min(I) # 0
    BY <2>1
  <2> QED
    BY <1>1, <1>2, <1>4, <2>1, <2>2
<1> QED
  BY <1>3, <1>4
-----------------------------------------------------------------------------
(* The handles: the lists, and what is in each.                            *)

Shandle == [player : Player \cup Conn, listener : Listener \cup {SYSTEM_OBJECT},
            in : BOOLEAN, bye : BOOLEAN, outbound : BOOLEAN]

\* Each of the two modules has the same connections, once.
Lists ==
    /\ shandles \in Seq(Conn) /\ IsInjective(shandles)
    /\ nhandles \in Seq(Conn) /\ IsInjective(nhandles) /\ Range(nhandles) = Open
\* Who is logged in on each, and that memory that is free is as it was made.
Owners ==
    /\ sh \in [Conn -> Shandle]
    /\ \A c \in Conn : Owner(c) \in Player \cup {c} /\ (sh[c].in <=> Owner(c) \in Player)
    /\ \A c \in Conn \ Open : sh[c] = Fresh(c)
Handles == Lists /\ Owners /\ OnePerPlayer

LEMMA FreshIs ==
  ASSUME NEW c \in Conn
  PROVE  Fresh(c) \in Shandle /\ Fresh(c).player = c /\ Fresh(c).in = FALSE
  BY DEF Fresh, Shandle

LEMMA OpenIsConn == ASSUME Lists PROVE Open \subseteq Conn /\ Null \notin Open
  BY RangeOfSeq, AddressAssumption DEF Lists, Open

\* A new connection has a number that no other has.
Opened(c) ==
    /\ shandles' = <<c>> \o shandles /\ nhandles' = <<c>> \o nhandles
    /\ sh' \in [Conn -> Shandle] /\ sh'[c].player = c /\ sh'[c].in = FALSE
    /\ \A d \in Conn \ {c} : sh'[d] = sh[d]

LEMMA OpenedOK ==
  ASSUME Handles, NEW c \in Conn \ Open, Opened(c)
  PROVE  Handles' /\ Open' = Open \cup {c}
<1>1. Lists' /\ Open' = Open \cup {c}
  <2>1. /\ shandles \in Seq(Conn) /\ IsInjective(shandles) /\ c \notin Range(shandles)
        /\ nhandles \in Seq(Conn) /\ IsInjective(nhandles) /\ c \notin Range(nhandles)
    BY DEF Handles, Lists, Open
  <2>2. /\ shandles' \in Seq(Conn) /\ IsInjective(shandles')
        /\ Range(shandles') = Range(shandles) \cup {c}
    BY <2>1, InFrontIs DEF Opened
  <2>3. /\ nhandles' \in Seq(Conn) /\ IsInjective(nhandles')
        /\ Range(nhandles') = Range(nhandles) \cup {c}
    BY <2>1, InFrontIs DEF Opened
  <2> QED
    BY <2>2, <2>3 DEF Handles, Lists, Open
<1>2. Owners'
  <2>1. /\ sh' \in [Conn -> Shandle] /\ sh'[c].player = c /\ sh'[c].in = FALSE
        /\ \A d \in Conn \ {c} : sh'[d] = sh[d]
    BY DEF Opened
  <2>2. ASSUME NEW d \in Conn \ {c}
        PROVE  /\ sh'[d].player \in Player \cup {d} /\ (sh'[d].in <=> sh'[d].player \in Player)
               /\ d \notin Open => sh'[d] = Fresh(d)
    BY <2>1, <2>2 DEF Handles, Owners, Owner
  <2>3. c \notin Player
    BY AddressAssumption
  <2> QED
    BY <1>1, <2>1, <2>2, <2>3 DEF Owners, Owner
<1>3. ASSUME NEW d \in Open PROVE sh'[d] = sh[d] /\ sh[d].player # c
  BY <1>3, OpenIsConn, AddressAssumption DEF Handles, Owners, Owner, Opened
<1>4. OnePerPlayer'
  BY <1>1, <1>3 DEF Handles, OnePerPlayer, Owner, Opened
<1> QED
  BY <1>1, <1>2, <1>4 DEF Handles

LEMMA NewConnectionOK ==
  ASSUME Handles,
         \/ \E l \in Listener : NewConnection(l, FALSE)
         \/ NewConnection(SYSTEM_OBJECT, TRUE)
  PROVE  \E c \in Conn \ (Open \cup Held) : Opened(c)
<1>1. ASSUME NEW c \in Conn \ (Open \cup Held), NEW l \in Listener \cup {SYSTEM_OBJECT},
             NEW b \in BOOLEAN, sh' = [sh EXCEPT ![c].outbound = b, ![c].listener = l]
      PROVE  /\ sh' \in [Conn -> Shandle] /\ sh'[c].player = c /\ sh'[c].in = FALSE
             /\ \A d \in Conn \ {c} : sh'[d] = sh[d]
  <2>1. sh \in [Conn -> Shandle] /\ sh[c] \in Shandle /\ sh[c].player = c /\ sh[c].in = FALSE
    BY FreshIs DEF Handles, Owners
  <2>2. sh'[c] = [sh[c] EXCEPT !.outbound = b, !.listener = l]
    BY <1>1, <2>1
  <2>3. sh'[c] \in Shandle /\ sh'[c].player = c /\ sh'[c].in = FALSE
    BY <2>1, <2>2 DEF Shandle
  <2> QED
    BY <1>1, <2>1, <2>3
<1>2. CASE \E l \in Listener : NewConnection(l, FALSE)
  <2>1. PICK c \in Conn \ (Open \cup Held), l \in Listener, b \in BOOLEAN :
            /\ sh' = [sh EXCEPT ![c].outbound = b, ![c].listener = l]
            /\ shandles' = <<c>> \o shandles /\ nhandles' = <<c>> \o nhandles
    BY <1>2 DEF NewConnection
  <2> QED
    BY <1>1, <2>1 DEF Opened
<1>3. CASE NewConnection(SYSTEM_OBJECT, TRUE)
  <2>1. PICK c \in Conn \ (Open \cup Held), b \in BOOLEAN :
            /\ sh' = [sh EXCEPT ![c].outbound = b, ![c].listener = SYSTEM_OBJECT]
            /\ shandles' = <<c>> \o shandles /\ nhandles' = <<c>> \o nhandles
    BY <1>3 DEF NewConnection
  <2> QED
    BY <1>1, <2>1 DEF Opened
<1> QED
  BY <1>2, <1>3

\* A connection is closed and freed.
LEMMA ClosedOK ==
  ASSUME Handles, NEW c \in Conn, sh' = Without(sh, c),
         shandles' = RemoveFirst(shandles, c), nhandles' = RemoveFirst(nhandles, c)
  PROVE  /\ Handles' /\ Open' = Open \ {c}
         /\ \A d \in Conn \ {c} : sh'[d] = sh[d]
<1>1. Lists' /\ Open' = Open \ {c}
  <2>1. /\ shandles' \in Seq(Conn) /\ IsInjective(shandles')
        /\ Range(shandles') = Range(shandles) \ {c}
    BY RemoveFirstIs DEF Handles, Lists
  <2>2. /\ nhandles' \in Seq(Conn) /\ IsInjective(nhandles')
        /\ Range(nhandles') = Range(nhandles) \ {c}
    BY RemoveFirstIs DEF Handles, Lists
  <2> QED
    BY <2>1, <2>2 DEF Handles, Lists, Open
<1>2. sh' = [sh EXCEPT ![c] = Fresh(c)]
  BY AddressAssumption DEF Without
<1>3. sh' \in [Conn -> Shandle] /\ sh'[c] = Fresh(c) /\ \A d \in Conn \ {c} : sh'[d] = sh[d]
  BY <1>2, FreshIs DEF Handles, Owners
<1>4. Owners'
  <2>1. ASSUME NEW d \in Conn \ {c}
        PROVE  /\ sh'[d].player \in Player \cup {d} /\ (sh'[d].in <=> sh'[d].player \in Player)
               /\ d \notin Open => sh'[d] = Fresh(d)
    BY <1>3, <2>1 DEF Handles, Owners, Owner
  <2>2. sh'[c].player = c /\ sh'[c].in = FALSE /\ c \notin Player
    BY <1>3, FreshIs, AddressAssumption
  <2> QED
    BY <1>1, <1>3, <2>1, <2>2 DEF Owners, Owner
<1>5. OnePerPlayer'
  BY <1>1, <1>3, OpenIsConn DEF Handles, OnePerPlayer, Owner
<1> QED
  BY <1>1, <1>3, <1>4, <1>5 DEF Handles

\* What becomes of the handles when c becomes the connection of the player new,
\* and old, the one that new had, is closed, if it had one.
Joined(c, new, old) ==
    /\ sh' \in [Conn -> Shandle]
    /\ sh'[c].player = new /\ sh'[c].in = TRUE /\ sh'[c].listener = sh[c].listener
    /\ \A d \in Conn \ {c, old} : sh'[d] = sh[d]
    /\ Open' = Open \ {old}

LEMMA JoinedOK ==
  ASSUME Handles, NEW c \in Open, NEW new \in Player,
         NEW old, old = FindShandle(new), old # c,
         sh' = Without(Connected(c, new), old),
         shandles' = RemoveFirst(shandles, old), nhandles' = RemoveFirst(nhandles, old)
  PROVE  Handles' /\ Joined(c, new, old)
<1>1. c \in Conn /\ Open \subseteq Conn /\ Null \notin Open
  BY OpenIsConn DEF Handles
<1>2. \/ old = Null /\ \A d \in Open : Owner(d) # new
      \/ old \in Open /\ Owner(old) = new
  BY FindShandleIs DEF Handles, Lists
<1>3. Lists' /\ Open' = Open \ {old}
  <2>1. /\ shandles' \in Seq(Conn) /\ IsInjective(shandles')
        /\ Range(shandles') = Range(shandles) \ {old}
    BY RemoveFirstIs DEF Handles, Lists
  <2>2. /\ nhandles' \in Seq(Conn) /\ IsInjective(nhandles')
        /\ Range(nhandles') = Range(nhandles) \ {old}
    BY RemoveFirstIs DEF Handles, Lists
  <2> QED
    BY <2>1, <2>2 DEF Handles, Lists, Open
<1>4. /\ sh' \in [Conn -> Shandle]
      /\ sh'[c].player = new /\ sh'[c].in = TRUE /\ sh'[c].listener = sh[c].listener
      /\ \A d \in Conn \ {c, old} : sh'[d] = sh[d]
      /\ old # Null => sh'[old] = Fresh(old)
  <2> DEFINE t == Connected(c, new)
  <2>1. sh \in [Conn -> Shandle] /\ sh[c] \in Shandle
    BY <1>1 DEF Handles, Owners
  <2>2. t[c] = [sh[c] EXCEPT !.player = new, !.in = TRUE] /\ \A d \in Conn \ {c} : t[d] = sh[d]
    BY <1>1, <2>1 DEF Connected
  <2>3. t[c] \in Shandle /\ t[c].player = new /\ t[c].in = TRUE /\ t[c].listener = sh[c].listener
    BY <2>1, <2>2 DEF Shandle
  <2>4. t \in [Conn -> Shandle]
    <3>1. t = [d \in Conn |-> t[d]]
      BY <2>1 DEF Connected
    <3>2. \A d \in Conn : t[d] \in Shandle
      BY <2>1, <2>2, <2>3
    <3> HIDE DEF t
    <3> QED
      BY <3>1, <3>2
  <2> HIDE DEF t
  <2>5. sh' = IF old = Null THEN t ELSE [t EXCEPT ![old] = Fresh(old)]
    BY DEF Without, t
  <2>6. CASE old = Null
    BY <1>1, <2>2, <2>3, <2>4, <2>5, <2>6
  <2>7. CASE old # Null
    <3>1. old \in Conn /\ Fresh(old) \in Shandle
      BY <1>1, <1>2, <2>7, FreshIs
    <3>2. sh' = [t EXCEPT ![old] = Fresh(old)]
      BY <2>5, <2>7
    <3>3. sh' \in [Conn -> Shandle] /\ sh'[old] = Fresh(old) /\ \A d \in Conn \ {old} : sh'[d] = t[d]
      BY <2>4, <3>1, <3>2
    <3> QED
      BY <1>1, <2>2, <2>3, <3>3
  <2> QED
    BY <2>6, <2>7
<1>5. Owners'
  <2>1. ASSUME NEW d \in Conn
        PROVE  /\ sh'[d].player \in Player \cup {d} /\ (sh'[d].in <=> sh'[d].player \in Player)
               /\ d \notin Open' => sh'[d] = Fresh(d)
    <3>1. CASE d = c
      <4>1. c \in Open'
        BY <1>3
      <4>2. sh'[c].player \in Player
        BY <1>4
      <4>3. sh'[c].in = TRUE
        BY <1>4
      <4> QED
        BY <3>1, <4>1, <4>2, <4>3
    <3>2. CASE d = old
      <4>1. sh'[d] = Fresh(d)
        BY <1>4, <3>2, AddressAssumption
      <4> QED
        BY <4>1, FreshIs, AddressAssumption
    <3>3. CASE d \notin {c, old}
      BY <1>3, <1>4, <3>3 DEF Handles, Owners, Owner
    <3> QED
      BY <3>1, <3>2, <3>3
  <2> QED
    BY <1>4, <2>1 DEF Owners, Owner
<1>6. OnePerPlayer'
  <2>1. \A d \in Open' \ {c} : sh'[d].player = Owner(d) /\ Owner(d) # new
    BY <1>1, <1>2, <1>3, <1>4 DEF Handles, OnePerPlayer, Owner
  <2>2. \A d, e \in Open' \ {c} : Owner(d) = Owner(e) => d = e
    BY <1>3 DEF Handles, OnePerPlayer
  <2> QED
    BY <1>4, <2>1, <2>2 DEF OnePerPlayer, Owner
<1> QED
  BY <1>3, <1>4, <1>5, <1>6 DEF Handles, Joined

\* boot_player() is for later.
LEMMA BootedOK ==
  ASSUME Handles, NEW c \in Open, sh' = [sh EXCEPT ![c].bye = TRUE],
         shandles' = shandles, nhandles' = nhandles
  PROVE  /\ Handles' /\ Open' = Open
         /\ \A d \in Conn : /\ sh'[d].player = sh[d].player /\ sh'[d].in = sh[d].in
                            /\ sh'[d].listener = sh[d].listener
<1>1. Lists' /\ Open' = Open
  BY DEF Handles, Lists, Open
<1>2. sh \in [Conn -> Shandle] /\ sh[c] \in Shandle /\ c \in Conn
  BY OpenIsConn DEF Handles, Owners
<1>3. sh'[c] = [sh[c] EXCEPT !.bye = TRUE] /\ \A d \in Conn \ {c} : sh'[d] = sh[d]
  BY <1>2
<1>4. /\ sh'[c] \in Shandle /\ sh'[c].player = sh[c].player /\ sh'[c].in = sh[c].in
      /\ sh'[c].listener = sh[c].listener
  BY <1>2, <1>3 DEF Shandle
<1>5. sh' \in [Conn -> Shandle]
  <2>1. sh' = [d \in Conn |-> sh'[d]]
    BY <1>2
  <2> QED
    BY <1>2, <1>3, <1>4, <2>1
<1>6. \A d \in Conn : /\ sh'[d].player = sh[d].player /\ sh'[d].in = sh[d].in
                      /\ sh'[d].listener = sh[d].listener
  BY <1>3, <1>4
<1>7. Owners'
  BY <1>1, <1>3, <1>5, <1>6 DEF Handles, Owners, Owner
<1>8. OnePerPlayer'
  BY <1>1, <1>6, OpenIsConn DEF Handles, OnePerPlayer, Owner
<1> QED
  BY <1>1, <1>6, <1>7, <1>8 DEF Handles

LEMMA SameHandles ==
  ASSUME Handles, sh' = sh, shandles' = shandles, nhandles' = nhandles
  PROVE  Handles' /\ Open' = Open
<1>1. Open' = Open
  BY DEF Open
<1>2. Lists' /\ Owners'
  BY <1>1 DEF Handles, Lists, Owners, Owner
<1>3. OnePerPlayer'
  BY <1>1 DEF Handles, OnePerPlayer, Owner
<1> QED
  BY <1>1, <1>2, <1>3 DEF Handles

LEMMA NoneRemoved ==
  ASSUME Lists
  PROVE  RemoveFirst(shandles, Null) = shandles /\ RemoveFirst(nhandles, Null) = nhandles
<1>1. Null \notin Range(shandles) /\ Null \notin Range(nhandles)
  BY OpenIsConn DEF Lists, Open
<1>2. /\ \A i \in 1..Len(shandles) : shandles[i] # Null
      /\ \A i \in 1..Len(nhandles) : nhandles[i] # Null
  BY <1>1, RangeEquality DEF Lists
<1> QED
  BY <1>2 DEF RemoveFirst

\* The three ways in which player_connected() ends.
LEMMA PlayerConnectedIs ==
  ASSUME Handles, NEW c \in Open, NEW new \in Player, PlayerConnected(c, new)
  PROVE  \/ KeepSeconds /\ Undefined("null")
         \/ FindShandle(new) = c /\ Undefined("freed")
         \/ /\ Handles' /\ FindShandle(new) # c /\ Joined(c, new, FindShandle(new))
            /\ at' = at /\ fault' = fault
            /\ running' \in {NoRun, Verb, Run("redirect", c, new)}
<1> DEFINE old == FindShandle(new)
<1>1. c # Null
  BY OpenIsConn DEF Handles
<1>2. CASE old = Null /\ ~ KeepSeconds /\ FirstLogin(c, new)
  <2>1. sh' = Without(Connected(c, new), Null)
    BY <1>2 DEF FirstLogin, Without
  <2>2. shandles' = RemoveFirst(shandles, Null) /\ nhandles' = RemoveFirst(nhandles, Null)
    BY <1>2, NoneRemoved DEF FirstLogin, Handles
  <2>3. Handles' /\ Joined(c, new, old)
    BY <1>1, <1>2, <2>1, <2>2, JoinedOK
  <2>4. at' = at /\ fault' = fault /\ running' \in {NoRun, Verb}
    BY <1>2 DEF FirstLogin
  <2> QED
    BY <1>1, <1>2, <2>3, <2>4
<1>3. CASE old \notin {Null, c} /\ Redirect(c, new, old)
  <2>1. /\ sh' = Without(Connected(c, new), old)
        /\ shandles' = RemoveFirst(shandles, old) /\ nhandles' = RemoveFirst(nhandles, old)
        /\ at' = at /\ fault' = fault /\ running' \in {Verb, Run("redirect", c, new)}
    BY <1>3 DEF Redirect
  <2>2. Handles' /\ Joined(c, new, old)
    BY <1>3, <2>1, JoinedOK
  <2> QED
    BY <1>3, <2>1, <2>2
<1> QED
  BY <1>2, <1>3 DEF PlayerConnected
-----------------------------------------------------------------------------
(* Where the server is.                                                    *)

\* A verb that a loop over a list waits for knows the connection the loop is at
\* and the one it goes on with, which is another.
RunningOK ==
    \/ running = NoRun
    \/ running = Verb /\ pc = "ran"
    \/ \E c \in Conn, n \in Conn \cup {Null} :
          /\ n # c
          /\ \/ running = Run("server_close", c, n) /\ pc = "io"
             \/ running = Run("reap", c, n) /\ pc = "reap"
    \/ \E c \in Conn : running = Run("login", c, Null) /\ pc = "ran"
    \/ \E c \in Conn, p \in Player : running = Run("redirect", c, p) /\ pc = "ran"
\* Between verbs, the loops are at a connection that there is.
AtOK == Calm /\ pc \in {"io", "reap"} => at \in Open \cup {Null}
HInv ==
    /\ Handles /\ RunningOK /\ AtOK
    /\ valid \subseteq Player /\ disk.valid \subseteq Player

LEMMA RunningIs ==
  ASSUME RunningOK
  PROVE  /\ running.kind = "none" => running = NoRun
         /\ running.kind \in {"verb", "login", "redirect"} => pc = "ran"
         /\ running.kind = "server_close" => pc = "io"
         /\ running.kind = "reap" => pc = "reap"
         /\ running.kind \in {"server_close", "reap"} =>
               running.next \in (Conn \cup {Null}) \ {running.c}
         /\ running.kind \in {"server_close", "reap", "login", "redirect"} => running.c \in Conn
         /\ running.kind = "redirect" => running.next \in Player
  BY DEF RunningOK, NoRun, Verb, Run

LEMMA KindOf ==
  /\ NoRun.kind = "none" /\ Verb.kind = "verb" /\ Verb # NoRun
  /\ \A k, c, n : Run(k, c, n).kind = k /\ Run(k, c, n).c = c /\ Run(k, c, n).next = n
  /\ \A k, c, n : k # "none" => Run(k, c, n) # NoRun
<1>1. \A k, c, n : Run(k, c, n).kind = k /\ Run(k, c, n).c = c /\ Run(k, c, n).next = n
  BY DEF Run
<1>2. NoRun.kind = "none" /\ Verb.kind = "verb"
  BY <1>1 DEF NoRun, Verb
<1> QED
  BY <1>1, <1>2

\* While a verb runs, the loops stand still.
LEMMA StillRunning ==
  ASSUME HInv, running # NoRun, running' = running, pc' = pc, Handles',
         valid' \subseteq Player, disk' = disk
  PROVE  HInv'
  BY DEF HInv, RunningOK, AtOK, Calm

LEMMA NowUndefined ==
  ASSUME HInv, NEW what, what # "none", Undefined(what), pc' = pc, valid' = valid, disk' = disk
  PROVE  HInv'
<1>1. Handles' /\ running' = running /\ fault' # "none"
  BY SameHandles DEF HInv, Undefined
<1> QED
  BY <1>1 DEF HInv, RunningOK, AtOK, Calm

\* A verb is over, and no loop goes on.
LEMMA VerbOver ==
  ASSUME HInv, pc = "ran", pc' = pc, Handles', valid' = valid, disk' = disk,
         \/ running' \in {NoRun, Verb}
         \/ \E c \in Conn, p \in Player : running' = Run("redirect", c, p)
  PROVE  HInv'
  BY DEF HInv, RunningOK, AtOK

\* A connection is closed, and the loop goes on with the next.
LEMMA CloseOK ==
  ASSUME HInv, NEW c \in Conn, c = running.c, Close(c), Still,
         running.next \in (Open \cup {Null}) \ {c}
  PROVE  HInv' /\ Open' = Open \ {c} /\ \A d \in Conn \ {c} : sh'[d] = sh[d]
<1>1. Handles' /\ Open' = Open \ {c} /\ \A d \in Conn \ {c} : sh'[d] = sh[d]
  BY ClosedOK DEF HInv, Close
<1>2. running' = NoRun /\ at' \in Open' \cup {Null}
  BY <1>1 DEF Close
<1> QED
  BY <1>1, <1>2 DEF HInv, RunningOK, AtOK, Still

LEMMA InitHOK == Init => HInv
<1> SUFFICES ASSUME Init PROVE HInv
  OBVIOUS
<1>1. shandles = <<>> /\ nhandles = <<>> /\ Range(shandles) = {} /\ Range(nhandles) = {}
  BY DEF Init, Range
<1>2. Lists /\ Open = {}
  BY <1>1, EmptySeq DEF Lists, Open, IsInjective
<1>3. Owners
  BY <1>2, FreshIs, AddressAssumption DEF Init, Owners, Owner
<1>4. OnePerPlayer
  BY <1>2 DEF OnePerPlayer
<1> QED
  BY <1>2, <1>3, <1>4 DEF Init, HInv, Handles, RunningOK, AtOK
-----------------------------------------------------------------------------
(* Each step, in the order of the module.                                  *)

LEMMA AcceptH == HInv /\ Accept => HInv'
<1> SUFFICES ASSUME HInv, Accept PROVE HInv'
  OBVIOUS
<1>1. PICK c \in Conn \ (Open \cup Held) : Opened(c)
  BY NewConnectionOK DEF HInv, Accept
<1>2. Handles' /\ running' = running /\ pc' = "top" /\ pc = "top"
  BY <1>1, OpenedOK DEF HInv, Accept
<1> QED
  BY <1>2 DEF HInv, RunningOK, AtOK, Calm, Accept

LEMMA BootPlayerH == HInv /\ BootPlayer => HInv'
<1> SUFFICES ASSUME HInv, BootPlayer PROVE HInv'
  OBVIOUS
<1>1. Handles'
  BY BootedOK DEF HInv, BootPlayer
<1> QED
  BY <1>1, StillRunning DEF HInv, BootPlayer, MooRuns

LEMMA RecyclePlayerH == HInv /\ RecyclePlayer => HInv'
<1> SUFFICES ASSUME HInv, RecyclePlayer PROVE HInv'
  OBVIOUS
<1>1. Handles'
  BY SameHandles DEF HInv, RecyclePlayer
<1> QED
  BY <1>1, StillRunning DEF HInv, RecyclePlayer, MooCalls, MooRuns

LEMMA OpenNetworkConnectionH == HInv /\ OpenNetworkConnection => HInv'
<1> SUFFICES ASSUME HInv, OpenNetworkConnection PROVE HInv'
  OBVIOUS
<1>1. PICK c \in Conn \ (Open \cup Held) : Opened(c)
  BY NewConnectionOK DEF HInv, OpenNetworkConnection
<1>2. Handles'
  BY <1>1, OpenedOK DEF HInv
<1> QED
  BY <1>2, StillRunning DEF HInv, OpenNetworkConnection, MooCalls, MooRuns

\* What reconnect_player() does if nothing goes wrong.
LEMMA ReconnectPlayerIs ==
  ASSUME HInv, ReconnectPlayer
  PROVE  \E c \in Open, new \in valid :
            /\ FindShandle(new) # c
            /\ careless' = (careless \/ Misused(c, FindShandle(new)))
            /\ unannounced' = IF Owner(c) \in valid THEN unannounced \cup {Owner(c), new}
                              ELSE unannounced
            /\ \/ Notified(c, FindShandle(new)) \cap Hooks # {} /\ Undefined("replaced")
               \/ KeepSeconds /\ Undefined("null")
               \/ /\ Handles' /\ Joined(c, new, FindShandle(new))
                  /\ UNCHANGED <<at, running, told, fault>>
<1>1. PICK c \in Open, new \in valid :
        /\ FindShandle(new) # c
        /\ careless' = (careless \/ Misused(c, FindShandle(new)))
        /\ unannounced' = IF Owner(c) \in valid THEN unannounced \cup {Owner(c), new}
                          ELSE unannounced
        /\ \/ Notified(c, FindShandle(new)) \cap Hooks # {} /\ Undefined("replaced")
           \/ KeepSeconds /\ Undefined("null")
           \/ /\ sh' = Without(Connected(c, new), FindShandle(new))
              /\ shandles' = RemoveFirst(shandles, FindShandle(new))
              /\ nhandles' = RemoveFirst(nhandles, FindShandle(new))
              /\ UNCHANGED <<at, running, told, fault>>
  BY DEF ReconnectPlayer
<1>2. c \in Open /\ new \in Player
  BY DEF HInv
<1>3. ASSUME /\ sh' = Without(Connected(c, new), FindShandle(new))
             /\ shandles' = RemoveFirst(shandles, FindShandle(new))
             /\ nhandles' = RemoveFirst(nhandles, FindShandle(new))
      PROVE  Handles' /\ Joined(c, new, FindShandle(new))
  BY <1>1, <1>2, <1>3, JoinedOK DEF HInv
<1> QED
  BY <1>1, <1>3

LEMMA ReconnectPlayerH == HInv /\ ReconnectPlayer => HInv'
<1> SUFFICES ASSUME HInv, ReconnectPlayer PROVE HInv'
  OBVIOUS
<1>1. running # NoRun /\ pc' = pc /\ valid' = valid /\ disk' = disk
  BY DEF ReconnectPlayer, MooCalls, MooRuns
<1>2. \/ Undefined("replaced") \/ Undefined("null")
      \/ Handles' /\ running' = running
  BY ReconnectPlayerIs
<1> QED
  BY <1>1, <1>2, StillRunning, NowUndefined DEF HInv

LEMMA VerbEndsH == HInv /\ VerbEnds => HInv'
<1> SUFFICES ASSUME HInv, VerbEnds PROVE HInv'
  OBVIOUS
<1>1. Handles' /\ running' = NoRun /\ pc = "ran"
  BY SameHandles, RunningIs DEF HInv, VerbEnds, Ends
<1> QED
  BY <1>1, VerbOver DEF VerbEnds, Still

\* A closing loop goes on, or finds that what it held was freed.
LEMMA ClosingIs ==
  ASSUME HInv, ServerCloseEnds \/ ReapEnds
  PROVE  /\ running.kind \in {"server_close", "reap"}
         /\ \/ /\ \/ running.c \notin Open
                  \/ running.next \notin Open \cup {Null}
               /\ Undefined("freed") /\ Still
            \/ /\ Close(running.c) /\ Still /\ running.c \in Open
               /\ running.next \in (Open \cup {Null}) \ {running.c}
<1>1. running.kind \in {"server_close", "reap"} /\ Still
  BY DEF ServerCloseEnds, ReapEnds, Ends
<1>2. running.next \in (Conn \cup {Null}) \ {running.c}
  BY <1>1, RunningIs DEF HInv
<1>3. Range(nhandles) = Open
  BY DEF HInv, Handles, Lists
<1>4. \/ /\ Freed(running.c) \/ (running.next # Null /\ running.next \notin Open)
         /\ Undefined("freed")
      \/ /\ ~ (Freed(running.c) \/ (running.next # Null /\ running.next \notin Open))
         /\ Close(running.c)
  BY <1>3 DEF ServerCloseEnds, ReapEnds
<1>5. Freed(running.c) <=> running.c \notin Open
  BY <1>3 DEF Freed
<1> QED
  BY <1>1, <1>2, <1>4, <1>5

LEMMA ClosingH == HInv /\ (ServerCloseEnds \/ ReapEnds) => HInv'
<1> SUFFICES ASSUME HInv, ServerCloseEnds \/ ReapEnds PROVE HInv'
  OBVIOUS
<1>1. Still
  BY ClosingIs
<1>2. CASE Undefined("freed")
  BY <1>1, <1>2, NowUndefined DEF Still
<1>3. CASE Close(running.c) /\ running.next \in (Open \cup {Null}) \ {running.c} /\ running.c \in Open
  <2> DEFINE c == running.c
  <2>1. c \in Conn
    BY <1>3, OpenIsConn DEF HInv, Handles
  <2>2. c = running.c /\ Close(c) /\ running.next \in (Open \cup {Null}) \ {c}
    BY <1>3
  <2> HIDE DEF c
  <2> QED
    BY <1>1, <2>1, <2>2, CloseOK
<1> QED
  BY <1>2, <1>3, ClosingIs

LEMMA RedirectEndsH == HInv /\ RedirectEnds => HInv'
<1> SUFFICES ASSUME HInv, RedirectEnds PROVE HInv'
  OBVIOUS
<1>1. pc = "ran" /\ Still
  BY RunningIs DEF HInv, RedirectEnds, Ends
<1>2. CASE Undefined("freed")
  BY <1>1, <1>2, NowUndefined DEF Still
<1>3. CASE running' = Verb /\ UNCHANGED <<sh, shandles, nhandles, at, fault>>
  <2>1. Handles'
    BY <1>3, SameHandles DEF HInv
  <2> QED
    BY <1>1, <1>3, <2>1, VerbOver DEF Still
<1> QED
  BY <1>2, <1>3 DEF RedirectEnds

LEMMA LoginEndsH == HInv /\ LoginEnds => HInv'
<1> SUFFICES ASSUME HInv, LoginEnds PROVE HInv'
  OBVIOUS
<1>1. pc = "ran" /\ Still
  BY RunningIs DEF HInv, LoginEnds, Ends
<1>2. CASE running' = NoRun /\ UNCHANGED <<sh, shandles, nhandles, at, told, fault>>
  <2>1. Handles'
    BY <1>2, SameHandles DEF HInv
  <2> QED
    BY <1>1, <1>2, <2>1, VerbOver DEF Still
<1>3. CASE running.c \in Open /\ \E new \in valid : PlayerConnected(running.c, new)
  <2> DEFINE c == running.c
  <2>1. PICK new \in valid : PlayerConnected(c, new)
    BY <1>3
  <2>2. c \in Open /\ new \in Player /\ c \in Conn
    BY <1>3, OpenIsConn DEF HInv, Handles
  <2> HIDE DEF c
  <2>3. \/ Undefined("null") \/ Undefined("freed")
        \/ Handles' /\ running' \in {NoRun, Verb, Run("redirect", c, new)}
    BY <2>1, <2>2, PlayerConnectedIs DEF HInv
  <2>4. CASE Undefined("null") \/ Undefined("freed")
    BY <1>1, <2>4, NowUndefined DEF Still
  <2>5. CASE Handles' /\ running' \in {NoRun, Verb, Run("redirect", c, new)}
    BY <1>1, <2>2, <2>5, VerbOver DEF Still
  <2> QED
    BY <2>3, <2>4, <2>5
<1> QED
  BY <1>2, <1>3 DEF LoginEnds

LEMMA CheckpointH == HInv /\ Checkpoint => HInv'
<1> SUFFICES ASSUME HInv, Checkpoint PROVE HInv'
  OBVIOUS
<1>1. Handles' /\ Open' = Open /\ disk'.valid = valid
  BY SameHandles DEF HInv, Checkpoint
<1> QED
  BY <1>1 DEF HInv, RunningOK, AtOK, Calm, Checkpoint

LEMMA BeginsH == HInv /\ (BeginIo \/ BeginReap) => HInv'
<1> SUFFICES ASSUME HInv, BeginIo \/ BeginReap PROVE HInv'
  OBVIOUS
<1>1. Handles' /\ Open' = Open
  BY SameHandles DEF HInv, BeginIo, BeginReap, Waits
<1>2. First(shandles) \in Open \cup {Null} /\ First(nhandles) \in Open \cup {Null}
  BY FirstIs DEF HInv, Handles, Lists, Open
<1>3. at' \in Open' \cup {Null} /\ running' = NoRun
  BY <1>1, <1>2 DEF BeginIo, BeginReap, Calm, Waits
<1> QED
  BY <1>1, <1>3 DEF HInv, RunningOK, AtOK, BeginIo, BeginReap, Waits

LEMMA EndsH == HInv /\ (EndIo \/ EndReap) => HInv'
<1> SUFFICES ASSUME HInv, EndIo \/ EndReap PROVE HInv'
  OBVIOUS
<1>1. Handles' /\ at' = Null /\ running' = NoRun
  BY SameHandles DEF HInv, EndIo, EndReap, Calm, Waits
<1> QED
  BY <1>1 DEF HInv, RunningOK, AtOK, EndIo, EndReap, Waits

LEMMA RunTaskH == HInv /\ RunTask => HInv'
<1> SUFFICES ASSUME HInv, RunTask PROVE HInv'
  OBVIOUS
<1>1. Handles' /\ pc' = "ran"
  BY SameHandles DEF HInv, RunTask
<1>2. \/ running' = Verb
      \/ \E c \in Conn : running' = Run("login", c, Null)
  BY OpenIsConn DEF HInv, Handles, RunTask
<1> QED
  BY <1>1, <1>2 DEF HInv, RunningOK, AtOK, RunTask

\* The verb that is told of the end of a connection.
LEMMA BrokenIs ==
  ASSUME HInv, Broken
  PROVE  /\ Calm /\ pc = "io" /\ Still
         /\ \E c \in Open :
              /\ sh' = [sh EXCEPT ![c].bye = TRUE]
              /\ told' = Left(told, Owner(c), sh[c].listener, "user_client_disconnected")
              /\ running' = Run("server_close", c, After(nhandles, c))
              /\ UNCHANGED <<shandles, nhandles, at, fault>>
              /\ After(nhandles, c) \in (Open \cup {Null}) \ {c}
<1>1. /\ nhandles \in Seq(Conn) /\ IsInjective(nhandles) /\ Range(nhandles) = Open
      /\ Null \notin Open
  BY OpenIsConn DEF HInv, Handles, Lists
<1>2. Calm /\ pc = "io" /\ Still
  BY DEF Broken
<1>3. at \in Range(nhandles) \cup {Null}
  BY <1>1, <1>2 DEF HInv, AtOK
<1>4. From(nhandles, at) \subseteq Open
  BY <1>1, <1>3, FromIs
<1>5. PICK c \in From(nhandles, at) :
        IF c \notin Open THEN Undefined("freed")
        ELSE /\ sh' = [sh EXCEPT ![c].bye = TRUE]
             /\ told' = Left(told, Owner(c), sh[c].listener, "user_client_disconnected")
             /\ running' = Run("server_close", c, After(nhandles, c))
             /\ UNCHANGED <<shandles, nhandles, at, fault>>
  BY DEF Broken
<1>6. c \in Open
  BY <1>4
<1>7. After(nhandles, c) \in (Open \cup {Null}) \ {c}
  BY <1>1, <1>6, AfterIs
<1> QED
  BY <1>2, <1>5, <1>6, <1>7

LEMMA BrokenH == HInv /\ Broken => HInv'
<1> SUFFICES ASSUME HInv, Broken PROVE HInv'
  OBVIOUS
<1>1. /\ pc = "io" /\ Still
      /\ \E c \in Open :
            /\ sh' = [sh EXCEPT ![c].bye = TRUE]
            /\ running' = Run("server_close", c, After(nhandles, c))
            /\ UNCHANGED <<shandles, nhandles, at, fault>>
            /\ After(nhandles, c) \in (Open \cup {Null}) \ {c}
  BY BrokenIs
<1>2. Handles' /\ Open \subseteq Conn
  BY <1>1, BootedOK, OpenIsConn DEF HInv, Handles
<1>3. running' # NoRun
  BY <1>1, KindOf
<1> QED
  BY <1>1, <1>2, <1>3 DEF HInv, RunningOK, AtOK, Calm, Still

LEMMA ComesToIs ==
  ASSUME HInv, NEW c, ComesTo(c)
  PROVE  /\ c \in Open /\ Calm /\ pc = "reap"
         /\ After(shandles, c) \in (Open \cup {Null}) \ {c}
<1>1. shandles \in Seq(Conn) /\ IsInjective(shandles) /\ Range(shandles) = Open /\ Null \notin Open
  BY OpenIsConn DEF HInv, Handles, Lists, Open
<1>2. at \in Range(shandles) \cup {Null}
  BY <1>1 DEF HInv, AtOK, ComesTo
<1>3. c \in Open
  BY <1>1, <1>2, FromIs DEF ComesTo
<1>4. After(shandles, c) \in (Open \cup {Null}) \ {c}
  BY <1>1, <1>3, AfterIs
<1> QED
  BY <1>3, <1>4 DEF ComesTo

LEMMA ReapH == HInv /\ Reap => HInv'
<1> SUFFICES ASSUME HInv, Reap PROVE HInv'
  OBVIOUS
<1>1. PICK c \in Conn : ComesTo(c) /\ running' = Run("reap", c, After(shandles, c))
  BY DEF Reap
<1>2. c \in Open /\ pc = "reap" /\ After(shandles, c) \in (Open \cup {Null}) \ {c}
  BY <1>1, ComesToIs
<1>3. Handles' /\ Open \subseteq Conn
  BY SameHandles, OpenIsConn DEF HInv, Handles, Reap
<1>4. running' # NoRun
  BY <1>1, KindOf
<1> QED
  BY <1>1, <1>2, <1>3, <1>4 DEF HInv, RunningOK, AtOK, Calm, Reap, Still

LEMMA ReapRecycledH == HInv /\ ReapRecycled => HInv'
<1> SUFFICES ASSUME HInv, ReapRecycled PROVE HInv'
  OBVIOUS
<1>1. PICK c \in Conn :
        /\ ComesTo(c)
        /\ shandles' = RemoveFirst(shandles, c) /\ nhandles' = RemoveFirst(nhandles, c)
        /\ sh' = Without(sh, c) /\ at' = After(shandles, c)
  BY DEF ReapRecycled
<1>2. After(shandles, c) \in (Open \cup {Null}) \ {c} /\ Calm
  BY <1>1, ComesToIs
<1>3. Handles' /\ Open' = Open \ {c}
  BY <1>1, ClosedOK DEF HInv
<1>4. at' \in Open' \cup {Null} /\ running' = NoRun
  BY <1>1, <1>2, <1>3 DEF ReapRecycled, Calm
<1> QED
  BY <1>3, <1>4 DEF HInv, RunningOK, AtOK, ReapRecycled

LEMMA CrashRestartH == HInv /\ CrashRestart => HInv'
<1> SUFFICES ASSUME HInv, CrashRestart PROVE HInv'
  OBVIOUS
<1>1. Range(shandles') = {} /\ Range(nhandles') = {} /\ shandles' = <<>> /\ nhandles' = <<>>
  BY DEF CrashRestart, Range
<1>2. Lists' /\ Open' = {}
  BY <1>1, EmptySeq DEF Lists, Open, IsInjective
<1>3. Owners'
  BY <1>2, FreshIs, AddressAssumption DEF CrashRestart, Owners, Owner
<1>4. OnePerPlayer'
  BY <1>2 DEF OnePerPlayer
<1> QED
  BY <1>2, <1>3, <1>4 DEF CrashRestart, HInv, Handles, RunningOK, AtOK

LEMMA NextHOK == HInv /\ [Next]_vars => HInv'
<1> SUFFICES ASSUME HInv, [Next]_vars PROVE HInv'
  OBVIOUS
<1>1. CASE UNCHANGED vars
  <2>1. Handles' /\ Open' = Open
    BY <1>1, SameHandles DEF HInv, vars
  <2> QED
    BY <1>1, <2>1 DEF HInv, RunningOK, AtOK, Calm, vars
<1>2. CASE Next
  BY <1>2, AcceptH, BootPlayerH, RecyclePlayerH, OpenNetworkConnectionH, ReconnectPlayerH,
     VerbEndsH, ClosingH, RedirectEndsH, LoginEndsH, CheckpointH, BeginsH, BrokenH, EndsH,
     RunTaskH, ReapH, ReapRecycledH, CrashRestartH DEF Next
<1> QED
  BY <1>1, <1>2

LEMMA SpecH == Spec => []HInv
<1> QED
  BY InitHOK, NextHOK, PTL DEF Spec

\* No two connections are ever of one player: a player who connects again takes
\* the place of the one that was there, whatever verbs run in between.
THEOREM OneConnectionEach == Spec => []OnePerPlayer
<1>1. HInv => OnePerPlayer
  BY DEF HInv, Handles
<1> QED
  BY <1>1, SpecH, PTL
-----------------------------------------------------------------------------
(* What is used is there.                                                  *)

Closing == {"server_close", "reap"}
\* The connections that the C stack holds are there, and one that logs in is
\* nobody's yet.
Unbroken ==
    /\ fault = "none"
    /\ running.kind \in Closing \cup {"redirect", "login"} => running.c \in Open
    /\ running.kind \in Closing => running.next \in Open \cup {Null}
    /\ running.kind = "login" => Owner(running.c) = running.c

\* Nothing is held between verbs, and by a verb that is a task.
LEMMA NothingHeld ==
  ASSUME fault' = "none", running' \in {NoRun, Verb}
  PROVE  Unbroken'
<1>1. running'.kind \in {"none", "verb"}
  BY KindOf
<1> QED
  BY <1>1 DEF Unbroken, Closing

\* What a verb does to other connections does not matter.
LEMMA OthersOnly ==
  ASSUME Unbroken, fault' = fault, running' = running,
         running.kind \in Closing \cup {"redirect", "login"} => running.c \in Open',
         running.kind \in Closing => running.next \in Open' \cup {Null},
         running.kind = "login" => sh'[running.c].player = sh[running.c].player
  PROVE  Unbroken'
  BY DEF Unbroken, Owner

LEMMA ReconnectPlayerU ==
  ASSUME HInv, Unbroken, ReconnectPlayer, ~ careless', ~ KeepSeconds
  PROVE  Unbroken'
<1>1. PICK c \in Open, new \in valid :
        /\ FindShandle(new) # c
        /\ careless' = (careless \/ Misused(c, FindShandle(new)))
        /\ \/ Notified(c, FindShandle(new)) \cap Hooks # {} /\ Undefined("replaced")
           \/ KeepSeconds /\ Undefined("null")
           \/ /\ Handles' /\ Joined(c, new, FindShandle(new))
              /\ UNCHANGED <<at, running, told, fault>>
  BY ReconnectPlayerIs
<1> DEFINE old == FindShandle(new)
<1>2. /\ old \notin Held /\ Notified(c, old) \cap Hooks = {}
      /\ c = running.c => running.kind \notin Closing \cup {"login"}
  BY <1>1 DEF Misused, Closing
<1>3. Joined(c, new, old) /\ running' = running /\ fault' = fault
  BY <1>1, <1>2
<1> HIDE DEF old
<1>4. Open' = Open \ {old} /\ \A d \in Conn \ {c, old} : sh'[d] = sh[d]
  BY <1>3 DEF Joined
<1>5. Open \subseteq Conn
  BY OpenIsConn DEF HInv, Handles
<1>6. \A d \in Open : d \in {running.c, running.next} => d # old
  BY <1>2, <1>5 DEF Held
<1>7. running.kind \in Closing \cup {"redirect", "login"} => running.c \in Open'
  BY <1>4, <1>6 DEF Unbroken
<1>8. running.kind \in Closing => running.next \in Open' \cup {Null}
  BY <1>4, <1>6 DEF Unbroken
<1>9. running.kind = "login" => sh'[running.c].player = sh[running.c].player
  BY <1>2, <1>4, <1>5, <1>6 DEF Unbroken
<1> QED
  BY <1>3, <1>7, <1>8, <1>9, OthersOnly

LEMMA ClosingU ==
  ASSUME HInv, Unbroken, ServerCloseEnds \/ ReapEnds
  PROVE  Unbroken'
<1>1. Close(running.c)
  BY ClosingIs DEF Unbroken, Closing
<1> QED
  BY <1>1, NothingHeld DEF Close, Unbroken

LEMMA RedirectEndsU ==
  ASSUME Unbroken, RedirectEnds
  PROVE  Unbroken'
<1>1. running.c \in Open
  BY DEF Unbroken, RedirectEnds, Ends
<1> QED
  BY <1>1, NothingHeld DEF RedirectEnds, Unbroken

LEMMA LoginEndsU ==
  ASSUME HInv, Unbroken, LoginEnds, ~ KeepSeconds
  PROVE  Unbroken'
<1>1. CASE running' = NoRun /\ UNCHANGED fault
  BY <1>1, NothingHeld DEF Unbroken
<1>2. CASE running.c \in Open /\ \E new \in valid : PlayerConnected(running.c, new)
  <2> DEFINE c == running.c
  <2>1. PICK new \in valid : PlayerConnected(c, new)
    BY <1>2
  <2>2. c \in Open /\ new \in Player /\ c \in Conn /\ Owner(c) = c
    BY <1>2, OpenIsConn DEF HInv, Handles, LoginEnds, Ends, Unbroken
  <2> HIDE DEF c
  <2>3. FindShandle(new) # c
    BY <2>2, FindShandleIs, AddressAssumption DEF HInv, Handles, Lists
  <2>4. /\ Joined(c, new, FindShandle(new)) /\ fault' = fault
        /\ running' \in {NoRun, Verb, Run("redirect", c, new)}
    BY <2>1, <2>2, <2>3, PlayerConnectedIs DEF HInv
  <2>5. CASE running' \in {NoRun, Verb}
    BY <2>4, <2>5, NothingHeld DEF Unbroken
  <2>6. CASE running' = Run("redirect", c, new)
    <3>1. running'.kind = "redirect" /\ running'.c = c
      BY <2>6, KindOf
    <3>2. c \in Open'
      BY <2>2, <2>3, <2>4 DEF Joined
    <3> QED
      BY <2>4, <3>1, <3>2 DEF Unbroken, Closing
  <2> QED
    BY <2>4, <2>5, <2>6
<1> QED
  BY <1>1, <1>2 DEF LoginEnds

LEMMA RunTaskU ==
  ASSUME HInv, Unbroken, RunTask
  PROVE  Unbroken'
<1>1. CASE running' = Verb
  BY <1>1, NothingHeld DEF Unbroken, RunTask
<1>2. CASE \E c \in Open : Owner(c) = c /\ running' = Run("login", c, Null)
  <2>1. PICK c \in Open : Owner(c) = c /\ running' = Run("login", c, Null)
    BY <1>2
  <2>2. running'.kind = "login" /\ running'.c = c
    BY <2>1, KindOf
  <2>3. Open' = Open /\ fault' = fault /\ sh' = sh
    BY DEF Open, RunTask
  <2> QED
    BY <2>1, <2>2, <2>3 DEF Unbroken, Closing, Owner
<1> QED
  BY <1>1, <1>2 DEF RunTask

LEMMA BrokenU ==
  ASSUME HInv, Unbroken, Broken
  PROVE  Unbroken'
<1>1. PICK c \in Open :
        /\ running' = Run("server_close", c, After(nhandles, c))
        /\ UNCHANGED <<shandles, nhandles, at, fault>>
        /\ After(nhandles, c) \in (Open \cup {Null}) \ {c}
  BY BrokenIs
<1>2. running'.kind = "server_close" /\ running'.c = c /\ running'.next = After(nhandles, c)
  BY <1>1, KindOf
<1>3. Open' = Open
  BY <1>1 DEF Open
<1> QED
  BY <1>1, <1>2, <1>3 DEF Unbroken, Closing

LEMMA ReapU ==
  ASSUME HInv, Unbroken, Reap
  PROVE  Unbroken'
<1>1. PICK c \in Conn : ComesTo(c) /\ running' = Run("reap", c, After(shandles, c))
  BY DEF Reap
<1>2. c \in Open /\ After(shandles, c) \in (Open \cup {Null}) \ {c}
  BY <1>1, ComesToIs
<1>3. running'.kind = "reap" /\ running'.c = c /\ running'.next = After(shandles, c)
  BY <1>1, KindOf
<1>4. Open' = Open /\ fault' = fault
  BY DEF Open, Reap
<1> QED
  BY <1>2, <1>3, <1>4 DEF Unbroken, Closing

LEMMA OpeningU ==
  ASSUME HInv, Unbroken, OpenNetworkConnection
  PROVE  Unbroken'
<1>1. PICK c \in Conn \ (Open \cup Held) : Opened(c)
  BY NewConnectionOK DEF HInv, OpenNetworkConnection
<1>2. Open' = Open \cup {c} /\ \A d \in Conn \ {c} : sh'[d] = sh[d]
  BY <1>1, OpenedOK DEF HInv, Opened
<1>3. Open \subseteq Conn
  BY OpenIsConn DEF HInv, Handles
<1> QED
  BY <1>1, <1>2, <1>3, OthersOnly DEF OpenNetworkConnection, Unbroken, Closing

LEMMA BootPlayerU ==
  ASSUME HInv, Unbroken, BootPlayer
  PROVE  Unbroken'
<1>1. Open' = Open /\ \A d \in Conn : sh'[d].player = sh[d].player
  BY BootedOK DEF HInv, BootPlayer
<1>2. Open \subseteq Conn
  BY OpenIsConn DEF HInv, Handles
<1> QED
  BY <1>1, <1>2, OthersOnly DEF BootPlayer, Unbroken, Closing

LEMMA NextUOK ==
  ASSUME HInv, careless \/ Unbroken, [Next]_vars, ~ KeepSeconds
  PROVE  careless' \/ Unbroken'
<1> SUFFICES ASSUME ~ careless' PROVE Unbroken'
  OBVIOUS
<1>1. CASE UNCHANGED vars
  BY <1>1 DEF vars, Unbroken, Owner, Open
<1>2. CASE Next
  <2>1. ~ careless
    BY <1>2 DEF Next, Accept, BootPlayer, RecyclePlayer, OpenNetworkConnection, ReconnectPlayer,
       VerbEnds, ServerCloseEnds, ReapEnds, RedirectEnds, LoginEnds, Checkpoint, BeginIo, Broken,
       EndIo, RunTask, BeginReap, Reap, ReapRecycled, EndReap, CrashRestart, Still, Waits
  <2>2. Unbroken
    BY <2>1
  <2>3. CASE Accept
    <3>1. running' = NoRun /\ fault' = "none"
      BY <2>2, <2>3, RunningIs DEF HInv, RunningOK, Accept, Unbroken, Verb, Run
    <3> QED
      BY <3>1, NothingHeld
  <2>4. CASE RecyclePlayer
    BY <2>2, <2>4 DEF RecyclePlayer, Unbroken, Owner, Open
  <2>5. CASE \/ VerbEnds \/ Checkpoint \/ BeginIo \/ EndIo \/ BeginReap \/ ReapRecycled \/ EndReap
             \/ CrashRestart
    <3>1. fault' = "none" /\ running' = NoRun
      BY <2>2, <2>5 DEF VerbEnds, Checkpoint, BeginIo, EndIo, BeginReap, ReapRecycled, EndReap,
         CrashRestart, ComesTo, Calm, Waits, Unbroken
    <3> QED
      BY <3>1, NothingHeld
  <2> QED
    BY <1>2, <2>2, <2>3, <2>4, <2>5, BootPlayerU, OpeningU, ReconnectPlayerU, ClosingU,
       RedirectEndsU, LoginEndsU, BrokenU, RunTaskU, ReapU DEF Next
<1> QED
  BY <1>1, <1>2

\* Unless a verb misuses reconnect_player(), neither module of the server uses a
\* handle that the other has freed, and no loop goes on with one: not when verbs
\* boot players, log them in elsewhere or open connections while it waits.  It
\* takes that the option keep_unconnected_seconds is not set.
THEOREM HandlesAreThere ==
  ASSUME ~ KeepSeconds
  PROVE  Spec => []NothingUndefined
<1> DEFINE U == careless \/ Unbroken
<1>1. Init => U
  BY KindOf DEF Init, Unbroken, Closing
<1>2. HInv /\ U /\ [Next]_vars => U'
  BY NextUOK
<1>3. U => NothingUndefined
  BY DEF Unbroken, NothingUndefined
<1> HIDE DEF U
<1> QED
  BY <1>1, <1>2, <1>3, SpecH, PTL DEF Spec
-----------------------------------------------------------------------------
(* What the MOO code was told.                                             *)

Records(who, p) == {r \in who : r[1] = p}
\* What the records of the player p should be: o are the connections there are.
Heard(s, o, p) == {<<p, s[c].listener>> : c \in {c \in o : s[c].in /\ s[c].player = p}}
\* A verb has been told that p left, or the next one will be told that p came,
\* before the server goes on.
Awaited(r, s, p) ==
    \/ r.kind \in Closing /\ s[r.c].player = p
    \/ r.kind = "redirect" /\ r.next = p
Known == valid \ unannounced
RecordsOK ==
    /\ \A p \in Known : Records(told, p) = IF Awaited(running, sh, p) THEN {} ELSE Heard(sh, Open, p)
    /\ running.kind = "redirect" /\ running.next \in Known => sh[running.c].player = running.next
    /\ \A p \in disk.valid \ unannounced : Records(disk.told, p) = {}

LEMMA HeardOne ==
  ASSUME NEW s, NEW o, NEW c \in o, NEW p, s[c].in, s[c].player = p,
         \A d \in o : s[d].player = p => d = c
  PROVE  Heard(s, o, p) = {<<p, s[c].listener>>}
  BY DEF Heard

LEMMA HeardNone ==
  ASSUME NEW s, NEW o, NEW p, \A d \in o : s[d].player # p
  PROVE  Heard(s, o, p) = {}
  BY DEF Heard

LEMMA HeardSame ==
  ASSUME NEW s, NEW o, NEW t, NEW q, NEW p,
         \A d \in o : s[d].player = p =>
            d \in q /\ t[d].player = p /\ t[d].in = s[d].in /\ t[d].listener = s[d].listener,
         \A d \in q : t[d].player = p =>
            d \in o /\ s[d].player = p /\ t[d].in = s[d].in /\ t[d].listener = s[d].listener
  PROVE  Heard(t, q, p) = Heard(s, o, p)
  BY DEF Heard

LEMMA RecordsLeft ==
  ASSUME NEW who, NEW p, NEW l, NEW verb, verb \in Hooks
  PROVE  /\ Records(Left(who, p, l, verb), p) = Records(who, p) \ {<<p, l>>}
         /\ \A q : q # p => Records(Left(who, p, l, verb), q) = Records(who, q)
  BY DEF Records, Left

LEMMA RecordsArrived ==
  ASSUME NEW who, NEW p, NEW l, NEW verb
  PROVE  /\ verb \in Hooks => Records(Arrived(who, p, l, verb), p) = Records(who, p) \cup {<<p, l>>}
         /\ <<p, l>> \in who => Records(Arrived(who, p, l, verb), p) = Records(who, p)
         /\ \A q : q # p => Records(Arrived(who, p, l, verb), q) = Records(who, q)
  BY DEF Records, Arrived

\* Nobody known comes or goes.
LEMMA RecordsKept ==
  ASSUME RecordsOK, Known' \subseteq Known, unannounced \subseteq unannounced', disk' = disk,
         \A p \in Known' :
            /\ Records(told', p) = Records(told, p)
            /\ Awaited(running', sh', p) <=> Awaited(running, sh, p)
            /\ Heard(sh', Open', p) = Heard(sh, Open, p),
         running'.kind = "redirect" /\ running'.next \in Known' =>
            sh'[running'.c].player = running'.next
  PROVE  RecordsOK'
  BY DEF RecordsOK

LEMMA NobodyAwaited ==
  ASSUME NEW r, r.kind \notin Closing \cup {"redirect"}
  PROVE  \A s, p : ~ Awaited(r, s, p)
  BY DEF Awaited

\* Only who is booted changes, or what verb runs.
LEMMA SameConnections ==
  ASSUME HInv, RecordsOK, told' = told, disk' = disk, Known' = Known, unannounced' = unannounced,
         Open' = Open,
         \A d \in Conn : /\ sh'[d].player = sh[d].player /\ sh'[d].in = sh[d].in
                         /\ sh'[d].listener = sh[d].listener,
         \/ running' = running
         \/ /\ running.kind \notin Closing \cup {"redirect"}
            /\ running'.kind \notin Closing \cup {"redirect"}
  PROVE  RecordsOK'
<1>1. Open \subseteq Conn
  BY OpenIsConn DEF HInv, Handles
<1>2. \A p : Heard(sh', Open', p) = Heard(sh, Open, p)
  BY <1>1, HeardSame
<1>3. running.kind \in Closing \cup {"redirect"} => running.c \in Conn
  BY RunningIs DEF HInv, Closing
<1>4. \A p : Awaited(running', sh', p) <=> Awaited(running, sh, p)
  <2>1. CASE running' = running
    BY <1>3, <2>1 DEF Awaited
  <2>2. CASE /\ running.kind \notin Closing \cup {"redirect"}
             /\ running'.kind \notin Closing \cup {"redirect"}
    BY <2>2, NobodyAwaited
  <2> QED
    BY <2>1, <2>2
<1>5. running'.kind = "redirect" /\ running'.next \in Known => sh'[running'.c].player = running'.next
  BY <1>3 DEF RecordsOK
<1> QED
  BY <1>2, <1>4, <1>5, RecordsKept

LEMMA OpenedR ==
  ASSUME HInv, RecordsOK, Unbroken, NEW c \in Conn \ (Open \cup Held), Opened(c),
         running' = running, told' = told, disk' = disk, Known' = Known, unannounced' = unannounced
  PROVE  RecordsOK'
<1>1. Open' = Open \cup {c} /\ \A d \in Conn \ {c} : sh'[d] = sh[d]
  BY OpenedOK DEF HInv, Opened
<1>2. Open \subseteq Conn /\ sh'[c].player = c /\ c \notin Known
  BY OpenIsConn, AddressAssumption DEF HInv, Handles, Opened, Known
<1>3. \A p \in Known : Heard(sh', Open', p) = Heard(sh, Open, p)
  <2> SUFFICES ASSUME NEW p \in Known PROVE Heard(sh', Open', p) = Heard(sh, Open, p)
    OBVIOUS
  <2>1. \A d \in Open : sh'[d] = sh[d]
    BY <1>1, <1>2
  <2> QED
    BY <1>1, <1>2, <2>1, HeardSame
<1>4. running.kind \in Closing \cup {"redirect"} => sh'[running.c] = sh[running.c]
  BY <1>1, <1>2 DEF Unbroken
<1>5. \A p : Awaited(running', sh', p) <=> Awaited(running, sh, p)
  BY <1>4 DEF Awaited
<1>6. running'.kind = "redirect" /\ running'.next \in Known => sh'[running'.c].player = running'.next
  BY <1>4 DEF RecordsOK
<1> QED
  BY <1>3, <1>5, <1>6, RecordsKept
\* Between verbs nobody is awaited.
LEMMA CalmRecords ==
  ASSUME RecordsOK, running.kind \notin Closing \cup {"redirect"}
  PROVE  \A p \in Known : Records(told, p) = Heard(sh, Open, p)
  BY NobodyAwaited DEF RecordsOK

LEMMA OwnersIn ==
  ASSUME Handles, NEW c \in Open, sh[c].player \in Player
  PROVE  Heard(sh, Open, sh[c].player) = {<<sh[c].player, sh[c].listener>>}
<1>1. c \in Conn /\ sh[c].in
  BY OpenIsConn DEF Handles, Owners, Owner
<1>2. \A d \in Open : sh[d].player = sh[c].player => d = c
  BY DEF Handles, OnePerPlayer, Owner
<1> QED
  BY <1>1, <1>2, HeardOne

\* The verb that the server waits for before it closes c was told.
LEMMA LeavingR ==
  ASSUME HInv, RecordsOK, Calm, NEW c \in Open, NEW verb \in Hooks, NEW kind \in Closing, NEW next,
         told' = Left(told, Owner(c), sh[c].listener, verb), running' = Run(kind, c, next),
         \A d \in Conn : /\ sh'[d].player = sh[d].player /\ sh'[d].in = sh[d].in
                         /\ sh'[d].listener = sh[d].listener,
         Open' = Open, disk' = disk, Known' = Known, unannounced' = unannounced
  PROVE  RecordsOK'
<1>1. Open \subseteq Conn /\ Known \subseteq Player
  BY OpenIsConn DEF HInv, Handles, Known
<1>2. running'.kind = kind /\ running'.c = c /\ kind # "redirect"
  BY KindOf DEF Closing
<1>3. running.kind = "none"
  BY KindOf DEF Calm
<1>4. \A p \in Known : Records(told, p) = Heard(sh, Open, p)
  BY <1>3, CalmRecords DEF Closing
<1>5. \A p : Heard(sh', Open', p) = Heard(sh, Open, p)
  BY <1>1, HeardSame
<1>6. ASSUME NEW p \in Known
      PROVE  Records(told', p) = IF Awaited(running', sh', p) THEN {} ELSE Heard(sh', Open', p)
  <2>1. Awaited(running', sh', p) <=> sh[c].player = p
    BY <1>1, <1>2 DEF Awaited
  <2>2. CASE sh[c].player = p
    <3>1. Heard(sh, Open, p) = {<<p, sh[c].listener>>}
      BY <1>1, <2>2, OwnersIn DEF HInv
    <3>2. Records(told', p) = Records(told, p) \ {<<p, sh[c].listener>>}
      BY <2>2, RecordsLeft DEF Owner
    <3> QED
      BY <1>4, <2>1, <2>2, <3>1, <3>2
  <2>3. CASE sh[c].player # p
    <3>1. Records(told', p) = Records(told, p)
      BY <2>3, RecordsLeft DEF Owner
    <3> QED
      BY <1>4, <1>5, <2>1, <2>3, <3>1
  <2> QED
    BY <2>2, <2>3
<1> QED
  BY <1>2, <1>6 DEF RecordsOK

\* c is closed, of which the MOO code knows.
LEMMA ClosedR ==
  ASSUME HInv, NEW c \in Conn, Open' = Open \ {c}, \A d \in Conn \ {c} : sh'[d] = sh[d],
         sh'[c] = Fresh(c)
  PROVE  /\ \A p \in Player \ {sh[c].player} : Heard(sh', Open', p) = Heard(sh, Open, p)
         /\ c \in Open => Heard(sh', Open', sh[c].player) = {}
<1>1. Open \subseteq Conn
  BY OpenIsConn DEF HInv, Handles
<1>2. ASSUME NEW p \in Player \ {sh[c].player} PROVE Heard(sh', Open', p) = Heard(sh, Open, p)
  <2>1. sh'[c].player \notin Player
    BY FreshIs, AddressAssumption
  <2> QED
    BY <1>1, <2>1, HeardSame
<1>3. ASSUME c \in Open PROVE Heard(sh', Open', sh[c].player) = {}
  <2>1. \A d \in Open' : sh'[d].player # sh[c].player
    BY <1>1, <1>3 DEF HInv, Handles, OnePerPlayer, Owner
  <2> QED
    BY <2>1, HeardNone
<1> QED
  BY <1>2, <1>3

LEMMA ClosingR ==
  ASSUME HInv, Unbroken, RecordsOK, ServerCloseEnds \/ ReapEnds
  PROVE  RecordsOK'
<1> DEFINE c == running.c
<1>1. Close(c) /\ Still /\ c \in Open /\ running.kind \in Closing
  BY ClosingIs DEF Unbroken, Closing
<1>2. c \in Conn /\ running.next \in (Open \cup {Null}) \ {c} /\ Known \subseteq Player
  BY <1>1, ClosingIs, OpenIsConn DEF HInv, Handles, Unbroken, Known
<1>3. Open' = Open \ {c} /\ \A d \in Conn \ {c} : sh'[d] = sh[d]
  BY <1>1, <1>2, CloseOK
<1>4. sh'[c] = Fresh(c) /\ running' = NoRun /\ told' = told
  <2>1. sh' = [sh EXCEPT ![c] = Fresh(c)] /\ sh \in [Conn -> Shandle]
    BY <1>1, <1>2, AddressAssumption DEF Close, Without, HInv, Handles, Owners
  <2> QED
    BY <1>1, <1>2, <2>1 DEF Close
<1>5. \A p : Awaited(running, sh, p) <=> sh[c].player = p
  BY <1>1 DEF Awaited, Closing
<1>6. running'.kind = "none"
  BY <1>4, KindOf
<1>7. \A p : ~ Awaited(running', sh', p)
  BY <1>6, NobodyAwaited DEF Closing
<1> HIDE DEF c
<1>8. ASSUME NEW p \in Known PROVE Records(told, p) = Heard(sh', Open', p)
  <2>1. CASE p = sh[c].player
    BY <1>1, <1>2, <1>3, <1>4, <1>5, <2>1, ClosedR DEF RecordsOK
  <2>2. CASE p # sh[c].player
    BY <1>1, <1>2, <1>3, <1>4, <1>5, <2>2, ClosedR DEF RecordsOK
  <2> QED
    BY <2>1, <2>2
<1>9. Known' = Known /\ unannounced' = unannounced /\ disk' = disk
  BY <1>1 DEF Still, Known
<1> QED
  BY <1>4, <1>6, <1>7, <1>8, <1>9 DEF RecordsOK

LEMMA ReapRecycledR ==
  ASSUME HInv, RecordsOK, ReapRecycled
  PROVE  RecordsOK'
<1>1. PICK c \in Conn :
        /\ ComesTo(c) /\ Recycled(c)
        /\ shandles' = RemoveFirst(shandles, c) /\ nhandles' = RemoveFirst(nhandles, c)
        /\ sh' = Without(sh, c)
  BY DEF ReapRecycled
<1>2. Open' = Open \ {c} /\ \A d \in Conn \ {c} : sh'[d] = sh[d]
  BY <1>1, ClosedOK DEF HInv
<1>3. sh'[c] = Fresh(c)
  <2>1. sh' = [sh EXCEPT ![c] = Fresh(c)] /\ sh \in [Conn -> Shandle]
    BY <1>1, AddressAssumption DEF Without, HInv, Handles, Owners
  <2> QED
    BY <1>1, <2>1
<1>4. \A p \in Known : p \in Player \ {sh[c].player}
  BY <1>1 DEF Recycled, Known, HInv, Owner
<1>5. \A p \in Known : Heard(sh', Open', p) = Heard(sh, Open, p)
  BY <1>2, <1>3, <1>4, ClosedR
<1>6. running.kind = "none" /\ running' = running
  BY <1>1, KindOf DEF ComesTo, Calm, ReapRecycled
<1>7. \A p : Awaited(running', sh', p) <=> Awaited(running, sh, p)
  BY <1>6, NobodyAwaited DEF Closing
<1> QED
  BY <1>5, <1>6, <1>7, RecordsKept DEF ReapRecycled, Known

LEMMA RedirectEndsR ==
  ASSUME HInv, Unbroken, RecordsOK, RedirectEnds, "user_connected" \in Hooks
  PROVE  RecordsOK'
<1> DEFINE c == running.c
           new == running.next
<1>1. c \in Open /\ running.kind = "redirect" /\ Still
  BY DEF RedirectEnds, Ends, Unbroken
<1>2. told' = Arrived(told, new, sh[c].listener, "user_connected") /\ running' = Verb /\ sh' = sh
  BY <1>1 DEF RedirectEnds
<1> PICK verb \in Hooks : verb = "user_connected"
  OBVIOUS
<1>3. Open' = Open /\ Known' = Known /\ unannounced' = unannounced /\ disk' = disk
  BY <1>1 DEF RedirectEnds, Open, Still, Known
<1>4. running'.kind = "verb"
  BY <1>2, KindOf
<1>5. \A p : ~ Awaited(running', sh', p)
  BY <1>4, NobodyAwaited DEF Closing
<1>6. \A p : Awaited(running, sh, p) <=> new = p
  BY <1>1 DEF Awaited, Closing
<1>7. new \in Known => sh[c].player = new /\ new \in Player
  BY <1>1 DEF RecordsOK, Known, HInv
<1> HIDE DEF c, new
<1>9. told' = Arrived(told, new, sh[c].listener, verb)
  BY <1>2
<1>10. /\ Records(told', new) = Records(told, new) \cup {<<new, sh[c].listener>>}
       /\ \A q : q # new => Records(told', q) = Records(told, q)
  BY <1>9 DEF Records, Arrived
<1>8. ASSUME NEW p \in Known PROVE Records(told', p) = Heard(sh, Open, p)
  <2>1. CASE p = new
    <3>1. Heard(sh, Open, p) = {<<p, sh[c].listener>>}
      BY <1>1, <1>7, <2>1, OwnersIn DEF HInv
    <3>2. Records(told', p) = Records(told, p) \cup {<<p, sh[c].listener>>}
      BY <1>10, <2>1
    <3>3. Records(told, p) = {}
      BY <1>6, <2>1 DEF RecordsOK
    <3> QED
      BY <3>1, <3>2, <3>3
  <2>2. CASE p # new
    BY <1>6, <1>10, <2>2 DEF RecordsOK
  <2> QED
    BY <2>1, <2>2
<1> QED
  BY <1>2, <1>3, <1>4, <1>5, <1>8 DEF RecordsOK
\* c becomes the connection of new, in the place of old.
LEMMA JoinedR ==
  ASSUME HInv, NEW c \in Open, NEW new \in Player, NEW old, old = FindShandle(new), old # c,
         Joined(c, new, old)
  PROVE  /\ Heard(sh', Open', new) = {<<new, sh[c].listener>>}
         /\ old = Null => Heard(sh, Open, new) = {}
         /\ old # Null => old \in Open /\ Heard(sh, Open, new) = {<<new, sh[old].listener>>}
         /\ \A p \in Player \ {new, sh[c].player} : Heard(sh', Open', p) = Heard(sh, Open, p)
<1>1. c \in Conn /\ Open \subseteq Conn /\ Null \notin Open
  BY OpenIsConn DEF HInv, Handles
<1>2. \/ old = Null /\ \A d \in Open : sh[d].player # new
      \/ old \in Open /\ sh[old].player = new
  BY FindShandleIs DEF HInv, Handles, Lists, Owner
<1>3. /\ sh'[c].player = new /\ sh'[c].in = TRUE /\ sh'[c].listener = sh[c].listener
      /\ \A d \in Conn \ {c, old} : sh'[d] = sh[d]
      /\ Open' = Open \ {old}
  BY DEF Joined
<1>4. \A d, e \in Open : sh[d].player = sh[e].player => d = e
  BY DEF HInv, Handles, OnePerPlayer, Owner
<1>5. \A d \in Open' : sh'[d].player = new => d = c
  <2> SUFFICES ASSUME NEW d \in Open \ {old, c} PROVE sh'[d].player # new
    BY <1>3
  <2>1. sh'[d] = sh[d]
    BY <1>1, <1>3
  <2> QED
    BY <1>2, <1>4, <2>1
<1>6. Heard(sh', Open', new) = {<<new, sh[c].listener>>}
  <2>1. c \in Open'
    BY <1>3
  <2>2. Heard(sh', Open', new) = {<<new, sh'[c].listener>>}
    BY <1>3, <1>5, <2>1, HeardOne
  <2> QED
    BY <1>3, <2>2
<1>7. old = Null => Heard(sh, Open, new) = {}
  BY <1>1, <1>2, HeardNone
<1>8. old # Null => old \in Open /\ Heard(sh, Open, new) = {<<new, sh[old].listener>>}
  BY <1>2, OwnersIn DEF HInv
<1>9. ASSUME NEW p \in Player \ {new, sh[c].player} PROVE Heard(sh', Open', p) = Heard(sh, Open, p)
  <2>1. \A d \in Open : sh[d].player = p => d \in Open' /\ sh'[d] = sh[d]
    BY <1>1, <1>2, <1>3
  <2>2. \A d \in Open' : sh'[d].player = p => d \in Open /\ sh'[d] = sh[d]
    BY <1>1, <1>3
  <2> QED
    BY <2>1, <2>2, HeardSame
<1> QED
  BY <1>6, <1>7, <1>8, <1>9

\* Who logs in is announced, and who is redirected from another listener is told
\* to be gone first.
LEMMA LoginIs ==
  ASSUME HInv, NEW c \in Open, sh[c].player = c, NEW new \in Player, PlayerConnected(c, new),
         ~ KeepSeconds, NEW old, old = FindShandle(new)
  PROVE  /\ old # c /\ Joined(c, new, old)
         /\ \/ /\ old = Null /\ running' = Verb
               /\ told' = Arrived(told, new, sh[c].listener, "user_connected")
            \/ /\ old # Null /\ running' = Verb /\ sh[old].listener = sh[c].listener
               /\ told' = Arrived(told, new, sh[c].listener, "user_reconnected")
            \/ /\ old # Null /\ running' = Run("redirect", c, new)
               /\ told' = Left(told, new, sh[old].listener, "user_client_disconnected")
<1>1. c \in Conn /\ c # Null /\ c \notin Player /\ valid \subseteq Player
  BY OpenIsConn, AddressAssumption DEF HInv, Handles
<1>2. old # c
  BY <1>1, FindShandleIs DEF HInv, Handles, Lists, Owner
<1>3. Joined(c, new, old)
  BY <1>2, PlayerConnectedIs DEF HInv
<1>4. CASE old = Null /\ FirstLogin(c, new)
  <2>1. Owner(c) \notin valid
    BY <1>1 DEF Owner
  <2> QED
    BY <1>2, <1>3, <1>4, <2>1 DEF FirstLogin
<1>5. CASE old \notin {Null, c} /\ Redirect(c, new, old)
  BY <1>2, <1>3, <1>5 DEF Redirect
<1> QED
  BY <1>2, <1>4, <1>5 DEF PlayerConnected

LEMMA LoginEndsR ==
  ASSUME HInv, Unbroken, RecordsOK, LoginEnds, ~ KeepSeconds,
         {"user_connected", "user_client_disconnected"} \subseteq Hooks
  PROVE  RecordsOK'
<1>1. running.kind = "login" /\ Still
  BY DEF LoginEnds, Ends
<1>2. CASE running' = NoRun /\ UNCHANGED <<sh, shandles, nhandles, at, told, fault>>
  <2>1. running'.kind = "none" /\ Open' = Open
    BY <1>2, KindOf DEF Open
  <2> QED
    BY <1>1, <1>2, <2>1, SameConnections DEF Closing, Still, Known
<1>3. CASE running.c \in Open /\ \E new \in valid : PlayerConnected(running.c, new)
  <2> DEFINE c == running.c
  <2>1. PICK new \in valid : PlayerConnected(c, new)
    BY <1>3
  <2>2. c \in Open /\ sh[c].player = c /\ new \in Player /\ c \notin Player /\ Known \subseteq Player
    BY <1>1, <1>3, OpenIsConn, AddressAssumption DEF HInv, Handles, Unbroken, Owner, Known
  <2>3. \A p \in Known : Records(told, p) = Heard(sh, Open, p)
    BY <1>1, CalmRecords DEF Closing
  <2> DEFINE old == FindShandle(new)
             l == sh[c].listener
  <2> HIDE DEF c, old
  <2>4. /\ old # c /\ Joined(c, new, old)
        /\ \/ /\ old = Null /\ running' = Verb
              /\ told' = Arrived(told, new, l, "user_connected")
           \/ /\ old # Null /\ running' = Verb /\ sh[old].listener = l
              /\ told' = Arrived(told, new, l, "user_reconnected")
           \/ /\ old # Null /\ running' = Run("redirect", c, new)
              /\ told' = Left(told, new, sh[old].listener, "user_client_disconnected")
    BY <2>1, <2>2, LoginIs DEF old
  <2>5. /\ Heard(sh', Open', new) = {<<new, l>>}
        /\ old = Null => Heard(sh, Open, new) = {}
        /\ old # Null => Heard(sh, Open, new) = {<<new, sh[old].listener>>}
        /\ \A p \in Known \ {new} : Heard(sh', Open', p) = Heard(sh, Open, p)
    <3>1. /\ Heard(sh', Open', new) = {<<new, l>>}
          /\ old = Null => Heard(sh, Open, new) = {}
          /\ old # Null => Heard(sh, Open, new) = {<<new, sh[old].listener>>}
          /\ \A p \in Player \ {new, sh[c].player} : Heard(sh', Open', p) = Heard(sh, Open, p)
      BY <2>2, <2>4, JoinedR DEF old
    <3> QED
      BY <2>2, <3>1
  <2>6. Known' = Known /\ unannounced' = unannounced /\ disk' = disk
    BY <1>1 DEF Still, Known
  <2>7. \A p : p # new => Records(told', p) = Records(told, p)
    BY <2>4 DEF Records, Arrived, Left
  <2>8. CASE running' = Verb
    <3>1. running'.kind = "verb"
      BY <2>8, KindOf
    <3>2. \A p : ~ Awaited(running', sh', p)
      BY <3>1, NobodyAwaited DEF Closing
    <3>3. ASSUME new \in Known PROVE Records(told', new) = {<<new, l>>}
      <4>1. Run("redirect", c, new) # Verb
        BY KindOf
      <4>2. CASE old = Null
        <5>1. Records(told, new) = {}
          BY <2>3, <2>5, <3>3, <4>2
        <5>2. told' = told \cup {<<new, l>>}
          BY <2>4, <4>2, <2>8 DEF Arrived
        <5> QED
          BY <5>1, <5>2 DEF Records
      <4>3. CASE old # Null
        <5>1. Records(told, new) = {<<new, l>>} /\ told' = Arrived(told, new, l, "user_reconnected")
          BY <2>3, <2>4, <2>5, <2>8, <3>3, <4>1, <4>3
        <5> QED
          BY <5>1 DEF Records, Arrived
      <4> QED
        BY <4>2, <4>3
    <3>4. \A p \in Known : Records(told', p) = Heard(sh', Open', p)
      BY <2>3, <2>5, <2>7, <3>3
    <3> QED
      BY <2>6, <3>1, <3>2, <3>4 DEF RecordsOK
  <2>9. CASE /\ old # Null /\ running' = Run("redirect", c, new)
             /\ told' = Left(told, new, sh[old].listener, "user_client_disconnected")
    <3>1. running'.kind = "redirect" /\ running'.next = new /\ running'.c = c
      BY <2>9, KindOf
    <3>2. \A p : Awaited(running', sh', p) <=> p = new
      BY <3>1 DEF Awaited, Closing
    <3>3. ASSUME new \in Known PROVE Records(told', new) = {}
      <4>1. Records(told, new) = {<<new, sh[old].listener>>}
        BY <2>3, <2>5, <2>9, <3>3
      <4>2. told' = told \ {<<new, sh[old].listener>>}
        BY <2>9 DEF Left
      <4> QED
        BY <4>1, <4>2 DEF Records
    <3>4. sh'[c].player = new
      BY <2>4 DEF Joined
    <3>5. \A p \in Known : Records(told', p) =
                              IF Awaited(running', sh', p) THEN {} ELSE Heard(sh', Open', p)
      BY <2>3, <2>5, <2>7, <3>2, <3>3
    <3> QED
      BY <2>6, <3>1, <3>4, <3>5 DEF RecordsOK
  <2> QED
    BY <2>4, <2>8, <2>9
<1> QED
  BY <1>2, <1>3 DEF LoginEnds
LEMMA ReconnectPlayerR ==
  ASSUME HInv, Unbroken, RecordsOK, ReconnectPlayer, ~ careless', ~ KeepSeconds,
         {"user_connected", "user_client_disconnected"} \subseteq Hooks
  PROVE  RecordsOK'
<1>1. PICK c \in Open, new \in valid :
        /\ FindShandle(new) # c
        /\ careless' = (careless \/ Misused(c, FindShandle(new)))
        /\ unannounced' = IF Owner(c) \in valid THEN unannounced \cup {Owner(c), new}
                          ELSE unannounced
        /\ \/ Notified(c, FindShandle(new)) \cap Hooks # {} /\ Undefined("replaced")
           \/ KeepSeconds /\ Undefined("null")
           \/ /\ Handles' /\ Joined(c, new, FindShandle(new))
              /\ UNCHANGED <<at, running, told, fault>>
  BY ReconnectPlayerIs
<1> DEFINE old == FindShandle(new)
<1>2. /\ old \notin Held /\ Notified(c, old) \cap Hooks = {}
      /\ c = running.c => running.kind \notin Closing
  BY <1>1 DEF Misused, Closing
<1>3. old # c /\ Joined(c, new, old) /\ running' = running /\ told' = told
  BY <1>1, <1>2
<1>4. /\ old = Null => sh[c].player \in valid
      /\ old # Null => sh[old].listener = sh[c].listener
  BY <1>2 DEF Notified, Owner
<1>5. new \in Player /\ Open \subseteq Conn /\ c \in Conn /\ Known \subseteq Player
  BY OpenIsConn DEF HInv, Handles, Known
<1>6. /\ Heard(sh', Open', new) = {<<new, sh[c].listener>>}
      /\ old # Null => Heard(sh, Open, new) = {<<new, sh[old].listener>>}
      /\ \A p \in Player \ {new, sh[c].player} : Heard(sh', Open', p) = Heard(sh, Open, p)
  BY <1>3, <1>5, JoinedR
<1>7. unannounced' = IF sh[c].player \in valid THEN unannounced \cup {sh[c].player, new}
                     ELSE unannounced
  BY <1>1 DEF Owner
<1> HIDE DEF old
<1>8. valid' = valid /\ disk' = disk
  BY DEF ReconnectPlayer
<1>9. running.kind \in Closing \cup {"redirect"} => running.c \in Open /\ running.c # old
  BY <1>2, <1>5 DEF Unbroken, Held
<1>10. \A d \in Open \ {c, old} : sh'[d] = sh[d]
  BY <1>3, <1>5 DEF Joined
<1>11. \A p \in Known' : Heard(sh', Open', p) = Heard(sh, Open, p)
  <2>1. CASE sh[c].player \in valid
    <3>1. \A p \in Known' : p \in Player \ {new, sh[c].player}
      BY <1>5, <1>7, <1>8, <2>1 DEF Known
    <3> QED
      BY <1>6, <3>1
  <2>2. CASE sh[c].player \notin valid
    <3>1. \A p \in Known' : p \in Player \ {sh[c].player}
      BY <1>5, <1>7, <1>8, <2>2 DEF Known
    <3>2. Heard(sh', Open', new) = Heard(sh, Open, new)
      BY <1>4, <1>6, <2>2
    <3> QED
      BY <1>6, <3>1, <3>2
  <2> QED
    BY <2>1, <2>2
<1>12. \A p : Awaited(running', sh', p) <=> Awaited(running, sh, p)
  <2>1. running.kind \in Closing => sh'[running.c] = sh[running.c]
    BY <1>2, <1>9, <1>10
  <2> QED
    BY <1>3, <2>1 DEF Awaited
<1>13. running'.kind = "redirect" /\ running'.next \in Known' =>
          sh'[running'.c].player = running'.next
  <2> SUFFICES ASSUME running.kind = "redirect", running.next \in Known'
               PROVE  sh'[running.c].player = running.next
    BY <1>3
  <2>1. running.next \in Known /\ running.next \in valid
    BY <1>7, <1>8 DEF Known
  <2>2. sh[running.c].player = running.next
    BY <2>1 DEF RecordsOK
  <2>3. running.c # c
    BY <1>7, <1>8, <2>1, <2>2 DEF Known
  <2> QED
    BY <1>9, <1>10, <2>2, <2>3
<1>14. Known' \subseteq Known /\ unannounced \subseteq unannounced'
  BY <1>7, <1>8 DEF Known
<1> QED
  BY <1>3, <1>8, <1>11, <1>12, <1>13, <1>14, RecordsKept

LEMMA RecyclePlayerR ==
  ASSUME RecordsOK, RecyclePlayer
  PROVE  RecordsOK'
<1>1. PICK q \in valid : valid' = valid \ {q} /\ told' = {r \in told : r[1] # q}
  BY DEF RecyclePlayer
<1>2. \A p \in Known' : Records(told', p) = Records(told, p)
  BY <1>1 DEF Known, Records, RecyclePlayer
<1>3. /\ Known' \subseteq Known /\ unannounced' = unannounced /\ disk' = disk /\ sh' = sh
      /\ running' = running /\ Open' = Open
  BY <1>1 DEF Known, RecyclePlayer, Open
<1>4. running'.kind = "redirect" /\ running'.next \in Known' =>
         sh'[running'.c].player = running'.next
  BY <1>3 DEF RecordsOK
<1> QED
  BY <1>2, <1>3, <1>4, RecordsKept

\* What is in the dump: that each connection of it has ended will be told first.
LEMMA CheckpointR ==
  ASSUME RecordsOK, Checkpoint, "user_disconnected" \in Hooks
  PROVE  RecordsOK'
<1> DEFINE active == {<<Owner(c), sh[c].listener>> : c \in Open}
<1>1. /\ disk'.told = Remaining(told, active) /\ disk'.valid = valid
      /\ running' = running /\ sh' = sh /\ told' = told /\ Open' = Open
      /\ Known' = Known /\ unannounced' = unannounced
  BY DEF Checkpoint, Known, Open
<1>2. running.kind = "none"
  BY KindOf DEF Checkpoint, Calm
<1>3. \A p \in Known : Records(told, p) = Heard(sh, Open, p)
  BY <1>2, CalmRecords DEF Closing
<1>4. \A p : Heard(sh, Open, p) \subseteq active
  BY DEF Heard, Owner
<1>5. disk'.told = told \ active
  BY <1>1 DEF Remaining
<1> HIDE DEF active
<1>6. \A p \in disk'.valid \ unannounced' : Records(disk'.told, p) = {}
  BY <1>1, <1>3, <1>4, <1>5 DEF Records, Known
<1> QED
  BY <1>1, <1>2, <1>6 DEF RecordsOK

LEMMA CrashRestartR ==
  ASSUME RecordsOK, CrashRestart
  PROVE  RecordsOK'
<1>1. Open' = {}
  BY DEF CrashRestart, Open, Range
<1>2. \A p : Heard(sh', Open', p) = {}
  BY <1>1, HeardNone
<1>3. running'.kind = "none"
  BY KindOf DEF CrashRestart
<1>4. \A p \in Known' : Records(told', p) = {}
  BY DEF RecordsOK, CrashRestart, Known
<1>5. \A p : ~ Awaited(running', sh', p)
  BY <1>3, NobodyAwaited DEF Closing
<1>6. \A p \in disk'.valid \ unannounced' : Records(disk'.told, p) = {}
  BY DEF RecordsOK, CrashRestart
<1> QED
  BY <1>2, <1>3, <1>4, <1>5, <1>6 DEF RecordsOK

\* The steps in which the MOO code learns nothing and nobody comes or goes.
LEMMA QuietR ==
  ASSUME HInv, RecordsOK,
         \/ VerbEnds \/ BeginIo \/ EndIo \/ RunTask \/ BeginReap \/ EndReap \/ UNCHANGED vars
  PROVE  RecordsOK'
<1>1. /\ Open' = Open /\ sh' = sh /\ told' = told /\ disk' = disk
      /\ Known' = Known /\ unannounced' = unannounced
  BY DEF VerbEnds, BeginIo, EndIo, RunTask, BeginReap, EndReap, vars, Waits, Still, Open, Known
<1>2. CASE VerbEnds
  <2>1. running.kind = "verb" /\ running'.kind = "none"
    BY <1>2, KindOf DEF VerbEnds, Ends
  <2> QED
    BY <1>1, <2>1, SameConnections DEF Closing
<1>3. CASE RunTask
  <2>1. running.kind = "none" /\ running'.kind \in {"verb", "login"}
    BY <1>3, KindOf DEF RunTask, Calm
  <2> QED
    BY <1>1, <2>1, SameConnections DEF Closing
<1>4. CASE BeginIo \/ EndIo \/ BeginReap \/ EndReap \/ UNCHANGED vars
  <2>1. running' = running
    BY <1>4 DEF BeginIo, EndIo, BeginReap, EndReap, Waits, vars
  <2> QED
    BY <1>1, <2>1, SameConnections
<1> QED
  BY <1>2, <1>3, <1>4

LEMMA AcceptR ==
  ASSUME HInv, Unbroken, RecordsOK, Accept \/ OpenNetworkConnection
  PROVE  RecordsOK'
<1>1. PICK c \in Conn \ (Open \cup Held) : Opened(c)
  BY NewConnectionOK DEF HInv, Accept, OpenNetworkConnection
<1>2. running' = running /\ told' = told /\ disk' = disk /\ unannounced' = unannounced
  BY DEF Accept, OpenNetworkConnection
<1>3. Known' = Known
  BY DEF Accept, OpenNetworkConnection, Known
<1> QED
  BY <1>1, <1>2, <1>3, OpenedR

LEMMA BootPlayerR ==
  ASSUME HInv, RecordsOK, BootPlayer
  PROVE  RecordsOK'
<1>1. /\ Open' = Open
      /\ \A d \in Conn : /\ sh'[d].player = sh[d].player /\ sh'[d].in = sh[d].in
                         /\ sh'[d].listener = sh[d].listener
  BY BootedOK DEF HInv, BootPlayer
<1> QED
  BY <1>1, SameConnections DEF BootPlayer, Known

LEMMA BrokenR ==
  ASSUME HInv, RecordsOK, Broken, "user_client_disconnected" \in Hooks
  PROVE  RecordsOK'
<1>1. /\ Calm /\ Still
      /\ \E c \in Open :
           /\ sh' = [sh EXCEPT ![c].bye = TRUE]
           /\ told' = Left(told, Owner(c), sh[c].listener, "user_client_disconnected")
           /\ running' = Run("server_close", c, After(nhandles, c))
           /\ UNCHANGED <<shandles, nhandles, at, fault>>
  BY BrokenIs
<1>2. PICK c \in Open, verb \in Hooks, kind \in Closing :
        /\ sh' = [sh EXCEPT ![c].bye = TRUE]
        /\ told' = Left(told, Owner(c), sh[c].listener, verb)
        /\ running' = Run(kind, c, After(nhandles, c))
        /\ UNCHANGED <<shandles, nhandles, at, fault>>
  BY <1>1 DEF Closing
<1>3. /\ Open' = Open
      /\ \A d \in Conn : /\ sh'[d].player = sh[d].player /\ sh'[d].in = sh[d].in
                         /\ sh'[d].listener = sh[d].listener
  BY <1>2, BootedOK DEF HInv
<1> QED
  BY <1>1, <1>2, <1>3, LeavingR DEF Still, Known

LEMMA ReapR ==
  ASSUME HInv, RecordsOK, Reap, "user_disconnected" \in Hooks
  PROVE  RecordsOK'
<1>1. PICK c \in Conn, verb \in Hooks, kind \in Closing :
        /\ ComesTo(c)
        /\ told' = Left(told, Owner(c), sh[c].listener, verb)
        /\ running' = Run(kind, c, After(shandles, c))
  BY DEF Reap, Closing
<1>2. c \in Open /\ Calm
  BY <1>1, ComesToIs
<1>3. Open' = Open /\ sh' = sh /\ Still
  BY DEF Reap, Open
<1> QED
  BY <1>1, <1>2, <1>3, LeavingR DEF Still, Known

LEMMA NextROK ==
  ASSUME HInv, careless \/ (Unbroken /\ RecordsOK), [Next]_vars, ~ KeepSeconds,
         {"user_connected", "user_disconnected", "user_client_disconnected"} \subseteq Hooks
  PROVE  careless' \/ (Unbroken' /\ RecordsOK')
<1> SUFFICES ASSUME ~ careless' PROVE Unbroken' /\ RecordsOK'
  OBVIOUS
<1>1. ~ careless
  BY DEF Next, Accept, BootPlayer, RecyclePlayer, OpenNetworkConnection, ReconnectPlayer,
     VerbEnds, ServerCloseEnds, ReapEnds, RedirectEnds, LoginEnds, Checkpoint, BeginIo, Broken,
     EndIo, RunTask, BeginReap, Reap, ReapRecycled, EndReap, CrashRestart, Still, Waits, vars
<1>2. Unbroken /\ RecordsOK /\ Unbroken'
  BY <1>1, NextUOK
<1>3. CASE UNCHANGED vars
  BY <1>2, <1>3, QuietR
<1>4. CASE Next
  BY <1>2, <1>4, AcceptR, BootPlayerR, RecyclePlayerR, ReconnectPlayerR, ClosingR, RedirectEndsR,
     LoginEndsR, CheckpointR, QuietR, BrokenR, ReapR, ReapRecycledR, CrashRestartR DEF Next
<1> QED
  BY <1>2, <1>3, <1>4

\* With the notifier verbs that tell of logins and of ends, the MOO code's
\* records of who is connected are right whenever no verb runs, also after a
\* crash and a restart from any dump.
THEOREM RecordsAreRight ==
  ASSUME ~ KeepSeconds,
         {"user_connected", "user_disconnected", "user_client_disconnected"} \subseteq Hooks
  PROVE  Spec => []ToldOfConnections
<1> DEFINE R == careless \/ (Unbroken /\ RecordsOK)
<1>1. Init => R
  <2> SUFFICES ASSUME Init PROVE Unbroken /\ RecordsOK
    OBVIOUS
  <2>1. running.kind = "none" /\ Open = {}
    BY KindOf DEF Init, Open, Range
  <2>2. \A p : Heard(sh, Open, p) = {} /\ ~ Awaited(running, sh, p)
    BY <2>1, HeardNone, NobodyAwaited DEF Closing
  <2>3. Unbroken
    BY <2>1 DEF Init, Unbroken, Closing
  <2>4. \A p : Records(told, p) = {} /\ Records(disk.told, p) = {}
    BY DEF Init, Records
  <2> QED
    BY <2>1, <2>2, <2>3, <2>4 DEF RecordsOK
<1>2. HInv /\ R /\ [Next]_vars => R'
  BY NextROK
<1>3. R => ToldOfConnections
  <2> SUFFICES ASSUME R, Calm, ~ careless
               PROVE  \A p \in Known : Records(told, p) = Heard(sh, Open, p)
    BY DEF ToldOfConnections, Known, Records, Heard, Owner
  <2>1. running.kind = "none"
    BY KindOf DEF Calm
  <2> QED
    BY <2>1, CalmRecords DEF Closing
<1> HIDE DEF R
<1> QED
  BY <1>1, <1>2, <1>3, SpecH, PTL DEF Spec

-----------------------------------------------------------------------------
(* Sums of blocks.                                                         *)

Block == [line : Nat, left : Nat]

LEMMA BytesIs ==
  ASSUME NEW n \in Nat, NEW blocks, \A i \in 1..n : blocks[i].left \in Nat
  PROVE  /\ Bytes(blocks, n) \in Nat
         /\ Bytes(blocks, n) = IF n = 0 THEN 0 ELSE Bytes(blocks, n - 1) + blocks[n].left
<1> DEFINE d == [i \in 1..n |-> blocks[i].left]
           Sum(k, s) == s = [m \in 0..k |-> IF m = 0 THEN 0 ELSE s[m - 1] + blocks[m].left]
<1>1. ASSUME NEW k \in 0..n PROVE \E s \in [0..k -> Nat] : Sum(k, s)
  <2> DEFINE e == [i \in 1..k |-> blocks[i].left]
  <2>1. e \in [1..k -> Nat]
    OBVIOUS
  <2>2. k \in Nat
    OBVIOUS
  <2> HIDE DEF e
  <2>3. PICK s \in [0..k -> Nat] : s = [m \in 0..k |-> IF m = 0 THEN 0 ELSE s[m - 1] + e[m]]
    BY <2>1, <2>2, Sums
  <2>4. \A m \in 0..k : m # 0 => e[m] = blocks[m].left
    BY DEF e
  <2>5. \A m \in 0..k : s[m] = IF m = 0 THEN 0 ELSE s[m - 1] + blocks[m].left
    BY <2>3, <2>4
  <2>6. s = [m \in 0..k |-> s[m]]
    OBVIOUS
  <2>7. Sum(k, s)
    BY <2>5, <2>6
  <2> QED
    BY <2>7
<1> DEFINE f(k) == CHOOSE s : Sum(k, s)
<1>2. \A k : Bytes(blocks, k) = f(k)[k]
  BY DEF Bytes
<1>3. ASSUME NEW k \in 0..n PROVE Sum(k, f(k))
  <2> HIDE DEF Sum
  <2> QED
    BY <1>1
<1> HIDE DEF f
<1>4. ASSUME NEW k \in 0..n
      PROVE  \A m \in 0..k : f(k)[m] = IF m = 0 THEN 0 ELSE f(k)[m - 1] + blocks[m].left
  BY <1>3
<1>5. ASSUME NEW k \in 0..n PROVE \A m \in 0..k : f(k)[m] \in Nat
  <2> DEFINE S == {m \in 0..k : f(k)[m] \in Nat}
  <2>1. 0 \in S
    BY <1>4
  <2>2. ASSUME NEW m \in 0..k - 1, m \in S PROVE m + 1 \in S
    BY <1>4, <2>2
  <2>3. 0..k \subseteq S
    <3> HIDE DEF S
    <3> QED
      BY <2>1, <2>2, CountingUp
  <2> QED
    BY <2>3
<1>6. CASE n = 0
  BY <1>2, <1>4, <1>6
<1>7. CASE n # 0
  <2> DEFINE S == {m \in 0..n - 1 : f(n)[m] = f(n - 1)[m]}
  <2>1. n - 1 \in 0..n /\ n \in 0..n /\ n - 1 \in Nat
    BY <1>7
  <2>2. 0 \in S
    BY <1>4, <2>1
  <2>3. ASSUME NEW m \in 0..(n - 1) - 1, m \in S PROVE m + 1 \in S
    <3>1. f(n)[m + 1] = f(n)[m] + blocks[m + 1].left
      BY <1>4, <2>1
    <3>2. f(n - 1)[m + 1] = f(n - 1)[m] + blocks[m + 1].left
      BY <1>4, <2>1
    <3> QED
      BY <2>3, <3>1, <3>2
  <2>4. 0..n - 1 \subseteq S
    <3> HIDE DEF S
    <3> QED
      BY <2>1, <2>2, <2>3, CountingUp
  <2>5. f(n)[n - 1] = f(n - 1)[n - 1]
    BY <2>1, <2>4
  <2>6. f(n)[n] = f(n)[n - 1] + blocks[n].left /\ f(n)[n] \in Nat
    BY <1>4, <1>5, <1>7
  <2> QED
    BY <1>2, <1>7, <2>5, <2>6
<1> QED
  BY <1>6, <1>7
LEMMA BytesGrow ==
  ASSUME NEW n \in Nat, NEW blocks, \A i \in 1..n : blocks[i].left \in Nat, NEW m \in 0..n
  PROVE  Bytes(blocks, m) \in Nat /\ Bytes(blocks, m) <= Bytes(blocks, n)
<1>1. ASSUME NEW k \in 0..n
      PROVE  /\ Bytes(blocks, k) \in Nat
             /\ k # 0 => /\ Bytes(blocks, k - 1) \in Nat
                         /\ Bytes(blocks, k) = Bytes(blocks, k - 1) + blocks[k].left
  <2>1. k \in Nat /\ \A i \in 1..k : blocks[i].left \in Nat
    OBVIOUS
  <2>2. CASE k # 0
    <3>1. k - 1 \in Nat /\ \A i \in 1..k - 1 : blocks[i].left \in Nat
      BY <2>2
    <3> QED
      BY <2>1, <2>2, <3>1, BytesIs
  <2> QED
    BY <2>1, <2>2, BytesIs
<1> DEFINE S == {j \in 0..n - m : Bytes(blocks, m) <= Bytes(blocks, m + j)}
<1>2. 0 \in S
  BY <1>1
<1>3. ASSUME NEW j \in 0..(n - m) - 1, j \in S PROVE j + 1 \in S
  <2>1. m + j \in 0..n /\ m + (j + 1) \in 0..n /\ m + (j + 1) # 0 /\ (m + (j + 1)) - 1 = m + j
    OBVIOUS
  <2>2. Bytes(blocks, m + (j + 1)) = Bytes(blocks, m + j) + blocks[m + (j + 1)].left
    BY <1>1, <2>1
  <2>3. blocks[m + (j + 1)].left \in Nat /\ Bytes(blocks, m) \in Nat /\ Bytes(blocks, m + j) \in Nat
    BY <1>1, <2>1
  <2>4. Bytes(blocks, m) <= Bytes(blocks, m + (j + 1))
    BY <1>3, <2>2, <2>3
  <2> QED
    BY <2>4
<1>4. n - m \in S
  <2>1. n - m \in Nat
    OBVIOUS
  <2> HIDE DEF S
  <2>2. 0..n - m \subseteq S
    BY <1>2, <1>3, <2>1, CountingUp
  <2> QED
    BY <2>1, <2>2
<1>5. m + (n - m) = n
  OBVIOUS
<1> QED
  BY <1>1, <1>4, <1>5

\* What is left of k + n blocks when k are gone and a part of the next.
IsTail(blocks, rest, k, n, part) ==
    /\ \A i \in 1..k + n : blocks[i].left \in Nat
    /\ \A i \in 1..n : rest[i].left \in Nat
    /\ n > 0 => rest[1].left = blocks[k + 1].left - part
    /\ \A i \in 2..n : rest[i].left = blocks[k + i].left

LEMMA BytesTail ==
  ASSUME NEW k \in Nat, NEW n \in Nat, NEW blocks, NEW rest, NEW part \in Nat,
         IsTail(blocks, rest, k, n, part)
  PROVE  \A m \in 1..n : Bytes(rest, m) = (Bytes(blocks, k + m) - Bytes(blocks, k)) - part
<1> DEFINE S == {j \in 0..n - 1 :
                   Bytes(rest, j + 1) = (Bytes(blocks, k + (j + 1)) - Bytes(blocks, k)) - part}
<1>0. /\ \A i \in 1..k + n : blocks[i].left \in Nat
      /\ \A i \in 1..n : rest[i].left \in Nat
      /\ n > 0 => rest[1].left = blocks[k + 1].left - part
      /\ \A i \in 2..n : rest[i].left = blocks[k + i].left
  BY DEF IsTail
<1>1. ASSUME NEW j \in 0..n - 1
      PROVE  /\ Bytes(rest, j) \in Nat /\ Bytes(rest, 0) = 0
             /\ Bytes(rest, j + 1) = Bytes(rest, j) + rest[j + 1].left
             /\ Bytes(blocks, k + j) \in Nat /\ Bytes(blocks, k) \in Nat
             /\ Bytes(blocks, k + (j + 1)) = Bytes(blocks, k + j) + blocks[k + (j + 1)].left
  <2>1. /\ j \in Nat /\ j + 1 \in Nat /\ j + 1 # 0 /\ (j + 1) - 1 = j
        /\ \A i \in 1..j + 1 : rest[i].left \in Nat
        /\ \A i \in 1..j : rest[i].left \in Nat
    BY <1>0
  <2>2. /\ k + j \in Nat /\ k + (j + 1) \in Nat /\ k + (j + 1) # 0 /\ (k + (j + 1)) - 1 = k + j
        /\ \A i \in 1..k + (j + 1) : blocks[i].left \in Nat
        /\ \A i \in 1..k + j : blocks[i].left \in Nat
        /\ \A i \in 1..k : blocks[i].left \in Nat
    BY <1>0
  <2>3. Bytes(rest, 0) = 0
    BY BytesIs
  <2>4. Bytes(rest, j) \in Nat /\ Bytes(rest, j + 1) = Bytes(rest, j) + rest[j + 1].left
    BY <2>1, BytesIs
  <2>5. Bytes(blocks, k + j) \in Nat /\ Bytes(blocks, k) \in Nat
    BY <2>2, BytesIs
  <2>6. Bytes(blocks, k + (j + 1)) = Bytes(blocks, k + j) + blocks[k + (j + 1)].left
    BY <2>2, BytesIs
  <2> QED
    BY <2>3, <2>4, <2>5, <2>6
<1>2. CASE n = 0
  BY <1>2
<1>3. CASE n # 0
  <2>1. 0 \in 0..n - 1 /\ n - 1 \in Nat /\ 1 \in 1..k + n /\ k + 1 \in 1..k + n
    BY <1>3
  <2>2. 0 \in S
    <3>1. /\ Bytes(rest, 0 + 1) = Bytes(rest, 0) + rest[0 + 1].left /\ Bytes(rest, 0) = 0
          /\ Bytes(blocks, k + (0 + 1)) = Bytes(blocks, k + 0) + blocks[k + (0 + 1)].left
          /\ Bytes(blocks, k) \in Nat
      BY <1>1, <2>1
    <3>2. rest[1].left = blocks[k + 1].left - part /\ blocks[k + 1].left \in Nat
      BY <1>0, <1>3, <2>1
    <3>3. 0 + 1 = 1 /\ k + 0 = k
      OBVIOUS
    <3>4. Bytes(rest, 1) = (Bytes(blocks, k + 1) - Bytes(blocks, k)) - part
      BY <3>1, <3>2, <3>3
    <3> QED
      BY <2>1, <3>3, <3>4
  <2>3. ASSUME NEW j \in 0..(n - 1) - 1, j \in S PROVE j + 1 \in S
    <3>1. j + 1 \in 0..n - 1 /\ (j + 1) + 1 \in 2..n /\ k + ((j + 1) + 1) \in 1..k + n
      OBVIOUS
    <3>2. /\ Bytes(rest, (j + 1) + 1) = Bytes(rest, j + 1) + rest[(j + 1) + 1].left
          /\ Bytes(blocks, k + ((j + 1) + 1)) =
                Bytes(blocks, k + (j + 1)) + blocks[k + ((j + 1) + 1)].left
          /\ Bytes(blocks, k + (j + 1)) \in Nat /\ Bytes(blocks, k) \in Nat
      BY <1>1, <3>1
    <3>3. rest[(j + 1) + 1].left = blocks[k + ((j + 1) + 1)].left
          /\ blocks[k + ((j + 1) + 1)].left \in Nat
      BY <1>0, <3>1
    <3>4. Bytes(rest, (j + 1) + 1) = (Bytes(blocks, k + ((j + 1) + 1)) - Bytes(blocks, k)) - part
      BY <2>3, <3>2, <3>3
    <3> QED
      BY <3>1, <3>4
  <2>4. 0..n - 1 \subseteq S
    <3> HIDE DEF S
    <3> QED
      BY <2>1, <2>2, <2>3, CountingUp
  <2>5. ASSUME NEW m \in 1..n
        PROVE  Bytes(rest, m) = (Bytes(blocks, k + m) - Bytes(blocks, k)) - part
    <3>1. m - 1 \in S /\ (m - 1) + 1 = m
      BY <2>4
    <3> QED
      BY <3>1
  <2> QED
    BY <2>5
<1> QED
  BY <1>2, <1>3
-----------------------------------------------------------------------------
(* Queues.                                                                 *)

LEMMA LessLeft ==
  ASSUME NEW b \in Block, NEW part \in Nat, part <= b.left
  PROVE  LET c == [b EXCEPT !.left = @ - part]
         IN  c \in Block /\ c.line = b.line /\ c.left = b.left - part
  BY DEF Block

\* What is left of n + k blocks when n are gone and a part of the next.
IsRest(blocks, rest, n, k, part) ==
    /\ Len(blocks) = n + k /\ (part # 0 => k # 0 /\ part <= blocks[n + 1].left)
    /\ rest = Begun(SubSeq(blocks, n + 1, n + k), part)

LEMMA RestIs ==
  ASSUME NEW blocks \in Seq(Block), NEW n \in Nat, NEW k \in Nat, NEW part \in Nat,
         NEW rest, IsRest(blocks, rest, n, k, part)
  PROVE  /\ rest \in Seq(Block) /\ Len(rest) = k
         /\ \A i \in 1..k : rest[i].line = blocks[n + i].line
         /\ Bytes(blocks, n) \in Nat /\ Bytes(blocks, n + k) \in Nat /\ Bytes(rest, k) \in Nat
         /\ Bytes(rest, k) = (Bytes(blocks, n + k) - Bytes(blocks, n)) - part
         /\ k # 0 => /\ Bytes(rest, k - 1) \in Nat
                     /\ Bytes(rest, k - 1) <= Bytes(blocks, (n + k) - 1)
<1>0. /\ Len(blocks) = n + k /\ (part # 0 => k # 0 /\ part <= blocks[n + 1].left)
      /\ rest = Begun(SubSeq(blocks, n + 1, n + k), part)
  BY DEF IsRest
<1>1. \A i \in 1..n + k : blocks[i] \in Block
  BY <1>0, ElementOfSeq
<1>2. \A i \in 1..n + k : blocks[i].left \in Nat
  BY <1>1 DEF Block
<1> DEFINE s == SubSeq(blocks, n + 1, n + k)
<1>3. s \in Seq(Block) /\ Len(s) = k /\ \A i \in 1..k : s[i] = blocks[n + i]
  <2>1. \A i \in n + 1..n + k : blocks[i] \in Block
    BY <1>1
  <2>2. /\ s \in Seq(Block) /\ Len(s) = IF n + 1 <= n + k THEN (n + k) - (n + 1) + 1 ELSE 0
        /\ \A i \in 1..(n + k) - (n + 1) + 1 : s[i] = blocks[(n + 1) + i - 1]
    BY <2>1, SubSeqProperties
  <2> HIDE DEF s
  <2>3. Len(s) = k
    BY <2>2
  <2>4. ASSUME NEW i \in 1..k PROVE s[i] = blocks[n + i]
    <3>1. i \in 1..(n + k) - (n + 1) + 1 /\ (n + 1) + i - 1 = n + i
      OBVIOUS
    <3> QED
      BY <2>2, <3>1
  <2> QED
    BY <2>2, <2>3, <2>4
<1>4. rest = IF part = 0 THEN s ELSE [s EXCEPT ![1].left = @ - part]
  BY <1>0 DEF Begun
<1> HIDE DEF s
<1>5. /\ rest \in Seq(Block) /\ Len(rest) = k
      /\ \A i \in 1..k : rest[i].line = blocks[n + i].line
      /\ k > 0 => rest[1].left = blocks[n + 1].left - part
      /\ \A i \in 2..k : rest[i].left = blocks[n + i].left
  <2>1. CASE part = 0
    <3>1. rest = s
      BY <1>4, <2>1
    <3>2. k > 0 => rest[1].left = blocks[n + 1].left - part
      BY <1>2, <1>3, <2>1, <3>1
    <3> QED
      BY <1>3, <3>1, <3>2
  <2>2. CASE part # 0
    <3>1. 1 \in 1..k /\ n + 1 \in 1..n + k /\ part <= blocks[n + 1].left
      BY <1>0, <2>2
    <3>2. s[1] = blocks[n + 1] /\ s[1] \in Block
      BY <1>1, <1>3, <3>1
    <3> DEFINE a == s[1]
               b == [a EXCEPT !.left = @ - part]
    <3>4. rest = [s EXCEPT ![1] = b]
      BY <1>4, <2>2
    <3> HIDE DEF a
    <3>3. b \in Block /\ b.line = blocks[n + 1].line /\ b.left = blocks[n + 1].left - part
      <4>1. a \in Block /\ a = blocks[n + 1] /\ part <= a.left
        BY <3>1, <3>2 DEF a
      <4> QED
        BY <4>1, LessLeft
    <3> HIDE DEF b
    <3>5. /\ rest \in Seq(Block) /\ Len(rest) = k
          /\ \A i \in 1..k : rest[i] = IF i = 1 THEN b ELSE s[i]
      <4>1. /\ [s EXCEPT ![1] = b] \in Seq(Block) /\ Len([s EXCEPT ![1] = b]) = Len(s)
            /\ \A i \in 1..Len(s) : [s EXCEPT ![1] = b][i] = IF i = 1 THEN b ELSE s[i]
        BY <1>3, <3>1, <3>3, ExceptSeq
      <4> QED
        BY <1>3, <3>4, <4>1
    <3>6. \A i \in 2..k : i \in 1..k /\ i # 1
      OBVIOUS
    <3> QED
      BY <1>3, <3>1, <3>3, <3>5, <3>6
  <2> QED
    BY <2>1, <2>2
<1>6. ASSUME NEW i \in 1..k PROVE rest[i].left \in Nat
  <2>1. rest[i] \in Block
    BY <1>5, ElementOfSeq
  <2> QED
    BY <2>1 DEF Block
<1>7. \A m \in 1..k : Bytes(rest, m) = (Bytes(blocks, n + m) - Bytes(blocks, n)) - part
  <2>1. IsTail(blocks, rest, n, k, part)
    BY <1>2, <1>5, <1>6 DEF IsTail
  <2> QED
    BY <2>1, BytesTail
<1>8. \A m \in 0..n + k : Bytes(blocks, m) \in Nat
  <2>1. PICK N \in Nat : N = n + k
    OBVIOUS
  <2>2. \A i \in 1..N : blocks[i].left \in Nat
    BY <1>2, <2>1
  <2>3. \A m \in 0..N : Bytes(blocks, m) \in Nat
    BY <2>2, BytesGrow
  <2> QED
    BY <2>1, <2>3
<1>9. \A m \in 0..k : Bytes(rest, m) \in Nat
  BY <1>6, BytesGrow
<1>10. Bytes(rest, 0) = 0
  BY BytesIs
<1>11. n \in 0..n + k /\ n + k \in 0..n + k /\ k \in 0..k
  OBVIOUS
<1>12. Bytes(rest, k) = (Bytes(blocks, n + k) - Bytes(blocks, n)) - part
  <2>1. CASE k = 0
    <3>1. n + k = n /\ part = 0
      BY <1>0, <2>1
    <3> QED
      BY <1>8, <1>10, <1>11, <2>1, <3>1
  <2>2. CASE k # 0
    <3>1. k \in 1..k
      BY <2>2
    <3> QED
      BY <1>7, <3>1
  <2> QED
    BY <2>1, <2>2
<1>13. ASSUME k # 0
       PROVE  Bytes(rest, k - 1) \in Nat /\ Bytes(rest, k - 1) <= Bytes(blocks, (n + k) - 1)
  <2>1. k - 1 \in 0..k /\ (n + k) - 1 \in 0..n + k
    BY <1>13
  <2>2. Bytes(rest, k - 1) \in Nat /\ Bytes(blocks, (n + k) - 1) \in Nat
    BY <1>8, <1>9, <2>1
  <2>3. CASE k = 1
    BY <1>10, <2>2, <2>3
  <2>4. CASE k # 1
    <3>1. k - 1 \in 1..k /\ n + (k - 1) = (n + k) - 1
      BY <1>13, <2>4
    <3>2. Bytes(rest, k - 1) = (Bytes(blocks, (n + k) - 1) - Bytes(blocks, n)) - part
      BY <1>7, <3>1
    <3>3. Bytes(blocks, n) \in Nat
      BY <1>8, <1>11
    <3> QED
      BY <2>2, <3>2, <3>3
  <2> QED
    BY <2>3, <2>4
<1> QED
  BY <1>5, <1>8, <1>9, <1>11, <1>12, <1>13
\* What the blocks, the length and the counts say of each other: a lines were taken.
Right(q, a) ==
    /\ q.blocks \in Seq(Block) /\ q.flushed \in Nat /\ q.accounted \in Nat
    /\ \A i \in 1..Len(q.blocks) : q.blocks[i].line = a - Len(q.blocks) + i
    /\ q.accounted + q.flushed = a - Len(q.blocks)
    /\ q.length = Bytes(q.blocks, Len(q.blocks))
Limited(q) == q.length > MAX_QUEUED_OUTPUT => Bytes(q.blocks, Len(q.blocks) - 1) = 0
Reported(q) == q.flushed > 0 => q.blocks # <<>>

LEMMA QueueIs ==
  ASSUME NEW b, NEW l, NEW f, NEW c
  PROVE  /\ Queue(b, l, f, c).blocks = b /\ Queue(b, l, f, c).length = l
         /\ Queue(b, l, f, c).flushed = f /\ Queue(b, l, f, c).accounted = c
  BY DEF Queue

LEMMA LengthIs ==
  ASSUME NEW a \in Nat, NEW q, Right(q, a)
  PROVE  Len(q.blocks) \in Nat /\ q.length \in Nat
<1>1. Len(q.blocks) \in Nat /\ \A i \in 1..Len(q.blocks) : q.blocks[i].left \in Nat
  <2>1. q.blocks \in Seq(Block)
    BY DEF Right
  <2>2. \A i \in 1..Len(q.blocks) : q.blocks[i] \in Block
    BY <2>1, ElementOfSeq
  <2> QED
    BY <2>1, <2>2, LenProperties DEF Block
<1> DEFINE b == q.blocks
           n == Len(b)
<1>2. n \in Nat /\ \A i \in 1..n : b[i].left \in Nat
  BY <1>1
<1>3. q.length = Bytes(b, n)
  BY DEF Right
<1> HIDE DEF n, b
<1>4. Bytes(b, n) \in Nat
  BY <1>2, BytesIs
<1> QED
  BY <1>1, <1>3, <1>4

\* The oldest n blocks go, and a part of the next, all accounted for.
Gone(q, r, n, part) ==
    /\ n \in 0..Len(q.blocks) /\ part \in Nat
    /\ part # 0 => n # Len(q.blocks) /\ part <= q.blocks[n + 1].left
    /\ r.blocks = Begun(SubSeq(q.blocks, n + 1, Len(q.blocks)), part)
    /\ r.length = q.length - (Bytes(q.blocks, n) + part)
    /\ r.flushed \in Nat /\ r.accounted \in Nat
    /\ r.flushed + r.accounted = (q.flushed + q.accounted) + n

LEMMA OldestGone ==
  ASSUME NEW a \in Nat, NEW q, Right(q, a), NEW r, NEW n, NEW part, Gone(q, r, n, part)
  PROVE  /\ Right(r, a) /\ Len(r.blocks) = Len(q.blocks) - n
         /\ Limited(q) => Limited(r)
         /\ r.length = (q.length - Bytes(q.blocks, n)) - part /\ Bytes(q.blocks, n) \in Nat
<1> DEFINE b == q.blocks
           s == r.blocks
           f == r.flushed
           c == r.accounted
<1>0. /\ n \in 0..Len(b) /\ part \in Nat
      /\ part # 0 => n # Len(b) /\ part <= b[n + 1].left
      /\ s = Begun(SubSeq(b, n + 1, Len(b)), part)
      /\ r.length = q.length - (Bytes(b, n) + part)
      /\ f \in Nat /\ c \in Nat /\ f + c = (q.flushed + q.accounted) + n
  BY DEF Gone
<1>1. /\ b \in Seq(Block) /\ q.flushed \in Nat /\ q.accounted \in Nat
      /\ \A i \in 1..Len(b) : b[i].line = a - Len(b) + i
      /\ q.accounted + q.flushed = a - Len(b)
      /\ q.length = Bytes(b, Len(b))
  BY DEF Right
<1>2. Len(b) \in Nat
  BY <1>1, LenProperties
<1>3. n \in Nat /\ Len(b) - n \in Nat /\ Len(b) = n + (Len(b) - n)
  BY <1>0, <1>2
<1>4. PICK k \in Nat : Len(b) = n + k
  BY <1>3
<1>5. part # 0 => k # 0 /\ part <= b[n + 1].left
  BY <1>0, <1>4
<1>6. s = Begun(SubSeq(b, n + 1, n + k), part)
  BY <1>0, <1>4
<1>7. r.length = q.length - (Bytes(b, n) + part)
  BY <1>0
<1> HIDE DEF b, s, f, c
<1>8. /\ s \in Seq(Block) /\ Len(s) = k
      /\ \A i \in 1..k : s[i].line = b[n + i].line
      /\ Bytes(b, n) \in Nat /\ Bytes(b, n + k) \in Nat /\ Bytes(s, k) \in Nat
      /\ Bytes(s, k) = (Bytes(b, n + k) - Bytes(b, n)) - part
      /\ k # 0 => Bytes(s, k - 1) \in Nat /\ Bytes(s, k - 1) <= Bytes(b, (n + k) - 1)
  <2>1. IsRest(b, s, n, k, part)
    BY <1>4, <1>5, <1>6 DEF IsRest
  <2>2. b \in Seq(Block) /\ n \in Nat /\ part \in Nat
    BY <1>0, <1>1, <1>3
  <2> QED
    BY <2>1, <2>2, RestIs
<1>9. r.length = Bytes(s, k) /\ r.length = (q.length - Bytes(b, n)) - part
  BY <1>0, <1>1, <1>4, <1>7, <1>8
<1>10. ASSUME NEW i \in 1..k PROVE s[i].line = a - k + i
  <2>1. n + i \in 1..n + k /\ s[i].line = b[n + i].line
    BY <1>3, <1>8
  <2>2. \A j \in 1..n + k : b[j].line = a - (n + k) + j
    BY <1>1, <1>4
  <2>3. b[n + i].line = a - (n + k) + (n + i)
    BY <2>1, <2>2
  <2> QED
    BY <1>3, <2>1, <2>3
<1>11. c + f = a - k
  <2> DEFINE before == q.flushed + q.accounted
  <2>1. before \in Nat /\ before = a - (n + k)
    BY <1>1, <1>4
  <2>2. f \in Nat /\ c \in Nat /\ f + c = before + n
    BY <1>0
  <2> HIDE DEF before
  <2> QED
    BY <1>3, <2>1, <2>2
<1>12. Right(r, a)
  BY <1>0, <1>8, <1>9, <1>10, <1>11 DEF Right, s, f, c
<1>13. ASSUME Limited(q), r.length > MAX_QUEUED_OUTPUT PROVE Bytes(s, k - 1) = 0
  <2>1. q.length > MAX_QUEUED_OUTPUT
    BY <1>0, <1>1, <1>4, <1>8, <1>9, <1>13, OutputAssumption
  <2>2. Bytes(b, (n + k) - 1) = 0
    BY <1>4, <1>13, <2>1 DEF Limited, b
  <2>3. k # 0
    <3>1. SUFFICES ASSUME k = 0 PROVE FALSE
      OBVIOUS
    <3>2. n + k = n
      BY <1>3, <3>1
    <3>3. Bytes(s, k) <= 0
      <4>1. Bytes(b, n + k) = Bytes(b, n)
        BY <3>2
      <4> QED
        BY <1>0, <1>8, <4>1
    <3> QED
      BY <1>8, <1>9, <1>13, <3>3, OutputAssumption
  <2> QED
    BY <1>8, <2>2, <2>3
<1>14. Len(r.blocks) = Len(q.blocks) - n
  BY <1>3, <1>4, <1>8 DEF s, b
<1> QED
  BY <1>8, <1>9, <1>12, <1>13, <1>14 DEF Limited, s, b
LEMMA BlocksLeft ==
  ASSUME NEW b \in Seq(Block)
  PROVE  Len(b) \in Nat /\ \A i \in 1..Len(b) : b[i] \in Block /\ b[i].left \in Nat
<1>1. Len(b) \in Nat /\ \A i \in 1..Len(b) : b[i] \in Block
  BY LenProperties, ElementOfSeq
<1> QED
  BY <1>1 DEF Block

\* write() takes any part of the queue.
LEMMA PushedOK ==
  ASSUME accepted \in Nat, Right(Unpushed, accepted), Limited(Unpushed), Reported(Unpushed),
         NEW q \in Pushed
  PROVE  /\ Right(q, accepted) /\ Limited(q) /\ Reported(q)
         /\ q = Queue(q.blocks, q.length, q.flushed, q.accounted)
         /\ q # Unpushed => q.flushed = 0
<1> DEFINE u == Unpushed
<1>1. /\ u.blocks = output /\ u.length = output_length
      /\ u.flushed = output_lines_flushed /\ u.accounted = accounted
      /\ u = Queue(output, output_length, output_lines_flushed, accounted)
  BY QueueIs DEF Unpushed
<1>2. /\ output \in Seq(Block) /\ output_lines_flushed \in Nat /\ accounted \in Nat
      /\ output_length \in Nat
  BY <1>1, LengthIs DEF Right
<1>3. CASE q = u
  BY <1>1, <1>3
<1>4. ASSUME NEW n \in 0..Len(output), NEW part \in Parts(n), q = Written(n, part)
      PROVE  /\ Right(q, accepted) /\ Limited(q) /\ q.flushed = 0
             /\ q = Queue(q.blocks, q.length, q.flushed, q.accounted)
  <2>1. Len(output) \in Nat /\ \A i \in 1..Len(output) : output[i].left \in Nat
    BY <1>2, BlocksLeft
  <2>2. part \in Nat /\ (part # 0 => n # Len(output) /\ part <= output[n + 1].left)
    <3>1. CASE n = Len(output)
      BY <3>1 DEF Parts
    <3>2. CASE n # Len(output)
      <4>1. n + 1 \in 1..Len(output)
        BY <2>1, <3>2
      <4>2. output[n + 1].left \in Nat
        BY <2>1, <4>1
      <4>3. part \in {0} \cup 1..output[n + 1].left - 1
        BY <3>2 DEF Parts
      <4> QED
        BY <3>2, <4>2, <4>3
    <3> QED
      BY <3>1, <3>2
  <2> DEFINE rest == Begun(SubSeq(output, n + 1, Len(output)), part)
             l == output_length - (Bytes(output, n) + part)
             c == accounted + output_lines_flushed + n
  <2>3. q = Queue(rest, l, 0, c)
    BY <1>4 DEF Written
  <2>4. c \in Nat /\ 0 + c = (output_lines_flushed + accounted) + n
    BY <1>2
  <2> HIDE DEF rest, l, c, u
  <2>5. /\ q.blocks = rest /\ q.length = l /\ q.flushed = 0 /\ q.accounted = c
        /\ q = Queue(q.blocks, q.length, q.flushed, q.accounted)
    BY <2>3, QueueIs
  <2>6. Gone(u, q, n, part)
    <3>1. n \in 0..Len(u.blocks) /\ part \in Nat /\ (part # 0 => n # Len(u.blocks))
      BY <1>1, <2>2
    <3>2. part # 0 => part <= u.blocks[n + 1].left
      BY <1>1, <2>2
    <3>3. q.blocks = Begun(SubSeq(u.blocks, n + 1, Len(u.blocks)), part)
      BY <1>1, <2>5 DEF rest
    <3>4. q.length = u.length - (Bytes(u.blocks, n) + part)
      BY <1>1, <2>5 DEF l
    <3>5. q.flushed \in Nat /\ q.accounted \in Nat
      BY <2>4, <2>5
    <3>6. q.flushed + q.accounted = (u.flushed + u.accounted) + n
      BY <1>1, <2>4, <2>5
    <3> QED
      BY <3>1, <3>2, <3>3, <3>4, <3>5, <3>6 DEF Gone
  <2>7. Right(u, accepted) /\ Limited(u)
    BY DEF u
  <2>8. Right(q, accepted) /\ Limited(q)
    BY <2>6, <2>7, OldestGone
  <2> QED
    BY <2>5, <2>8
<1>5. q = u \/ \E n \in 0..Len(output) : \E part \in Parts(n) : q = Written(n, part)
  BY DEF Pushed
<1>6. CASE \E n \in 0..Len(output) : \E part \in Parts(n) : q = Written(n, part)
  <2>1. /\ Right(q, accepted) /\ Limited(q) /\ q.flushed = 0
        /\ q = Queue(q.blocks, q.length, q.flushed, q.accounted)
    BY <1>4, <1>6
  <2> QED
    BY <2>1 DEF Reported
<1> QED
  BY <1>3, <1>5, <1>6

\* A line is added to a queue that has room for it, or is empty.
LEMMA AddedOK ==
  ASSUME accepted \in Nat, NEW length \in Nat,
         NEW q, q = Queue(q.blocks, q.length, q.flushed, q.accounted), Right(q, accepted),
         q.length = 0 \/ q.length + length <= MAX_QUEUED_OUTPUT
  PROVE  LET r == Added(q, length)
         IN  /\ Right(r, accepted + 1) /\ Limited(r) /\ Reported(r)
             /\ r = Queue(r.blocks, r.length, r.flushed, r.accounted)
<1> DEFINE r == Added(q, length)
           new == [line |-> accepted + 1, left |-> length]
           b == q.blocks
           s == Append(b, new)
           n == Len(b)
<1>1. r.blocks = s /\ r.length = q.length + length /\ r.flushed = q.flushed
      /\ r.accounted = q.accounted
      /\ r = Queue(r.blocks, r.length, r.flushed, r.accounted)
  <2>1. r = Queue(s, q.length + length, q.flushed, q.accounted)
    BY DEF Added
  <2>2. \A w, x, y, z : LET t == Queue(w, x, y, z)
                         IN  /\ t.blocks = w /\ t.length = x /\ t.flushed = y /\ t.accounted = z
                             /\ t = Queue(t.blocks, t.length, t.flushed, t.accounted)
    BY DEF Queue
  <2> HIDE DEF r, s
  <2> QED
    BY <2>1, <2>2
<1>2. /\ b \in Seq(Block) /\ q.flushed \in Nat /\ q.accounted \in Nat
      /\ \A i \in 1..n : b[i].line = accepted - n + i
      /\ q.accounted + q.flushed = accepted - n
      /\ q.length = Bytes(b, n)
  BY DEF Right
<1>3. n \in Nat /\ \A i \in 1..n : b[i].left \in Nat
  BY <1>2, BlocksLeft
<1>4. new \in Block /\ new.line = accepted + 1 /\ new.left = length
  BY DEF Block
<1> HIDE DEF new
<1>5. s \in Seq(Block) /\ Len(s) = n + 1 /\ \A i \in 1..n + 1 : s[i] = IF i <= n THEN b[i] ELSE new
  <2>1. /\ s \in Seq(Block) /\ Len(s) = Len(b) + 1
        /\ (\A i \in 1..Len(b) : s[i] = b[i]) /\ s[Len(b) + 1] = new
    BY <1>2, <1>4, AppendProperties
  <2> HIDE DEF s
  <2>2. ASSUME NEW i \in 1..n + 1 PROVE s[i] = IF i <= n THEN b[i] ELSE new
    <3>1. CASE i <= n
      BY <1>3, <2>1, <3>1
    <3>2. CASE ~ (i <= n)
      <4>1. i = n + 1
        BY <1>3, <3>2
      <4> QED
        BY <2>1, <3>2, <4>1
    <3> QED
      BY <3>1, <3>2
  <2> QED
    BY <2>1, <2>2
<1> HIDE DEF b, s, n, r
<1>6. \A i \in 1..n + 1 : s[i].left \in Nat
  BY <1>3, <1>4, <1>5
<1>7. Bytes(s, n + 1) = Bytes(s, n) + length
  <2>1. n + 1 \in Nat /\ n + 1 # 0 /\ (n + 1) - 1 = n
    BY <1>3
  <2>2. PICK m \in Nat : m = n + 1
    BY <2>1
  <2>3. \A i \in 1..m : s[i].left \in Nat
    BY <1>6, <2>2
  <2>4. Bytes(s, m) = Bytes(s, m - 1) + s[m].left
    BY <2>1, <2>2, <2>3, BytesIs
  <2>5. s[n + 1].left = length
    BY <1>3, <1>4, <1>5
  <2> QED
    BY <2>1, <2>2, <2>4, <2>5
<1>8. Bytes(s, n) = Bytes(b, n) /\ Bytes(b, n) \in Nat
  <2>1. Bytes(b, n) \in Nat /\ Bytes(b, 0) = 0 /\ Bytes(s, 0) = 0
    BY <1>3, BytesIs
  <2>2. CASE n = 0
    BY <2>1, <2>2
  <2>3. CASE n # 0
    <3>1. IsTail(b, s, 0, n, 0)
      <4>1. 0 + n = n /\ 1 \in 1..n /\ b[1].left \in Nat /\ \A i \in 1..n : s[i] = b[i] /\ 0 + i = i
        BY <1>3, <1>5, <2>3
      <4> QED
        BY <1>3, <4>1 DEF IsTail
    <3>2. \A m \in 1..n : Bytes(s, m) = (Bytes(b, 0 + m) - Bytes(b, 0)) - 0
      <4>1. PICK z \in Nat : z = 0
        OBVIOUS
      <4>2. IsTail(b, s, z, n, z)
        BY <3>1, <4>1
      <4>3. \A m \in 1..n : Bytes(s, m) = (Bytes(b, z + m) - Bytes(b, z)) - z
        BY <1>3, <4>1, <4>2, BytesTail
      <4> QED
        BY <4>1, <4>3
    <3>3. n \in 1..n /\ 0 + n = n
      BY <1>3, <2>3
    <3>4. Bytes(s, n) = (Bytes(b, n) - Bytes(b, 0)) - 0
      BY <3>2, <3>3
    <3> QED
      BY <2>1, <3>4
  <2> QED
    BY <2>2, <2>3
<1>9. Right(r, accepted + 1)
  <2>1. ASSUME NEW i \in 1..n + 1 PROVE s[i].line = (accepted + 1) - (n + 1) + i
    <3>1. CASE i <= n
      <4>1. s[i] = b[i] /\ i \in 1..n
        BY <1>3, <1>5, <3>1
      <4>2. b[i].line = accepted - n + i
        BY <1>2, <4>1
      <4> QED
        BY <1>3, <4>1, <4>2
    <3>2. CASE ~ (i <= n)
      <4>1. s[i] = new /\ i = n + 1
        BY <1>3, <1>5, <3>2
      <4> QED
        BY <1>3, <1>4, <4>1
    <3> QED
      BY <3>1, <3>2
  <2>2. q.accounted + q.flushed = (accepted + 1) - (n + 1)
    BY <1>2, <1>3
  <2>3. q.length + length = Bytes(s, n + 1)
    BY <1>2, <1>7, <1>8
  <2> QED
    BY <1>1, <1>2, <1>5, <2>1, <2>2, <2>3 DEF Right
<1>10. Limited(r)
  <2> SUFFICES ASSUME q.length + length > MAX_QUEUED_OUTPUT PROVE Bytes(s, Len(s) - 1) = 0
    BY <1>1 DEF Limited
  <2>1. q.length = 0
    BY <1>2, <1>8, OutputAssumption
  <2>2. Len(s) - 1 = n
    BY <1>3, <1>5
  <2> QED
    BY <1>2, <1>8, <2>1, <2>2
<1>11. Reported(r)
  <2>1. s # <<>>
    BY <1>3, <1>5, EmptySeq
  <2> QED
    BY <1>1, <2>1 DEF Reported
<1> QED
  BY <1>1, <1>9, <1>10, <1>11 DEF r
\* As many of the oldest blocks as make room, or all, are dropped and counted.
LEMMA DroppedOK ==
  ASSUME accepted \in Nat, NEW to_flush \in Int, NEW q, Right(q, accepted)
  PROVE  LET r == WithoutOldest(q, ToDrop(q, to_flush))
         IN  /\ Right(r, accepted) /\ r = Queue(r.blocks, r.length, r.flushed, r.accounted)
             /\ r.length = 0 \/ r.length <= q.length - to_flush
<1> DEFINE b == q.blocks
           Enough(n) == n = Len(b) \/ Bytes(b, n) >= to_flush
           Fits(n) == n \in 0..Len(b) /\ Enough(n) /\ \A m \in 0..n - 1 : ~ Enough(m)
           n == CHOOSE k \in 0..Len(b) : Enough(k) /\ \A m \in 0..k - 1 : ~ Enough(m)
           r == WithoutOldest(q, n)
<1>1. /\ b \in Seq(Block) /\ q.flushed \in Nat /\ q.accounted \in Nat
      /\ q.length = Bytes(b, Len(b)) /\ Len(b) \in Nat /\ q.length \in Nat
  BY LengthIs DEF Right
<1>2. \E k \in 0..Len(b) : Enough(k) /\ \A m \in 0..k - 1 : ~ Enough(m)
  <2> DEFINE S == {k \in 0..Len(b) : Enough(k)}
  <2>1. S \in SUBSET Nat /\ S # {} /\ S \subseteq 0..Len(b)
    <3>1. Len(b) \in S
      BY <1>1
    <3> QED
      BY <3>1
  <2>2. \A k \in S : Enough(k)
    OBVIOUS
  <2>3. \A k \in 0..Len(b) : Enough(k) => k \in S
    OBVIOUS
  <2> HIDE DEF S, Enough
  <2>4. PICK k \in S : \A m \in S : k <= m
    BY <2>1, Least
  <2>5. ASSUME NEW m \in 0..k - 1 PROVE ~ Enough(m)
    <3>1. k \in 0..Len(b) /\ m \in 0..Len(b) /\ m < k
      BY <1>1, <2>1
    <3> QED
      BY <2>3, <2>4, <3>1
  <2> QED
    BY <2>1, <2>2, <2>4, <2>5
<1>3. n \in 0..Len(b) /\ Enough(n)
  <2> HIDE DEF Enough
  <2> QED
    BY <1>2
<1>4. ToDrop(q, to_flush) = n
  BY DEF ToDrop
<1> DEFINE l == q.length - Bytes(b, n)
           f == q.flushed + n
           rest == SubSeq(b, n + 1, Len(b))
<1>5. r = Queue(rest, l, f, q.accounted)
  BY DEF WithoutOldest
<1> HIDE DEF n, r, l, f, rest
<1>6. /\ r.blocks = rest /\ r.length = l /\ r.flushed = f /\ r.accounted = q.accounted
      /\ r = Queue(r.blocks, r.length, r.flushed, r.accounted)
  BY <1>5, QueueIs
<1>7. n \in Nat /\ Bytes(b, n) \in Nat
  <2>1. \A i \in 1..Len(b) : b[i].left \in Nat
    BY <1>1, BlocksLeft
  <2>2. PICK N \in Nat : N = Len(b)
    BY <1>1
  <2>3. \A m \in 0..N : Bytes(b, m) \in Nat
    BY <2>1, <2>2, BytesGrow
  <2> QED
    BY <1>1, <1>3, <2>2, <2>3
<1>8. Gone(q, r, n, 0)
  <2>1. r.blocks = Begun(SubSeq(b, n + 1, Len(b)), 0)
    BY <1>6 DEF Begun, rest
  <2>2. r.length = q.length - (Bytes(b, n) + 0)
    BY <1>1, <1>6, <1>7 DEF l
  <2>3. r.flushed \in Nat /\ r.accounted \in Nat /\ r.flushed + r.accounted = (q.flushed + q.accounted) + n
    BY <1>1, <1>6, <1>7 DEF f
  <2> QED
    BY <1>3, <2>1, <2>2, <2>3 DEF Gone
<1>9. Right(r, accepted)
  <2>1. PICK z \in Nat : z = 0
    OBVIOUS
  <2>2. Gone(q, r, n, z)
    BY <1>8, <2>1
  <2> QED
    BY <2>2, OldestGone
<1>10. r.length = 0 \/ r.length <= q.length - to_flush
  <2>1. r.length = q.length - Bytes(b, n)
    BY <1>6 DEF l
  <2>2. CASE n = Len(b)
    BY <1>1, <2>1, <2>2
  <2>3. CASE Bytes(b, n) >= to_flush
    BY <1>1, <1>7, <2>1, <2>3
  <2> QED
    BY <1>3, <2>2, <2>3
<1> QED
  BY <1>4, <1>6, <1>9, <1>10 DEF r

-----------------------------------------------------------------------------
(* Steps.                                                                  *)

OInv ==
    ~ closed => /\ accepted \in Nat
                /\ Right(Unpushed, accepted) /\ Limited(Unpushed) /\ Reported(Unpushed)

LEMMA BecomesIs ==
  ASSUME NEW q, q = Queue(q.blocks, q.length, q.flushed, q.accounted), Becomes(q)
  PROVE  Unpushed' = q
  BY DEF Becomes, Unpushed

LEMMA UnpushedIs == /\ Unpushed.length = output_length /\ Unpushed \in Pushed
                    /\ Unpushed = Queue(Unpushed.blocks, Unpushed.length, Unpushed.flushed,
                                        Unpushed.accounted)
  BY QueueIs DEF Unpushed, Pushed

LEMMA SendOK == OInv /\ Send => OInv'
<1> SUFFICES ASSUME OInv, Send PROVE OInv'
  OBVIOUS
<1>1. /\ ~ closed /\ accepted \in Nat
      /\ Right(Unpushed, accepted) /\ Limited(Unpushed) /\ Reported(Unpushed)
  BY DEF OInv, Send
<1>2. PICK length \in Length, flush_ok \in BOOLEAN : EnqueueOutput(length, flush_ok)
  BY DEF Send
<1>3. PICK q \in IF MustFlush(length) THEN Pushed ELSE {Unpushed} :
        LET to_flush == q.length + length - MAX_QUEUED_OUTPUT
            flush    == MustFlush(length) /\ to_flush > 0
        IN  IF flush /\ ~flush_ok THEN Becomes(q) /\ UNCHANGED accepted
            ELSE /\ Becomes(Added(IF flush THEN WithoutOldest(q, ToDrop(q, to_flush)) ELSE q, length))
                 /\ accepted' = accepted + 1
  BY <1>2 DEF EnqueueOutput
<1>4. length \in Nat /\ MAX_QUEUED_OUTPUT \in Nat
  BY OutputAssumption
<1>5. q \in Pushed
  BY <1>3, UnpushedIs
<1>6. /\ Right(q, accepted) /\ Limited(q) /\ Reported(q)
      /\ q = Queue(q.blocks, q.length, q.flushed, q.accounted)
  BY <1>1, <1>5, PushedOK
<1>7. q.length \in Nat
  BY <1>1, <1>6, LengthIs
<1> DEFINE to_flush == q.length + length - MAX_QUEUED_OUTPUT
           flush == MustFlush(length) /\ to_flush > 0
           base == IF flush THEN WithoutOldest(q, ToDrop(q, to_flush)) ELSE q
<1>8. CASE Becomes(q) /\ UNCHANGED accepted
  <2>1. Unpushed' = q
    BY <1>6, <1>8, BecomesIs
  <2> QED
    BY <1>1, <1>6, <1>8, <2>1 DEF OInv, Right, Limited, Reported
<1>9. CASE Becomes(Added(base, length)) /\ accepted' = accepted + 1
  <2>1. to_flush \in Int
    BY <1>4, <1>7
  <2>2. /\ Right(base, accepted)
        /\ base = Queue(base.blocks, base.length, base.flushed, base.accounted)
        /\ base.length = 0 \/ base.length + length <= MAX_QUEUED_OUTPUT
    <3>1. CASE flush
      <4> DEFINE r == WithoutOldest(q, ToDrop(q, to_flush))
      <4>1. base = r
        BY <3>1
      <4> HIDE DEF base, flush
      <4>2. /\ Right(r, accepted) /\ r = Queue(r.blocks, r.length, r.flushed, r.accounted)
            /\ r.length = 0 \/ r.length <= q.length - to_flush
        <5> HIDE DEF to_flush
        <5> QED
          BY <1>1, <1>6, <2>1, DroppedOK
      <4> HIDE DEF r
      <4>3. r.length \in Nat
        BY <1>1, <4>2, LengthIs
      <4>4. r.length = 0 \/ r.length + length <= MAX_QUEUED_OUTPUT
        BY <1>4, <1>7, <4>2, <4>3
      <4> QED
        BY <4>1, <4>2, <4>4
    <3>2. CASE ~ flush
      <4>1. base = q
        BY <3>2
      <4>2. q.length = 0 \/ q.length + length <= MAX_QUEUED_OUTPUT
        <5>1. CASE MustFlush(length)
          BY <1>4, <1>7, <3>2, <5>1
        <5>2. CASE ~ MustFlush(length)
          <6>1. q = Unpushed
            BY <1>3, <5>2
          <6>2. q.length = output_length
            BY <6>1, UnpushedIs
          <6> QED
            BY <1>4, <1>7, <5>2, <6>2 DEF MustFlush
        <5> QED
          BY <5>1, <5>2
      <4> QED
        BY <1>6, <4>1, <4>2
    <3> QED
      BY <3>1, <3>2
  <2> HIDE DEF base
  <2> DEFINE r == Added(base, length)
  <2>3. /\ Right(r, accepted + 1) /\ Limited(r) /\ Reported(r)
        /\ r = Queue(r.blocks, r.length, r.flushed, r.accounted)
    BY <1>1, <1>4, <2>2, AddedOK
  <2>5. Unpushed' = r
    <3> HIDE DEF r
    <3> QED
      BY <1>9, <2>3, BecomesIs DEF r
  <2> HIDE DEF r
  <2>6. Right(Unpushed', accepted') /\ Limited(Unpushed') /\ Reported(Unpushed')
    BY <1>9, <2>3, <2>5
  <2>7. accepted' \in Nat
    BY <1>1, <1>9
  <2> QED
    BY <2>6, <2>7 DEF OInv, Right, Limited, Reported
<1> QED
  BY <1>3, <1>8, <1>9

LEMMA PushOutputOK == OInv /\ PushOutput => OInv'
<1> SUFFICES ASSUME OInv, PushOutput PROVE OInv'
  OBVIOUS
<1>1. PICK q \in Pushed : Becomes(q)
  BY DEF PushOutput
<1>2. /\ accepted \in Nat /\ accepted' = accepted
      /\ Right(q, accepted) /\ Limited(q) /\ Reported(q)
      /\ q = Queue(q.blocks, q.length, q.flushed, q.accounted)
  BY PushedOK DEF OInv, PushOutput
<1>3. Unpushed' = q
  BY <1>1, <1>2, BecomesIs
<1> QED
  BY <1>2, <1>3 DEF OInv, Right, Limited, Reported

LEMMA NextOutputOK == OInv /\ [NextOutput]_outputVars => OInv'
<1> SUFFICES ASSUME OInv, [NextOutput]_outputVars PROVE OInv'
  OBVIOUS
<1>1. CASE UNCHANGED outputVars
  BY <1>1 DEF OInv, outputVars, Unpushed, Right, Limited, Reported
<1>2. CASE CloseOutput
  BY <1>2 DEF OInv, CloseOutput
<1> QED
  BY <1>1, <1>2, SendOK, PushOutputOK DEF NextOutput

LEMMA InitOutputOK == InitOutput => OInv
<1> SUFFICES ASSUME InitOutput PROVE OInv
  OBVIOUS
<1> DEFINE u == Unpushed
           b == u.blocks
<1>1. /\ b = <<>> /\ u.length = 0 /\ u.flushed = 0 /\ u.accounted = 0 /\ accepted = 0
  BY QueueIs DEF InitOutput, Unpushed
<1>2. b \in Seq(Block) /\ Len(b) = 0
  BY <1>1, EmptySeq
<1> HIDE DEF b
<1>3. Bytes(b, 0) = 0
  BY BytesIs
<1> HIDE DEF u
<1>4. Right(u, accepted)
  <2>1. \A i \in 1..Len(b) : b[i].line = accepted - Len(b) + i
    BY <1>2
  <2> QED
    <3>1. /\ u.flushed \in Nat /\ u.accounted \in Nat
          /\ u.accounted + u.flushed = accepted - Len(b)
      <4>1. u.flushed = 0 /\ u.accounted = 0 /\ accepted = 0
        BY <1>1
      <4>2. Len(b) = 0
        BY <1>2
      <4> QED
        BY <4>1, <4>2
    <3>2. u.length = Bytes(b, Len(b))
      BY <1>1, <1>2, <1>3
    <3> QED
      <4>1. \A i \in 1..Len(u.blocks) : u.blocks[i].line = accepted - Len(u.blocks) + i
        BY <2>1 DEF b
      <4>2. u.length = Bytes(u.blocks, Len(u.blocks))
        BY <3>2 DEF b
      <4>3. u.blocks \in Seq(Block) /\ u.accounted + u.flushed = accepted - Len(u.blocks)
        BY <1>2, <3>1 DEF b
      <4> QED
        BY <3>1, <4>1, <4>2, <4>3 DEF Right
<1>5. Limited(u) /\ Reported(u)
  BY <1>1, OutputAssumption DEF Limited, Reported
<1> QED
  BY <1>1, <1>4, <1>5 DEF OInv, u

\* Whatever part of the queue each write takes and however often the oldest
\* blocks are dropped, every line before those that wait has reached the client or
\* will be reported as lost, and the length that decides on losses is right.
THEOREM LinesAccounted == SpecOutput => []EveryLineAccounted
<1>1. OInv => EveryLineAccounted
  <2> SUFFICES ASSUME OInv, ~ closed PROVE EveryLineAccounted
    BY DEF EveryLineAccounted
  <2>1. /\ Unpushed.blocks = output /\ Unpushed.length = output_length
        /\ Unpushed.flushed = output_lines_flushed /\ Unpushed.accounted = accounted
    BY QueueIs DEF Unpushed
  <2>2. DOMAIN output = 1..Len(output)
    BY <2>1, LenProperties DEF OInv, Right
  <2> QED
    BY <2>1, <2>2 DEF OInv, Right, Limited, Reported, EveryLineAccounted
<1> QED
  BY <1>1, InitOutputOK, NextOutputOK, PTL DEF SpecOutput
=============================================================================
