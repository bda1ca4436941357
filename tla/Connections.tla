---------------------------- MODULE Connections ----------------------------
(***************************************************************************)
(* The connections of the server: the shandles of server.c and the         *)
(* nhandles of net_multi.c, each module holding a pointer to the other's.  *)
(* Both go through their lists while verbs run that can change them, and   *)
(* both go by the promises of server.h and network.h about who may use     *)
(* which handle when.  The verbs that the server calls tell the MOO code   *)
(* who is connected; checkpoints, crashes and restarts are in it because   *)
(* that code's records go into the dump.                                   *)
(***************************************************************************)
EXTENDS SequencesExt

CONSTANTS Conn,       \* addresses: a shandle and its nhandle have one name
          Player,     \* objects that are players; a connection nobody logged
                      \* in on has a negative number, here its own address
          Listener,   \* objects that listen
          SYSTEM_OBJECT,
          Hooks,      \* the notifier verbs that the database has
          KeepSeconds, \* the server option keep_unconnected_seconds
          MaxCalls,   \* a bound: calls of the built-ins but boot_player()
          Null

(* Players' numbers are not negative.                                      *)
ASSUME AddressAssumption == Conn \cap Player = {} /\ Null \notin Conn \cup Player

VARIABLES
    sh,          \* what is in each shandle
    shandles,    \* all_shandles
    nhandles,    \* all_nhandles
    pc,          \* where main_loop() is
    at,          \* the variable h of the loop over either list
    running,     \* the verb being run and what the C stack under it holds
    valid,       \* the players not recycled
    told,        \* the MOO code's records: <<player, listener>>
    disk,        \* what a restart makes of the last dump
    fault,       \* something undefined happened, and what
    careless,    \* reconnect_player() was called where it must not be
    unannounced, \* players reconnect_player() told nobody about
    calls        \* calls of built-ins made so far

vars == <<sh, shandles, nhandles, pc, at, running, valid, told, disk, fault, careless, unannounced,
          calls>>

(* A verb is a task's or a notifier after which nothing more is to do, or  *)
(* one of "server_close", "reap", "login" and "redirect", whose caller     *)
(* goes on with c and, when it went through a list, with the next one; a   *)
(* redirection goes on with the player that c was given.                   *)
Run(kind, c, next) == [kind |-> kind, c |-> c, next |-> next]
NoRun == Run("none", Null, Null)
Verb == Run("verb", Null, Null)

Open == Range(shandles)
Owner(c) == sh[c].player

(* find_shandle(): the first of the list                                   *)
FindShandle_NotBooted(p) ==
    LET i == SelectInSeq(shandles, LAMBDA c : Owner(c) = p /\ ~sh[c].bye)
    IN  IF i = 0 THEN Null ELSE shandles[i]
FindShandle(p) ==
    LET i == SelectInSeq(shandles, LAMBDA c : Owner(c) = p)
    IN  IF i = 0 THEN Null ELSE shandles[i]

Place(list, c) == SelectInSeq(list, LAMBDA d : d = c)
After(list, c) == IF Place(list, c) = Len(list) THEN Null ELSE list[Place(list, c) + 1]
From(list, c) == IF c = Null THEN {} ELSE {list[i] : i \in Place(list, c) .. Len(list)}
First(list) == IF list = <<>> THEN Null ELSE Head(list)

(* A connection when it is made; also what stands for freed memory.        *)
Fresh(c) == [player |-> c, listener |-> SYSTEM_OBJECT, in |-> FALSE, bye |-> FALSE, outbound |-> FALSE]

(* The connection c, if there is one, is closed and freed.                 *)
Without(s, c) == IF c = Null THEN s ELSE [s EXCEPT ![c] = Fresh(c)]

Init ==
    /\ sh = [c \in Conn |-> Fresh(c)]
    /\ shandles = <<>> /\ nhandles = <<>>
    /\ pc = "top" /\ at = Null /\ running = NoRun
    /\ valid = Player /\ told = {} /\ disk = [told |-> {}, valid |-> Player]
    /\ fault = "none" /\ careless = FALSE /\ unannounced = {} /\ calls = 0

(***************************************************************************)
(* What a notifier verb is expected to do, if the database has it.         *)
(***************************************************************************)
Arrived(who, p, l, verb) == IF verb \in Hooks THEN who \cup {<<p, l>>} ELSE who
Left(who, p, l, verb) == IF verb \in Hooks THEN who \ {<<p, l>>} ELSE who

(* What the functions further up the C stack go on to use.                 *)
Held == {running.c, running.next} \cap Conn
Undefined(what) ==
    /\ fault' = what
    /\ UNCHANGED <<sh, shandles, nhandles, at, running, told>>

(***************************************************************************)
(* New connections: server_new_connection() and new_nhandle() put them in  *)
(* front.                                                                  *)
(***************************************************************************)
NewConnection(l, outbound) ==
    \E c \in Conn \ (Open \cup Range(nhandles) \cup Held) :
        /\ sh' = [sh EXCEPT ![c].outbound = outbound,
                            ![c].listener = IF outbound THEN SYSTEM_OBJECT ELSE l]
        /\ shandles' = <<c>> \o shandles /\ nhandles' = <<c>> \o nhandles

Accept ==
    /\ pc = "top" /\ \E l \in Listener : NewConnection(l, FALSE)
    /\ UNCHANGED <<pc, at, running, valid, told, disk, fault, careless, unannounced, calls>>

(***************************************************************************)
(* player_connected(): c, whose player is old, becomes the connection of   *)
(* new, and the one that new had is closed.  The second notifier reads c's *)
(* listener when the first is over.  The listener of the connection just   *)
(* freed is read too, with nothing in between that writes to its memory.   *)
(***************************************************************************)
Connected(c, new) == [sh EXCEPT ![c].player = new, ![c].in = TRUE]
FirstLogin(c, new) ==
    /\ sh' = Connected(c, new)
    /\ UNCHANGED <<shandles, nhandles, at, fault>>
    /\ IF Owner(c) \in valid THEN told' = told /\ running' = NoRun
       ELSE told' = Arrived(told, new, sh[c].listener, "user_connected") /\ running' = Verb
Redirect_KeepNetwork(c, new, old) ==
    /\ sh' = Without(Connected(c, new), old)
    /\ shandles' = RemoveFirst(shandles, old) /\ UNCHANGED nhandles
    /\ IF sh[old].listener = sh[c].listener
       THEN told' = Arrived(told, new, sh[c].listener, "user_reconnected") /\ running' = Verb
       ELSE /\ told' = Left(told, new, sh[old].listener, "user_client_disconnected")
            /\ running' = Run("redirect", c, new)
    /\ UNCHANGED <<at, fault>>
Redirect_SameListener(c, new, old) ==
    /\ sh' = Without(Connected(c, new), old)
    /\ shandles' = RemoveFirst(shandles, old) /\ nhandles' = RemoveFirst(nhandles, old)
    /\ told' = Arrived(told, new, sh[c].listener, "user_reconnected") /\ running' = Verb
    /\ UNCHANGED <<at, fault>>
Redirect(c, new, old) ==
    /\ sh' = Without(Connected(c, new), old)
    /\ shandles' = RemoveFirst(shandles, old) /\ nhandles' = RemoveFirst(nhandles, old)
    /\ IF sh[old].listener = sh[c].listener
       THEN told' = Arrived(told, new, sh[c].listener, "user_reconnected") /\ running' = Verb
       ELSE /\ told' = Left(told, new, sh[old].listener, "user_client_disconnected")
            /\ running' = Run("redirect", c, new)
    /\ UNCHANGED <<at, fault>>
PlayerConnected(c, new) ==
    LET existing == FindShandle(new)
    IN  \/ existing = Null /\ ~KeepSeconds /\ FirstLogin(c, new)
        \/ existing = Null /\ KeepSeconds /\ Undefined("null")
        \/ existing = c /\ Undefined("freed")
        \/ existing \notin {Null, c} /\ Redirect(c, new, existing)

(***************************************************************************)
(* What verbs do.  They run in a task, or as a notifier.                   *)
(***************************************************************************)
MooRuns == running # NoRun /\ fault = "none"
MooCalls == MooRuns /\ calls < MaxCalls /\ calls' = calls + 1

BootPlayer ==
    /\ MooRuns /\ \E c \in Open : ~sh[c].bye /\ sh' = [sh EXCEPT ![c].bye = TRUE]
    /\ UNCHANGED <<shandles, nhandles, pc, at, running, valid, told, disk, fault, careless,
                   unannounced, calls>>

(* recycle() of a player's object.  No player is made here, so its number is *)
(* not given to another.                                                     *)
RecyclePlayer ==
    /\ MooCalls /\ \E p \in valid : valid' = valid \ {p} /\ told' = {r \in told : r[1] # p}
    /\ UNCHANGED <<sh, shandles, nhandles, pc, at, running, disk, fault, careless, unannounced>>

OpenNetworkConnection ==
    /\ MooCalls /\ NewConnection(SYSTEM_OBJECT, TRUE)
    /\ UNCHANGED <<pc, at, running, valid, told, disk, fault, careless, unannounced>>

(* reconnect_player().  A notifier it calls is run by the interpreter that *)
(* is running the caller, whose activations are overwritten: the caller    *)
(* cannot go on.                                                           *)
Notified(c, existing) ==
    IF existing = Null THEN (IF Owner(c) \in valid THEN {} ELSE {"user_connected"})
    ELSE IF sh[existing].listener = sh[c].listener THEN {"user_reconnected"}
    ELSE {"user_client_disconnected", "user_connected"}
Misused(c, existing) ==
    \/ existing \in Held
    \/ c = running.c /\ running.kind \in {"server_close", "reap", "login"}
    \/ Notified(c, existing) \cap Hooks # {}
ReconnectPlayer ==
    /\ MooCalls
    /\ \E c \in Open, new \in valid :
        LET existing == FindShandle(new)
        IN  /\ existing # c
            /\ careless' = (careless \/ Misused(c, existing))
            /\ unannounced' = IF Owner(c) \in valid THEN unannounced \cup {Owner(c), new}
                              ELSE unannounced
            /\ IF Notified(c, existing) \cap Hooks # {} THEN Undefined("replaced")
               ELSE IF existing = Null /\ KeepSeconds THEN Undefined("null")
               ELSE /\ sh' = Without(Connected(c, new), existing)
                    /\ shandles' = RemoveFirst(shandles, existing)
                    /\ nhandles' = RemoveFirst(nhandles, existing)
                    /\ UNCHANGED <<at, running, told, fault>>
    /\ UNCHANGED <<pc, valid, disk>>

(***************************************************************************)
(* The verb is over, and the C function that called it goes on.            *)
(***************************************************************************)
Ends(kind) == MooRuns /\ running.kind = kind
Freed(c) == c \notin Open \/ c \notin Range(nhandles)
Close(c) ==
    /\ shandles' = RemoveFirst(shandles, c) /\ nhandles' = RemoveFirst(nhandles, c)
    /\ sh' = Without(sh, c)
    /\ at' = running.next /\ running' = NoRun
    /\ UNCHANGED <<told, fault>>
Still == UNCHANGED <<pc, valid, disk, careless, unannounced, calls>>

VerbEnds == Ends("verb") /\ running' = NoRun
            /\ UNCHANGED <<sh, shandles, nhandles, at, told, fault>> /\ Still

(* server_close(), then network_process_io(), which goes on with hnext     *)
ServerCloseEnds ==
    /\ Ends("server_close")
    /\ IF Freed(running.c) \/ (running.next # Null /\ running.next \notin Range(nhandles))
       THEN Undefined("freed") ELSE Close(running.c)
    /\ Still

(* main_loop(), which goes on with nexth                                   *)
ReapEnds ==
    /\ Ends("reap")
    /\ IF Freed(running.c) \/ (running.next # Null /\ running.next \notin Open)
       THEN Undefined("freed") ELSE Close(running.c)
    /\ Still

RedirectEnds ==
    /\ Ends("redirect")
    /\ IF running.c \notin Open THEN Undefined("freed")
       ELSE /\ told' = Arrived(told, running.next, sh[running.c].listener, "user_connected")
            /\ running' = Verb
            /\ UNCHANGED <<sh, shandles, nhandles, at, fault>>
    /\ Still

(* do_login_task(): the verb returned a player or not                      *)
LoginEnds ==
    /\ Ends("login")
    /\ \/ running.c \in Open /\ \E new \in valid : PlayerConnected(running.c, new)
       \/ running' = NoRun /\ UNCHANGED <<sh, shandles, nhandles, at, told, fault>>
    /\ Still

(***************************************************************************)
(* main_loop()                                                             *)
(***************************************************************************)
Calm == running = NoRun /\ fault = "none"
Waits == UNCHANGED <<sh, shandles, nhandles, running, valid, told, disk, fault, careless, unannounced,
                     calls>>

(* The dump has the records of the database and write_active_connections();*)
(* kept of it here is what the first thing main_loop() does will make of   *)
(* the records, telling of the end of each connection it finds in the dump.*)
Remaining(who, active) == IF "user_disconnected" \in Hooks THEN who \ active ELSE who
Checkpoint ==
    /\ Calm /\ pc = "top"
    /\ disk' = [told |-> Remaining(told, {<<Owner(c), sh[c].listener>> : c \in Open}), valid |-> valid]
    /\ UNCHANGED <<sh, shandles, nhandles, pc, at, running, valid, told, fault, careless, unannounced, calls>>

BeginIo == Calm /\ pc = "top" /\ pc' = "io" /\ at' = First(nhandles) /\ Waits

(* pull_input() or push_output() fails for c.                              *)
Broken ==
    /\ Calm /\ pc = "io"
    /\ \E c \in From(nhandles, at) :
        IF c \notin Open THEN Undefined("freed")
        ELSE /\ sh' = [sh EXCEPT ![c].bye = TRUE]
             /\ told' = Left(told, Owner(c), sh[c].listener, "user_client_disconnected")
             /\ running' = Run("server_close", c, After(nhandles, c))
             /\ UNCHANGED <<shandles, nhandles, at, fault>>
    /\ Still

EndIo == Calm /\ pc = "io" /\ pc' = "tasks" /\ at' = Null /\ Waits

(* run_ready_tasks(): at most one task                                     *)
RunTask ==
    /\ Calm /\ pc = "tasks" /\ pc' = "ran"
    /\ \/ running' = Verb
       \/ \E c \in Open : Owner(c) = c /\ running' = Run("login", c, Null)
    /\ UNCHANGED <<sh, shandles, nhandles, at, valid, told, disk, fault, careless, unannounced, calls>>

BeginReap ==
    /\ Calm /\ pc \in {"tasks", "ran"} /\ pc' = "reap" /\ at' = First(shandles) /\ Waits

(* The loop over all_shandles comes to c.  A connection may be timed out;  *)
(* if not, its player may be gone; if not, it may be booted.               *)
Recycled(c) == sh[c].in /\ Owner(c) \notin valid
Spared(c) == ~Recycled(c) /\ ~sh[c].bye
ComesTo(c) ==
    /\ Calm /\ pc = "reap" /\ c \in From(shandles, at)
    /\ \A d \in From(shandles, at) \ From(shandles, c) : Spared(d)
Reap ==
    /\ \E c \in Conn :
        /\ ComesTo(c)
        /\ \/ ~sh[c].outbound /\ ~sh[c].in
           \/ ~Recycled(c) /\ sh[c].bye
        /\ told' = Left(told, Owner(c), sh[c].listener, "user_disconnected")
        /\ running' = Run("reap", c, After(shandles, c))
    /\ UNCHANGED <<sh, shandles, nhandles, at, fault>> /\ Still
ReapRecycled ==
    /\ \E c \in Conn :
        /\ ComesTo(c) /\ Recycled(c)
        /\ shandles' = RemoveFirst(shandles, c) /\ nhandles' = RemoveFirst(nhandles, c)
        /\ sh' = Without(sh, c)
        /\ at' = After(shandles, c)
    /\ UNCHANGED <<pc, running, valid, told, disk, fault, careless, unannounced, calls>>
EndReap ==
    /\ Calm /\ pc = "reap" /\ \A c \in From(shandles, at) : Spared(c)
    /\ pc' = "top" /\ at' = Null /\ Waits

(* The server dies, at any point, and starts again from the last dump.     *)
CrashRestart ==
    /\ shandles' = <<>> /\ nhandles' = <<>> /\ pc' = "top" /\ at' = Null /\ running' = NoRun
    /\ valid' = disk.valid
    /\ told' = disk.told
    /\ fault' = "none" /\ sh' = [c \in Conn |-> Fresh(c)]
    /\ UNCHANGED <<disk, careless, unannounced, calls>>

Next ==
    \/ Accept \/ BootPlayer \/ RecyclePlayer \/ OpenNetworkConnection \/ ReconnectPlayer
    \/ VerbEnds \/ ServerCloseEnds \/ ReapEnds \/ RedirectEnds \/ LoginEnds
    \/ Checkpoint \/ BeginIo \/ Broken \/ EndIo \/ RunTask
    \/ BeginReap \/ Reap \/ ReapRecycled \/ EndReap \/ CrashRestart

Spec == Init /\ [][Next]_vars

(***************************************************************************)
(* Properties                                                              *)
(***************************************************************************)
(* server.h and network.h promise each other that neither uses a handle    *)
(* the other has given up.  Nothing that was freed is used, and no verb    *)
(* runs in the place of its caller, unless a verb misuses                  *)
(* reconnect_player(): takes away a connection that the server is in the   *)
(* middle of closing, logging in or coming to next, or makes a call that   *)
(* has to be announced.                                                    *)
NothingUndefined == ~careless => fault = "none"

(* No two connections are ever of the same player.                         *)
OnePerPlayer == \A c, d \in Open : Owner(c) = Owner(d) => c = d

(* Between verbs, the MOO code's records of who is connected, and through  *)
(* which listener, are right, after a crash and a restart too, except for  *)
(* players whom reconnect_player() made come or go.                        *)
ToldOfConnections ==
    Calm /\ ~careless =>
        \A p \in valid \ unannounced :
            {r \in told : r[1] = p}
                = {<<p, sh[c].listener>> : c \in {c \in Open : sh[c].in /\ Owner(c) = p}}
=============================================================================
