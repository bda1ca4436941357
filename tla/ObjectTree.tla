----------------------------- MODULE ObjectTree -----------------------------
(***************************************************************************)
(* The objects of the database and their two hierarchies (db_objects.c),   *)
(* and the built-in functions that change them (objects.c, server.c).      *)
(*                                                                         *)
(* move() and recycle() run MOO code in the middle: :accept, :recycle and  *)
(* :exitfunc verbs, which may call any built-in and may suspend, so that   *)
(* other tasks run too.  A call that waits for such a verb is in "calls",  *)
(* and anything may happen before it goes on.                              *)
(***************************************************************************)
EXTENDS Integers

CONSTANTS
    MaxOid,  \* bound on object numbers
    Calls,   \* places for calls that wait for a verb
    Hooks    \* the verbs that some objects define

ASSUME MaxOidAssumption == MaxOid \in Nat

VARIABLES
    valid,      \* the numbers of the objects there are
    num,        \* num_objects
    obj,        \* the objects; unused numbers have a fresh one
    all_users,
    calls       \* the calls that wait

vars == <<valid, num, obj, all_users, calls>>

NOTHING == -1
Oid == 0..MaxOid
OidOrNothing == Oid \cup {NOTHING}
ValidOrNothing == valid \cup {NOTHING}

\* The lists of children and of contents, as sets.
Object == [parent : OidOrNothing, children : SUBSET Oid,
           location : OidOrNothing, contents : SUBSET Oid, user : BOOLEAN]
Fresh == [parent |-> NOTHING, children |-> {}, location |-> NOTHING, contents |-> {},
          user |-> FALSE]

Idle == [fn |-> "none", what |-> NOTHING, where |-> NOTHING]
MoveFrame(what, where) == [fn |-> "move", what |-> what, where |-> where]
RecycleFrame(oid) == [fn |-> "recycle", what |-> oid, where |-> NOTHING]

Init ==
    /\ valid = {0} /\ num = 1
    /\ obj = [o \in Oid |-> Fresh]
    /\ all_users = {} /\ calls = [c \in Calls |-> Idle]

\* What a walk from o to o's parent, or location, and on, meets.
Parent == [o \in Oid |-> obj[o].parent]
Location == [o \in Oid |-> obj[o].location]
ClosedUp(link, S) == \A y \in S : link[y] # NOTHING => link[y] \in S
Up(link, o) ==
    {x \in Oid : o # NOTHING /\ \A S \in SUBSET Oid : o \in S /\ ClosedUp(link, S) => x \in S}

(***************************************************************************)
(* db_objects.c, as functions of the objects                               *)
(***************************************************************************)
ChangeParent(f, oid, parent) ==
    [x \in Oid |->
        [f[x] EXCEPT !.parent = IF x = oid THEN parent ELSE @,
                     !.children = IF x = parent THEN @ \cup {oid}
                                  ELSE IF x = f[oid].parent THEN @ \ {oid} ELSE @]]

ChangeLocation(f, oid, location) ==
    [x \in Oid |->
        [f[x] EXCEPT !.location = IF x = oid THEN location ELSE @,
                     !.contents = IF x = location THEN @ \cup {oid}
                                  ELSE IF x = f[oid].location THEN @ \ {oid} ELSE @]]

\* db_renumber_object(), db_set_object_number(): the object moves, and what its
\* own links lead to is told.
Replace(S, old, new) == (S \ {old}) \cup {new}
Renamed_NotContents(f, old, new, o) ==
    [x \in Oid |->
        [f[x] EXCEPT
            !.parent = IF x \in o.children THEN new ELSE @,
            !.children = IF x = o.parent THEN Replace(@, old, new) ELSE @,
            !.contents = IF x = o.location THEN Replace(@, old, new) ELSE @]]
Renamed(f, old, new, o) ==
    [x \in Oid |->
        [f[x] EXCEPT
            !.parent = IF x \in o.children THEN new ELSE @,
            !.children = IF x = o.parent THEN Replace(@, old, new) ELSE @,
            !.location = IF x \in o.contents THEN new ELSE @,
            !.contents = IF x = o.location THEN Replace(@, old, new) ELSE @]]
ChangeNumber_KeepOld(f, old, new) == Renamed([f EXCEPT ![new] = f[old]], old, new, f[old])
ChangeNumber(f, old, new) ==
    Renamed([f EXCEPT ![new] = f[old], ![old] = Fresh], old, new, f[old])

\* The least unused number below old, if there is one.
Lowest(used, old) ==
    CHOOSE n \in 0..old : /\ n = old \/ n \notin used
                          /\ \A m \in 0..n - 1 : m \in used
\* db_reset_last_used_objid()
ResetLastUsed(used) == 1 + CHOOSE n \in used : \A m \in used : m <= n

(***************************************************************************)
(* The built-in functions                                                  *)
(***************************************************************************)
Create(parent) ==
    /\ num <= MaxOid /\ parent \in ValidOrNothing
    /\ num' = num + 1 /\ valid' = valid \cup {num}
    /\ obj' = ChangeParent(obj, num, parent)
    /\ UNCHANGED <<all_users, calls>>

CreateYoung(parent) ==
    /\ num <= MaxOid /\ parent \in ValidOrNothing
    /\ LET oid == Lowest(valid, num)
       IN  valid' = valid \cup {oid} /\ obj' = ChangeParent(obj, oid, parent)
    /\ num' = ResetLastUsed(valid')
    /\ UNCHANGED <<all_users, calls>>

\* chparent() may also refuse, for properties in conflict.
Chparent(what, parent) ==
    /\ what \in valid /\ parent \in ValidOrNothing
    /\ what \notin Up(Parent, parent)
    /\ obj' = ChangeParent(obj, what, parent)
    /\ UNCHANGED <<valid, num, all_users, calls>>

SetNumber(old, new) ==
    /\ obj' = ChangeNumber(obj, old, new)
    /\ valid' = Replace(valid, old, new)
    /\ all_users' = IF obj[old].user /\ old \in all_users
                    THEN Replace(all_users, old, new) ELSE all_users
    /\ UNCHANGED calls

Renumber(old) ==
    /\ old \in valid /\ Lowest(valid, old) # old
    /\ SetNumber(old, Lowest(valid, old)) /\ UNCHANGED num

\* objects[new] may be read before the array is that long; what is found there
\* decides, and otherwise nothing is done.
SetObjectNumber_NoGrowth(old, new) ==
    old \in valid /\ new \in Oid \ valid /\ SetNumber(old, new) /\ UNCHANGED num
SetObjectNumber(old, new) ==
    /\ old \in valid /\ new \in Oid \ valid
    /\ SetNumber(old, new)
    /\ num' = IF new >= num THEN new + 1 ELSE num

\* Only a wizard may, so there is an object.
ResetMaxObject ==
    /\ valid # {}
    /\ num' = ResetLastUsed(valid) /\ num' # num
    /\ UNCHANGED <<valid, obj, all_users, calls>>

SetPlayerFlag(oid, yes) ==
    /\ oid \in valid /\ obj[oid].user # yes
    /\ obj' = [obj EXCEPT ![oid].user = yes]
    /\ all_users' = IF yes THEN all_users \cup {oid} ELSE all_users \ {oid}
    /\ UNCHANGED <<valid, num, calls>>

(***************************************************************************)
(* move()                                                                  *)
(***************************************************************************)
MayMove(what, where) ==
    /\ what \in valid /\ where \in ValidOrNothing /\ obj[what].location # where
    /\ what \notin Up(Location, where)

\* There is no :accept verb to ask, or no place to ask for one.
Move(what, where) ==
    /\ MayMove(what, where)
    /\ obj' = ChangeLocation(obj, what, where)
    /\ UNCHANGED <<valid, num, all_users, calls>>

AskAccept(c, what, where) ==
    /\ calls[c] = Idle /\ "accept" \in Hooks
    /\ what \in valid /\ where \in valid
    /\ calls' = [calls EXCEPT ![c] = MoveFrame(what, where)]
    /\ UNCHANGED <<valid, num, obj, all_users>>

Returns(c, fn) == calls[c].fn = fn /\ calls' = [calls EXCEPT ![c] = Idle]

\* All is checked again when :accept returns.
Accepted_Unchecked(c) ==
    /\ Returns(c, "move")
    /\ LET what == calls[c].what
           where == calls[c].where
       IN  /\ what \in valid /\ where \in valid
           /\ obj' = ChangeLocation(obj, what, where)
    /\ UNCHANGED <<valid, num, all_users>>
Accepted(c) ==
    /\ Returns(c, "move")
    /\ LET what == calls[c].what
           where == calls[c].where
       IN  MayMove(what, where) /\ obj' = ChangeLocation(obj, what, where)
    /\ UNCHANGED <<valid, num, all_users>>

(***************************************************************************)
(* recycle()                                                               *)
(***************************************************************************)
AskRecycle(c, oid) ==
    /\ calls[c] = Idle /\ "recycle" \in Hooks
    /\ oid \in valid \ {0}
    /\ calls' = [calls EXCEPT ![c] = RecycleFrame(oid)]
    /\ UNCHANGED <<valid, num, obj, all_users>>

\* The contents and the object are moved to nowhere.
Emptied(f, oid) ==
    [x \in Oid |->
        [f[x] EXCEPT !.location = IF x \in f[oid].contents \cup {oid} THEN NOTHING ELSE @,
                     !.contents = IF x = oid THEN {} ELSE @ \ {oid}]]
\* An :exitfunc has to be waited for: the object's own, which is called for the
\* first of its contents, or that of its location, once the contents are out.
RecycleWaits(c, oid) ==
    /\ calls[c] = RecycleFrame(oid) \/ (calls[c] = Idle /\ oid # 0)
    /\ oid \in valid /\ "exitfunc" \in Hooks
    /\ \/ \E x \in obj[oid].contents : obj' = ChangeLocation(obj, x, NOTHING)
       \/ obj[oid].location # NOTHING /\ obj' = Emptied(obj, oid)
    /\ calls' = [calls EXCEPT ![c] = RecycleFrame(oid)]
    /\ UNCHANGED <<valid, num, all_users>>

\* The children go to the object's parent.
Orphaned(f, oid) ==
    LET up == f[oid].parent
    IN  [x \in Oid |->
            [f[x] EXCEPT !.parent = IF x \in f[oid].children THEN up
                                    ELSE IF x = oid THEN NOTHING ELSE @,
                         !.children = IF x = up THEN (@ \cup f[oid].children) \ {oid}
                                      ELSE IF x = oid THEN {} ELSE @]]
Destroy_KeepUser(oid) ==
    /\ obj' = [Orphaned(Emptied(obj, oid), oid) EXCEPT ![oid] = Fresh]
    /\ valid' = valid \ {oid}
    /\ UNCHANGED <<num, all_users>>
Destroy(oid) ==
    /\ obj' = [Orphaned(Emptied(obj, oid), oid) EXCEPT ![oid] = Fresh]
    /\ valid' = valid \ {oid}
    /\ all_users' = IF obj[oid].user THEN all_users \ {oid} ELSE all_users
    /\ UNCHANGED num

Recycle(oid) == oid \in valid \ {0} /\ Destroy(oid) /\ UNCHANGED calls
FinishRecycle(c) ==
    Returns(c, "recycle") /\ calls[c].what \in valid /\ Destroy(calls[c].what)

\* The verb refuses, raises an error or is killed, or what it returns to is no
\* longer to be done.
Dropped(c) ==
    /\ calls[c] # Idle /\ calls' = [calls EXCEPT ![c] = Idle]
    /\ UNCHANGED <<valid, num, obj, all_users>>

(***************************************************************************)
(* Everything                                                              *)
(***************************************************************************)
Next ==
    \/ ResetMaxObject
    \/ \E parent \in OidOrNothing : Create(parent) \/ CreateYoung(parent)
    \/ \E oid \in Oid :
          \/ Renumber(oid) \/ Recycle(oid)
          \/ \E yes \in BOOLEAN : SetPlayerFlag(oid, yes)
          \/ \E new \in Oid : SetObjectNumber(oid, new)
          \/ \E to \in OidOrNothing : Chparent(oid, to) \/ Move(oid, to)
    \/ \E c \in Calls :
          \/ Accepted(c) \/ FinishRecycle(c) \/ Dropped(c)
          \/ \E oid \in Oid :
                \/ AskRecycle(c, oid) \/ RecycleWaits(c, oid)
                \/ \E where \in Oid : AskAccept(c, oid, where)

Spec == Init /\ [][Next]_vars

(***************************************************************************)
(* Properties                                                              *)
(***************************************************************************)
\* Every variable has its type, and a number without an object has no links.
TypeOK ==
    /\ valid \subseteq Oid /\ num \in 0..MaxOid + 1 /\ all_users \subseteq Oid
    /\ obj \in [Oid -> Object]
    /\ calls \in [Calls -> [fn : {"none", "move", "recycle"},
                            what : OidOrNothing, where : OidOrNothing]]
    /\ \A o \in Oid \ valid : obj[o] = Fresh

\* Both ends of each link agree: an object is in the children of its parent and
\* in the contents of its location, and in no other object's, and no link leads
\* to an object that is gone, whatever was recycled or renumbered meanwhile.
LinksAgree ==
    \A o \in valid :
        /\ obj[o].parent \in ValidOrNothing /\ obj[o].location \in ValidOrNothing
        /\ obj[o].children = {x \in valid : obj[x].parent = o}
        /\ obj[o].contents = {x \in valid : obj[x].location = o}

\* No object comes to be its own ancestor or to contain itself, though other
\* tasks move, renumber and recycle objects while move() waits for :accept.
Forest == \A o \in valid : o \notin Up(Parent, Parent[o]) \cup Up(Location, Location[o])

\* players() lists the player objects there are, by the numbers they have now.
UsersExact == all_users = {o \in valid : obj[o].user}

\* No object has a number that create() has yet to give out.
NoneBeyondLast == \A o \in valid : o < num
=============================================================================
