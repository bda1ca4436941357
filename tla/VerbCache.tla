----------------------------- MODULE VerbCache ------------------------------
(***************************************************************************)
(* The verbs of the objects and the cache of callable verbs (db_verbs.c,   *)
(* compiled with VERB_CACHE).                                              *)
(*                                                                         *)
(* A lookup is remembered, found or not, under the name and the nearest    *)
(* ancestor that has verbs.  Whatever may change what a lookup finds has   *)
(* to empty the cache, and db_change_parent() skips that when it can.      *)
(*                                                                         *)
(* Locations are not read by a lookup: move() and the calls that wait are  *)
(* in ObjectTree only, and recycle() is here at the moment it destroys.    *)
(***************************************************************************)
EXTENDS ObjectTree, Sequences

CONSTANTS
    Name,    \* the names that are looked up
    VerbId   \* the addresses at which there may be a Verbdef

VARIABLES
    verbs,   \* o->verbdefs
    verb,    \* what is at each address
    vc_table

verbVars == <<verbs, verb, vc_table>>
allVars == <<vars, verbVars>>

\* Names are patterns: a verb answers to some names.  The flag is VF_EXEC.
Verbdef == [names : SUBSET Name, exec : BOOLEAN]
Handle(definer, v) == [definer |-> definer, verbdef |-> v]
NotFound == [definer |-> NOTHING, verbdef |-> "NULL"]
Key == OidOrNothing \X Name
\* The table has the keys that are in it; the hash buckets are left out.
Empty == [k \in {} |-> NotFound]

InitVerbs ==
    /\ Init
    /\ verbs = [o \in Oid |-> <<>>]
    /\ verb = [v \in VerbId |-> [names |-> {}, exec |-> FALSE]]
    /\ vc_table = Empty

Defined(o) == {verbs[o][i] : i \in DOMAIN verbs[o]}
Unused == VerbId \ UNION {Defined(o) : o \in Oid}

(***************************************************************************)
(* The lookup                                                              *)
(***************************************************************************)
\* The object of S that a walk from o through the parents meets first.
Nearest(o, S) ==
    LET met == Up(Parent, o) \cap S
    IN  IF met = {} THEN NOTHING ELSE CHOOSE x \in met : met \subseteq Up(Parent, x)
WithVerbs == {o \in valid : verbs[o] # <<>>}

Answers(v, name) == name \in verb[v].names /\ verb[v].exec
FindByName(o, name) ==
    verbs[o][CHOOSE i \in DOMAIN verbs[o] :
                /\ Answers(verbs[o][i], name)
                /\ \A j \in 1..i - 1 : ~Answers(verbs[o][j], name)]
Definers(name) == {o \in valid : \E v \in Defined(o) : Answers(v, name)}
Find(o, name) ==
    LET definer == Nearest(o, Definers(name))
    IN  IF definer = NOTHING THEN NotFound ELSE Handle(definer, FindByName(definer, name))

KeyOf(oid, name) == <<Nearest(oid, WithVerbs), name>>
FindCallable(oid, name) ==
    LET k == KeyOf(oid, name)
    IN  IF k \in DOMAIN vc_table THEN vc_table[k] ELSE Find(k[1], name)
Lookup(oid, name) ==
    /\ KeyOf(oid, name) \notin DOMAIN vc_table
    /\ vc_table' = [k \in DOMAIN vc_table \cup {KeyOf(oid, name)} |->
                       IF k \in DOMAIN vc_table THEN vc_table[k] ELSE Find(k[1], name)]
    /\ UNCHANGED <<vars, verbs, verb>>

Flush == vc_table' = Empty

(***************************************************************************)
(* Changes to verbs                                                        *)
(***************************************************************************)
AddVerb(oid, v, new) ==
    /\ oid \in valid /\ v \in Unused /\ new \in Verbdef
    /\ verbs' = [verbs EXCEPT ![oid] = Append(@, v)]
    /\ verb' = [verb EXCEPT ![v] = new]
    /\ Flush /\ UNCHANGED vars

DeleteVerb(oid, v) ==
    /\ v \in Defined(oid)
    /\ verbs' = [verbs EXCEPT ![oid] = SelectSeq(@, LAMBDA w : w # v)]
    /\ verb' = [verb EXCEPT ![v] = [names |-> {}, exec |-> FALSE]]
    /\ Flush /\ UNCHANGED vars

\* db_set_verb_names(), db_set_verb_flags()
SetVerb(v, new) ==
    /\ v \notin Unused /\ new \in Verbdef \ {verb[v]}
    /\ verb' = [verb EXCEPT ![v] = new]
    /\ Flush /\ UNCHANGED <<vars, verbs>>

\* Arguments do not matter to callable verbs, but the cache is emptied.
SetArgSpecs(v) == v \notin Unused /\ Flush /\ UNCHANGED <<vars, verbs, verb>>

(***************************************************************************)
(* Changes to the objects                                                  *)
(***************************************************************************)
ChparentFlushes_VerblessKids(oid) == verbs[oid] # <<>>
ChparentFlushes(oid) == obj[oid].children # {} \/ verbs[oid] # <<>>
ChparentVerbs(oid, parent) ==
    /\ Chparent(oid, parent)
    /\ IF ChparentFlushes(oid) THEN Flush ELSE UNCHANGED vc_table
    /\ UNCHANGED <<verbs, verb>>

\* The new object has neither children nor verbs when it gets its parent.
CreateVerbs(parent) == Create(parent) /\ UNCHANGED verbVars
CreateYoungVerbs(parent) == CreateYoung(parent) /\ Flush /\ UNCHANGED <<verbs, verb>>

\* The verbs go with the object.
MoveVerbs(old, new) == verbs' = [verbs EXCEPT ![new] = verbs[old], ![old] = <<>>]
RenumberVerbs(old) ==
    /\ Renumber(old) /\ MoveVerbs(old, Lowest(valid, old)) /\ Flush /\ UNCHANGED verb
SetObjectNumberVerbs(old, new) ==
    /\ SetObjectNumber(old, new) /\ MoveVerbs(old, new) /\ Flush /\ UNCHANGED verb

RecycleVerbs(oid) ==
    /\ Recycle(oid)
    /\ verbs' = [verbs EXCEPT ![oid] = <<>>]
    /\ verb' = [v \in VerbId |-> IF v \in Defined(oid) THEN [names |-> {}, exec |-> FALSE]
                                 ELSE verb[v]]
    /\ Flush

NextVerbs ==
    \/ \E parent \in OidOrNothing : CreateVerbs(parent) \/ CreateYoungVerbs(parent)
    \/ ResetMaxObject /\ UNCHANGED verbVars
    \/ \E oid \in Oid :
          \/ RenumberVerbs(oid) \/ RecycleVerbs(oid)
          \/ \E new \in Oid : SetObjectNumberVerbs(oid, new)
          \/ \E parent \in OidOrNothing : ChparentVerbs(oid, parent)
          \/ \E v \in VerbId : DeleteVerb(oid, v)
          \/ \E v \in VerbId, new \in Verbdef : AddVerb(oid, v, new)
    \/ \E v \in VerbId : SetArgSpecs(v) \/ \E new \in Verbdef : SetVerb(v, new)
    \/ \E oid \in OidOrNothing, name \in Name : Lookup(oid, name)

SpecVerbs == InitVerbs /\ [][NextVerbs]_allVars

(***************************************************************************)
(* Properties                                                              *)
(***************************************************************************)
\* Whatever objects and verbs have been through since the cache was filled,
\* a lookup finds what a walk through the parents finds: the first executable
\* verb of that name on the nearest object that has one, or nothing.
LookupRight ==
    \A oid \in OidOrNothing, name \in Name : FindCallable(oid, name) = Find(oid, name)
=============================================================================
