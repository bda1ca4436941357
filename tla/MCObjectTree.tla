---------------------------- MODULE MCObjectTree ----------------------------
(***************************************************************************)
(* Instances of ObjectTree and of Waifs, side by side: a behaviour is one  *)
(* of the two hierarchies, with calls that wait for verbs, or one of waifs *)
(* and their classes, in which only parents matter.  Calls are             *)
(* interchangeable, and so are names.                                      *)
(***************************************************************************)
EXTENDS Waifs

CONSTANTS
    MaxClass,  \* the last number of a class of waifs
    MaxDefs,   \* the properties that classes define
    MaxAge     \* the changes to classes while a waif is not up to date
VARIABLES part, age

InStep(w) == There(w) => waifs[w].propdefs = waif_propdefs[waifs[w].class]
WaifBounds ==
    /\ valid' \subseteq 0..MaxClass /\ num' <= MaxClass + 1
    /\ Cardinality({<<o, n>> \in Oid \X Names : n \in ToSet(propdefs'[o])}) <= MaxDefs
    /\ age' <= MaxAge
Age ==
    age' = IF \A w \in Waif : InStep(w)' THEN 0
           ELSE IF <<vars, propdefs>>' = <<vars, propdefs>> THEN age
           ELSE age + 1

MCInit == InitWaifs /\ part \in {"tree", "waifs"} /\ age = 0
MCNext ==
    \/ part = "tree" /\ Next /\ UNCHANGED <<waifVars, part, age>>
    \/ part = "waifs" /\ NextWaifs /\ Age /\ WaifBounds /\ UNCHANGED part
MCSpec == MCInit /\ [][MCNext]_<<vars, waifVars, part, age>>

MCSymmetry ==
    Permutations(Calls) \cup Permutations(Names \ Plain)
=============================================================================
