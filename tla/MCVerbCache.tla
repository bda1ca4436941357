----------------------------- MODULE MCVerbCache ----------------------------
(* Instances of VerbCache: addresses are interchangeable. *)
EXTENDS VerbCache, TLC

AddressSymmetry == Permutations(VerbId)
=============================================================================
