---------------------------- MODULE MCProperties ----------------------------
(* Instances of Properties: objects, names and values are interchangeable. *)
EXTENDS Properties

MCSymmetry == Permutations(Oid) \cup Permutations(Names) \cup Permutations(Values)
=============================================================================
