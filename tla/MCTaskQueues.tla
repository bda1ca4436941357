---------------------------- MODULE MCTaskQueues ----------------------------
(* Instances of TaskQueues for TLC. *)
EXTENDS TaskQueues, TLC

MCGuests == {-2}
MCOneUser == {1}
MCTwoUsers == {1, 2}

\* Task identifiers are only compared.  Queue storage is only compared and
\* allocated, and every free tqueue is the same value, so whichever one
\* find_tqueue() is given leads to the same state up to a permutation.
MCSymmetry == Permutations(Queue) \cup Permutations(Id)
=============================================================================
