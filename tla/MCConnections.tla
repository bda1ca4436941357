--------------------------- MODULE MCConnections ----------------------------
(***************************************************************************)
(* Instances of Connections and of NetOutput, side by side: a behaviour is *)
(* one of all connections or one of the output of a single connection.     *)
(* Neither reads the other's state.  Connections are interchangeable, and  *)
(* so are players.                                                         *)
(***************************************************************************)
EXTENDS Connections, NetOutput, TLC

VARIABLE part

MCInit == Init /\ InitOutput /\ part \in {"connections", "output"}
MCNext ==
    \/ part = "connections" /\ Next /\ UNCHANGED <<outputVars, part>>
    \/ part = "output" /\ NextOutput /\ UNCHANGED <<vars, part>>
MCSpec == MCInit /\ [][MCNext]_<<vars, outputVars, part>>

MCSymmetry == Permutations(Conn) \cup Permutations(Player)
=============================================================================
