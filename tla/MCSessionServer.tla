--------------------------- MODULE MCSessionServer ---------------------------
(* Instances of SessionServer for TLC. *)
EXTENDS SessionServer, TLC

ConnSymmetry == Permutations(Conns)
==============================================================================
