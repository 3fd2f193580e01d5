------------------------- MODULE MCPendingMessages -------------------------
(* Model checking instance of PendingMessages. *)
EXTENDS PendingMessages, TLC
Symmetry == Permutations(Objects)
=============================================================================
