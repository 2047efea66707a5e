------------------------------- MODULE MCPush -------------------------------
(* Push with the symmetries TLC may use.                                   *)
EXTENDS Push, TLC

Symmetry == Permutations(Requests) \cup Permutations(Ids)
               \cup Permutations(Users) \cup Permutations(Endpoints)
=============================================================================
