----------------------------- MODULE MCDocuments -----------------------------
(* Documents with the symmetry TLC may use: handlers are interchangeable.  *)
EXTENDS Documents, TLC

Symmetry == Permutations(Requests)
=============================================================================
