----------------------------- MODULE MCPasskeys -----------------------------
(* Passkeys with the symmetries TLC may use.                               *)
EXTENDS Passkeys, TLC

Symmetry == Permutations(Requests) \cup Permutations(Challenges)
               \cup Permutations(Users)
=============================================================================
