--------------------------- MODULE MCAuthSessions ---------------------------
(* AuthSessions with the symmetries TLC may use.                           *)
EXTENDS AuthSessions, TLC

Symmetry == Permutations(Requests) \cup Permutations(Challenges)
               \cup Permutations(Tokens)
=============================================================================
