--------------------------- MODULE MCCryptoWorker ---------------------------
(***************************************************************************)
(* CryptoWorker for TLC: a file of two bytes; pages, users, passphrases    *)
(* and keys are interchangeable.                                           *)
(***************************************************************************)
EXTENDS CryptoWorker, TLC

MCFile == <<"x", "y">>
Symmetry == Permutations(Pages) \cup Permutations(Users) \cup Permutations(Passphrases)
               \cup Permutations(Keys)
=============================================================================
