--------------------------- MODULE MCBrowserReads ---------------------------
(***************************************************************************)
(* BrowserReads for TLC: two people, each with a document.                 *)
(***************************************************************************)
EXTENDS BrowserReads, TLC

CONSTANTS u1, u2, d1, d2

MCOwner == d1 :> u1 @@ d2 :> u2
\* Calls, and the two people with their documents.
Symmetry == Permutations(Calls) \cup {u1 :> u2 @@ u2 :> u1 @@ d1 :> d2 @@ d2 :> d1}
=============================================================================
