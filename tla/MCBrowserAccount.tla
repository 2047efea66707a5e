-------------------------- MODULE MCBrowserAccount --------------------------
(***************************************************************************)
(* BrowserAccount for TLC.  The sets of calls and of accounts are          *)
(* interchangeable; tabs are too.                                          *)
(***************************************************************************)
EXTENDS BrowserAccount, TLC

Symmetry == Permutations(Tabs) \cup Permutations(Users) \cup Permutations(Calls)
               \cup Permutations(Servers)
=============================================================================
