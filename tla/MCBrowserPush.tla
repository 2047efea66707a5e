--------------------------- MODULE MCBrowserPush ---------------------------
(***************************************************************************)
(* BrowserPush for TLC: two people at one browser of several kinds.        *)
(***************************************************************************)
EXTENDS BrowserPush, TLC

Desktop == [ios |-> FALSE, standalone |-> FALSE, supported |-> FALSE, ready |-> TRUE,
            authenticator |-> FALSE, outdated |-> FALSE, permission |-> "default"]

\* A browser with push, the same where no worker could be registered; one
\* without push that can be updated and installed; Safari on iOS.
MCDevices == {[Desktop EXCEPT !.supported = TRUE, !.standalone = TRUE],
              [Desktop EXCEPT !.supported = TRUE, !.standalone = TRUE, !.ready = FALSE],
              [Desktop EXCEPT !.authenticator = TRUE, !.outdated = TRUE],
              [Desktop EXCEPT !.ios = TRUE]}

Symmetry == Permutations(Users) \cup Permutations(Calls)
=============================================================================
