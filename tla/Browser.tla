------------------------------- MODULE Browser -------------------------------
(***************************************************************************)
(* A browser: its tabs, which share localStorage and IndexedDB, and the    *)
(* value that nothing has been set to.                                     *)
(***************************************************************************)
CONSTANTS Tabs, None
=============================================================================
