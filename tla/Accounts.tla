------------------------------ MODULE Accounts ------------------------------
(* The accounts of a server, the same at its end and at the browser's, and the *)
(* value that nothing has been set to.                                     *)
EXTENDS Naturals

CONSTANTS Users, None
=============================================================================
