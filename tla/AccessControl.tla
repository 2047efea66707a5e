---------------------------- MODULE AccessControl ----------------------------
(***************************************************************************)
(* What the document routes promise, without handlers, sessions, blobs or  *)
(* failures: who may read which document.  Documents.tla implements it.    *)
(***************************************************************************)

CONSTANTS Users, Docs, None

VARIABLES
    status,     \* absent, live or deleted
    owner,      \* the user who uploaded the document
    readers     \* the users a download would serve

vars == <<status, owner, readers>>

Init ==
    /\ status = [d \in Docs |-> "absent"]
    /\ owner = [d \in Docs |-> None]
    /\ readers = [d \in Docs |-> {}]

\* A document appears complete: live, owned, readable by its owner.
Publish(d, u, G) ==
    /\ status[d] = "absent"
    /\ u \in G
    /\ status' = [status EXCEPT ![d] = "live"]
    /\ owner' = [owner EXCEPT ![d] = u]
    /\ readers' = [readers EXCEPT ![d] = G]

\* One user gains access to a live document.
Grant(d, v) ==
    /\ status[d] = "live"
    /\ readers' = [readers EXCEPT ![d] = @ \cup {v}]
    /\ UNCHANGED <<status, owner>>

\* One user, never the owner, loses it.
Withdraw(d, v) ==
    /\ status[d] = "live"
    /\ v # owner[d]
    /\ readers' = [readers EXCEPT ![d] = @ \ {v}]
    /\ UNCHANGED <<status, owner>>

\* The document is closed to everyone, for good.
Retire(d) ==
    /\ status[d] = "live"
    /\ status' = [status EXCEPT ![d] = "deleted"]
    /\ readers' = [readers EXCEPT ![d] = {}]
    /\ UNCHANGED owner

Next ==
    \E d \in Docs :
       \/ \E u \in Users, G \in SUBSET Users : Publish(d, u, G)
       \/ \E v \in Users : Grant(d, v) \/ Withdraw(d, v)
       \/ Retire(d)

Spec == Init /\ [][Next]_vars
=============================================================================
