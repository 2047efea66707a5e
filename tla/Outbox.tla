------------------------------- MODULE Outbox -------------------------------
(***************************************************************************)
(* What the service worker promises for the mutations it is handed,        *)
(* without pages, syncs, placeholders or the network: what could not be    *)
(* sent is sent later in the order it was handed over, once, and again     *)
(* only after an answer got lost.  OfflineQueue.tla implements it.         *)
(***************************************************************************)
EXTENDS Naturals, Sequences

CONSTANTS Mutations

VARIABLES
    outbox,     \* what is still to be sent, in order
    queued,     \* history: what was ever put into it
    applied,    \* what the server executed, in order
    lost        \* how many answers of a mutation got lost

vars == <<outbox, queued, applied, lost>>

Has(s, m) == \E i \in DOMAIN s : s[i] = m

\* Nothing has come of it yet.
New(m) == ~Has(queued, m) /\ ~Has(applied, m)

Executed(m) == applied' = Append(applied, m) /\ UNCHANGED lost
Unheard(m) == applied' = Append(applied, m) /\ lost' = [lost EXCEPT ![m] = @ + 1]

Init ==
    /\ outbox = <<>> /\ queued = <<>> /\ applied = <<>>
    /\ lost = [m \in Mutations |-> 0]

\* The server has it at once.
Pass(m) == New(m) /\ Executed(m) /\ UNCHANGED <<outbox, queued>>

\* There was no answer, whether the server has it or not.
Keep(m) ==
    /\ New(m)
    /\ Unheard(m) \/ UNCHANGED <<applied, lost>>
    /\ outbox' = Append(outbox, m) /\ queued' = Append(queued, m)

\* Only the first is sent.
Send ==
    /\ outbox # <<>> /\ Executed(Head(outbox))
    /\ outbox' = Tail(outbox) /\ UNCHANGED queued

SendUnheard ==
    /\ outbox # <<>> /\ Unheard(Head(outbox))
    /\ UNCHANGED <<outbox, queued>>

\* The first is refused, too old, or lost with the worker that held it.
Drop ==
    /\ outbox # <<>> /\ outbox' = Tail(outbox)
    /\ UNCHANGED <<queued, applied, lost>>

Next ==
    \/ \E m \in Mutations : Pass(m) \/ Keep(m)
    \/ Send \/ SendUnheard \/ Drop

Spec == Init /\ [][Next]_vars
=============================================================================
