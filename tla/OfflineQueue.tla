---------------------------- MODULE OfflineQueue ----------------------------
(***************************************************************************)
(* Mutations the web application makes while the server cannot be reached: *)
(* the tabs (routes/upload.tsx, routes/dashboard.tsx and the pages that    *)
(* push the wrapped key or delete a document), the list of pending uploads *)
(* they share (state/pending-uploads.ts), the service worker that queues   *)
(* and replays what failed (sw/push-handler.ts), and the server.           *)
(*                                                                         *)
(* An upload, a PUT /key-blobs/me and a DELETE are members of Mutations,   *)
(* each submitted once; PUTs are numbered in the order the user makes them.*)
(* One await of the worker or of a page is one step.  While a request of a *)
(* tab runs its buttons are disabled and the user does not leave the page. *)
(***************************************************************************)
EXTENDS Naturals, Sequences, FiniteSets

CONSTANTS
    Uploads, Deletes,
    Pushes,         \* number of PUTs of the wrapped key
    Tabs,
    Faults,         \* "lost", "refused", "killed", "expiry"
    MaxLost,        \* bound on the answers that get lost
    None

Puts == 1..Pushes
Mutations == Uploads \cup Deletes \cup Puts

ASSUME BoundsAssumption == Pushes \in Nat /\ MaxLost \in Nat
ASSUME KindsAssumption ==
    /\ Uploads \cap Deletes = {} /\ (Uploads \cup Deletes) \cap Puts = {}
    /\ None \notin Mutations \cup Tabs
ASSUME FaultsAssumption == Faults \subseteq {"lost", "refused", "killed", "expiry"}

VARIABLES
    net,            \* what stands between the browser and the server
    tab,            \* the page each tab shows
    inbox,          \* sync-done messages a tab has not handled yet
    pending,        \* vellaris.pending-uploads, oldest first
    sent, by,       \* how far each mutation got in its tab, and which tab
    queue,          \* the queue vellaris-uploads, in IndexedDB
    registered,     \* the browser has a sync to fire
    late,           \* a request was queued while a sync ran
    replay,         \* the sync that runs
    applied,        \* what the server executed, in order
    lost,           \* how many answers of a mutation got lost
    queued          \* what was ever queued, in order

page == <<tab, inbox, pending>>
worker == <<queue, registered, late, replay, queued>>
server == <<applied, lost>>
vars == <<net, page, sent, by, worker, server>>

\* navigator.onLine is also TRUE when the server is unreachable.
OnLine == net # "offline"

Idle == [at |-> "idle", m |-> None, ok |-> FALSE]

Replays == [at : {"idle", "shift", "fetch", "tell", "restore"},
            m : Mutations \cup {None}, ok : BOOLEAN]

InHand == IF replay.m = None THEN <<>> ELSE <<replay.m>>

\* What the worker still has to send.
Waiting == IF replay.at \in {"fetch", "restore"} THEN InHand \o queue ELSE queue

\* A DELETE of a document that is gone.
Spent(m) == m \in Deletes /\ \E i \in DOMAIN applied : applied[i] = m

Copies(m) == Cardinality({i \in DOMAIN applied : applied[i] = m})

LostSoFar == Cardinality({a \in Mutations \X (1..MaxLost) : a[2] <= lost[a[1]]})

Busy(t) == \E m \in Mutations : by[m] = t /\ sent[m] \in {"sending", "failed"}

-----------------------------------------------------------------------------
(* The server.                                                             *)

\* It answers with success, or with an error status and no change: 401 when
\* the session of a queued request has ended, 404 for a second DELETE.
Serve(m, ok) ==
    /\ net = "up"
    /\ \/ ok /\ ~Spent(m) /\ applied' = Append(applied, m)
       \/ /\ ~ok /\ ("refused" \in Faults \/ Spent(m))
          /\ UNCHANGED applied
    /\ UNCHANGED lost

\* fetch throws: the server was not reached, or its answer was not.
FetchFails(m) ==
    \/ net # "up" /\ UNCHANGED server
    \/ /\ "lost" \in Faults /\ net = "up" /\ LostSoFar < MaxLost
       /\ ~Spent(m)
       /\ applied' = Append(applied, m)
       /\ lost' = [lost EXCEPT ![m] = @ + 1]

-----------------------------------------------------------------------------
(* A page makes a request; the worker passes it on.                        *)

Submit(t, m) ==
    /\ sent[m] = "new" /\ ~Busy(t)
    /\ tab[t] = IF m \in Uploads THEN "upload" ELSE "elsewhere"
    /\ m \in Puts => \A n \in Puts : n < m => sent[n] # "new"
    /\ sent' = [sent EXCEPT ![m] = "sending"]
    /\ by' = [by EXCEPT ![m] = t]
    /\ UNCHANGED <<net, page, worker, server>>

\* NetworkOnly with an answer; the upload page goes to the document.
Answered(m) ==
    /\ sent[m] = "sending"
    /\ \E ok \in BOOLEAN :
          /\ Serve(m, ok)
          /\ sent' = [sent EXCEPT ![m] = IF ok THEN "done" ELSE "error"]
          /\ tab' = IF ok /\ m \in Uploads
                    THEN [tab EXCEPT ![by[m]] = "elsewhere"] ELSE tab
    /\ UNCHANGED <<net, inbox, pending, by, worker>>

\* fetchDidFail of the plugin queues the request, then the page sees the error.
Queued(m) ==
    /\ sent[m] = "sending"
    /\ FetchFails(m)
    /\ queue' = Append(queue, m)
    /\ queued' = Append(queued, m)
    /\ \/ replay.at = "idle" /\ registered' = TRUE /\ UNCHANGED late
       \/ replay.at # "idle" /\ late' = TRUE /\ UNCHANGED registered
    /\ sent' = [sent EXCEPT ![m] = "failed"]
    /\ UNCHANGED <<net, page, by, replay>>

\* Only the upload page, and only when the browser says it is offline, adds a
\* placeholder; every other page shows an error.
Caught(m) ==
    /\ sent[m] = "failed"
    /\ \/ /\ m \in Uploads /\ ~OnLine
          /\ pending' = Append(pending, m)
          /\ tab' = [tab EXCEPT ![by[m]] = "dashboard"]
          /\ sent' = [sent EXCEPT ![m] = "pending"]
       \/ /\ m \notin Uploads \/ OnLine
          /\ sent' = [sent EXCEPT ![m] = "error"]
          /\ UNCHANGED <<tab, pending>>
    /\ UNCHANGED <<net, inbox, by, worker, server>>

-----------------------------------------------------------------------------
(* The worker's sync: onSync of the queue.                                 *)

SyncStarts ==
    /\ registered /\ OnLine /\ replay.at = "idle"
    /\ registered' = FALSE
    /\ replay' = [Idle EXCEPT !.at = "shift"]
    /\ UNCHANGED <<net, page, sent, by, queue, late, queued, server>>

\* Mutant: the entry is read but stays in the queue.
ReplayPeek ==
    /\ replay.at = "shift"
    /\ \/ /\ queue = <<>>
          /\ replay' = Idle /\ registered' = late /\ late' = FALSE
       \/ /\ queue # <<>>
          /\ replay' = [at |-> "fetch", m |-> Head(queue), ok |-> FALSE]
          /\ UNCHANGED <<registered, late>>
    /\ UNCHANGED <<net, page, sent, by, queue, queued, server>>

\* shiftRequest drops an entry older than maxRetentionTime.
ReplayShift ==
    /\ replay.at = "shift"
    /\ \/ /\ queue = <<>>
          /\ replay' = Idle /\ registered' = late /\ late' = FALSE
          /\ UNCHANGED queue
       \/ /\ queue # <<>>
          /\ queue' = Tail(queue)
          /\ \/ replay' = [at |-> "fetch", m |-> Head(queue), ok |-> FALSE]
             \/ "expiry" \in Faults /\ UNCHANGED replay
          /\ UNCHANGED <<registered, late>>
    /\ UNCHANGED <<net, page, sent, by, queued, server>>

ReplayAnswered ==
    /\ replay.at = "fetch"
    /\ \E ok \in BOOLEAN : /\ Serve(replay.m, ok)
                           /\ replay' = [replay EXCEPT !.at = "tell", !.ok = ok]
    /\ UNCHANGED <<net, page, sent, by, queue, registered, late, queued>>

ReplayFails ==
    /\ replay.at = "fetch"
    /\ FetchFails(replay.m)
    /\ replay' = [replay EXCEPT !.at = "restore"]
    /\ UNCHANGED <<net, page, sent, by, queue, registered, late, queued>>

\* Mutant: the handler returns after one entry.
ReplayTellOnce ==
    /\ replay.at = "tell"
    /\ inbox' = [t \in Tabs |-> IF replay.ok /\ replay.m \in Uploads
                                THEN Append(inbox[t], replay.m) ELSE inbox[t]]
    /\ replay' = Idle /\ registered' = late /\ late' = FALSE
    /\ UNCHANGED <<net, tab, pending, sent, by, queue, queued, server>>

\* broadcastToClients; sync-failed, and sync-done of the others, change no list.
ReplayTell ==
    /\ replay.at = "tell"
    /\ inbox' = [t \in Tabs |-> IF replay.ok /\ replay.m \in Uploads
                                THEN Append(inbox[t], replay.m) ELSE inbox[t]]
    /\ replay' = [Idle EXCEPT !.at = "shift"]
    /\ UNCHANGED <<net, tab, pending, sent, by, queue, registered, late, queued, server>>

\* Mutant: the entry goes back to the tail of the queue.
ReplayRestoreTail ==
    /\ replay.at = "restore"
    /\ queue' = Append(queue, replay.m)
    /\ replay' = Idle /\ registered' = TRUE /\ late' = FALSE
    /\ UNCHANGED <<net, page, sent, by, queued, server>>

\* unshiftRequest and throw: the browser fires the sync again later.
ReplayRestore ==
    /\ replay.at = "restore"
    /\ queue' = <<replay.m>> \o queue
    /\ replay' = Idle /\ registered' = TRUE /\ late' = FALSE
    /\ UNCHANGED <<net, page, sent, by, queued, server>>

\* A sync that takes too long is stopped; the entry it holds is in no store.
WorkerKilled ==
    /\ "killed" \in Faults
    /\ replay.at \in {"fetch", "tell", "restore"}
    /\ replay' = Idle /\ registered' = TRUE /\ late' = FALSE
    /\ UNCHANGED <<net, page, sent, by, queue, queued, server>>

-----------------------------------------------------------------------------
(* The pages, the network.                                                 *)

\* A dashboard removes the oldest placeholder; other pages ignore sync-done.
Dispatch(t) ==
    /\ inbox[t] # <<>>
    /\ inbox' = [inbox EXCEPT ![t] = Tail(@)]
    /\ pending' = IF tab[t] = "dashboard" /\ pending # <<>> THEN Tail(pending)
                                                            ELSE pending
    /\ UNCHANGED <<net, tab, sent, by, worker, server>>

Navigate(t, to) ==
    /\ ~Busy(t) /\ tab[t] # to
    /\ tab' = [tab EXCEPT ![t] = to]
    /\ UNCHANGED <<net, inbox, pending, sent, by, worker, server>>

NetChanges(to) ==
    /\ net # to
    /\ net' = to
    /\ UNCHANGED <<page, sent, by, worker, server>>

-----------------------------------------------------------------------------
Pages == {"dashboard", "upload", "elsewhere"}
Nets == {"up", "unreachable", "offline"}

Init ==
    /\ net = "up"
    /\ tab = [t \in Tabs |-> "dashboard"]
    /\ inbox = [t \in Tabs |-> <<>>]
    /\ pending = <<>>
    /\ sent = [m \in Mutations |-> "new"]
    /\ by = [m \in Mutations |-> None]
    /\ queue = <<>> /\ registered = FALSE /\ late = FALSE
    /\ replay = Idle
    /\ applied = <<>>
    /\ lost = [m \in Mutations |-> 0]
    /\ queued = <<>>

Sync == \/ SyncStarts \/ ReplayShift \/ ReplayAnswered \/ ReplayFails
        \/ ReplayTell \/ ReplayRestore

Next ==
    \/ \E t \in Tabs, m \in Mutations : Submit(t, m)
    \/ \E m \in Mutations : Answered(m) \/ Queued(m) \/ Caught(m)
    \/ Sync \/ WorkerKilled
    \/ \E t \in Tabs : Dispatch(t) \/ \E to \in Pages : Navigate(t, to)
    \/ \E to \in Nets : NetChanges(to)

Spec == Init /\ [][Next]_vars

\* The browser fires a registered sync, retries one that threw, and the worker
\* runs until its next await is over.
FairSpec == Spec /\ WF_vars(Sync)

-----------------------------------------------------------------------------
(* Properties.                                                             *)

\* Every variable keeps its type.
TypeOK ==
    /\ net \in Nets
    /\ tab \in [Tabs -> Pages]
    /\ inbox \in [Tabs -> Seq(Uploads)]
    /\ pending \in Seq(Uploads)
    /\ sent \in [Mutations -> {"new", "sending", "failed", "pending", "done", "error"}]
    /\ by \in [Mutations -> Tabs \cup {None}]
    /\ queue \in Seq(Mutations) /\ queued \in Seq(Mutations)
    /\ registered \in BOOLEAN /\ late \in BOOLEAN
    /\ replay \in Replays
    /\ applied \in Seq(Mutations)
    /\ lost \in [Mutations -> Nat]

\* Whatever was queued, restored, expired or interrupted, what waits in the
\* worker is the end of what was queued, in that order and without gaps.
WaitsInOrder ==
    /\ Len(Waiting) <= Len(queued)
    /\ Waiting = SubSeq(queued, Len(queued) - Len(Waiting) + 1, Len(queued))

Promise == INSTANCE Outbox WITH outbox <- Waiting

\* The worker, its syncs and the pages implement Outbox (push-handler.ts:147-171): each
\* request is handed over once, sent in the order of the queue and never out of its
\* turn, however syncs start, stop, throw and start again while others are queued.
ImplementsOutbox == Promise!Spec

\* A mutation is executed a second time only if an answer got lost: a worker
\* that is stopped may lose a mutation and never repeats it.  The types with it.
RepeatNeedsLostAnswer ==
    /\ TypeOK
    /\ \A m \in Mutations : Copies(m) <= 1 + lost[m]

\* When the network stays up, what waits in the worker leaves it, also what is
\* queued while a sync runs.
QueueDrains ==
    <>[](net = "up") =>
        \A m \in Mutations :
            (\E i \in DOMAIN Waiting : Waiting[i] = m)
               ~> ~\E i \in DOMAIN Waiting : Waiting[i] = m
=============================================================================
