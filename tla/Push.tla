-------------------------------- MODULE Push --------------------------------
(***************************************************************************)
(* Web Push in the Vellaris server: the subscription routes of             *)
(* routes/notifications.py and the background sender send_push of push.py, *)
(* with the push service it calls.                                         *)
(*                                                                         *)
(* One SELECT, one COMMIT or one call of the push service per step, as in  *)
(* Documents.tla.  A sender keeps one database session open while it calls *)
(* the push service for each device, and commits every outcome at the end: *)
(* an UPDATE of a row deleted meanwhile raises StaleDataError and rolls    *)
(* all of them back, a DELETE of one is a warning.                         *)
(***************************************************************************)
EXTENDS Accounts

CONSTANTS
    Endpoints,      \* one for each browser on a device
    Ids,            \* ids uuid4() may draw for a row, each at most once
    Requests,       \* concurrent handlers
    Tasks,          \* concurrent senders
    Faults          \* which failures happen: "crash", "commit", "service"

ASSUME NoneAssumption == None \notin Users \cup Endpoints \cup Ids
ASSUME FaultsAssumption == Faults \subseteq {"crash", "commit", "service"}

VARIABLES
    row,        \* push_subscriptions, by id
    reported,   \* ids with a PUSH_SEND_FAILED entry in the audit log
    alive,      \* endpoints the push service still delivers to
    req,
    task        \* the senders

db == <<row, reported>>
vars == <<db, alive, req, task>>

\* used: last_used_at is set.
Row == [st : {"unused", "live", "gone"}, ep : Endpoints \cup {None},
        of : Users \cup {None}, used : BOOLEAN]

Codes == {"none", "ok", "not_found", "conflict", "stale_row", "refresh_error",
          "commit_error"}

Request ==
    [op : {"none", "subscribe", "unsubscribe"},
     at : {"insert", "update", "delete", "refresh", "answered"},
     user : Users \cup {None},
     ep : Endpoints \cup {None},
     id : Ids \cup {None},      \* the row that was read, or the id drawn
     code : Codes]              \* of the answer, kept

Idle == [op |-> "none", at |-> "answered", user |-> None, ep |-> None,
         id |-> None, code |-> "none"]

\* sub.last_used_at, db.delete(sub) and audit_record wait for the commit.
Task ==
    [at : {"ended", "select", "send", "commit"},
     to : Users \cup {None},
     todo : SUBSET Ids, touch : SUBSET Ids, drop : SUBSET Ids, report : SUBSET Ids]

Ended == [at |-> "ended", to |-> None, todo |-> {}, touch |-> {}, drop |-> {},
          report |-> {}]

-----------------------------------------------------------------------------
At(r, op, point) == req[r].op = op /\ req[r].at = point

Answer(r, code) == req' = [req EXCEPT ![r] = [Idle EXCEPT !.code = code]]

Live(i) == row[i].st = "live"

NewIds == {i \in Ids : row[i].st = "unused" /\ \A r \in Requests : req[r].id # i}

-----------------------------------------------------------------------------
(* POST /notifications/subscriptions                                       *)

SubscribeBegin(r, u, e) ==
    LET existing == {i \in Ids : Live(i) /\ row[i].ep = e}
        Go(point, i) == req' = [req EXCEPT ![r] =
              [op |-> "subscribe", at |-> point, user |-> u, ep |-> e, id |-> i,
               code |-> "none"]] IN
    /\ req[r].at = "answered"
    /\ \/ \E i \in existing : Go("update", i)
       \/ existing = {} /\ \E i \in NewIds : Go("insert", i)
    /\ UNCHANGED <<db, alive, task>>

\* Mutant: the row is inserted without the UNIQUE index on endpoint.
SubscribeInsertDuplicate(r) ==
    /\ At(r, "subscribe", "insert")
    /\ row' = [row EXCEPT ![req[r].id] = [st |-> "live", ep |-> req[r].ep,
                                          of |-> req[r].user, used |-> FALSE]]
    /\ req' = [req EXCEPT ![r].at = "refresh"]
    /\ UNCHANGED <<reported, alive, task>>

\* endpoint is UNIQUE.
SubscribeInsert(r) ==
    LET taken == \E i \in Ids : Live(i) /\ row[i].ep = req[r].ep IN
    /\ At(r, "subscribe", "insert")
    /\ \/ /\ ~taken
          /\ row' = [row EXCEPT ![req[r].id] = [st |-> "live", ep |-> req[r].ep,
                                                of |-> req[r].user, used |-> FALSE]]
          /\ req' = [req EXCEPT ![r].at = "refresh"]
       \/ taken /\ Answer(r, "conflict") /\ UNCHANGED row
    /\ UNCHANGED <<reported, alive, task>>

SubscribeUpdate(r) ==
    /\ At(r, "subscribe", "update")
    /\ \/ /\ Live(req[r].id)
          /\ row' = [row EXCEPT ![req[r].id].of = req[r].user]
          /\ req' = [req EXCEPT ![r].at = "refresh"]
       \/ ~Live(req[r].id) /\ Answer(r, "stale_row") /\ UNCHANGED row
    /\ UNCHANGED <<reported, alive, task>>

\* db.refresh fails on a row that is gone again.
SubscribeRefresh(r) ==
    /\ At(r, "subscribe", "refresh")
    /\ Answer(r, IF Live(req[r].id) THEN "ok" ELSE "refresh_error")
    /\ UNCHANGED <<db, alive, task>>

-----------------------------------------------------------------------------
(* DELETE /notifications/subscriptions/{id}                                *)

UnsubscribeBegin(r, u, i) ==
    /\ req[r].at = "answered"
    /\ \/ /\ Live(i) /\ row[i].of = u
          /\ req' = [req EXCEPT ![r] = [op |-> "unsubscribe", at |-> "delete",
                        user |-> u, ep |-> None, id |-> i, code |-> "none"]]
       \/ ~(Live(i) /\ row[i].of = u) /\ Answer(r, "not_found")
    /\ UNCHANGED <<db, alive, task>>

UnsubscribeCommit(r) ==
    /\ At(r, "unsubscribe", "delete")
    /\ row' = [row EXCEPT ![req[r].id].st = "gone"]
    /\ Answer(r, "ok")
    /\ UNCHANGED <<reported, alive, task>>

-----------------------------------------------------------------------------
(* send_push, a task that a share or a revocation creates.                 *)

\* asyncio.create_task(send_push(user_id=u, ...))
TaskCreated(n, u) ==
    /\ task[n].at = "ended"
    /\ task' = [task EXCEPT ![n] = [Ended EXCEPT !.at = "select", !.to = u]]
    /\ UNCHANGED <<db, alive, req>>

TaskSelect(n) ==
    LET rows == {i \in Ids : Live(i) /\ row[i].of = task[n].to} IN
    /\ task[n].at = "select"
    /\ task' = [task EXCEPT ![n] =
          IF rows = {} THEN Ended ELSE [@ EXCEPT !.at = "send", !.todo = rows]]
    /\ UNCHANGED <<db, alive, req>>

\* What _push_one may come back with.
Outcomes(i) ==
    (IF row[i].ep \in alive THEN {"delivered"} ELSE {"dead"})
       \cup IF "service" \in Faults THEN {"failed", "raised"} ELSE {}

\* The outcome of one device, kept in the session.
Noted(t, i, outcome) ==
    LET rest == [t EXCEPT !.todo = @ \ {i},
                          !.at = IF t.todo = {i} THEN "commit" ELSE "send"] IN
    IF outcome = "delivered" THEN [rest EXCEPT !.touch = @ \cup {i}]
    ELSE IF outcome = "dead" THEN [rest EXCEPT !.drop = @ \cup {i}]
    ELSE [rest EXCEPT !.report = @ \cup {i}]

\* An exception of the call that is not a WebPushException ends the sender.
TaskSend(n) ==
    /\ task[n].at = "send"
    /\ \E i \in task[n].todo : \E outcome \in Outcomes(i) :
          task' = [task EXCEPT ![n] =
                      IF outcome = "raised" THEN Ended ELSE Noted(@, i, outcome)]
    /\ UNCHANGED <<db, alive, req>>

\* Mutant: whole rows are written, with the user they had when they were read.
WrittenWhole(t) ==
    [i \in Ids |-> IF i \in t.drop THEN [row[i] EXCEPT !.st = "gone"]
                   ELSE IF i \in t.touch THEN [row[i] EXCEPT !.used = TRUE, !.of = t.to]
                   ELSE row[i]]

\* The sender has read each of them, and only writes what it changed.
Written(t) ==
    [i \in Ids |-> IF i \in t.drop THEN [row[i] EXCEPT !.st = "gone"]
                   ELSE IF i \in t.touch THEN [row[i] EXCEPT !.used = TRUE]
                   ELSE row[i]]

\* Mutant: each outcome commits alone.
TaskCommitOneByOne(n) ==
    LET t == task[n] IN
    /\ t.at = "commit"
    /\ \/ /\ \A i \in t.touch : Live(i)
          /\ row' = Written(t) /\ reported' = reported \cup t.report
       \/ /\ \E i \in t.touch : ~Live(i)
          /\ row' = Written([t EXCEPT !.touch = {i \in @ : Live(i)}])
          /\ UNCHANGED reported
    /\ task' = [task EXCEPT ![n] = Ended]
    /\ UNCHANGED <<alive, req>>

TaskCommit(n) ==
    LET t == task[n] IN
    /\ t.at = "commit"
    /\ \/ /\ \A i \in t.touch : Live(i)
          /\ row' = Written(t) /\ reported' = reported \cup t.report
       \/ (\E i \in t.touch : ~Live(i)) /\ UNCHANGED db
    /\ task' = [task EXCEPT ![n] = Ended]
    /\ UNCHANGED <<alive, req>>

-----------------------------------------------------------------------------
(* The push service, failures.                                             *)

EndpointDies(e) ==
    /\ e \in alive
    /\ alive' = alive \ {e}
    /\ UNCHANGED <<db, req, task>>

CommitFails ==
    /\ "commit" \in Faults
    /\ \/ \E r \in Requests : /\ req[r].at \in {"insert", "update", "delete"}
                              /\ Answer(r, "commit_error")
                              /\ UNCHANGED task
       \/ \E n \in Tasks : /\ task[n].at = "commit"
                           /\ task' = [task EXCEPT ![n] = Ended]
                           /\ UNCHANGED req
    /\ UNCHANGED <<db, alive>>

Crash ==
    /\ "crash" \in Faults
    /\ req' = [r \in Requests |-> IF req[r].at = "answered" THEN req[r] ELSE Idle]
    /\ task' = [n \in Tasks |-> Ended]
    /\ UNCHANGED <<db, alive>>

-----------------------------------------------------------------------------
Init ==
    /\ row = [i \in Ids |-> [st |-> "unused", ep |-> None, of |-> None, used |-> FALSE]]
    /\ reported = {}
    /\ alive = Endpoints
    /\ req = [r \in Requests |-> Idle]
    /\ task = [n \in Tasks |-> Ended]

Arrive(r) ==
    \/ \E u \in Users, e \in Endpoints : SubscribeBegin(r, u, e)
    \/ \E u \in Users, i \in Ids : UnsubscribeBegin(r, u, i)

Resume(r) ==
    \/ SubscribeInsert(r) \/ SubscribeUpdate(r) \/ SubscribeRefresh(r)
    \/ UnsubscribeCommit(r)

RunTask(n) == TaskSelect(n) \/ TaskSend(n) \/ TaskCommit(n)

Next ==
    \/ \E r \in Requests : Arrive(r) \/ Resume(r)
    \/ \E n \in Tasks : RunTask(n) \/ \E u \in Users : TaskCreated(n, u)
    \/ \E e \in Endpoints : EndpointDies(e)
    \/ CommitFails
    \/ Crash

Spec == Init /\ [][Next]_vars

-----------------------------------------------------------------------------
(* Properties.                                                             *)

\* This step ends sender n, which had come to its commit.
Commits(n) == task[n].at = "commit" /\ task'[n].at = "ended"

\* Every variable keeps its type.
TypeOK ==
    /\ row \in [Ids -> Row]
    /\ reported \subseteq Ids
    /\ alive \subseteq Endpoints
    /\ req \in [Requests -> Request]
    /\ task \in [Tasks -> Task]

\* A browser has one subscription, so a share shows one notification and the
\* browser belongs to one account, however subscribes race.
OneRowPerEndpoint ==
    \A i, j \in Ids : Live(i) /\ Live(j) /\ row[i].ep = row[j].ep => i = j

\* A sender never gives a browser back to the account it belonged to when the
\* sender read the row, and never brings a removed subscription back.
SenderKeepsTenant ==
    [][\A n \in Tasks : Commits(n) =>
          \A i \in Ids : /\ row'[i].of = row[i].of
                         /\ row'[i].st = "live" => Live(i)]_vars

\* The outcomes a sender has gathered are committed together or not at all.
SendIsAllOrNothing ==
    [][\A n \in Tasks : Commits(n) =>
          \/ UNCHANGED db
          \/ /\ \A i \in task[n].drop : row'[i].st = "gone"
             /\ \A i \in task[n].touch : row'[i].used
             /\ task[n].report \subseteq reported']_vars
=============================================================================
