----------------------------- MODULE PushProofs -----------------------------
(* Theorems about Push, for every set of accounts, browsers, row ids,       *)
(* handlers, senders and faults; and, from the heading "The browser's side" *)
(* on, about BrowserPush, the other end of the same subscriptions.         *)
EXTENDS Push, BrowserPush, TLAPS

-----------------------------------------------------------------------------
(* A sender has at most one outcome for each device, and none before its    *)
(* SELECT: what SendIsAllOrNothing rests on, because a dropped row is not   *)
(* marked as used.                                                         *)
Apart(t) ==
    /\ t.todo \cap (t.touch \cup t.drop \cup t.report) = {}
    /\ t.touch \cap t.drop = {}
    /\ t.at = "select" => t.touch \cup t.drop \cup t.report = {}

OutcomesApart == \A n \in Tasks : Apart(task[n])

SendInv == TypeOK /\ OneRowPerEndpoint /\ OutcomesApart

-----------------------------------------------------------------------------
(* What the steps of handlers and senders leave of the rows.               *)

LEMMA AnswerTyped ==
    ASSUME TypeOK, NEW r \in Requests, NEW code \in Codes, Answer(r, code)
    PROVE  req' \in [Requests -> Request]
  BY DEF TypeOK, Answer, Request, Idle

LEMMA GotoTyped ==
    ASSUME TypeOK, NEW r \in Requests,
           NEW point \in {"insert", "update", "delete", "refresh", "answered"},
           req' = [req EXCEPT ![r].at = point]
    PROVE  req' \in [Requests -> Request]
  BY DEF TypeOK, Request

\* The handlers that start leave the tables alone.
LEMMA ArriveTyped ==
    ASSUME TypeOK, NEW r \in Requests, Arrive(r)
    PROVE  req' \in [Requests -> Request] /\ UNCHANGED <<db, alive, task>>
  <1>1. ASSUME NEW u \in Users, NEW e \in Endpoints, SubscribeBegin(r, u, e)
        PROVE  req' \in [Requests -> Request] /\ UNCHANGED <<db, alive, task>>
    <2>1. PICK i \in Ids, point \in {"insert", "update"} :
              req' = [req EXCEPT ![r] = [op |-> "subscribe", at |-> point, user |-> u,
                                         ep |-> e, id |-> i, code |-> "none"]]
      BY ZenonT(60), <1>1 DEF SubscribeBegin, NewIds
    <2>2. [op |-> "subscribe", at |-> point, user |-> u, ep |-> e, id |-> i,
           code |-> "none"] \in Request
      BY <2>1 DEF Request, Codes
    <2>3. UNCHANGED <<db, alive, task>>
      BY <1>1 DEF SubscribeBegin
    <2> QED BY <2>1, <2>2, <2>3 DEF TypeOK
  <1>2. ASSUME NEW u \in Users, NEW i \in Ids, UnsubscribeBegin(r, u, i)
        PROVE  req' \in [Requests -> Request] /\ UNCHANGED <<db, alive, task>>
    <2>1. [op |-> "unsubscribe", at |-> "delete", user |-> u, ep |-> None, id |-> i,
           code |-> "none"] \in Request
      BY DEF Request, Codes
    <2>2. "not_found" \in Codes
      BY DEF Codes
    <2> QED BY <1>2, <2>1, <2>2, AnswerTyped DEF UnsubscribeBegin, TypeOK
  <1> QED BY <1>1, <1>2 DEF Arrive

\* What the other steps of a handler make of the rows.
LEMMA ResumeRows ==
    ASSUME TypeOK, OneRowPerEndpoint, NEW r \in Requests, Resume(r)
    PROVE  /\ req' \in [Requests -> Request] /\ row' \in [Ids -> Row]
           /\ OneRowPerEndpoint' /\ UNCHANGED <<reported, alive, task>>
  <1>0. req[r] \in Request /\ row \in [Ids -> Row]
    BY DEF TypeOK
  <1>1. CASE SubscribeInsert(r)
    <2>1. CASE \E i \in Ids : Live(i) /\ row[i].ep = req[r].ep
      BY <1>0, <1>1, <2>1, AnswerTyped DEF SubscribeInsert, Codes, OneRowPerEndpoint, Live
    <2>2. CASE ~(\E i \in Ids : Live(i) /\ row[i].ep = req[r].ep)
      <3>1. /\ row' = [row EXCEPT ![req[r].id] = [st |-> "live", ep |-> req[r].ep,
                                                  of |-> req[r].user, used |-> FALSE]]
            /\ req' = [req EXCEPT ![r].at = "refresh"]
            /\ UNCHANGED <<reported, alive, task>>
        BY <1>1, <2>2 DEF SubscribeInsert
      <3>2. [st |-> "live", ep |-> req[r].ep, of |-> req[r].user, used |-> FALSE] \in Row
        BY <1>0 DEF Row, Request
      <3>3. row' \in [Ids -> Row] /\ req' \in [Requests -> Request]
        BY <1>0, <3>1, <3>2, GotoTyped
      <3>4. \A i \in Ids : \/ row'[i] = row[i]
                           \/ i = req[r].id /\ row'[i].ep = req[r].ep
        BY <1>0, <3>1
      <3>5. OneRowPerEndpoint'
        BY <2>2, <3>4 DEF OneRowPerEndpoint, Live
      <3> QED BY <3>1, <3>3, <3>5
    <2> QED BY <2>1, <2>2
  <1>2. CASE SubscribeUpdate(r)
    <2>1. CASE Live(req[r].id)
      <3>1. /\ row' = [row EXCEPT ![req[r].id].of = req[r].user]
            /\ req' = [req EXCEPT ![r].at = "refresh"]
            /\ UNCHANGED <<reported, alive, task>>
        BY <1>2, <2>1 DEF SubscribeUpdate
      <3>0. \A i \in Ids : [row[i] EXCEPT !.of = req[r].user] \in Row
        BY <1>0 DEF Row, Request
      <3>2. row' \in [Ids -> Row] /\ req' \in [Requests -> Request]
        BY <1>0, <3>0, <3>1, GotoTyped
      <3>3. \A i \in Ids : row'[i].st = row[i].st /\ row'[i].ep = row[i].ep
        BY <1>0, <3>1 DEF Row
      <3> QED BY <3>1, <3>2, <3>3 DEF OneRowPerEndpoint, Live
    <2>2. CASE ~Live(req[r].id)
      BY <1>0, <1>2, <2>2, AnswerTyped DEF SubscribeUpdate, Codes, OneRowPerEndpoint, Live
    <2> QED BY <2>1, <2>2
  <1>3. CASE SubscribeRefresh(r)
    BY <1>0, <1>3, AnswerTyped DEF SubscribeRefresh, Codes, OneRowPerEndpoint, Live, db
  <1>4. CASE UnsubscribeCommit(r)
    <2>1. /\ row' = [row EXCEPT ![req[r].id].st = "gone"]
          /\ Answer(r, "ok") /\ UNCHANGED <<reported, alive, task>>
      BY <1>4 DEF UnsubscribeCommit
    <2>2. row' \in [Ids -> Row] /\ req' \in [Requests -> Request]
      BY <1>0, <2>1, AnswerTyped DEF Row, Codes
    <2>3. \A i \in Ids : row'[i].ep = row[i].ep /\ row'[i].st \in {row[i].st, "gone"}
      BY <1>0, <2>1 DEF Row
    <2> QED BY <2>1, <2>2, <2>3 DEF OneRowPerEndpoint, Live
  <1> QED BY <1>1, <1>2, <1>3, <1>4 DEF Resume

-----------------------------------------------------------------------------
(* The senders.                                                            *)

\* What the commit of a sender writes: rows of the same browser and account, none
\* of them live again, what it dropped gone and what it touched used.
LEMMA WrittenRows ==
    ASSUME row \in [Ids -> Row], NEW t \in Task
    PROVE  /\ Written(t) \in [Ids -> Row]
           /\ \A i \in Ids :
                 /\ Written(t)[i].ep = row[i].ep /\ Written(t)[i].of = row[i].of
                 /\ Written(t)[i].st \in {row[i].st, "gone"}
                 /\ i \in t.drop => Written(t)[i].st = "gone"
                 /\ i \in t.touch \ t.drop => Written(t)[i].used
  <1>1. ASSUME NEW i \in Ids
        PROVE  /\ Written(t)[i] \in Row
               /\ Written(t)[i].ep = row[i].ep /\ Written(t)[i].of = row[i].of
               /\ Written(t)[i].st \in {row[i].st, "gone"}
               /\ i \in t.drop => Written(t)[i].st = "gone"
               /\ i \in t.touch \ t.drop => Written(t)[i].used
    <2>0. row[i] \in Row
      OBVIOUS
    <2>1. CASE i \in t.drop
      <3>1. Written(t)[i] = [row[i] EXCEPT !.st = "gone"]
        BY <2>1 DEF Written
      <3> QED BY <2>0, <2>1, <3>1 DEF Row
    <2>2. CASE i \notin t.drop /\ i \in t.touch
      <3>1. Written(t)[i] = [row[i] EXCEPT !.used = TRUE]
        BY <2>2 DEF Written
      <3> QED BY <2>0, <2>2, <3>1 DEF Row
    <2>3. CASE i \notin t.drop /\ i \notin t.touch
      BY <2>0, <2>3 DEF Written
    <2> QED BY <2>1, <2>2, <2>3
  <1>2. Written(t) = [i \in Ids |-> Written(t)[i]]
    BY DEF Written
  <1> QED BY <1>1, <1>2

\* A sender with the outcome of one more device.
LEMMA NotedTyped ==
    ASSUME NEW t \in Task, NEW i \in t.todo, NEW outcome, Apart(t)
    PROVE  Noted(t, i, outcome) \in Task /\ Apart(Noted(t, i, outcome))
  <1> DEFINE rest == [t EXCEPT !.todo = @ \ {i},
                               !.at = IF t.todo = {i} THEN "commit" ELSE "send"]
  <1>1. /\ rest \in Task /\ rest.todo = t.todo \ {i} /\ rest.at # "select"
        /\ rest.touch = t.touch /\ rest.drop = t.drop /\ rest.report = t.report
    BY DEF Task
  <1>2. i \in Ids /\ i \notin t.touch /\ i \notin t.drop /\ i \notin t.report
    BY DEF Task, Apart
  <1> HIDE DEF rest
  <1>3. CASE outcome = "delivered"
    <2>1. Noted(t, i, outcome) = [rest EXCEPT !.touch = @ \cup {i}]
      BY <1>3 DEF Noted, rest
    <2> QED BY <1>1, <1>2, <2>1 DEF Task, Apart
  <1>4. CASE outcome = "dead"
    <2>1. Noted(t, i, outcome) = [rest EXCEPT !.drop = @ \cup {i}]
      BY <1>4 DEF Noted, rest
    <2> QED BY <1>1, <1>2, <2>1 DEF Task, Apart
  <1>5. CASE outcome # "delivered" /\ outcome # "dead"
    <2>1. Noted(t, i, outcome) = [rest EXCEPT !.report = @ \cup {i}]
      BY <1>5 DEF Noted, rest
    <2> QED BY <1>1, <1>2, <2>1 DEF Task, Apart
  <1> QED BY <1>3, <1>4, <1>5

LEMMA EndedTyped == Ended \in Task /\ Apart(Ended) /\ Ended.at = "ended"
  BY DEF Ended, Task, Apart

\* A step that changes one sender to a well-formed one keeps the others.
LEMMA OneTask ==
    ASSUME TypeOK, OutcomesApart, NEW n \in Tasks, NEW t \in Task, Apart(t),
           task' = [task EXCEPT ![n] = t]
    PROVE  task' \in [Tasks -> Task] /\ OutcomesApart'
  <1>1. task' \in [Tasks -> Task]
    BY DEF TypeOK
  <1>2. \A m \in Tasks : Apart(task'[m])
    BY DEF TypeOK, OutcomesApart
  <1> QED BY <1>1, <1>2 DEF OutcomesApart, Apart

\* Each step of a sender keeps the invariant.
LEMMA TaskStep ==
    ASSUME SendInv, NEW n \in Tasks,
           RunTask(n) \/ \E u \in Users : TaskCreated(n, u)
    PROVE  SendInv'
  <1>0. TypeOK /\ OneRowPerEndpoint /\ OutcomesApart
    BY DEF SendInv
  <1>a. task[n] \in Task /\ row \in [Ids -> Row] /\ Apart(task[n])
    BY <1>0 DEF TypeOK, OutcomesApart
  <1>1. ASSUME NEW t \in Task, Apart(t), task' = [task EXCEPT ![n] = t],
               UNCHANGED <<db, alive, req>>
        PROVE  SendInv'
    <2>1. task' \in [Tasks -> Task] /\ OutcomesApart'
      BY <1>0, <1>1, OneTask
    <2> QED BY <1>0, <1>1, <2>1 DEF SendInv, TypeOK, OneRowPerEndpoint, Live, db
  <1>2. ASSUME NEW u \in Users, TaskCreated(n, u) PROVE SendInv'
    <2>1. [Ended EXCEPT !.at = "select", !.to = u] \in Task
          /\ Apart([Ended EXCEPT !.at = "select", !.to = u])
      BY DEF Ended, Task, Apart
    <2> QED BY <1>1, <1>2, <2>1 DEF TaskCreated
  <1>3. CASE TaskSelect(n)
    <2> DEFINE due == {i \in Ids : Live(i) /\ row[i].of = task[n].to}
               t == IF due = {} THEN Ended
                    ELSE [task[n] EXCEPT !.at = "send", !.todo = due]
    <2>1. task' = [task EXCEPT ![n] = t] /\ UNCHANGED <<db, alive, req>>
      BY <1>0, <1>3 DEF TaskSelect, TypeOK
    <2>2. t \in Task /\ Apart(t)
      <3>1. CASE due = {}
        BY <3>1, EndedTyped
      <3>2. CASE due # {}
        <4>1. due \in SUBSET Ids /\ task[n].touch \cup task[n].drop \cup task[n].report = {}
          BY <1>a, <1>3 DEF TaskSelect, Apart
        <4> HIDE DEF due
        <4> QED BY <1>a, <3>2, <4>1 DEF Task, Apart
      <3> QED BY <3>1, <3>2
    <2> HIDE DEF t
    <2> QED BY <1>1, <2>1, <2>2
  <1>4. CASE TaskSend(n)
    <2>0. PICK i \in task[n].todo : \E o \in Outcomes(i) :
             task' = [task EXCEPT ![n] = IF o = "raised" THEN Ended
                                         ELSE Noted(task[n], i, o)]
      BY <1>0, <1>4 DEF TaskSend, TypeOK
    <2>1. PICK outcome \in Outcomes(i) :
             task' = [task EXCEPT ![n] = IF outcome = "raised" THEN Ended
                                         ELSE Noted(task[n], i, outcome)]
      BY <2>0
    <2>2. UNCHANGED <<db, alive, req>>
      BY <1>4 DEF TaskSend
    <2>3. CASE outcome = "raised"
      BY <1>1, <2>1, <2>2, <2>3, EndedTyped
    <2>4. CASE outcome # "raised"
      <3>1. Noted(task[n], i, outcome) \in Task /\ Apart(Noted(task[n], i, outcome))
        BY <1>a, NotedTyped
      <3> QED BY <1>1, <2>1, <2>2, <2>4, <3>1
    <2> QED BY <2>3, <2>4
  <1>5. CASE TaskCommit(n)
    <2>1. task' = [task EXCEPT ![n] = Ended] /\ UNCHANGED <<alive, req>>
      BY <1>5 DEF TaskCommit
    <2>2. task' \in [Tasks -> Task] /\ OutcomesApart'
      BY <1>0, <2>1, EndedTyped, OneTask
    <2>3. CASE UNCHANGED db
      BY <1>1, <2>1, <2>3, EndedTyped
    <2>4. CASE row' = Written(task[n]) /\ reported' = reported \cup task[n].report
      <3>1. /\ row' \in [Ids -> Row]
            /\ \A i \in Ids : row'[i].ep = row[i].ep /\ row'[i].st \in {row[i].st, "gone"}
        BY <1>a, <2>4, WrittenRows
      <3>2. reported' \subseteq Ids
        BY <1>0, <1>a, <2>4 DEF TypeOK, Task
      <3>3. OneRowPerEndpoint'
        BY <1>0, <3>1 DEF OneRowPerEndpoint, Live
      <3> QED BY <1>0, <2>1, <2>2, <3>1, <3>2, <3>3 DEF SendInv, TypeOK
    <2> QED BY <1>5, <2>3, <2>4 DEF TaskCommit
  <1> QED BY <1>2, <1>3, <1>4, <1>5 DEF RunTask

-----------------------------------------------------------------------------
(* The theorems.                                                           *)

LEMMA InitInv == Init => SendInv
  <1> SUFFICES ASSUME Init PROVE SendInv
    OBVIOUS
  <1>1. TypeOK
    <2>1. Idle \in Request
      BY DEF Idle, Request, Codes
    <2>2. [st |-> "unused", ep |-> None, of |-> None, used |-> FALSE] \in Row
      BY DEF Row
    <2> QED BY <2>1, <2>2, EndedTyped DEF Init, TypeOK
  <1>2. OneRowPerEndpoint
    BY DEF Init, OneRowPerEndpoint, Live
  <1>3. OutcomesApart
    BY EndedTyped DEF Init, OutcomesApart
  <1> QED BY <1>1, <1>2, <1>3 DEF SendInv

LEMMA StepInv == SendInv /\ [Next]_vars => SendInv'
  <1> SUFFICES ASSUME SendInv, [Next]_vars PROVE SendInv'
    OBVIOUS
  <1>0. TypeOK /\ OneRowPerEndpoint /\ OutcomesApart
    BY DEF SendInv
  <1>1. ASSUME NEW r \in Requests, Arrive(r) PROVE SendInv'
    <2>1. req' \in [Requests -> Request] /\ UNCHANGED <<db, alive, task>>
      BY <1>0, <1>1, ArriveTyped
    <2> QED BY <1>0, <2>1 DEF SendInv, TypeOK, OneRowPerEndpoint, OutcomesApart, Apart,
                               Live, db
  <1>2. ASSUME NEW r \in Requests, Resume(r) PROVE SendInv'
    <2>1. /\ req' \in [Requests -> Request] /\ row' \in [Ids -> Row]
          /\ OneRowPerEndpoint' /\ UNCHANGED <<reported, alive, task>>
      BY <1>0, <1>2, ResumeRows
    <2> QED BY <1>0, <2>1 DEF SendInv, TypeOK, OutcomesApart, Apart
  <1>3. ASSUME NEW n \in Tasks, RunTask(n) \/ \E u \in Users : TaskCreated(n, u)
        PROVE  SendInv'
    BY <1>3, TaskStep
  <1>4. ASSUME NEW e \in Endpoints, EndpointDies(e) PROVE SendInv'
    BY <1>0, <1>4 DEF EndpointDies, SendInv, TypeOK, OneRowPerEndpoint, OutcomesApart,
                      Apart, Live, db
  <1>5. CASE CommitFails
    <2>0. UNCHANGED <<db, alive>>
      BY <1>5 DEF CommitFails
    <2>1. ASSUME NEW r \in Requests, Answer(r, "commit_error"), UNCHANGED task
          PROVE  SendInv'
      <3>1. req' \in [Requests -> Request]
        BY <1>0, <2>1, AnswerTyped DEF Codes
      <3> QED BY <1>0, <2>0, <2>1, <3>1 DEF SendInv, TypeOK, OneRowPerEndpoint,
                                            OutcomesApart, Apart, Live, db
    <2>2. ASSUME NEW n \in Tasks, task' = [task EXCEPT ![n] = Ended], UNCHANGED req
          PROVE  SendInv'
      <3>1. task' \in [Tasks -> Task] /\ OutcomesApart'
        BY <1>0, <2>2, EndedTyped, OneTask
      <3> QED BY <1>0, <2>0, <2>2, <3>1 DEF SendInv, TypeOK, OneRowPerEndpoint, Live, db
    <2> QED BY <1>5, <2>1, <2>2 DEF CommitFails
  <1>6. CASE Crash
    <2>1. /\ req' = [r \in Requests |-> IF req[r].at = "answered" THEN req[r] ELSE Idle]
          /\ task' = [n \in Tasks |-> Ended] /\ UNCHANGED <<db, alive>>
      BY <1>6 DEF Crash
    <2>2. Idle \in Request
      BY DEF Idle, Request, Codes
    <2>3. req' \in [Requests -> Request] /\ task' \in [Tasks -> Task]
      BY <1>0, <2>1, <2>2, EndedTyped DEF TypeOK
    <2>4. OutcomesApart'
      <3>1. \A n \in Tasks : task'[n] = Ended
        BY <2>1
      <3> QED BY <3>1, EndedTyped DEF OutcomesApart, Apart
    <2> QED BY <1>0, <2>1, <2>3, <2>4 DEF SendInv, TypeOK, OneRowPerEndpoint, Live, db
  <1>7. CASE UNCHANGED vars
    BY <1>0, <1>7 DEF vars, db, SendInv, TypeOK, OneRowPerEndpoint, OutcomesApart, Apart, Live
  <1> QED BY <1>1, <1>2, <1>3, <1>4, <1>5, <1>6, <1>7 DEF Next

\* The invariant of the proofs holds in every reachable state.
THEOREM Invariance == Spec => []SendInv
  BY InitInv, StepInv, PTL DEF Spec

\* Every variable keeps its type (the tables and locals of the push routes).
THEOREM TypeCorrect == Spec => []TypeOK
  <1>1. SendInv => TypeOK
    BY DEF SendInv
  <1> QED BY <1>1, Invariance, PTL

\* However subscribes race, a browser has one row (subscribe, UNIQUE endpoint).
THEOREM OneRow == Spec => []OneRowPerEndpoint
  <1>1. SendInv => OneRowPerEndpoint
    BY DEF SendInv
  <1> QED BY <1>1, Invariance, PTL

\* What the end of a sender at its commit does to the tables: nothing, or all it
\* has gathered (send_push).
LEMMA CommitStep ==
    ASSUME SendInv, [Next]_vars, NEW n \in Tasks, Commits(n)
    PROVE  \/ UNCHANGED db
           \/ row' = Written(task[n]) /\ reported' = reported \cup task[n].report
  <1>0. TypeOK
    BY DEF SendInv
  <1>1. task[n].at = "commit" /\ task'[n].at = "ended"
    BY DEF Commits
  <1>2. ASSUME NEW r \in Requests, Arrive(r) PROVE FALSE
    <2>1. UNCHANGED task
      BY <1>0, <1>2, ArriveTyped
    <2> QED BY <1>1, <2>1
  <1>3. ASSUME NEW r \in Requests, Resume(r) PROVE FALSE
    <2>1. UNCHANGED task
      BY <1>0, <1>3, ResumeRows DEF SendInv
    <2> QED BY <1>1, <2>1
  <1>4. ASSUME NEW m \in Tasks, RunTask(m) \/ \E u \in Users : TaskCreated(m, u)
        PROVE  \/ UNCHANGED db
               \/ row' = Written(task[n]) /\ reported' = reported \cup task[n].report
    <2>1. m = n \/ ~TaskCommit(m)
      BY <1>0, <1>1 DEF TaskCommit, TypeOK
    <2> QED BY <1>4, <2>1 DEF RunTask, TaskSelect, TaskSend, TaskCommit, TaskCreated, db
  <1>5. ASSUME NEW e \in Endpoints, EndpointDies(e) PROVE UNCHANGED db
    BY <1>5 DEF EndpointDies
  <1>6. CASE CommitFails
    BY <1>6 DEF CommitFails
  <1>7. CASE Crash
    BY <1>7 DEF Crash
  <1>8. CASE UNCHANGED vars
    BY <1>8 DEF vars
  <1> QED BY <1>2, <1>3, <1>4, <1>5, <1>6, <1>7, <1>8 DEF Next

\* A sender never gives a browser back to its former account nor revives a row
\* (push.py writes last_used_at alone).
THEOREM TenantSafe == Spec => SenderKeepsTenant
  <1>1. SendInv /\ [Next]_vars =>
          [\A n \in Tasks : Commits(n) =>
             \A i \in Ids : /\ row'[i].of = row[i].of
                            /\ row'[i].st = "live" => Live(i)]_vars
    <2> SUFFICES ASSUME SendInv, [Next]_vars, NEW n \in Tasks, Commits(n), NEW i \in Ids
                 PROVE  row'[i].of = row[i].of /\ (row'[i].st = "live" => Live(i))
      OBVIOUS
    <2>1. row \in [Ids -> Row] /\ task[n] \in Task
      BY DEF SendInv, TypeOK
    <2>2. CASE UNCHANGED db
      BY <2>2 DEF db, Live
    <2>3. CASE row' = Written(task[n])
      BY <2>1, <2>3, WrittenRows DEF Live
    <2> QED BY <2>2, <2>3, CommitStep
  <1> QED BY <1>1, Invariance, PTL DEF Spec, SenderKeepsTenant

\* The outcomes of one sender are committed together or not at all (the single
\* commit at the end of send_push).
THEOREM SendAtomic == Spec => SendIsAllOrNothing
  <1>1. SendInv /\ [Next]_vars =>
          [\A n \in Tasks : Commits(n) =>
             \/ UNCHANGED db
             \/ /\ \A i \in task[n].drop : row'[i].st = "gone"
                /\ \A i \in task[n].touch : row'[i].used
                /\ task[n].report \subseteq reported']_vars
    <2> SUFFICES ASSUME SendInv, [Next]_vars, NEW n \in Tasks, Commits(n)
                 PROVE  \/ UNCHANGED db
                        \/ /\ \A i \in task[n].drop : row'[i].st = "gone"
                           /\ \A i \in task[n].touch : row'[i].used
                           /\ task[n].report \subseteq reported'
      OBVIOUS
    <2>1. row \in [Ids -> Row] /\ task[n] \in Task /\ Apart(task[n])
      BY DEF SendInv, TypeOK, OutcomesApart
    <2>2. ASSUME row' = Written(task[n]), reported' = reported \cup task[n].report
          PROVE  /\ \A i \in task[n].drop : row'[i].st = "gone"
                 /\ \A i \in task[n].touch : row'[i].used
                 /\ task[n].report \subseteq reported'
      <3>1. /\ \A i \in Ids : i \in task[n].drop => row'[i].st = "gone"
            /\ \A i \in Ids : i \in task[n].touch \ task[n].drop => row'[i].used
        BY <2>1, <2>2, WrittenRows
      <3>2. task[n].drop \subseteq Ids /\ task[n].touch \subseteq Ids
        BY <2>1 DEF Task
      <3>3. task[n].touch \cap task[n].drop = {}
        BY <2>1 DEF Apart
      <3> QED BY <2>2, <3>1, <3>2, <3>3
    <2> QED BY <2>2, CommitStep
  <1> QED BY <1>1, Invariance, PTL DEF Spec, SendIsAllOrNothing

-----------------------------------------------------------------------------
(* The browser's side, BrowserPush: for every set of accounts, handlers,    *)
(* documents and devices, any number of endpoints and of clicks.           *)

\* What a handler may rely on across its awaits.  The client of one that the session
\* of the tab started speaks for who is signed in; the endpoint it is about to
\* register was made for that account; and while it is on its way from a
\* subscription that is not the browser's any more to a new one, the row of the one
\* there is has no owner but its own account or one with a session.
HandlerFits(k, who, open, current, made, table) ==
    /\ k.token = "tab" => k.user = who
    /\ k.token = "left" => k.user \in open
    /\ k.kind = "remove" => k.id \in Rows
    /\ k.at \in {"register", "answered"} => k.ep \in 1..Len(made)
    /\ k.at = "register" /\ k.token = "tab" => made[k.ep] = k.user
    /\ /\ k.token = "tab" /\ current # None
       /\ k.at = "subscribe" \/ (k.at = "drop" /\ k.ep # current)
       => table[current] \in {None, who} \cup open

HandlersFit ==
    \A c \in Calls : call[c] # None => HandlerFits(call[c], user, left, sub, asker, rows)

HandshakeTypes ==
    /\ page \in {"out", "dashboard", "settings"} /\ user \in Perhaps(Users)
    /\ call \in [Calls -> Perhaps(Call)]
    /\ sub \in Perhaps(MadeEndpoints)
    /\ asker \in Seq(Users) /\ Len(asker) <= MaxEndpoints
    /\ stored \in Perhaps(MadeEndpoints)
    /\ rows \in [Rows -> Perhaps(Users)]
    /\ left \subseteq Users

\* An endpoint that was not made yet is registered nowhere.
FreshRows == \A e \in Rows : e > Len(asker) => rows[e] = None

LiveRow == sub # None => rows[sub] \in {None, asker[sub]} \cup left

HandshakeInv ==
    /\ HandshakeTypes
    /\ user = None <=> page = "out"
    /\ HandlersFit /\ FreshRows /\ LiveRow

ScreenTypes == BannersTypeOK /\ set \in Settings /\ clicks \in 0..MaxClicks

\* What is left alone by a step that only concerns the screen.
handshakeVars == <<page, user, call, pushVars, left>>

-----------------------------------------------------------------------------
(* The handshakes.                                                         *)

LEMMA HandshakeFrame == ASSUME HandshakeInv, UNCHANGED handshakeVars PROVE HandshakeInv'
  BY DEF HandshakeInv, HandshakeTypes, HandlersFit, FreshRows, LiveRow, handshakeVars,
         pushVars, MadeEndpoints, Rows, Call, HandlerFits

\* A subscription that goes and rows that go take nothing from a handler.
LEMMA LessStillFits ==
    ASSUME NEW k, NEW who, NEW open, NEW made, NEW current, NEW later, NEW table, NEW after,
           HandlerFits(k, who, open, current, made, table),
           current # None => current \in Rows, later \in {current, None},
           \A e \in Rows : after[e] \in {table[e], None}
    PROVE  HandlerFits(k, who, open, later, made, after)
  BY DEF HandlerFits

\* A step of one handler that makes no subscription and registers none.
LEMMA HandlerStep ==
    ASSUME HandshakeInv, NEW c \in Calls, NEW k \in Perhaps(Call),
           MaxEndpoints \in Nat,
           call' = [call EXCEPT ![c] = k],
           k # None => HandlerFits(k, user, left, sub', asker, rows),
           sub' \in {sub, None}, stored' \in Perhaps(MadeEndpoints),
           rows' \in [Rows -> Perhaps(Users)],
           \A e \in Rows : rows'[e] \in {rows[e], None},
           UNCHANGED <<page, user, asker, left>>
    PROVE  HandshakeInv'
  <1>1. sub # None => sub \in Rows
    BY DEF HandshakeInv, HandshakeTypes, MadeEndpoints, Rows, Perhaps
  <1>2. HandshakeTypes'
    BY DEF HandshakeInv, HandshakeTypes, MadeEndpoints, Rows, Call
  <1>3. HandlersFit'
    <2> SUFFICES ASSUME NEW d \in Calls, call'[d] # None
                 PROVE  HandlerFits(call'[d], user, left, sub', asker, rows')
      BY DEF HandlersFit, HandlerFits, Rows
    <2>1. \A e \in Rows : rows[e] \in {rows[e], None}
      OBVIOUS
    <2>2. sub' # None => sub' \in Rows
      BY <1>1
    <2>3. CASE d = c
      <3>1. call'[d] = k
        BY <2>3 DEF HandshakeInv, HandshakeTypes
      <3> QED BY <3>1, <2>2, LessStillFits
    <2>4. CASE d # c
      <3>1. call'[d] = call[d]
        BY <2>4 DEF HandshakeInv, HandshakeTypes
      <3>2. HandlerFits(call[d], user, left, sub, asker, rows)
        BY <3>1 DEF HandshakeInv, HandlersFit
      <3> QED BY <3>1, <3>2, <1>1, LessStillFits
    <2> QED BY <2>3, <2>4
  <1>4. FreshRows' /\ LiveRow'
    BY <1>1 DEF HandshakeInv, FreshRows, LiveRow, Rows
  <1> QED BY <1>2, <1>3, <1>4 DEF HandshakeInv

\* A record with several fields set, as one with them set one after the other.
EpAndAt(k, e, stage) == [[k EXCEPT !.ep = e] EXCEPT !.at = stage]

LEMMA EpAndAtSet ==
    ASSUME NEW k \in Call, NEW e, NEW stage
    PROVE  [k EXCEPT !.ep = e, !.at = stage] = EpAndAt(k, e, stage)
  BY DEF Call, EpAndAt

\* Handlers begin, go to another stage, or end.
LEMMA BeginKeeps ==
    ASSUME HandshakeInv, MaxEndpoints \in Nat, NEW c \in Calls,
           On("dashboard") \/ On("settings"),
           NEW kind \in {"enable", "prompt", "disable", "remove", "install"},
           NEW stage \in {"ask", "ready", "local", "delete", "choice"},
           NEW id \in Perhaps(Rows), kind = "remove" => id \in Rows,
           Begin(c, kind, stage, id)
    PROVE  HandshakeInv'
  <1> DEFINE k == [kind |-> kind, live |-> TRUE, token |-> "tab", user |-> user,
                   at |-> stage, ep |-> None, id |-> id]
  <1>1. user \in Users
    BY DEF HandshakeInv, HandshakeTypes, On, Perhaps
  <1>2. k \in Call
    BY <1>1 DEF Call, Stages, Perhaps
  <1>3. HandlerFits(k, user, left, sub, asker, rows)
    BY DEF HandlerFits
  <1>4. /\ call' = [call EXCEPT ![c] = k]
        /\ UNCHANGED <<page, user, pushVars, left>>
    BY DEF Begin
  <1> HIDE DEF k
  <1>5. k \in Perhaps(Call)
    BY <1>2 DEF Perhaps
  <1> QED BY <1>3, <1>4, <1>5, HandlerStep DEF HandshakeInv, HandshakeTypes, pushVars

LEMMA EndKeeps ==
    ASSUME HandshakeInv, MaxEndpoints \in Nat, NEW c \in Calls, End(c),
           UNCHANGED <<page, user, sub, asker, left>>, stored' \in Perhaps(MadeEndpoints),
           rows' \in [Rows -> Perhaps(Users)],
           \A e \in Rows : rows'[e] \in {rows[e], None}
    PROVE  HandshakeInv'
  BY HandlerStep DEF End, Perhaps

\* The stages at which a handler relies on nothing but its client.
LEMMA ToKeeps ==
    ASSUME HandshakeInv, MaxEndpoints \in Nat, NEW c \in Calls, call[c] # None,
           NEW stage \in Stages, To(c, stage),
           HandlerFits([call[c] EXCEPT !.at = stage], user, left, sub', asker, rows),
           UNCHANGED <<page, user, asker, left>>,
           sub' \in {sub, None}, stored' \in Perhaps(MadeEndpoints),
           rows' \in [Rows -> Perhaps(Users)],
           \A e \in Rows : rows'[e] \in {rows[e], None}
    PROVE  HandshakeInv'
  <1>1. call[c] \in Call
    BY DEF HandshakeInv, HandshakeTypes, Perhaps
  <1>2. [call[c] EXCEPT !.at = stage] \in Perhaps(Call)
    BY <1>1 DEF Call, Perhaps
  <1>3. call' = [call EXCEPT ![c] = [call[c] EXCEPT !.at = stage]]
    BY DEF To
  <1> QED BY <1>2, <1>3, HandlerStep

LEMMA Fitting ==
    ASSUME HandshakeInv, NEW c \in Calls, call[c] # None
    PROVE  call[c] \in Call /\ HandlerFits(call[c], user, left, sub, asker, rows)
  BY DEF HandshakeInv, HandshakeTypes, HandlersFit, Perhaps

\* A new subscription is for the account of its handler and registered nowhere; the
\* one there is becomes that of who is signed in, whose row it may have already.
LEMMA SubscribedKeeps ==
    ASSUME HandshakeInv, MaxEndpoints \in Nat, NEW c \in Calls, Subscribed(c)
    PROVE  HandshakeInv'
  <1> DEFINE k == [call[c] EXCEPT !.at = "register", !.ep = sub']
             q == [[call[c] EXCEPT !.at = "register"] EXCEPT !.ep = sub']
  <1>1. /\ call[c] # None /\ call[c].kind \in Subscribers /\ call[c].at = "subscribe"
        /\ UNCHANGED <<page, user, rows, left, stored>>
        /\ call' = [call EXCEPT ![c] = k]
    BY DEF Subscribed, Is
  <1>2. call[c] \in Call /\ HandlerFits(call[c], user, left, sub, asker, rows)
    BY <1>1, Fitting
  <1>3. sub' \in 1..Len(asker') /\ asker' \in Seq(Users) /\ Len(asker') <= MaxEndpoints
        /\ Len(asker) <= Len(asker')
    <2>1. CASE sub = None /\ Len(asker) < MaxEndpoints
               /\ asker' = Append(asker, call[c].user) /\ sub' = Len(asker')
      <3>1. call[c].user \in Users
        BY <1>2 DEF Call
      <3>2. asker' \in Seq(Users) /\ Len(asker') = Len(asker) + 1 /\ Len(asker) \in Nat
        BY <2>1, <3>1 DEF HandshakeInv, HandshakeTypes
      <3> QED BY <2>1, <3>2
    <2>2. CASE /\ sub # None /\ UNCHANGED sub
               /\ asker' = [asker EXCEPT ![sub] = IF call[c].token = "tab" THEN user ELSE @]
      <3>1. sub \in 1..Len(asker) /\ asker \in Seq(Users) /\ Len(asker) <= MaxEndpoints
        BY <2>2 DEF HandshakeInv, HandshakeTypes, MadeEndpoints, Perhaps
      <3>2. (IF call[c].token = "tab" THEN user ELSE asker[sub]) \in Users
        BY <1>2, <3>1 DEF HandlerFits, Call
      <3> QED BY <2>2, <3>1, <3>2
    <2> QED BY <2>1, <2>2 DEF Subscribed
  <1>4. k = q
    BY <1>2 DEF Call
  <1>5. q \in Call /\ q.kind = call[c].kind /\ q.token = call[c].token
        /\ q.user = call[c].user /\ q.at = "register" /\ q.ep = sub'
    <2>1. sub' \in Perhaps(Rows)
      BY <1>3 DEF Perhaps, Rows
    <2> QED BY <1>2, <2>1 DEF Call, Stages
  <1>6. q.token = "tab" => asker'[sub'] = q.user
    BY <1>2, <1>5
       DEF Subscribed, HandshakeInv, HandshakeTypes, MadeEndpoints, Perhaps,
           HandlerFits, Call
  <1>7. HandlerFits(q, user, left, sub', asker', rows)
    BY <1>1, <1>2, <1>3, <1>5, <1>6 DEF HandlerFits, Subscribers
  <1> HIDE DEF k, q
  <1>8. HandshakeTypes'
    BY <1>1, <1>3, <1>4, <1>5
       DEF HandshakeInv, HandshakeTypes, MadeEndpoints, Perhaps, Rows, Call
  <1>9. CASE sub = None
    <2>1. asker' = Append(asker, call[c].user) /\ sub' = Len(asker) + 1 /\ rows[sub'] = None
      BY <1>9, <1>3, <1>2
         DEF Subscribed, HandshakeInv, HandshakeTypes, FreshRows, Rows, Call
    <2>2. \A e \in 1..Len(asker) : asker'[e] = asker[e]
      BY <2>1, <1>2 DEF HandshakeInv, HandshakeTypes, Call
    <2>3. ASSUME NEW d \in Calls, d # c, call[d] # None
          PROVE  HandlerFits(call[d], user, left, sub', asker', rows)
      BY <2>1, <2>2, <2>3, <1>3, Fitting DEF HandlerFits, HandshakeInv, HandshakeTypes
    <2>4. HandlersFit'
      BY <2>3, <1>1, <1>4, <1>7
         DEF HandlersFit, HandshakeInv, HandshakeTypes, HandlerFits, Rows
    <2>5. FreshRows' /\ LiveRow'
      BY <2>1, <1>1, <1>3 DEF HandshakeInv, HandshakeTypes, FreshRows, LiveRow, Rows
    <2> QED BY <2>4, <2>5, <1>1, <1>8 DEF HandshakeInv
  <1>10. CASE sub # None
    <2>1. /\ sub' = sub /\ sub \in 1..Len(asker)
          /\ asker' = [asker EXCEPT ![sub] = IF call[c].token = "tab" THEN user ELSE @]
      BY <1>10 DEF Subscribed, HandshakeInv, HandshakeTypes, MadeEndpoints, Perhaps
    <2>2. Len(asker') = Len(asker)
      BY <2>1 DEF HandshakeInv, HandshakeTypes
    <2>3. \A e \in 1..Len(asker) : asker'[e] = asker[e] \/ (asker'[e] = user /\ e = sub)
      BY <2>1 DEF HandshakeInv, HandshakeTypes
    <2>4. ASSUME NEW d \in Calls, d # c, call[d] # None
          PROVE  HandlerFits(call[d], user, left, sub', asker', rows)
      BY <2>1, <2>2, <2>3, <2>4, Fitting DEF HandlerFits
    <2>5. HandlersFit'
      BY <2>4, <1>1, <1>4, <1>7
         DEF HandlersFit, HandshakeInv, HandshakeTypes, HandlerFits, Rows
    <2>6. FreshRows'
      BY <2>2, <1>1 DEF HandshakeInv, FreshRows, Rows
    <2>7. LiveRow'
      <3>1. CASE call[c].token = "tab"
        <4>1. asker'[sub] = user
          BY <2>1, <3>1 DEF HandshakeInv, HandshakeTypes
        <4> QED BY <4>1, <3>1, <2>1, <1>1, <1>2, <1>10 DEF LiveRow, HandlerFits
      <3>2. CASE call[c].token # "tab"
        <4>1. asker'[sub] = asker[sub]
          BY <2>1, <3>2 DEF HandshakeInv, HandshakeTypes
        <4> QED BY <4>1, <2>1, <1>1 DEF LiveRow, HandshakeInv
      <3> QED BY <3>1, <3>2
    <2> QED BY <2>5, <2>6, <2>7, <1>1, <1>8 DEF HandshakeInv
  <1> QED BY <1>9, <1>10

\* A row is written for an account that is signed in or left a session: if it is the
\* live one, it is that account's who asked, or one's with a session.
LEMMA RegisteredKeeps ==
    ASSUME HandshakeInv, MaxEndpoints \in Nat, NEW c \in Calls, Registered(c)
    PROVE  HandshakeInv'
  <1> DEFINE k == [call[c] EXCEPT !.at = "answered"]
             e == call[c].ep
             owner == call[c].user
  <1>1. /\ call[c] # None /\ call[c].kind \in Subscribers /\ call[c].at = "register"
        /\ call[c].token # "ended"
        /\ UNCHANGED <<page, user, sub, asker, stored, left>>
        /\ rows' = [rows EXCEPT ![e] = owner]
        /\ call' = [call EXCEPT ![c] = k]
    BY DEF Registered, Is, Accepted, To
  <1>2. call[c] \in Call /\ HandlerFits(call[c], user, left, sub, asker, rows)
    BY <1>1, Fitting
  <1>3. /\ owner \in Users /\ e \in 1..Len(asker) /\ e \in Rows
        /\ call[c].token \in {"tab", "left"}
    BY <1>1, <1>2 DEF Call, HandlerFits, HandshakeInv, HandshakeTypes, Rows
  <1>4. (owner = user /\ asker[e] = owner) \/ owner \in left
    BY <1>1, <1>2, <1>3 DEF HandlerFits
  <1>5. k \in Call /\ k.kind = call[c].kind /\ k.token = call[c].token
        /\ k.user = owner /\ k.at = "answered" /\ k.ep = e
    BY <1>2 DEF Call, Stages
  <1> HIDE DEF k, e, owner
  <1>6. HandshakeTypes'
    BY <1>1, <1>3, <1>5
       DEF HandshakeInv, HandshakeTypes, MadeEndpoints, Perhaps, Rows, Call
  <1>7. /\ rows'[e] = owner
        /\ \A f \in Rows : f # e => rows'[f] = rows[f]
    BY <1>1, <1>3 DEF HandshakeInv, HandshakeTypes
  <1>8. sub # None => sub \in Rows
    BY DEF HandshakeInv, HandshakeTypes, MadeEndpoints, Rows, Perhaps
  <1>9. HandlersFit'
    <2> SUFFICES ASSUME NEW d \in Calls, call'[d] # None
                 PROVE  HandlerFits(call'[d], user, left, sub, asker, rows')
      BY <1>1 DEF HandlersFit, HandlerFits, Rows
    <2>1. CASE d = c
      <3>1. call'[d] = k
        BY <2>1, <1>1 DEF HandshakeInv, HandshakeTypes
      <3> QED BY <3>1, <1>1, <1>2, <1>3, <1>5 DEF HandlerFits, Subscribers, e, owner
    <2>2. CASE d # c
      <3>1. call'[d] = call[d]
        BY <2>2, <1>1 DEF HandshakeInv, HandshakeTypes
      <3> QED BY <3>1, <1>4, <1>7, <1>8, Fitting DEF HandlerFits
    <2> QED BY <2>1, <2>2
  <1>10. FreshRows'
    BY <1>1, <1>3, <1>7 DEF HandshakeInv, HandshakeTypes, FreshRows, Rows
  <1>11. LiveRow'
    BY <1>1, <1>4, <1>7, <1>8 DEF HandshakeInv, LiveRow
  <1> QED BY <1>1, <1>6, <1>9, <1>10, <1>11 DEF HandshakeInv

LEMMA HandlerKeeps ==
    ASSUME HandshakeInv, MaxEndpoints \in Nat, NEW c \in Calls, Handler(c)
    PROVE  HandshakeInv'
  <1> USE DEF Is
  <1>a. UNCHANGED rows => rows' \in [Rows -> Perhaps(Users)]
                          /\ \A e \in Rows : rows'[e] \in {rows[e], None}
    BY DEF HandshakeInv, HandshakeTypes
  <1>b. UNCHANGED <<stored, asker>> => stored' \in Perhaps(MadeEndpoints)
    BY DEF HandshakeInv, HandshakeTypes
  <1>c. call[c] # None =>
            call[c] \in Call /\ HandlerFits(call[c], user, left, sub, asker, rows)
    BY Fitting
  <1>d. ASSUME NEW gone \in SUBSET Rows,
               rows' = [e \in Rows |-> IF e \in gone THEN None ELSE rows[e]]
        PROVE  /\ rows' \in [Rows -> Perhaps(Users)]
               /\ \A e \in Rows : rows'[e] \in {rows[e], None}
    BY <1>d DEF HandshakeInv, HandshakeTypes, Perhaps
  <1>e. sub \in Perhaps(Rows) /\ stored \in Perhaps(Rows)
    BY DEF HandshakeInv, HandshakeTypes, Perhaps, MadeEndpoints, Rows
  <1>1. CASE KeyFetched(c)
    <2>1. HandlerFits([call[c] EXCEPT !.at = "existing"], user, left, sub, asker, rows)
      BY <1>1, <1>c DEF KeyFetched, HandlerFits, Call
    <2> QED BY <2>1, <1>1, <1>a, <1>b, ToKeeps DEF KeyFetched, pushVars, Stages
  <1>2. CASE ExistingFound(c)
    <2> DEFINE stage == IF sub = None THEN "subscribe" ELSE "drop"
               k == [call[c] EXCEPT !.ep = sub, !.at = stage]
    <2>1. stage \in Stages /\ call[c] \in Call
      BY <1>2, <1>c DEF ExistingFound, Stages
    <2>2. k = EpAndAt(call[c], sub, stage)
      BY <2>1, EpAndAtSet
    <2> HIDE DEF k, stage
    <2>6. /\ k \in Call /\ k.kind = call[c].kind /\ k.token = call[c].token
          /\ k.user = call[c].user /\ k.ep = sub /\ k.at = stage
      BY <2>1, <2>2, <1>e DEF EpAndAt, Call
    <2>3. call' = [call EXCEPT ![c] = k]
      BY <1>2 DEF ExistingFound, k, stage
    <2>4. HandlerFits(k, user, left, sub, asker, rows)
      BY <2>6, <1>2, <1>c DEF HandlerFits, ExistingFound, Subscribers, stage
    <2>5. k \in Perhaps(Call)
      BY <2>6 DEF Perhaps
    <2> QED BY <2>3, <2>4, <2>5, <1>2, <1>a, <1>b, HandlerStep
               DEF ExistingFound, pushVars
  <1>3. CASE ExistingDropped(c)
    <2>1. HandlerFits([call[c] EXCEPT !.at = "subscribe"], user, left, sub', asker, rows)
      BY <1>3, <1>c
         DEF ExistingDropped, Unsubscribed, HandlerFits, Call, Subscribers
    <2>2. sub' \in {sub, None} /\ UNCHANGED <<page, user, asker, left, rows, stored>>
      BY <1>3 DEF ExistingDropped, Unsubscribed
    <2> QED BY <2>1, <2>2, <1>3, <1>a, <1>b, ToKeeps DEF ExistingDropped, Stages
  <1>4. CASE Subscribed(c)
    BY <1>4, SubscribedKeeps
  <1>5. CASE Registered(c)
    BY <1>5, RegisteredKeeps
  <1>6. CASE Remembered(c)
    <2>1. /\ stored' \in Perhaps(MadeEndpoints)
          /\ UNCHANGED <<page, user, sub, asker, rows, left>>
      BY <1>6, <1>c DEF Remembered, HandlerFits, Perhaps, MadeEndpoints
    <2>2. HandlerFits([call[c] EXCEPT !.at = "refresh"], user, left, sub', asker, rows)
      BY <2>1, <1>6, <1>c DEF Remembered, HandlerFits, Call, Subscribers
    <2>3. CASE End(c)
      BY <2>1, <2>3, <1>a, EndKeeps
    <2>4. CASE To(c, "refresh")
      BY <2>1, <2>2, <2>4, <1>6, <1>a, ToKeeps DEF Remembered, Stages
    <2> QED BY <2>3, <2>4, <1>6 DEF Remembered
  <1>7. CASE DevicesListed(c)
    BY <1>7, <1>a, <1>b, EndKeeps DEF DevicesListed, pushVars
  <1>8. CASE HandlerFailed(c)
    BY <1>8, <1>a, <1>b, EndKeeps DEF HandlerFailed, pushVars
  <1>9. CASE LocalRead(c)
    <2> DEFINE stage == IF stored # None THEN "delete" ELSE "list"
               k == [call[c] EXCEPT !.ep = sub, !.id = stored, !.at = stage]
    <2>1. stage \in Stages /\ call[c] \in Call
      BY <1>9, <1>c DEF LocalRead, Stages
    <2>2. k = [[[call[c] EXCEPT !.ep = sub] EXCEPT !.id = stored] EXCEPT !.at = stage]
      BY <2>1 DEF Call
    <2> HIDE DEF k, stage
    <2>6. /\ k \in Call /\ k.kind = call[c].kind /\ k.token = call[c].token
          /\ k.user = call[c].user /\ k.at = stage
      BY <2>1, <2>2, <1>e DEF Call
    <2>3. call' = [call EXCEPT ![c] = k]
      BY <1>9 DEF LocalRead, k, stage
    <2>4. HandlerFits(k, user, left, sub, asker, rows)
      BY <2>6, <1>9, <1>c DEF HandlerFits, LocalRead, stage
    <2>5. k \in Perhaps(Call)
      BY <2>6 DEF Perhaps
    <2> QED BY <2>3, <2>4, <2>5, <1>9, <1>a, <1>b, HandlerStep
               DEF LocalRead, pushVars
  <1>10. CASE OnlyDeviceDeleted(c)
    <2>1. HandlerFits([call[c] EXCEPT !.at = "off"], user, left, sub, asker, rows)
      BY <1>10, <1>c DEF OnlyDeviceDeleted, HandlerFits, Call
    <2>2. PICK gone \in SUBSET Rows :
              rows' = [e \in Rows |-> IF e \in gone THEN None ELSE rows[e]]
      BY <1>10 DEF OnlyDeviceDeleted, Listed, Mine
    <2> QED BY <2>1, <2>2, <1>10, <1>b, <1>d, ToKeeps DEF OnlyDeviceDeleted, Stages
  <1>11. CASE StoredDeleted(c)
    <2>1. HandlerFits([call[c] EXCEPT !.at = "off"], user, left, sub, asker, rows)
      BY <1>11, <1>c DEF StoredDeleted, HandlerFits, Call
    <2>2. PICK gone \in SUBSET Rows :
              rows' = [e \in Rows |-> IF e \in gone THEN None ELSE rows[e]]
      BY <1>11 DEF StoredDeleted, Listed, Mine
    <2>3. stored' \in Perhaps(MadeEndpoints)
      BY <1>11 DEF StoredDeleted, Perhaps
    <2> QED BY <2>1, <2>2, <2>3, <1>11, <1>d, ToKeeps DEF StoredDeleted, Stages
  <1>12. CASE LocalDropped(c)
    <2>1. HandlerFits([call[c] EXCEPT !.at = "refresh"], user, left, sub', asker, rows)
      BY <1>12, <1>c DEF LocalDropped, HandlerFits, Call
    <2>2. sub' \in {sub, None} /\ UNCHANGED <<page, user, asker, left, rows, stored>>
      BY <1>12 DEF LocalDropped, Unsubscribed
    <2> QED BY <2>1, <2>2, <1>12, <1>a, <1>b, ToKeeps DEF LocalDropped, Stages
  <1>13. CASE DeviceRemoved(c)
    <2>1. /\ rows' \in [Rows -> Perhaps(Users)]
          /\ \A e \in Rows : rows'[e] \in {rows[e], None}
      BY <1>13, <1>c
         DEF DeviceRemoved, HandlerFits, HandshakeInv, HandshakeTypes, Perhaps
    <2> QED BY <2>1, <1>13, <1>b, EndKeeps DEF DeviceRemoved
  <1> QED BY <1>1, <1>2, <1>3, <1>4, <1>5, <1>6, <1>7, <1>8, <1>9, <1>10, <1>11, <1>12,
             <1>13
             DEF Handler

\* Nobody's handler speaks for the session of a tab without one, and a page that is
\* left takes nothing from a handler but its page.
LEMMA LeaveKeeps ==
    ASSUME HandshakeInv, call' = Leave,
           UNCHANGED <<pushVars, left>>,
           page' \in {"dashboard", "settings"}, user' \in Users, user \in {None, user'}
    PROVE  HandshakeInv'
  <1> USE DEF pushVars
  <1>1. ASSUME NEW d \in Calls, call'[d] # None
        PROVE  /\ call'[d] \in Call
               /\ HandlerFits(call'[d], user', left, sub, asker, rows)
    <2>1. call[d] # None /\ call'[d] = [call[d] EXCEPT !.live = FALSE]
      BY <1>1 DEF Leave
    <2>2. call[d] \in Call /\ HandlerFits(call[d], user, left, sub, asker, rows)
      BY <2>1, Fitting
    <2>3. call'[d] \in Call
      BY <2>1, <2>2 DEF Call
    <2>4. call[d].token = "tab" => user' = user
      BY <2>2, PushAssumption DEF HandlerFits, Call
    <2> QED BY <2>1, <2>2, <2>3, <2>4 DEF HandlerFits, Call
  <1>2. call' \in [Calls -> Perhaps(Call)]
    BY <1>1 DEF Leave, Perhaps
  <1>3. HandshakeTypes'
    BY <1>2 DEF HandshakeInv, HandshakeTypes, MadeEndpoints, Perhaps, Rows, Call
  <1>4. HandlersFit'
    BY <1>1 DEF HandlersFit, HandlerFits, Rows
  <1>5. FreshRows' /\ LiveRow'
    BY DEF HandshakeInv, FreshRows, LiveRow, Rows
  <1>6. user' # None /\ page' # "out"
    BY PushAssumption
  <1> QED BY <1>3, <1>4, <1>5, <1>6 DEF HandshakeInv

\* The clients of the session that goes are of one that has ended, or of one that
\* the server still holds.
LEMMA LogoutKeeps == ASSUME HandshakeInv, Logout PROVE HandshakeInv'
  <1>1. PICK ended \in BOOLEAN :
          /\ left' = IF ended THEN left ELSE left \cup {user}
          /\ call' = [c \in Calls |-> IF call[c] = None THEN None ELSE
                        [call[c] EXCEPT !.live = FALSE,
                            !.token = IF @ # "tab" THEN @
                                      ELSE IF ended THEN "ended" ELSE "left"]]
    BY DEF Logout
  <1>2. /\ user \in Users /\ user' = None /\ page' = "out"
        /\ UNCHANGED <<sub, asker, stored, rows>>
    BY DEF Logout, Show, HandshakeInv, HandshakeTypes, Perhaps, pushVars
  <1>3. ASSUME NEW d \in Calls, call'[d] # None
        PROVE  /\ call'[d] \in Call
               /\ HandlerFits(call'[d], user', left', sub, asker, rows)
    <2> DEFINE token == IF call[d].token # "tab" THEN call[d].token
                        ELSE IF ended THEN "ended" ELSE "left"
    <2>1. call[d] # None /\ call'[d] = [call[d] EXCEPT !.live = FALSE, !.token = token]
      BY <1>1, <1>3
    <2>2. call[d] \in Call /\ HandlerFits(call[d], user, left, sub, asker, rows)
      BY <2>1, Fitting
    <2>3. [call[d] EXCEPT !.live = FALSE, !.token = token]
              = [[call[d] EXCEPT !.live = FALSE] EXCEPT !.token = token]
      BY <2>2 DEF Call
    <2>4. token \in {"left", "ended"} /\ (token = "left" => call[d].user \in left')
      BY <2>2, <1>1, <1>2 DEF Call, HandlerFits
    <2> HIDE DEF token
    <2> QED BY <2>1, <2>2, <2>3, <2>4 DEF HandlerFits, Call
  <1>4. call' \in [Calls -> Perhaps(Call)]
    BY <1>1, <1>3 DEF Perhaps
  <1>5. left \subseteq left' /\ left' \subseteq Users
    BY <1>1, <1>2 DEF HandshakeInv, HandshakeTypes
  <1>6. HandshakeTypes'
    BY <1>2, <1>4, <1>5
       DEF HandshakeInv, HandshakeTypes, MadeEndpoints, Perhaps, Rows, Call
  <1>7. HandlersFit'
    BY <1>2, <1>3 DEF HandlersFit, HandlerFits, Rows
  <1>8. FreshRows' /\ LiveRow'
    BY <1>2, <1>5 DEF HandshakeInv, FreshRows, LiveRow, Rows
  <1> QED BY <1>2, <1>6, <1>7, <1>8 DEF HandshakeInv

LEMMA ReloadKeeps == ASSUME HandshakeInv, UpdateReload PROVE HandshakeInv'
  <1>1. /\ call' = [c \in Calls |-> None] /\ UNCHANGED pushVars
        /\ page' = "out" /\ user' = None /\ left' = left \cup ({user} \ {None})
    BY DEF UpdateReload, HasSession
  <1>2. HandshakeTypes'
    BY <1>1
       DEF HandshakeInv, HandshakeTypes, MadeEndpoints, Perhaps, Rows, pushVars
  <1>3. HandlersFit'
    BY <1>1 DEF HandlersFit
  <1>4. left' \cup ({user'} \ {None}) = left \cup ({user} \ {None})
    BY <1>1
  <1>5. FreshRows' /\ LiveRow'
    BY <1>1, <1>4 DEF HandshakeInv, FreshRows, LiveRow, Rows, pushVars
  <1> QED BY <1>1, <1>2, <1>3, <1>5 DEF HandshakeInv

LEMMA HandshakeStep ==
    ASSUME HandshakeInv, ScreenTypes,
           [WebNext]_webVars
    PROVE  HandshakeInv'
  <1>a. MaxEndpoints \in Nat
    BY PushAssumption
  <1>b. UNCHANGED tab => UNCHANGED handshakeVars
    BY DEF tab, handshakeVars
  <1>1. ASSUME NEW u \in Users, SignIn(u) PROVE HandshakeInv'
    BY <1>1, LeaveKeeps DEF SignIn, Show, HandshakeInv
  <1>2. ASSUME NEW p \in {"dashboard", "settings"}, Navigate(p) PROVE HandshakeInv'
    BY <1>2, LeaveKeeps
       DEF Navigate, Show, HandshakeInv, HandshakeTypes, Perhaps
  <1>3. ASSUME NEW d \in Perhaps(Docs), NotificationClick(d) PROVE HandshakeInv'
    BY <1>3, HandshakeFrame DEF NotificationClick, handshakeVars
  <1>4. ASSUME NEW c \in Calls,
               EnableClick(c) \/ DisableClick(c) \/ RemoveClick(c)
               \/ PromptEnableClick(c) \/ InstallClick(c)
        PROVE  HandshakeInv'
    <2>1. CASE EnableClick(c)
      BY <2>1, <1>a, BeginKeeps DEF EnableClick, PushSection, Perhaps
    <2>2. CASE DisableClick(c)
      BY <2>2, <1>a, BeginKeeps DEF DisableClick, PushSection, Perhaps
    <2>3. CASE RemoveClick(c)
      <3>1. PICK e \in set.devices : Begin(c, "remove", "delete", e)
        BY <2>3 DEF RemoveClick
      <3>2. e \in Rows /\ e \in Perhaps(Rows)
        BY <3>1 DEF ScreenTypes, Settings, Perhaps
      <3> QED BY <3>1, <3>2, <2>3, <1>a, BeginKeeps DEF RemoveClick, PushSection
    <2>4. CASE PromptEnableClick(c)
      BY <2>4, <1>a, BeginKeeps DEF PromptEnableClick, PromptShown, Perhaps
    <2>5. CASE InstallClick(c)
      BY <2>5, <1>a, BeginKeeps DEF InstallClick, InstallShown, Perhaps
    <2> QED BY <1>4, <2>1, <2>2, <2>3, <2>4, <2>5
  <1>5. CASE Person
    BY <1>5, <1>1, <1>2, <1>3, <1>4, <1>b, LogoutKeeps, ReloadKeeps, HandshakeFrame
       DEF Person
  <1>6. ASSUME NEW c \in Calls, PermissionAsked(c) \/ InstallChosen(c)
        PROVE  HandshakeInv'
    <2>1. call[c] # None /\ UNCHANGED <<page, user, pushVars, left>>
      BY <1>6 DEF PermissionAsked, InstallChosen, Is
    <2>2. /\ rows' \in [Rows -> Perhaps(Users)]
          /\ \A e \in Rows : rows'[e] \in {rows[e], None}
          /\ stored' \in Perhaps(MadeEndpoints)
      BY <2>1 DEF HandshakeInv, HandshakeTypes, pushVars
    <2>3. CASE End(c)
      BY <2>1, <2>2, <2>3, <1>a, EndKeeps DEF pushVars
    <2>4. CASE To(c, "ready")
      <3>1. HandlerFits([call[c] EXCEPT !.at = "ready"], user, left, sub', asker, rows)
        BY <2>1, Fitting DEF HandlerFits, Call, pushVars
      <3> QED BY <3>1, <2>1, <2>2, <2>4, <1>a, ToKeeps DEF Stages, pushVars
    <2> QED BY <1>6, <2>3, <2>4 DEF PermissionAsked, InstallChosen
  <1>7. ASSUME NEW c \in Calls, Handler(c) PROVE HandshakeInv'
    BY <1>7, <1>a, HandlerKeeps
  <1>8. CASE KeyProbed \/ ListProbed \/ SubscriptionProbed
    BY <1>8, HandshakeFrame
       DEF KeyProbed, ListProbed, SubscriptionProbed, OnSettings,
           handshakeVars
  <1>9. CASE Rotated
    <2>1. sub' = None /\ UNCHANGED <<page, user, call, asker, stored, rows, left>>
      BY <1>9 DEF Rotated
    <2>2. HandshakeTypes'
      BY <2>1
         DEF HandshakeInv, HandshakeTypes, MadeEndpoints, Perhaps, Rows, Call
    <2>3. HandlersFit'
      BY <2>1 DEF HandshakeInv, HandlersFit, HandlerFits, Rows
    <2> QED BY <2>1, <2>2, <2>3 DEF HandshakeInv, FreshRows, LiveRow, Rows
  <1>10. CASE Program
    BY <1>10, <1>6, <1>7, <1>8, <1>9, <1>b, HandshakeFrame DEF Program, Dialog
  <1>11. CASE UNCHANGED webVars
    BY <1>11, HandshakeFrame DEF webVars, handshakeVars, pushVars
  <1> QED BY <1>5, <1>10, <1>11 DEF WebNext

-----------------------------------------------------------------------------
(* The screen.                                                             *)

LEMMA MountedTyped == ASSUME BannersTypeOK PROVE Mounted \in Dash
  BY DEF BannersTypeOK, Mounted, Dash, Device, Kept, Perhaps

LEMMA ShowTyped ==
    ASSUME BannersTypeOK, set \in Settings, NEW p, Show(p)
    PROVE  BannersTypeOK' /\ set' \in Settings
  <1>1. Unprobed \in Settings
    BY DEF Unprobed, Settings, Perhaps
  <1> QED BY <1>1, MountedTyped DEF Show, BannersTypeOK

\* What the offers make of what the browser remembers.
LEMMA CountedTyped ==
    ASSUME NEW k \in Kept
    PROVE  /\ Counted(k) \in Kept
           /\ [Counted(k) EXCEPT !.asked = "recent"] \in Kept
           /\ Counted(k).nudge = k.nudge /\ Counted(k).install = k.install
           /\ Counted(k).asked = k.asked
  <1> DEFINE n == IF k.soft < SoftDismissLimit THEN k.soft + 1 ELSE k.soft
  <1>1. n \in 0..SoftDismissLimit
    BY BannersAssumption DEF Kept
  <1>2. Counted(k) = [k EXCEPT !.soft = n]
    BY DEF Counted
  <1> HIDE DEF n
  <1> QED BY <1>1, <1>2 DEF Kept, Perhaps

LEMMA OffersTyped ==
    ASSUME BannersTypeOK,
           \/ NotNow \/ IosNotNow \/ NudgeDismissed
           \/ InstallDismissed \/ UpdateDismissed \/ PermissionChanged
           \/ PushUnavailable \/ PromptAppears(sub # None)
           \/ WeekPasses \/ NudgeProbed \/ BeforeInstall \/ AppInstalled
           \/ UpdateFound \/ HighlightEnds
    PROVE  BannersTypeOK'
  <1> USE DEF BannersTypeOK, Dash, OnDash, Perhaps
  <1>1. CASE NotNow
    BY <1>1, CountedTyped DEF NotNow, PromptDismissed
  <1>2. CASE IosNotNow
    BY <1>2, CountedTyped DEF IosNotNow, PromptDismissed
  <1>3. CASE NudgeDismissed \/ InstallDismissed
    <2>1. CASE NudgeDismissed
      <3>1. /\ dash' = [dash EXCEPT !.nudge = "hide"] /\ refused' = refused \cup {"nudge"}
            /\ kept' = [kept EXCEPT !.nudge = TRUE] /\ UNCHANGED <<device, update>>
        BY <2>1 DEF NudgeDismissed
      <3>2. dash' \in Dash
        BY <3>1
      <3> QED BY <3>1, <3>2 DEF Kept
    <2>2. CASE InstallDismissed
      <3>1. /\ dash' = [dash EXCEPT !.installNo = TRUE] /\ refused' = refused \cup {"install"}
            /\ kept' = [kept EXCEPT !.install = TRUE] /\ UNCHANGED <<device, update>>
        BY <2>2 DEF InstallDismissed
      <3>2. dash' \in Dash
        BY <3>1
      <3> QED BY <3>1, <3>2 DEF Kept
    <2> QED BY <1>3, <2>1, <2>2
  <1>4. CASE UpdateDismissed \/ UpdateFound
    <2>1. update' \in [needed : BOOLEAN, dismissed : BOOLEAN]
      <3>1. CASE UpdateDismissed
        BY <3>1 DEF UpdateDismissed
      <3>2. CASE UpdateFound
        BY <3>2 DEF UpdateFound
      <3> QED BY <1>4, <3>1, <3>2
    <2> QED BY <2>1, <1>4 DEF UpdateDismissed, UpdateFound
  <1>5. CASE PermissionChanged
    BY <1>5 DEF PermissionChanged, Device
  <1>6. CASE PushUnavailable \/ BeforeInstall \/ AppInstalled \/ HighlightEnds
    <2>1. dash' \in Dash /\ UNCHANGED <<device, kept, update, refused>>
      BY <1>6
         DEF PushUnavailable, BeforeInstall, AppInstalled, HighlightEnds
    <2> QED BY <2>1
  <1>7. CASE PromptAppears(sub # None)
    <2> DEFINE kind == PermissionState(sub # None)
               shown == ShouldShowSoftPrompt(kind)
    <2>1. kind \in Kinds
      BY DEF PermissionState, Kinds, Device
    <2>2. shown \in BOOLEAN
      BY DEF ShouldShowSoftPrompt
    <2>3. dash' = [dash EXCEPT !.ask = kind, !.visible = shown]
          /\ UNCHANGED <<device, kept, update, refused>>
      BY <1>7 DEF PromptAppears
    <2> HIDE DEF kind, shown
    <2>4. [dash EXCEPT !.ask = kind, !.visible = shown]
              = [[dash EXCEPT !.ask = kind] EXCEPT !.visible = shown]
      OBVIOUS
    <2> QED BY <2>1, <2>2, <2>3, <2>4
  <1>8. CASE WeekPasses
    BY <1>8 DEF WeekPasses, Kept
  <1>9. CASE NudgeProbed
    BY <1>9 DEF NudgeProbed
  <1> QED BY <1>1, <1>2, <1>3, <1>4, <1>5, <1>6, <1>7, <1>8, <1>9

LEMMA ScreenStep ==
    ASSUME HandshakeInv, ScreenTypes,
           [WebNext]_webVars
    PROVE  ScreenTypes'
  <1>a. \A u : Mine(u) \subseteq Rows
    BY DEF Mine
  <1>b. UNCHANGED <<bannerVars, set>> => BannersTypeOK' /\ set' \in Settings
    BY DEF ScreenTypes, BannersTypeOK, bannerVars
  <1>c. BannersTypeOK /\ set \in Settings
    BY DEF ScreenTypes
  <1>1. CASE Person
    <2>1. clicks' \in 0..MaxClicks
      BY <1>1, PushAssumption DEF Person, ScreenTypes
    <2> SUFFICES BannersTypeOK' /\ set' \in Settings
      BY <2>1 DEF ScreenTypes
    <2>2. ASSUME NEW u \in Users, SignIn(u)
          PROVE  BannersTypeOK' /\ set' \in Settings
      BY <2>2, <1>c, ShowTyped DEF SignIn
    <2>3. ASSUME NEW p \in {"dashboard", "settings"}, Navigate(p)
          PROVE  BannersTypeOK' /\ set' \in Settings
      BY <2>3, <1>c, ShowTyped DEF Navigate
    <2>4. CASE Logout
      BY <2>4, <1>c, ShowTyped DEF Logout
    <2>5. CASE UpdateReload
      BY <2>5, <1>c DEF UpdateReload, BannersTypeOK
    <2>6. ASSUME NEW d \in Perhaps(Docs), NotificationClick(d)
          PROVE  BannersTypeOK' /\ set' \in Settings
      BY <2>6, <1>c
         DEF NotificationClick, Highlighted, BannersTypeOK, Dash,
             Perhaps
    <2>7. ASSUME NEW c \in Calls,
                 EnableClick(c) \/ DisableClick(c) \/ RemoveClick(c)
                 \/ PromptEnableClick(c) \/ InstallClick(c)
          PROVE  BannersTypeOK' /\ set' \in Settings
      BY <2>7, <1>b
         DEF EnableClick, DisableClick, RemoveClick, PromptEnableClick,
             InstallClick, Begin
    <2>8. CASE /\ NotNow \/ IosNotNow \/ NudgeDismissed
                  \/ InstallDismissed \/ UpdateDismissed \/ PermissionChanged
               /\ UNCHANGED tab
      BY <2>8, <1>c, OffersTyped DEF tab
    <2> QED BY <1>1, <2>2, <2>3, <2>4, <2>5, <2>6, <2>7, <2>8 DEF Person
  <1>2. CASE Program
    <2>1. clicks' \in 0..MaxClicks
      BY <1>2 DEF Program, ScreenTypes
    <2> SUFFICES BannersTypeOK' /\ set' \in Settings
      BY <2>1 DEF ScreenTypes
    <2>2. ASSUME NEW c \in Calls, PermissionAsked(c)
          PROVE  BannersTypeOK' /\ set' \in Settings
      BY <2>2, <1>c DEF PermissionAsked, BannersTypeOK, Device
    <2>3. ASSUME NEW c \in Calls, InstallChosen(c)
          PROVE  BannersTypeOK' /\ set' \in Settings
      <3>1. PICK accepted \in BOOLEAN : InstallAnswered(accepted, call[c].live)
        BY <2>3 DEF InstallChosen
      <3>2. [dash EXCEPT !.deferred = FALSE, !.installNo = @ \/ ~ accepted]
                = [[dash EXCEPT !.deferred = FALSE]
                        EXCEPT !.installNo = dash.installNo \/ ~ accepted]
        BY <1>c DEF BannersTypeOK, Dash
      <3>3. /\ (dash.installNo \/ ~ accepted) \in BOOLEAN
            /\ (kept.install \/ ~ accepted) \in BOOLEAN
        OBVIOUS
      <3>4. [[dash EXCEPT !.deferred = FALSE] EXCEPT !.installNo = dash.installNo \/ ~ accepted]
                \in Dash
        BY <1>c, <3>3 DEF BannersTypeOK, Dash
      <3>5. [kept EXCEPT !.install = kept.install \/ ~ accepted] \in Kept
        BY <1>c, <3>3 DEF BannersTypeOK, Kept
      <3>6. dash' \in Dash
        BY <3>1, <3>2, <3>4, <1>c DEF InstallAnswered, BannersTypeOK
      <3>7. kept' \in Kept
        BY <3>1, <3>5 DEF InstallAnswered
      <3>8. refused' \subseteq {"nudge", "install", "prompt"} /\ UNCHANGED <<device, update, set>>
        BY <3>1, <2>3, <1>c DEF InstallAnswered, InstallChosen, BannersTypeOK
      <3> QED BY <3>6, <3>7, <3>8, <1>c DEF BannersTypeOK
    <2>4. ASSUME NEW c \in Calls, Handler(c)
          PROVE  BannersTypeOK' /\ set' \in Settings
      <3>1. CASE UNCHANGED <<bannerVars, set>>
        BY <3>1, <1>b
      <3>2. CASE Remembered(c)
        BY <3>2, <1>c
           DEF Remembered, BannersTypeOK, Dash, Settings, Perhaps
      <3>3. CASE DevicesListed(c)
        BY <3>3, <1>a, <1>b, <1>c
           DEF DevicesListed, BannersTypeOK, bannerVars, Settings
      <3>4. CASE LocalDropped(c)
        BY <3>4, <1>b, <1>c
           DEF LocalDropped, BannersTypeOK, bannerVars, Settings,
               Perhaps
      <3>5. CASE DeviceRemoved(c)
        BY <3>5, <1>b, <1>c
           DEF DeviceRemoved, BannersTypeOK, bannerVars, Settings
      <3> QED BY <2>4, <3>1, <3>2, <3>3, <3>4, <3>5
                 DEF Handler, KeyFetched, ExistingFound, ExistingDropped,
                     Subscribed, Registered, HandlerFailed, LocalRead,
                     OnlyDeviceDeleted, StoredDeleted
    <2>5. CASE KeyProbed \/ ListProbed \/ SubscriptionProbed
      <3>1. PICK new : OnSettings(new) /\ new \in Settings
        <4>1. CASE KeyProbed
          BY <4>1, <1>c DEF KeyProbed, Settings
        <4>2. CASE ListProbed
          <5>1. PICK list \in {Mine(user), {}} :
                    OnSettings([set EXCEPT !.probe = "sub", !.devices = list])
            BY <4>2 DEF ListProbed
          <5>2. [set EXCEPT !.probe = "sub", !.devices = list]
                    = [[set EXCEPT !.probe = "sub"] EXCEPT !.devices = list]
            BY <1>c DEF Settings
          <5>3. [[set EXCEPT !.probe = "sub"] EXCEPT !.devices = list] \in Settings
            BY <1>a, <1>c DEF Settings
          <5> QED BY <5>1, <5>2, <5>3
        <4>3. CASE SubscriptionProbed
          <5> DEFINE there == sub # None
          <5>1. OnSettings([set EXCEPT !.probe = "done", !.subscribed = there])
            BY <4>3 DEF SubscriptionProbed
          <5>2. there \in Perhaps(BOOLEAN)
            BY DEF Perhaps
          <5> HIDE DEF there
          <5>3. [set EXCEPT !.probe = "done", !.subscribed = there]
                    = [[set EXCEPT !.probe = "done"] EXCEPT !.subscribed = there]
            BY <1>c DEF Settings
          <5>4. [[set EXCEPT !.probe = "done"] EXCEPT !.subscribed = there] \in Settings
            BY <5>2, <1>c DEF Settings
          <5> QED BY <5>1, <5>3, <5>4
        <4> QED BY <2>5, <4>1, <4>2, <4>3
      <3> QED BY <3>1, <1>c DEF OnSettings, BannersTypeOK, bannerVars
    <2>6. CASE Rotated
      BY <2>6, <1>b DEF Rotated
    <2>7. CASE /\ \/ PushUnavailable \/ PromptAppears(sub # None)
                  \/ WeekPasses \/ NudgeProbed \/ BeforeInstall \/ AppInstalled
                  \/ UpdateFound \/ HighlightEnds
               /\ UNCHANGED tab
      BY <2>7, <1>c, OffersTyped DEF tab
    <2> QED BY <1>2, <2>2, <2>3, <2>4, <2>5, <2>6, <2>7 DEF Program, Dialog
  <1>3. CASE UNCHANGED webVars
    BY <1>3, <1>b DEF webVars, bannerVars, ScreenTypes
  <1> QED BY <1>1, <1>2, <1>3 DEF WebNext

\* What was turned down is remembered beyond the page and hidden on this one; and
\* where there is no push, nothing is counted without the moment that goes with it.
OfferInv ==
    /\ "nudge" \in refused => kept.nudge /\ dash.nudge # "show"
    /\ "install" \in refused => kept.install /\ dash.installNo
    /\ "prompt" \in refused => dash.dismissed
    /\ dash.visible /\ dash.ask = "default" => device.supported
    /\ dash.visible /\ dash.ask = "ios-needs-install" => ~ device.supported
    /\ ~ device.supported => kept.asked \in {"recent", "old"} \/ kept.soft = 0

LEMMA OffersOnMount ==
    ASSUME OfferInv, UNCHANGED <<device, kept>>,
           \/ dash' = dash /\ refused' = refused
           \/ dash' = Mounted /\ refused' = refused \ {"prompt"}
    PROVE  OfferInv'
  <1>1. CASE dash' = dash /\ refused' = refused
    BY <1>1 DEF OfferInv
  <1>2. CASE dash' = Mounted /\ refused' = refused \ {"prompt"}
    <2>1. /\ Mounted.nudge = None /\ Mounted.installNo = kept.install
          /\ Mounted.visible = FALSE
      BY DEF Mounted
    <2> QED BY <1>2, <2>1, BannersAssumption DEF OfferInv
  <1> QED BY <1>1, <1>2

LEMMA OffersKeep ==
    ASSUME BannersTypeOK, OfferInv,
           \/ NotNow \/ IosNotNow \/ NudgeDismissed
           \/ InstallDismissed \/ UpdateDismissed \/ PermissionChanged
           \/ PushUnavailable \/ PromptAppears(sub # None)
           \/ WeekPasses \/ NudgeProbed \/ BeforeInstall \/ AppInstalled
           \/ UpdateFound \/ HighlightEnds
    PROVE  OfferInv'
  <1> USE DEF BannersTypeOK, OfferInv
  <1>a. dash \in Dash /\ kept \in Kept /\ device \in Device
    OBVIOUS
  <1>1. CASE NotNow
    <2>1. /\ device.supported /\ kept' = Counted(kept)
          /\ dash' = [dash EXCEPT !.dismissed = TRUE]
          /\ refused' = refused \cup {"prompt"} /\ UNCHANGED device
      BY <1>1 DEF NotNow, PromptDismissed, PromptShown
    <2> QED BY <2>1, <1>a, CountedTyped DEF Dash
  <1>2. CASE IosNotNow
    <2> DEFINE b == Counted(kept)
    <2>a. b \in Kept /\ b.nudge = kept.nudge /\ b.install = kept.install
      BY <1>a, CountedTyped
    <2>b. kept' = [b EXCEPT !.asked = "recent"]
      BY <1>2 DEF IosNotNow
    <2> HIDE DEF b
    <2>1. kept'.nudge = kept.nudge /\ kept'.install = kept.install /\ kept'.asked = "recent"
      BY <2>a, <2>b DEF Kept
    <2>2. /\ dash' = [dash EXCEPT !.dismissed = TRUE]
          /\ refused' = refused \cup {"prompt"} /\ UNCHANGED device
      BY <1>2 DEF IosNotNow, PromptDismissed
    <2> QED BY <2>1, <2>2, <1>a DEF Dash
  <1>3. CASE NudgeDismissed
    BY <1>3, <1>a DEF NudgeDismissed, Dash, Kept
  <1>4. CASE InstallDismissed
    BY <1>4, <1>a DEF InstallDismissed, Dash, Kept
  <1>5. CASE UpdateDismissed \/ UpdateFound
    BY <1>5 DEF UpdateDismissed, UpdateFound
  <1>6. CASE PermissionChanged
    BY <1>6, <1>a DEF PermissionChanged, Device
  <1>7. CASE PushUnavailable \/ BeforeInstall \/ AppInstalled \/ HighlightEnds
    <2>1. UNCHANGED <<device, kept, refused>>
      BY <1>7
         DEF PushUnavailable, BeforeInstall, AppInstalled, HighlightEnds,
             OnDash
    <2>2. /\ dash'.nudge = dash.nudge /\ dash'.installNo = dash.installNo
          /\ dash'.visible = dash.visible /\ dash'.dismissed = dash.dismissed
          /\ dash'.ask \in {dash.ask, "no-server"}
      BY <1>7, <1>a
         DEF PushUnavailable, BeforeInstall, AppInstalled, HighlightEnds,
             OnDash, Dash
    <2> QED BY <2>1, <2>2
  <1>8. CASE PromptAppears(sub # None)
    <2> DEFINE kind == PermissionState(sub # None)
               shown == ShouldShowSoftPrompt(kind)
    <2>1. /\ kind = "default" => device.supported
          /\ kind = "ios-needs-install" => ~ device.supported
      BY <1>a DEF PermissionState, Device
    <2>2. dash' = [dash EXCEPT !.ask = kind, !.visible = shown]
          /\ UNCHANGED <<device, kept, refused>>
      BY <1>8 DEF PromptAppears, OnDash
    <2> HIDE DEF kind, shown
    <2>3. [dash EXCEPT !.ask = kind, !.visible = shown]
              = [[dash EXCEPT !.ask = kind] EXCEPT !.visible = shown]
      BY <1>a DEF Dash
    <2> QED BY <2>1, <2>2, <2>3, <1>a DEF Dash
  <1>9. CASE WeekPasses
    BY <1>9, <1>a DEF WeekPasses, Kept
  <1>10. CASE NudgeProbed
    BY <1>10, <1>a DEF NudgeProbed, OnDash, Dash
  <1> QED BY <1>1, <1>2, <1>3, <1>4, <1>5, <1>6, <1>7, <1>8, <1>9, <1>10

LEMMA OfferStep ==
    ASSUME BannersTypeOK, OfferInv, [WebNext]_webVars
    PROVE  OfferInv'
  <1>a. UNCHANGED bannerVars => OfferInv'
    BY DEF bannerVars, OfferInv
  <1>b. ASSUME NEW p, Show(p) PROVE OfferInv'
    BY <1>b, OffersOnMount DEF Show
  <1>c. dash \in Dash /\ kept \in Kept /\ device \in Device
    BY DEF BannersTypeOK
  <1>1. ASSUME NEW d \in Perhaps(Docs), NotificationClick(d) PROVE OfferInv'
    BY <1>1, <1>c DEF NotificationClick, Highlighted, OfferInv, Dash
  <1>2. ASSUME NEW c \in Calls,
               EnableClick(c) \/ DisableClick(c) \/ RemoveClick(c)
               \/ PromptEnableClick(c) \/ InstallClick(c)
        PROVE  OfferInv'
    BY <1>2, <1>a
       DEF EnableClick, DisableClick, RemoveClick, PromptEnableClick,
           InstallClick
  <1>3. ASSUME UpdateReload PROVE OfferInv'
    BY <1>3 DEF UpdateReload, OfferInv
  <1>4. CASE Person
    BY <1>4, <1>b, <1>1, <1>2, <1>3, OffersKeep
       DEF Person, SignIn, Navigate, Logout
  <1>5. ASSUME NEW c \in Calls, PermissionAsked(c) PROVE OfferInv'
    BY <1>5, <1>c DEF PermissionAsked, OfferInv, Device
  <1>6. ASSUME NEW c \in Calls, InstallChosen(c) PROVE OfferInv'
    <2>1. PICK accepted \in BOOLEAN : InstallAnswered(accepted, call[c].live)
      BY <1>6 DEF InstallChosen
    <2>2. [dash EXCEPT !.deferred = FALSE, !.installNo = @ \/ ~ accepted]
              = [[dash EXCEPT !.deferred = FALSE]
                    EXCEPT !.installNo = dash.installNo \/ ~ accepted]
      BY <1>c DEF Dash
    <2>3. kept' = [kept EXCEPT !.install = kept.install \/ ~ accepted] /\ UNCHANGED device
      BY <2>1 DEF InstallAnswered
    <2>4. /\ dash'.nudge = dash.nudge /\ dash'.visible = dash.visible /\ dash'.ask = dash.ask
          /\ dash'.dismissed = dash.dismissed
          /\ dash'.installNo = (IF call[c].live THEN dash.installNo \/ ~ accepted
                                                ELSE dash.installNo)
      BY <2>1, <2>2, <1>c DEF InstallAnswered, Dash
    <2>5. /\ kept'.nudge = kept.nudge /\ kept'.soft = kept.soft /\ kept'.asked = kept.asked
          /\ kept'.install = (kept.install \/ ~ accepted)
      BY <2>3, <1>c DEF Kept
    <2>6. /\ "nudge" \in refused' => "nudge" \in refused
          /\ "prompt" \in refused' => "prompt" \in refused
          /\ "install" \in refused' => "install" \in refused \/ (~ accepted /\ call[c].live)
      BY <2>1 DEF InstallAnswered
    <2> QED BY <2>3, <2>4, <2>5, <2>6 DEF OfferInv
  <1>7. ASSUME NEW c \in Calls, Handler(c) PROVE OfferInv'
    <2>1. CASE Remembered(c)
      BY <2>1, <1>c DEF Remembered, OfferInv, Dash
    <2>2. CASE ~ Remembered(c)
      BY <2>2, <1>7, <1>a
         DEF Handler, KeyFetched, ExistingFound, ExistingDropped,
             Subscribed, Registered, DevicesListed, HandlerFailed,
             LocalRead, OnlyDeviceDeleted, StoredDeleted, LocalDropped,
             DeviceRemoved
    <2> QED BY <2>1, <2>2
  <1>8. CASE KeyProbed \/ ListProbed \/ SubscriptionProbed \/ Rotated
    BY <1>8, <1>a
       DEF KeyProbed, ListProbed, SubscriptionProbed, OnSettings,
           Rotated
  <1>9. CASE Program
    BY <1>9, <1>5, <1>6, <1>7, <1>8, OffersKeep DEF Program, Dialog
  <1>10. CASE UNCHANGED webVars
    BY <1>10, <1>a DEF webVars
  <1> QED BY <1>4, <1>9, <1>10 DEF WebNext

-----------------------------------------------------------------------------
(* The theorems about the browser's side.                                  *)

ScreenAndHandshake == HandshakeInv /\ ScreenTypes /\ OfferInv

LEMMA BrowserInit ==
    ASSUME WebInit PROVE ScreenAndHandshake
  <1>1. device \in Device
    BY BannersAssumption DEF WebInit, BannersInit
  <1>2. kept = [soft |-> 0, asked |-> None, nudge |-> FALSE, install |-> FALSE]
        /\ kept \in Kept /\ refused = {} /\ dash = Mounted
        /\ update \in [needed : BOOLEAN, dismissed : BOOLEAN]
    BY BannersAssumption DEF WebInit, BannersInit, Kept, Perhaps
  <1>3. Mounted \in Dash /\ Mounted.visible = FALSE
    BY <1>1, <1>2 DEF Mounted, Dash, Device, Perhaps
  <1>4. ScreenTypes
    BY <1>1, <1>2, <1>3, PushAssumption
       DEF ScreenTypes, BannersTypeOK, WebInit, Unprobed, Settings,
           Perhaps
  <1>5. OfferInv
    BY <1>2, <1>3 DEF OfferInv
  <1>6. rows \in [Rows -> Perhaps(Users)] /\ \A e \in Rows : e > 0 => rows[e] = None
    BY PushAssumption DEF WebInit, Rows, Away, Perhaps
  <1>7. Len(asker) = 0 /\ asker \in Seq(Users)
    BY DEF WebInit
  <1>8. HandshakeInv
    BY <1>6, <1>7, PushAssumption
       DEF HandshakeInv, HandshakeTypes, HandlersFit, FreshRows, LiveRow, WebInit,
           Perhaps
  <1> QED BY <1>4, <1>5, <1>8 DEF ScreenAndHandshake

LEMMA BrowserInvariance == WebSpec => []ScreenAndHandshake
  <1>1. WebInit => ScreenAndHandshake
    BY BrowserInit
  <1>2. ScreenAndHandshake /\ [WebNext]_webVars => ScreenAndHandshake'
    BY HandshakeStep, ScreenStep, OfferStep DEF ScreenAndHandshake, ScreenTypes
  <1> QED BY <1>1, <1>2, PTL DEF WebSpec

\* The live subscription is registered for whom it was made, or last asked for by
\* whom the tab's session is, or for an account whose session the server holds.
THEOREM LiveRowSafe == WebSpec => []LiveRowIsTheAskers
  <1>1. ScreenAndHandshake => LiveRowIsTheAskers
    BY DEF ScreenAndHandshake, HandshakeInv, HandshakeTypes, ScreenTypes, LiveRow,
           LiveRowIsTheAskers, WebTypeOK, HasSession
  <1> QED BY <1>1, BrowserInvariance, PTL

\* The nudge and the installation that were turned down are not offered again in the
\* session, the hint of iOS past the limit not before the backoff is over, and the
\* prompt for notifications, which the next dashboard makes again, not by the same one.
THEOREM RefusedSafe == WebSpec => []RefusalLasts
  <1>1. ScreenAndHandshake => RefusalLasts
    BY BannersAssumption DEF ScreenAndHandshake, ScreenTypes, BannersTypeOK, OfferInv,
           RefusalLasts, InstallShown, PromptShown,
           ShouldShowSoftPrompt, Kept, Perhaps
  <1> QED BY <1>1, BrowserInvariance, PTL
=============================================================================
