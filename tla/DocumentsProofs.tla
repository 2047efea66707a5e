--------------------------- MODULE DocumentsProofs ---------------------------
(* Theorems about Documents, for every set of users, documents, handlers   *)
(* and faults.                                                             *)
EXTENDS Documents, TLAPS

-----------------------------------------------------------------------------
(* Types.                                                                  *)

\* A request that starts, moves on or is answered is still a request.
LEMMA StartedType ==
    ASSUME TypeOK, NEW r \in Requests, NEW op \in Ops, NEW point \in Points,
           NEW u \in Users, NEW d \in Docs, NEW W \in SUBSET Users,
           Started(r, op, point, u, d, W)
    PROVE  req' \in [Requests -> Request]
  BY ZenonT(60) DEF TypeOK, Request, Started, Idle, Ops, Points, Codes, Statuses

LEMMA GotoType ==
    ASSUME TypeOK, NEW r \in Requests, NEW point \in Points, Goto(r, point)
    PROVE  req' \in [Requests -> Request]
  BY ZenonT(60) DEF TypeOK, Request, Goto

LEMMA KeepRowsType ==
    ASSUME TypeOK, NEW r \in Requests, NEW point \in Points,
           NEW W \in SUBSET Users, req[r].doc \in Docs, KeepRows(r, point, W)
    PROVE  req' \in [Requests -> Request]
  <1>1. /\ req[r] \in Request
        /\ status[req[r].doc] \in Statuses
    BY DEF TypeOK, Request
  <1>2. [req[r] EXCEPT !.at = point, !.rows = W, !.seen = status[req[r].doc]]
           \in Request
    BY <1>1 DEF Request
  <1> QED BY <1>2 DEF TypeOK, KeepRows

LEMMA AnswerType ==
    ASSUME TypeOK, NEW r \in Requests, NEW code \in Codes, Answer(r, code)
    PROVE  req' \in [Requests -> Request]
  BY DEF TypeOK, Request, Answer, Idle, Ops, Points, Statuses

LEMMA RefuseType ==
    ASSUME TypeOK, NEW r \in Requests, NEW code \in Codes, Refuse(r, code)
    PROVE  TypeOK'
  BY AnswerType DEF TypeOK, Refuse, db

LEMMA CreateTaskType ==
    ASSUME TypeOK, NEW r \in Requests, req[r].doc \in Docs,
           NEW type \in {"share", "revoke"}, CreateTask(r, type)
    PROVE  TypeOK'
  <1>1. req' \in [Requests -> Request]
    BY AnswerType DEF CreateTask, Codes
  <1>2. notices' \subseteq Notice
    BY DEF TypeOK, CreateTask, Notice, Request
  <1> QED BY <1>1, <1>2 DEF TypeOK, CreateTask, db

-----------------------------------------------------------------------------
(* Which steps change what.                                                *)

\* Committed rows change in the four commits only.
LEMMA OnlyCommitsChangeRows ==
    ASSUME Next
    PROVE  \/ UNCHANGED db
           \/ \E r \in Requests : \/ UploadCommit(r) \/ ShareCommit(r)
                                  \/ RevokeCommit(r) \/ DeleteCommit(r)
  <1>1. ASSUME NEW r \in Requests, Arrive(r)
        PROVE  UNCHANGED db
    BY ZenonT(60), <1>1 DEF Arrive, UploadBegin, UploadRefused, ShareBegin, ShareRefused,
       RevokeBegin, RevokeRefused, DeleteBegin, DeleteRefused, DownloadBegin,
       DownloadRefused, Refuse, db
  <1>2. ASSUME NEW r \in Requests, Resume(r)
        PROVE  \/ UNCHANGED db
               \/ UploadCommit(r) \/ ShareCommit(r)
               \/ RevokeCommit(r) \/ DeleteCommit(r)
    BY <1>2 DEF Resume, UploadInsert, UploadBlob, ShareLookup, ShareConflict,
       ShareNotify, RevokeLookup, RevokeNotify, DeleteLookup, DeleteBlob,
       DownloadLookup, DownloadBlob, DownloadCommit, CreateTask, db
  <1>3. ASSUME NEW r \in Requests, Fail(r)
        PROVE  UNCHANGED db
    BY <1>3 DEF Fail, StorageFails, CommitFails, db
  <1>4. CASE Crash
    BY <1>4 DEF Crash, db
  <1>5. ASSUME NEW n \in Notice, TaskRuns(n)
        PROVE  UNCHANGED db
    BY <1>5 DEF TaskRuns, db
  <1> QED BY <1>1, <1>2, <1>3, <1>4, <1>5 DEF Next

\* Blobs are written by uploads and removed by deletions only.
LEMMA OnlyBlobStepsChangeBlobs ==
    ASSUME Next
    PROVE  \/ UNCHANGED blobs
           \/ \E r \in Requests : UploadBlob(r) \/ DeleteBlob(r)
  <1>1. ASSUME NEW r \in Requests, Arrive(r)
        PROVE  UNCHANGED blobs
    BY ZenonT(60), <1>1 DEF Arrive, UploadBegin, UploadRefused, ShareBegin, ShareRefused,
       RevokeBegin, RevokeRefused, DeleteBegin, DeleteRefused, DownloadBegin,
       DownloadRefused, Refuse
  <1>2. ASSUME NEW r \in Requests, Resume(r)
        PROVE  UNCHANGED blobs \/ UploadBlob(r) \/ DeleteBlob(r)
    BY <1>2 DEF Resume, UploadInsert, UploadCommit, ShareLookup, ShareCommit,
       ShareConflict, ShareNotify, RevokeLookup, RevokeCommit, RevokeNotify,
       DeleteLookup, DeleteCommit, DownloadLookup, DownloadBlob,
       DownloadCommit, CreateTask
  <1>3. ASSUME NEW r \in Requests, Fail(r)
        PROVE  UNCHANGED blobs
    BY <1>3 DEF Fail, StorageFails, CommitFails
  <1>4. CASE Crash
    BY <1>4 DEF Crash
  <1>5. ASSUME NEW n \in Notice, TaskRuns(n)
        PROVE  UNCHANGED blobs
    BY <1>5 DEF TaskRuns
  <1> QED BY <1>1, <1>2, <1>3, <1>4, <1>5 DEF Next

\* Ids are only ever drawn, one by the upload that starts.
LEMMA OnlyUploadsDraw ==
    ASSUME Next
    PROVE  \/ UNCHANGED fresh
           \/ \E r \in Requests, u \in Accounts, G \in SUBSET Users :
                 UploadBegin(r, u, G)
  <1>1. ASSUME NEW r \in Requests, Arrive(r)
        PROVE  \/ UNCHANGED fresh
               \/ \E u \in Accounts, G \in SUBSET Users : UploadBegin(r, u, G)
    BY <1>1 DEF Arrive, UploadRefused, ShareBegin, ShareRefused,
       RevokeBegin, RevokeRefused, DeleteBegin, DeleteRefused, DownloadBegin,
       DownloadRefused, Refuse
  <1>2. ASSUME NEW r \in Requests, Resume(r)
        PROVE  UNCHANGED fresh
    BY <1>2 DEF Resume, UploadInsert, UploadBlob, UploadCommit, ShareLookup,
       ShareCommit, ShareConflict, ShareNotify, RevokeLookup, RevokeCommit,
       RevokeNotify, DeleteLookup, DeleteBlob, DeleteCommit, DownloadLookup,
       DownloadBlob, DownloadCommit, CreateTask
  <1>3. ASSUME NEW r \in Requests, Fail(r)
        PROVE  UNCHANGED fresh
    BY <1>3 DEF Fail, StorageFails, CommitFails
  <1>4. CASE Crash
    BY <1>4 DEF Crash
  <1>5. ASSUME NEW n \in Notice, TaskRuns(n)
        PROVE  UNCHANGED fresh
    BY <1>5 DEF TaskRuns
  <1> QED BY <1>1, <1>2, <1>3, <1>4, <1>5 DEF Next

-----------------------------------------------------------------------------
(* The inductive invariant, one lemma for each of its conjuncts.           *)

LEMMA TypeStep ==
    ASSUME IndInv, [Next]_vars
    PROVE  TypeOK'
  <1> USE DEF db
  <1>0. TypeOK
    BY DEF IndInv
  <1>1. \A r \in Requests : req[r].at # "answered" => req[r].doc \in Docs
    BY DEF IndInv, HandlerInv
  <1>2. ASSUME NEW r \in Requests, Arrive(r)
        PROVE  TypeOK'
    <2>1. PICK u \in Accounts :
             \/ \E G \in SUBSET Users : UploadBegin(r, u, G) \/ UploadRefused(r, u, G)
             \/ \E d \in Docs :
                   \/ \E v \in Users : \/ ShareBegin(r, u, d, v)
                                       \/ ShareRefused(r, u, d, v)
                                       \/ RevokeBegin(r, u, d, v)
                                       \/ RevokeRefused(r, u, d, v)
                   \/ DeleteBegin(r, u, d) \/ DeleteRefused(r, u, d)
                   \/ DownloadBegin(r, u, d) \/ DownloadRefused(r, u, d)
      BY <1>2 DEF Arrive
    <2>2. u \in Users
      BY AccountsAssumption
    <2>3. ASSUME NEW G \in SUBSET Users, UploadBegin(r, u, G)
          PROVE  TypeOK'
      <3>1. PICK d \in fresh : /\ fresh' = fresh \ {d}
                               /\ Started(r, "upload", "insert", u, d, G)
        BY <2>3 DEF UploadBegin
      <3>2. req' \in [Requests -> Request]
        BY <1>0, <2>2, <3>1, StartedType DEF TypeOK, Ops, Points
      <3> QED BY <1>0, <2>3, <3>1, <3>2 DEF TypeOK, UploadBegin
    <2>4. ASSUME NEW code \in Codes, Refuse(r, code)
          PROVE  TypeOK'
      BY <1>0, <2>4, RefuseType
    <2>5. ASSUME NEW d \in Docs, NEW op \in Ops, NEW W \in SUBSET Users,
                 Started(r, op, "lookup", u, d, W),
                 UNCHANGED <<db, blobs, fresh, notices>>
          PROVE  TypeOK'
      <3>1. req' \in [Requests -> Request]
        BY <1>0, <2>2, <2>5, StartedType DEF Points
      <3> QED BY <1>0, <2>5, <3>1 DEF TypeOK
    <2>6. ASSUME NEW d \in Docs, NEW v \in Users,
                 ShareBegin(r, u, d, v) \/ RevokeBegin(r, u, d, v)
          PROVE  TypeOK'
      BY <2>5, <2>6 DEF ShareBegin, RevokeBegin, Ops
    <2>7. ASSUME NEW d \in Docs, DeleteBegin(r, u, d) \/ DownloadBegin(r, u, d)
          PROVE  TypeOK'
      BY <2>5, <2>7 DEF DeleteBegin, DownloadBegin, Ops
    <2> QED BY <2>1, <2>3, <2>4, <2>6, <2>7 DEF UploadRefused, ShareRefused,
              RevokeRefused, DeleteRefused, DownloadRefused, Codes
  <1>3. ASSUME NEW r \in Requests, Resume(r)
        PROVE  TypeOK'
    <2>1. CASE UploadInsert(r) \/ UploadBlob(r) \/ DeleteBlob(r)
      <3>1. req' \in [Requests -> Request]
        BY <1>0, <2>1, GotoType DEF UploadInsert, UploadBlob, DeleteBlob, Points
      <3> QED BY <1>0, <1>1, <2>1, <3>1
              DEF TypeOK, UploadInsert, UploadBlob, DeleteBlob, At
    <2>2. CASE UploadCommit(r)
      <3>1. req' \in [Requests -> Request]
        BY <1>0, <2>2, AnswerType DEF UploadCommit, Codes
      <3> QED BY <1>0, <2>2, <3>1 DEF TypeOK, UploadCommit, Request, Statuses
    <2>3. CASE ShareCommit(r)
      <3>1. req' \in [Requests -> Request]
        BY <1>0, <2>3, GotoType DEF ShareCommit, Points
      <3>2. access' \in [Docs -> SUBSET Users]
        BY <1>0, <2>3 DEF TypeOK, ShareCommit, Request
      <3>3. trail' \in [Docs -> [Users -> {"none", "share", "revoke"}]]
        <4> DEFINE row == [u \in Users |-> IF u \in req[r].who THEN "share"
                                           ELSE trail[req[r].doc][u]]
        <4>1. row \in [Users -> {"none", "share", "revoke"}]
          BY <1>0, <1>1, <2>3 DEF TypeOK, ShareCommit, At
        <4>2. trail' = [trail EXCEPT ![req[r].doc] = row]
          BY <2>3 DEF ShareCommit
        <4> HIDE DEF row
        <4> QED BY <1>0, <4>1, <4>2 DEF TypeOK
      <3> QED BY <1>0, <2>3, <3>1, <3>2, <3>3 DEF TypeOK, ShareCommit
    <2>4. CASE RevokeCommit(r)
      <3>1. req' \in [Requests -> Request]
        BY <1>0, <2>4, GotoType DEF RevokeCommit, Points
      <3>2. access' \in [Docs -> SUBSET Users]
        BY <1>0, <2>4 DEF TypeOK, RevokeCommit, Request
      <3>3. trail' \in [Docs -> [Users -> {"none", "share", "revoke"}]]
        <4> DEFINE row == [u \in Users |-> IF u \in req[r].who THEN "revoke"
                                           ELSE trail[req[r].doc][u]]
        <4>1. row \in [Users -> {"none", "share", "revoke"}]
          BY <1>0, <1>1, <2>4 DEF TypeOK, RevokeCommit, At
        <4>2. trail' = [trail EXCEPT ![req[r].doc] = row]
          BY <2>4 DEF RevokeCommit
        <4> HIDE DEF row
        <4> QED BY <1>0, <4>1, <4>2 DEF TypeOK
      <3> QED BY <1>0, <2>4, <3>1, <3>2, <3>3 DEF TypeOK, RevokeCommit
    <2>5. CASE DeleteCommit(r)
      <3>1. req' \in [Requests -> Request]
        BY <1>0, <2>5, AnswerType DEF DeleteCommit, Codes
      <3> QED BY <1>0, <2>5, <3>1 DEF TypeOK, DeleteCommit, Statuses
    <2>6. ASSUME NEW code \in Codes, Answer(r, code),
                 UNCHANGED <<db, blobs, fresh, notices>>
          PROVE  TypeOK'
      BY <1>0, <2>6, AnswerType DEF TypeOK
    <2>7. ASSUME NEW point \in Points, Goto(r, point),
                 UNCHANGED <<db, blobs, fresh, notices>>
          PROVE  TypeOK'
      BY <1>0, <2>7, GotoType DEF TypeOK
    <2>8. CASE ShareConflict(r) \/ DownloadBlob(r) \/ DownloadCommit(r)
      BY <2>6, <2>7, <2>8
         DEF ShareConflict, DownloadBlob, DownloadCommit, Codes, Points
    <2>9. CASE ShareNotify(r) \/ RevokeNotify(r)
      BY <1>0, <1>1, <2>9, CreateTaskType DEF ShareNotify, RevokeNotify, At
    <2>10. ASSUME NEW W \in SUBSET Users, NEW point \in Points,
                  req[r].doc \in Docs,
                  KeepRows(r, point, W), UNCHANGED <<db, blobs, fresh, notices>>
           PROVE  TypeOK'
      BY <1>0, <2>10, KeepRowsType DEF TypeOK
    <2>11. /\ access[req[r].doc] \cap req[r].who \in SUBSET Users
           /\ access[req[r].doc] \cap {req[r].by} \in SUBSET Users
           /\ req[r].at # "answered" => access[req[r].doc] \in SUBSET Users
      <3>1. req[r].who \in SUBSET Users
        BY <1>0 DEF TypeOK, Request
      <3>2. req[r].at # "answered" => req[r].by \in Users
        BY DEF IndInv, HandlerInv
      <3>3. req[r].at # "answered" => access[req[r].doc] \in SUBSET Users
        BY <1>0, <1>1 DEF TypeOK
      <3>4. req[r].at # "answered"
        BY <1>3 DEF Resume, UploadInsert, UploadBlob, UploadCommit, ShareLookup,
           ShareCommit, ShareConflict, ShareNotify, RevokeLookup, RevokeCommit,
           RevokeNotify, DeleteLookup, DeleteBlob, DeleteCommit, DownloadLookup,
           DownloadBlob, DownloadCommit, At
      <3> QED BY <3>1, <3>2, <3>3, <3>4
    <2>12. CASE ShareLookup(r)
      BY <1>1, <2>10, <2>11, <2>12 DEF At, ShareLookup, Points
    <2>13. CASE RevokeLookup(r)
      BY <1>1, <2>6, <2>10, <2>11, <2>13 DEF At, RevokeLookup, Points, Codes
    <2>14. CASE DeleteLookup(r)
      BY <1>1, <2>10, <2>11, <2>14 DEF DeleteLookup, At, Points
    <2>15. CASE DownloadLookup(r)
      BY <1>1, <2>6, <2>10, <2>11, <2>15 DEF At, DownloadLookup, Points, Codes
    <2> QED BY <1>3, <2>1, <2>2, <2>3, <2>4, <2>5, <2>8, <2>9, <2>12, <2>13,
              <2>14, <2>15 DEF Resume
  <1>4. ASSUME NEW r \in Requests, Fail(r)
        PROVE  TypeOK'
    BY <1>0, <1>4, AnswerType DEF TypeOK, Fail, StorageFails, CommitFails, Codes
  <1>5. CASE Crash
    <2>1. Idle \in Request
      BY DEF Idle, Request, Ops, Points, Codes, Statuses
    <2> QED BY <1>0, <1>5, <2>1 DEF TypeOK, Crash
  <1>6. ASSUME NEW n \in Notice, TaskRuns(n)
        PROVE  TypeOK'
    BY <1>0, <1>6 DEF TypeOK, TaskRuns
  <1>7. CASE UNCHANGED vars
    BY <1>0, <1>7 DEF TypeOK, vars
  <1> QED BY <1>2, <1>3, <1>4, <1>5, <1>6, <1>7 DEF Next

LEMMA OwnerStep ==
    ASSUME IndInv, Next
    PROVE  OwnerKeepsAccess'
  <1> USE DEF OwnerKeepsAccess
  <1>0. TypeOK /\ OwnerKeepsAccess /\ \A r \in Requests : HandlerInv(r)
    BY DEF IndInv
  <1>1. CASE UNCHANGED db
    BY <1>0, <1>1 DEF db
  <1>2. ASSUME NEW r \in Requests, UploadCommit(r)
        PROVE  OwnerKeepsAccess'
    <2>1. req[r].by \in req[r].who
      BY <1>0, <1>2 DEF UploadCommit, At, HandlerInv
    <2> QED BY <1>0, <1>2, <2>1 DEF UploadCommit, TypeOK
  <1>3. ASSUME NEW r \in Requests, ShareCommit(r)
        PROVE  OwnerKeepsAccess'
    BY <1>0, <1>3 DEF ShareCommit, TypeOK
  <1>4. ASSUME NEW r \in Requests, RevokeCommit(r)
        PROVE  OwnerKeepsAccess'
    \* The revoked user is not the caller, and the caller is the owner.
    <2>1. owner[req[r].doc] \notin req[r].rows
      BY <1>0, <1>4 DEF RevokeCommit, At, HandlerInv
    <2> QED BY <1>0, <1>4, <2>1 DEF RevokeCommit, TypeOK
  <1>5. ASSUME NEW r \in Requests, DeleteCommit(r)
        PROVE  OwnerKeepsAccess'
    BY <1>0, <1>5 DEF DeleteCommit, TypeOK
  <1> QED BY <1>1, <1>2, <1>3, <1>4, <1>5, OnlyCommitsChangeRows

\* Committed rows and blobs never change in one step.
LEMMA RowsOrBlobs ==
    ASSUME Next
    PROVE  UNCHANGED db \/ UNCHANGED blobs
  BY OnlyBlobStepsChangeBlobs DEF UploadBlob, DeleteBlob

LEMMA BlobStep ==
    ASSUME IndInv, Next
    PROVE  DeletedBlobIsGone'
  <1> USE DEF DeletedBlobIsGone
  <1>0. TypeOK /\ DeletedBlobIsGone /\ \A r \in Requests : HandlerInv(r)
    BY DEF IndInv
  <1>1. CASE UNCHANGED blobs
    <2>1. CASE UNCHANGED db
      BY <1>0, <1>1, <2>1 DEF db
    <2>2. ASSUME NEW r \in Requests, ShareCommit(r) \/ RevokeCommit(r)
          PROVE  DeletedBlobIsGone'
      BY <1>0, <2>2 DEF ShareCommit, RevokeCommit
    <2>3. ASSUME NEW r \in Requests, UploadCommit(r)
          PROVE  DeletedBlobIsGone'
      BY <1>0, <2>3 DEF UploadCommit, TypeOK
    <2>4. ASSUME NEW r \in Requests, DeleteCommit(r)
          PROVE  DeletedBlobIsGone'
      <3>1. req[r].doc \notin blobs
        BY <1>0, <2>4 DEF DeleteCommit, At, HandlerInv
      <3> QED BY <1>0, <2>4, <3>1 DEF DeleteCommit, TypeOK
    <2> QED BY <2>1, <2>2, <2>3, <2>4, OnlyCommitsChangeRows
  <1>2. ASSUME NEW r \in Requests, UploadBlob(r)
        PROVE  DeletedBlobIsGone'
    <2>1. status[req[r].doc] = "absent"
      BY <1>0, <1>2 DEF UploadBlob, At, HandlerInv
    <2> QED BY <1>0, <1>2, <2>1 DEF UploadBlob, db
  <1>3. ASSUME NEW r \in Requests, DeleteBlob(r)
        PROVE  DeletedBlobIsGone'
    BY <1>0, <1>3 DEF DeleteBlob, db
  <1> QED BY <1>1, <1>2, <1>3, OnlyBlobStepsChangeBlobs

LEMMA FreshStep ==
    ASSUME IndInv, Next
    PROVE  \A d \in fresh' : status'[d] = "absent"
  <1>0. /\ TypeOK
        /\ \A d \in fresh : status[d] = "absent"
        /\ \A r \in Requests : HandlerInv(r)
    BY DEF IndInv
  <1>1. fresh' \subseteq fresh
    BY OnlyUploadsDraw DEF UploadBegin
  <1>2. CASE UNCHANGED db
    BY <1>0, <1>1, <1>2 DEF db
  <1>3. ASSUME NEW r \in Requests, ShareCommit(r) \/ RevokeCommit(r)
        PROVE  \A d \in fresh' : status'[d] = "absent"
    BY <1>0, <1>3 DEF ShareCommit, RevokeCommit
  <1>4. ASSUME NEW r \in Requests, UploadCommit(r)
        PROVE  \A d \in fresh' : status'[d] = "absent"
    <2>1. req[r].doc \notin fresh
      BY <1>0, <1>4 DEF UploadCommit, At, HandlerInv
    <2> QED BY <1>0, <1>1, <1>4, <2>1 DEF UploadCommit, TypeOK
  <1>5. ASSUME NEW r \in Requests, DeleteCommit(r)
        PROVE  \A d \in fresh' : status'[d] = "absent"
    <2>1. req[r].doc \notin fresh
      BY <1>0, <1>5 DEF DeleteCommit, At, HandlerInv
    <2> QED BY <1>0, <1>1, <1>5, <2>1 DEF DeleteCommit, TypeOK
  <1> QED BY <1>2, <1>3, <1>4, <1>5, OnlyCommitsChangeRows

\* The audit entry and the row it speaks of change in the same commit.
LEMMA AuditStep ==
    ASSUME IndInv, Next
    PROVE  /\ AuditTellsAccess'
           /\ \A d \in Docs, u \in Users :
                 status'[d] = "absent" => trail'[d][u] = "none"
  <1> DEFINE Untouched == \A d \in Docs, u \in Users :
                 status[d] = "absent" => trail[d][u] = "none"
  <1> USE DEF AuditTellsAccess
  <1>0. /\ TypeOK /\ AuditTellsAccess /\ Untouched
        /\ \A r \in Requests : HandlerInv(r)
    BY DEF IndInv
  <1>1. CASE UNCHANGED db
    BY <1>0, <1>1 DEF db
  <1>2. ASSUME NEW r \in Requests, UploadCommit(r)
        PROVE  AuditTellsAccess' /\ Untouched'
    <2>1. req[r].doc \in Docs /\ status[req[r].doc] = "absent"
      BY <1>0, <1>2 DEF UploadCommit, At, HandlerInv
    <2> QED BY <1>0, <1>2, <2>1 DEF UploadCommit, TypeOK
  <1>3. ASSUME NEW r \in Requests, NEW w \in {"share", "revoke"},
               req[r].doc \in Docs, status[req[r].doc] # "absent",
               trail' = [trail EXCEPT ![req[r].doc] = [u \in Users |->
                            IF u \in req[r].who THEN w ELSE @[u]]],
               UNCHANGED status
        PROVE  /\ Untouched'
               /\ \A d \in Docs, u \in Users :
                     trail'[d][u] = IF d = req[r].doc /\ u \in req[r].who
                                    THEN w ELSE trail[d][u]
    BY <1>0, <1>3 DEF TypeOK
  <1>4. ASSUME NEW r \in Requests, ShareCommit(r)
        PROVE  AuditTellsAccess' /\ Untouched'
    <2>1. req[r].doc \in Docs /\ status[req[r].doc] # "absent"
      BY <1>0, <1>4 DEF ShareCommit, At, HandlerInv
    <2>2. /\ trail' = [trail EXCEPT ![req[r].doc] = [u \in Users |->
                          IF u \in req[r].who THEN "share" ELSE @[u]]]
          /\ UNCHANGED status
      BY <1>4 DEF ShareCommit
    <2>3. /\ Untouched'
          /\ \A d \in Docs, u \in Users :
                trail'[d][u] = IF d = req[r].doc /\ u \in req[r].who
                               THEN "share" ELSE trail[d][u]
      BY <1>3, <2>1, <2>2
    <2>4. \A d \in Docs, u \in Users :
             u \in access'[d] <=> (u \in access[d] \/ (d = req[r].doc /\ u \in req[r].who))
      BY <1>0, <1>4, <2>1 DEF ShareCommit, TypeOK
    <2> QED BY <1>0, <2>2, <2>3, <2>4
  <1>5. ASSUME NEW r \in Requests, RevokeCommit(r)
        PROVE  AuditTellsAccess' /\ Untouched'
    <2>1. /\ req[r].doc \in Docs /\ status[req[r].doc] # "absent"
          /\ req[r].rows = req[r].who
      BY <1>0, <1>5 DEF RevokeCommit, At, HandlerInv
    <2>2. /\ trail' = [trail EXCEPT ![req[r].doc] = [u \in Users |->
                          IF u \in req[r].who THEN "revoke" ELSE @[u]]]
          /\ UNCHANGED status
      BY <1>5 DEF RevokeCommit
    <2>3. /\ Untouched'
          /\ \A d \in Docs, u \in Users :
                trail'[d][u] = IF d = req[r].doc /\ u \in req[r].who
                               THEN "revoke" ELSE trail[d][u]
      BY <1>3, <2>1, <2>2
    <2>4. \A d \in Docs, u \in Users :
             u \in access'[d] <=> (u \in access[d] /\ ~(d = req[r].doc /\ u \in req[r].who))
      BY <1>0, <1>5, <2>1 DEF RevokeCommit, TypeOK
    <2> QED BY <1>0, <2>2, <2>3, <2>4
  <1>6. ASSUME NEW r \in Requests, DeleteCommit(r)
        PROVE  AuditTellsAccess' /\ Untouched'
    BY <1>0, <1>6 DEF DeleteCommit, TypeOK
  <1> QED BY <1>1, <1>2, <1>4, <1>5, <1>6, OnlyCommitsChangeRows

-----------------------------------------------------------------------------
(* Handlers: what one relies on, no other disturbs.                        *)

\* The steps after which a handler is in flight.
Moves(r) ==
    \/ \E u \in Accounts :
          \/ \E G \in SUBSET Users : UploadBegin(r, u, G)
          \/ \E d \in Docs : \/ \E v \in Users : \/ ShareBegin(r, u, d, v)
                                                 \/ RevokeBegin(r, u, d, v)
                             \/ DeleteBegin(r, u, d)
                             \/ DownloadBegin(r, u, d)
    \/ UploadInsert(r) \/ UploadBlob(r)
    \/ ShareLookup(r) \/ ShareCommit(r)
    \/ RevokeLookup(r) \/ RevokeCommit(r)
    \/ DeleteLookup(r) \/ DeleteBlob(r)
    \/ DownloadLookup(r) \/ DownloadBlob(r)

\* A step moves one handler at most; the others stay or are answered.
LEMMA OneHandlerMoves ==
    ASSUME TypeOK, Next, NEW q \in Requests
    PROVE  \/ req'[q] = req[q]
           \/ req'[q].at = "answered"
           \/ Moves(q)
  <1>1. ASSUME NEW r \in Requests, NEW code, Answer(r, code)
        PROVE  req'[q] = req[q] \/ req'[q].at = "answered"
    BY <1>1 DEF Answer, Idle, TypeOK
  <1>2. ASSUME NEW r \in Requests, Arrive(r)
        PROVE  req'[q] = req[q] \/ req'[q].at = "answered" \/ Moves(q)
    <2>1. CASE q = r
      BY <1>1, <1>2, <2>1 DEF Arrive, Moves, UploadRefused, ShareRefused,
         RevokeRefused, DeleteRefused, DownloadRefused, Refuse
    <2>2. CASE q # r
      BY ZenonT(60), <1>2, <2>2 DEF Arrive, UploadBegin, UploadRefused, ShareBegin,
         ShareRefused, RevokeBegin, RevokeRefused, DeleteBegin, DeleteRefused,
         DownloadBegin, DownloadRefused, Refuse, Answer, Started, TypeOK
    <2> QED BY <2>1, <2>2
  <1>3. ASSUME NEW r \in Requests, Resume(r)
        PROVE  req'[q] = req[q] \/ req'[q].at = "answered" \/ Moves(q)
    <2>1. CASE q = r
      BY <1>1, <1>3, <2>1 DEF Resume, Moves, UploadCommit, ShareConflict,
         ShareNotify, RevokeNotify, DeleteCommit, DownloadCommit, CreateTask
    <2>2. CASE q # r
      BY <1>3, <2>2 DEF Resume, UploadInsert, UploadBlob, UploadCommit,
         ShareLookup, ShareCommit, ShareConflict, ShareNotify, RevokeLookup,
         RevokeCommit, RevokeNotify, DeleteLookup, DeleteBlob, DeleteCommit,
         DownloadLookup, DownloadBlob, DownloadCommit, CreateTask, Answer,
         Goto, KeepRows, TypeOK
    <2> QED BY <2>1, <2>2
  <1>4. ASSUME NEW r \in Requests, Fail(r)
        PROVE  req'[q] = req[q] \/ req'[q].at = "answered"
    BY <1>1, <1>4 DEF Fail, StorageFails, CommitFails
  <1>5. CASE Crash
    BY <1>5 DEF Crash, Idle
  <1>6. ASSUME NEW n \in Notice, TaskRuns(n)
        PROVE  req'[q] = req[q]
    BY <1>6 DEF TaskRuns
  <1> QED BY <1>2, <1>3, <1>4, <1>5, <1>6 DEF Next

\* The local variables that survive an await.
LEMMA GotoFields ==
    ASSUME TypeOK, NEW r \in Requests, NEW point, Goto(r, point)
    PROVE  /\ req'[r].at = point
           /\ req'[r].op = req[r].op /\ req'[r].by = req[r].by
           /\ req'[r].doc = req[r].doc /\ req'[r].who = req[r].who
           /\ req'[r].rows = req[r].rows /\ req'[r].seen = req[r].seen
  BY DEF TypeOK, Request, Goto

LEMMA KeepRowsFields ==
    ASSUME TypeOK, NEW r \in Requests, NEW point, NEW W, KeepRows(r, point, W)
    PROVE  /\ req'[r].at = point
           /\ req'[r].op = req[r].op /\ req'[r].by = req[r].by
           /\ req'[r].doc = req[r].doc /\ req'[r].who = req[r].who
           /\ req'[r].rows = W /\ req'[r].seen = status[req[r].doc]
  BY DEF TypeOK, Request, KeepRows

\* What other handlers do leaves a handler's assumptions standing.
LEMMA HandlerUndisturbed ==
    ASSUME IndInv, Next, NEW q \in Requests, req'[q] = req[q],
           q \in Requests
    PROVE  HandlerInv(q)'
  <1>0. /\ TypeOK /\ UploadsApart
        /\ \A r \in Requests : HandlerInv(r)
    BY DEF IndInv
  <1>1. SUFFICES ASSUME req[q].at # "answered"
                 PROVE  HandlerInv(q)'
    BY DEF HandlerInv
  <1>2. fresh' \subseteq fresh
    BY OnlyUploadsDraw DEF UploadBegin
  <1>3. HandlerInv(q)
    BY <1>0
  <1>4. req[q].doc \in Docs
    BY <1>1, <1>3 DEF HandlerInv
  <1> DEFINE Kept ==
        /\ req[q].op = "upload" => status'[req[q].doc] = status[req[q].doc]
        /\ req[q].op # "upload" => /\ status'[req[q].doc] # "absent"
                                   /\ owner'[req[q].doc] = owner[req[q].doc]
        /\ status[req[q].doc] = "deleted" => status'[req[q].doc] = "deleted"
  <1>5. Kept
    <2>1. CASE UNCHANGED db
      BY <1>1, <1>3, <2>1 DEF db, HandlerInv
    <2>2. ASSUME NEW r \in Requests, ShareCommit(r) \/ RevokeCommit(r)
          PROVE  Kept
      BY <1>1, <1>3, <2>2 DEF ShareCommit, RevokeCommit, HandlerInv
    <2>3. ASSUME NEW r \in Requests, UploadCommit(r)
          PROVE  Kept
      <3>1. r # q
        BY <1>0, <1>1, <2>3 DEF UploadCommit, Answer, Idle, TypeOK
      <3>2. status[req[r].doc] = "absent"
        BY <1>0, <2>3 DEF UploadCommit, At, HandlerInv
      <3>3. req[q].doc # req[r].doc
        BY <1>0, <1>1, <1>3, <2>3, <3>1, <3>2
           DEF UploadCommit, At, HandlerInv, UploadsApart, InFlight
      <3> QED BY <1>0, <1>1, <1>3, <1>4, <2>3, <3>3
              DEF UploadCommit, HandlerInv, TypeOK
    <2>4. ASSUME NEW r \in Requests, DeleteCommit(r)
          PROVE  Kept
      <3>1. status[req[r].doc] # "absent"
        BY <1>0, <2>4 DEF DeleteCommit, At, HandlerInv
      <3> QED BY <1>0, <1>1, <1>3, <1>4, <2>4, <3>1
              DEF DeleteCommit, HandlerInv, TypeOK
    <2> QED BY <2>1, <2>2, <2>3, <2>4, OnlyCommitsChangeRows
  <1>6. req[q].op # "upload" /\ req[q].doc \notin blobs => req[q].doc \notin blobs'
    <2>1. ASSUME NEW r \in Requests, UploadBlob(r), req[q].op # "upload"
          PROVE  req[q].doc # req[r].doc
      <3>1. status[req[r].doc] = "absent"
        BY <1>0, <2>1 DEF UploadBlob, At, HandlerInv
      <3> QED BY <1>1, <1>3, <2>1, <3>1 DEF HandlerInv
    <2> QED BY <2>1, OnlyBlobStepsChangeBlobs DEF UploadBlob, DeleteBlob
  <1> QED BY <1>1, <1>2, <1>3, <1>5, <1>6 DEF HandlerInv

\* And its own steps establish them.
LEMMA HandlerMoved ==
    ASSUME IndInv, Next, NEW q \in Requests, Moves(q)
    PROVE  HandlerInv(q)'
  <1>0. /\ TypeOK /\ DeletedBlobIsGone
        /\ \A d \in fresh : status[d] = "absent"
        /\ HandlerInv(q)
    BY DEF IndInv
  <1>1. ASSUME NEW u \in Accounts, NEW G \in SUBSET Users, UploadBegin(q, u, G)
        PROVE  HandlerInv(q)'
    <2>1. PICK d \in fresh : /\ fresh' = fresh \ {d}
                             /\ Started(q, "upload", "insert", u, d, G)
      BY <1>1 DEF UploadBegin
    <2>2. req'[q] = [Idle EXCEPT !.op = "upload", !.at = "insert", !.by = u,
                                 !.doc = d, !.who = G]
      BY <1>0, <2>1 DEF Started, TypeOK
    <2>3. u \in Users /\ d \in Docs /\ u \in G /\ status'[d] = "absent"
      BY <1>0, <1>1, AccountsAssumption DEF TypeOK, UploadBegin, UploadValid, db
    <2> QED BY <2>1, <2>2, <2>3 DEF HandlerInv, Idle
  <1>2. ASSUME NEW u \in Accounts, NEW d \in Docs, NEW W \in SUBSET Users,
               NEW op \in {"share", "revoke", "delete", "download"},
               op \in {"share", "revoke"} => \E v \in Users : W = {v},
               Started(q, op, "lookup", u, d, W), UNCHANGED db,
               status[d] = "live",
               op # "download" => owner[d] = u,
               op = "revoke" => u \notin W
        PROVE  HandlerInv(q)'
    <2>1. req'[q] = [Idle EXCEPT !.op = op, !.at = "lookup", !.by = u,
                                 !.doc = d, !.who = W]
      BY <1>0, <1>2 DEF Started, TypeOK
    <2>2. u \in Users
      BY AccountsAssumption
    <2> QED BY <1>2, <2>1, <2>2 DEF HandlerInv, Idle, db
  <1>3. ASSUME NEW u \in Accounts, NEW d \in Docs, NEW v \in Users,
               ShareBegin(q, u, d, v) \/ RevokeBegin(q, u, d, v)
        PROVE  HandlerInv(q)'
    BY <1>2, <1>3 DEF ShareBegin, RevokeBegin, Owned, db
  <1>4. ASSUME NEW u \in Accounts, NEW d \in Docs,
               DeleteBegin(q, u, d) \/ DownloadBegin(q, u, d)
        PROVE  HandlerInv(q)'
    BY <1>2, <1>4 DEF DeleteBegin, DownloadBegin, Owned, db
  <1>5. CASE UploadInsert(q) \/ UploadBlob(q) \/ DeleteBlob(q)
    BY <1>0, <1>5, GotoFields DEF UploadInsert, UploadBlob, DeleteBlob, At,
                                  HandlerInv, db
  <1>6. CASE ShareCommit(q) \/ RevokeCommit(q)
    BY <1>0, <1>6, GotoFields DEF ShareCommit, RevokeCommit, At, HandlerInv
  <1>9. CASE ShareLookup(q)
    BY <1>0, <1>9, KeepRowsFields DEF ShareLookup, At, HandlerInv, db
  <1>10. CASE RevokeLookup(q)
    <2>1. CASE req'[q].at = "answered"
      BY <2>1 DEF HandlerInv
    <2>2. CASE /\ access[req[q].doc] \cap req[q].who # {}
               /\ KeepRows(q, "commit", access[req[q].doc] \cap req[q].who)
      <3>1. PICK v \in Users : req[q].who = {v}
        BY <1>0, <1>10 DEF RevokeLookup, At, HandlerInv
      <3>2. access[req[q].doc] \cap req[q].who = req[q].who
        BY <2>2, <3>1
      <3>3. KeepRows(q, "commit", req[q].who)
        BY <2>2, <3>2
      <3>4. At(q, "revoke", "lookup") /\ UNCHANGED <<db, blobs, fresh>>
        BY <1>10 DEF RevokeLookup
      <3> QED BY <1>0, <3>3, <3>4, KeepRowsFields DEF At, HandlerInv, db
    <2> QED BY <1>0, <1>10, <2>1, <2>2 DEF RevokeLookup, Answer, Idle, TypeOK
  <1>11. CASE DeleteLookup(q)
    BY <1>0, <1>11, KeepRowsFields DEF DeleteLookup, At, HandlerInv, db
  <1>12. CASE DownloadLookup(q)
    <2>1. CASE req'[q].at = "answered"
      BY <2>1 DEF HandlerInv
    <2>2. CASE KeepRows(q, "blob", access[req[q].doc] \cap {req[q].by})
      \* A document that is not live was live before: it is deleted.
      <3>1. status[req[q].doc] \in {"live", "deleted"}
        BY <1>0, <1>12 DEF DownloadLookup, At, HandlerInv, TypeOK, Statuses
      <3> QED BY <1>0, <1>12, <2>2, <3>1, KeepRowsFields
              DEF DownloadLookup, At, HandlerInv, db
    <2> QED BY <1>0, <1>12, <2>1, <2>2 DEF DownloadLookup, Answer, Idle, TypeOK
  <1>13. CASE DownloadBlob(q)
    <2>1. CASE req'[q].at = "answered"
      BY <2>1 DEF HandlerInv
    <2>2. CASE req[q].doc \in blobs /\ Goto(q, "commit")
      \* The blob is there, so the document is not deleted.
      <3>1. req[q].seen = "live"
        BY <1>0, <1>13, <2>2 DEF DownloadBlob, At, HandlerInv, DeletedBlobIsGone
      <3> QED BY <1>0, <1>13, <2>2, <3>1, GotoFields
              DEF DownloadBlob, At, HandlerInv, db
    <2> QED BY <1>0, <1>13, <2>1, <2>2 DEF DownloadBlob, Answer, Idle, TypeOK
  <1> QED BY <1>1, <1>3, <1>4, <1>5, <1>6, <1>9, <1>10, <1>11, <1>12, <1>13
          DEF Moves

LEMMA HandlerStep ==
    ASSUME IndInv, Next
    PROVE  \A q \in Requests : HandlerInv(q)'
  <1> SUFFICES ASSUME NEW q \in Requests
               PROVE  HandlerInv(q)'
    OBVIOUS
  <1>1. CASE req'[q].at = "answered"
    BY <1>1 DEF HandlerInv
  <1> QED BY <1>1, OneHandlerMoves, HandlerUndisturbed, HandlerMoved DEF IndInv

LEMMA ApartStep ==
    ASSUME IndInv, Next
    PROVE  UploadsApart'
  <1>0. /\ TypeOK /\ UploadsApart
        /\ \A r \in Requests : HandlerInv(r)
    BY DEF IndInv
  \* An upload in flight was in flight with the same id, or draws a fresh one.
  <1>1. ASSUME NEW q \in Requests, InFlight(q, "upload")'
        PROVE  \/ InFlight(q, "upload") /\ req'[q].doc = req[q].doc
               \/ /\ req'[q].doc \in fresh
                  /\ \A r \in Requests \ {q} : req'[r] = req[r]
    <2>1. CASE req'[q] = req[q]
      BY <1>1, <2>1 DEF InFlight
    <2>2. ASSUME NEW u \in Accounts, NEW G \in SUBSET Users, UploadBegin(q, u, G)
          PROVE  /\ req'[q].doc \in fresh
                 /\ \A r \in Requests \ {q} : req'[r] = req[r]
      BY <1>0, <2>2 DEF UploadBegin, Started, Idle, TypeOK
    <2>3. CASE UploadInsert(q) \/ UploadBlob(q)
      BY <1>0, <2>3, GotoFields DEF UploadInsert, UploadBlob, At, InFlight
    <2>4. ASSUME NEW u \in Accounts, NEW d \in Docs,
                 \/ \E v \in Users : ShareBegin(q, u, d, v) \/ RevokeBegin(q, u, d, v)
                 \/ DeleteBegin(q, u, d) \/ DownloadBegin(q, u, d)
          PROVE  FALSE
      <3>1. ASSUME NEW op, NEW W, op # "upload", Started(q, op, "lookup", u, d, W)
            PROVE  FALSE
        <4>1. req'[q].op = op
          BY <1>0, <3>1 DEF Started, Idle, TypeOK
        <4> QED BY <1>1, <3>1, <4>1 DEF InFlight
      <3>2. ASSUME NEW v \in Users, ShareBegin(q, u, d, v) \/ RevokeBegin(q, u, d, v)
            PROVE  FALSE
        BY <3>1, <3>2 DEF ShareBegin, RevokeBegin
      <3>3. CASE DeleteBegin(q, u, d) \/ DownloadBegin(q, u, d)
        BY <3>1, <3>3 DEF DeleteBegin, DownloadBegin
      <3> QED BY <2>4, <3>2, <3>3
    <2>5. CASE \/ ShareLookup(q) \/ ShareCommit(q) \/ RevokeLookup(q)
               \/ RevokeCommit(q) \/ DeleteLookup(q) \/ DeleteBlob(q)
               \/ DownloadLookup(q) \/ DownloadBlob(q)
      <3>1. req[q].op # "upload"
        BY <2>5 DEF ShareLookup, ShareCommit, RevokeLookup, RevokeCommit,
           DeleteLookup, DeleteBlob, DownloadLookup, DownloadBlob, At
      <3>2. req'[q].op = req[q].op \/ req'[q].at = "answered"
        BY <1>0, <2>5, GotoFields, KeepRowsFields DEF ShareLookup, ShareCommit,
           RevokeLookup, RevokeCommit, DeleteLookup, DeleteBlob,
           DownloadLookup, DownloadBlob, Answer, Idle, TypeOK
      <3> QED BY <1>1, <3>1, <3>2 DEF InFlight
    <2> QED BY <1>0, <1>1, <2>1, <2>2, <2>3, <2>4, <2>5, OneHandlerMoves
            DEF Moves, InFlight
  <1>2. ASSUME NEW q \in Requests, InFlight(q, "upload")
        PROVE  req[q].doc \notin fresh
    BY <1>0, <1>2 DEF HandlerInv, InFlight
  <1> QED BY <1>0, <1>1, <1>2 DEF UploadsApart, InFlight

-----------------------------------------------------------------------------
(* Pushes: what a handler will announce has been committed.                *)

\* An audit entry is followed by another, never taken back.
LEMMA TrailStays ==
    ASSUME IndInv, Next, NEW d \in Docs, NEW u \in Users, trail[d][u] # "none"
    PROVE  trail'[d][u] # "none"
  <1>0. TypeOK /\ \A r \in Requests : HandlerInv(r)
    BY DEF IndInv
  <1>1. CASE UNCHANGED db
    BY <1>1 DEF db
  <1>2. ASSUME NEW r \in Requests, UploadCommit(r) \/ DeleteCommit(r)
        PROVE  trail'[d][u] # "none"
    BY <1>2 DEF UploadCommit, DeleteCommit
  <1>3. ASSUME NEW r \in Requests, ShareCommit(r)
        PROVE  trail'[d][u] # "none"
    BY <1>0, <1>3 DEF ShareCommit, TypeOK
  <1>4. ASSUME NEW r \in Requests, RevokeCommit(r)
        PROVE  trail'[d][u] # "none"
    BY <1>0, <1>4 DEF RevokeCommit, TypeOK
  <1> QED BY <1>1, <1>2, <1>3, <1>4, OnlyCommitsChangeRows

\* A handler reaches "notify" by the commit that writes the entry.
LEMMA NotifyStep ==
    ASSUME IndInv, Next, NEW q \in Requests
    PROVE  NotifyInv(q)'
  <1> SUFFICES ASSUME req'[q].at = "notify", NEW u \in req'[q].who
               PROVE  trail'[req'[q].doc][u] # "none"
    BY DEF NotifyInv
  <1>0. TypeOK /\ HandlerInv(q) /\ NotifyInv(q)
    BY DEF IndInv
  <1>1. CASE req'[q] = req[q]
    <2>1. u \in Users /\ req[q].doc \in Docs
      BY <1>0, <1>1 DEF TypeOK, Request, HandlerInv
    <2> QED BY <1>0, <1>1, <2>1, TrailStays DEF NotifyInv
  <1>2. CASE Moves(q)
    <2>1. ASSUME NEW v \in Accounts, NEW G \in SUBSET Users, UploadBegin(q, v, G)
          PROVE  FALSE
      BY <1>0, <2>1 DEF UploadBegin, Started, Idle, TypeOK
    <2>2. ASSUME NEW v \in Accounts, NEW d \in Docs,
                 \/ \E w \in Users : ShareBegin(q, v, d, w) \/ RevokeBegin(q, v, d, w)
                 \/ DeleteBegin(q, v, d) \/ DownloadBegin(q, v, d)
          PROVE  FALSE
      <3>1. ASSUME NEW op, NEW W, Started(q, op, "lookup", v, d, W)
            PROVE  FALSE
        BY <1>0, <3>1 DEF Started, Idle, TypeOK
      <3> QED BY <2>2, <3>1 DEF ShareBegin, RevokeBegin, DeleteBegin, DownloadBegin
    <2>3. CASE \/ UploadInsert(q) \/ UploadBlob(q) \/ DeleteBlob(q)
               \/ ShareLookup(q) \/ RevokeLookup(q) \/ DeleteLookup(q)
               \/ DownloadLookup(q) \/ DownloadBlob(q)
      BY <1>0, <2>3, GotoFields, KeepRowsFields
         DEF UploadInsert, UploadBlob, DeleteBlob, ShareLookup, RevokeLookup,
             DeleteLookup, DownloadLookup, DownloadBlob, Answer, Idle, TypeOK
    <2>4. CASE ShareCommit(q) \/ RevokeCommit(q)
      <3>1. /\ req'[q].doc = req[q].doc /\ req'[q].who = req[q].who
            /\ req[q].doc \in Docs /\ u \in Users
        BY <1>0, <2>4, GotoFields
           DEF ShareCommit, RevokeCommit, At, HandlerInv, TypeOK, Request
      <3> QED BY <1>0, <2>4, <3>1 DEF ShareCommit, RevokeCommit, TypeOK
    <2> QED BY <1>2, <2>1, <2>2, <2>3, <2>4 DEF Moves
  <1> QED BY <1>0, <1>1, <1>2, OneHandlerMoves

\* Only a handler at "notify" creates tasks, one for each user it names.
LEMMA NoticeStep ==
    ASSUME IndInv, Next
    PROVE  NoticeIsCommitted'
  <1>0. /\ TypeOK /\ NoticeIsCommitted
        /\ \A r \in Requests : HandlerInv(r) /\ NotifyInv(r)
    BY DEF IndInv
  <1>1. SUFFICES ASSUME NEW n \in notices'
                 PROVE  /\ n.doc \in Docs /\ n.to \in Users
                        /\ trail[n.doc][n.to] # "none"
    BY TrailStays DEF NoticeIsCommitted
  <1>2. CASE n \in notices
    BY <1>0, <1>2 DEF NoticeIsCommitted, TypeOK, Notice
  <1>3. ASSUME NEW r \in Requests, NEW type, CreateTask(r, type),
               req[r].at = "notify", n \notin notices
        PROVE  /\ n.doc \in Docs /\ n.to \in Users
               /\ trail[n.doc][n.to] # "none"
    <2>1. PICK u \in req[r].who : n = [type |-> type, to |-> u, doc |-> req[r].doc]
      BY <1>1, <1>3 DEF CreateTask
    <2>2. u \in Users /\ req[r].doc \in Docs
      BY <1>0, <1>3 DEF TypeOK, Request, HandlerInv
    <2> QED BY <1>0, <1>3, <2>1, <2>2 DEF NotifyInv
  <1>4. \/ notices' \subseteq notices
        \/ \E r \in Requests : ShareNotify(r) \/ RevokeNotify(r)
    <2>1. ASSUME NEW r \in Requests, Arrive(r)
          PROVE  UNCHANGED notices
      BY ZenonT(60), <2>1 DEF Arrive, UploadBegin, UploadRefused, ShareBegin,
         ShareRefused, RevokeBegin, RevokeRefused, DeleteBegin, DeleteRefused,
         DownloadBegin, DownloadRefused, Refuse
    <2>2. ASSUME NEW r \in Requests, Resume(r)
          PROVE  UNCHANGED notices \/ ShareNotify(r) \/ RevokeNotify(r)
      BY <2>2 DEF Resume, UploadInsert, UploadBlob, UploadCommit, ShareLookup,
         ShareCommit, ShareConflict, RevokeLookup, RevokeCommit, DeleteLookup,
         DeleteBlob, DeleteCommit, DownloadLookup, DownloadBlob, DownloadCommit
    <2>3. ASSUME NEW r \in Requests, Fail(r)
          PROVE  UNCHANGED notices
      BY <2>3 DEF Fail, StorageFails, CommitFails
    <2> QED BY <2>1, <2>2, <2>3 DEF Next, Crash, TaskRuns
  <1> QED BY <1>1, <1>2, <1>3, <1>4 DEF ShareNotify, RevokeNotify, At

-----------------------------------------------------------------------------
(* Blobs where nothing fails.                                              *)

\* Without failures a handler leaves its last point by its own commit only.
LEMMA CommitStays ==
    ASSUME IndInv, Next, Faults = {}, NEW q \in Requests,
           NEW op \in {"upload", "delete"}, At(q, op, "commit")
    PROVE  \/ req'[q] = req[q]
           \/ op = "upload" /\ UploadCommit(q)
           \/ op = "delete" /\ DeleteCommit(q)
  <1>0. TypeOK
    BY DEF IndInv
  <1>1. ASSUME NEW r \in Requests, r # q,
               \/ \E code : Answer(r, code)
               \/ \E point : Goto(r, point)
               \/ \E point, W : KeepRows(r, point, W)
               \/ \E o, point, u, d, W : Started(r, o, point, u, d, W)
        PROVE  req'[q] = req[q]
    BY <1>0, <1>1 DEF Answer, Goto, KeepRows, Started, TypeOK
  <1>2. ASSUME NEW r \in Requests, Arrive(r)
        PROVE  req'[q] = req[q]
    <2>1. r # q
      BY <1>2 DEF At, Arrive, UploadBegin, UploadRefused, ShareBegin, ShareRefused,
         RevokeBegin, RevokeRefused, DeleteBegin, DeleteRefused,
         DownloadBegin, DownloadRefused
    <2> QED BY ZenonT(60), <1>2, <2>1, <1>1 DEF Arrive, UploadBegin, UploadRefused,
            ShareBegin, ShareRefused, RevokeBegin, RevokeRefused, DeleteBegin,
            DeleteRefused, DownloadBegin, DownloadRefused, Refuse
  <1>3. ASSUME NEW r \in Requests, Resume(r)
        PROVE  \/ req'[q] = req[q]
               \/ op = "upload" /\ UploadCommit(q)
               \/ op = "delete" /\ DeleteCommit(q)
    <2>1. CASE r = q
      BY <1>3, <2>1 DEF At, Resume, UploadInsert, UploadBlob, UploadCommit,
         ShareLookup, ShareCommit, ShareConflict, ShareNotify, RevokeLookup,
         RevokeCommit, RevokeNotify, DeleteLookup, DeleteBlob, DeleteCommit,
         DownloadLookup, DownloadBlob, DownloadCommit
    <2>2. CASE r # q
      BY <1>1, <1>3, <2>2 DEF Resume, UploadInsert, UploadBlob, UploadCommit,
         ShareLookup, ShareCommit, ShareConflict, ShareNotify, RevokeLookup,
         RevokeCommit, RevokeNotify, DeleteLookup, DeleteBlob, DeleteCommit,
         DownloadLookup, DownloadBlob, DownloadCommit, CreateTask
    <2> QED BY <2>1, <2>2
  <1>4. \A r \in Requests : ~Fail(r)
    BY DEF Fail, StorageFails, CommitFails
  <1>5. ~Crash
    BY DEF Crash
  <1>6. ASSUME NEW n \in Notice, TaskRuns(n)
        PROVE  req'[q] = req[q]
    BY <1>6 DEF TaskRuns
  <1> QED BY <1>2, <1>3, <1>4, <1>5, <1>6 DEF Next

\* A live document loses its blob to a deletion, which is then at its commit.
LEMMA LiveBlobStep ==
    ASSUME IndInv, Next, Faults = {}
    PROVE  LiveHasBlob'
  <1> SUFFICES ASSUME NEW d \in Docs, status'[d] = "live", d \notin blobs'
               PROVE  \E r \in Requests : At(r, "delete", "commit")' /\ req'[r].doc = d
    BY DEF LiveHasBlob
  <1>0. /\ TypeOK /\ CalmInv
        /\ \A r \in Requests : HandlerInv(r)
    BY DEF IndInv
  \* An upload commits after its blob was written.
  <1>1. status[d] = "live"
    <2>1. ASSUME NEW r \in Requests, UploadCommit(r)
          PROVE  status[d] = "live"
      <3>1. req[r].doc \in blobs /\ UNCHANGED blobs
        BY <1>0, <2>1 DEF CalmInv, UploadCommit
      <3> QED BY <1>0, <2>1, <3>1 DEF UploadCommit, TypeOK
    <2>2. ASSUME NEW r \in Requests, DeleteCommit(r)
          PROVE  status[d] = "live"
      BY <1>0, <2>2 DEF DeleteCommit, TypeOK
    <2> QED BY <2>1, <2>2, OnlyCommitsChangeRows DEF db, ShareCommit, RevokeCommit
  <1>2. CASE d \in blobs
    <2>1. PICK r \in Requests : DeleteBlob(r) /\ req[r].doc = d
      BY <1>2, OnlyBlobStepsChangeBlobs DEF UploadBlob, DeleteBlob
    <2>2. At(r, "delete", "commit")' /\ req'[r].doc = d
      BY <1>0, <2>1, GotoFields DEF DeleteBlob, At
    <2> QED BY <2>2
  <1>3. CASE d \notin blobs
    <2>1. PICK r \in Requests : At(r, "delete", "commit") /\ req[r].doc = d
      BY <1>0, <1>1, <1>3 DEF CalmInv, LiveHasBlob
    <2>2. ~DeleteCommit(r)
      BY <1>0, <2>1 DEF DeleteCommit, TypeOK
    <2>3. req'[r] = req[r]
      BY <2>1, <2>2, CommitStays
    <2> QED BY <2>1, <2>3 DEF At
  <1> QED BY <1>2, <1>3

\* No deletion touches the blob of an upload: its document has no row yet.
LEMMA UploadBlobStep ==
    ASSUME IndInv, Next, Faults = {}, NEW q \in Requests,
           At(q, "upload", "commit")'
    PROVE  req'[q].doc \in blobs'
  <1>0. /\ TypeOK /\ CalmInv
        /\ \A r \in Requests : HandlerInv(r)
    BY DEF IndInv
  <1>1. CASE req'[q] = req[q]
    <2>1. req[q].doc \in blobs /\ status[req[q].doc] = "absent"
      BY <1>0, <1>1 DEF CalmInv, At, HandlerInv
    <2>2. ASSUME NEW r \in Requests, DeleteBlob(r)
          PROVE  req[r].doc # req[q].doc
      BY <1>0, <2>1, <2>2 DEF DeleteBlob, At, HandlerInv
    <2> QED BY <1>1, <2>1, <2>2, OnlyBlobStepsChangeBlobs DEF UploadBlob, DeleteBlob
  <1>2. CASE Moves(q)
    <2>1. ASSUME NEW v \in Accounts, NEW G \in SUBSET Users, UploadBegin(q, v, G)
          PROVE  FALSE
      BY <1>0, <2>1 DEF UploadBegin, Started, Idle, TypeOK, At
    <2>2. ASSUME NEW v \in Accounts, NEW d \in Docs,
                 \/ \E w \in Users : ShareBegin(q, v, d, w) \/ RevokeBegin(q, v, d, w)
                 \/ DeleteBegin(q, v, d) \/ DownloadBegin(q, v, d)
          PROVE  FALSE
      <3>1. ASSUME NEW op, NEW W, Started(q, op, "lookup", v, d, W)
            PROVE  FALSE
        BY <1>0, <3>1 DEF Started, Idle, TypeOK, At
      <3> QED BY <2>2, <3>1 DEF ShareBegin, RevokeBegin, DeleteBegin, DownloadBegin
    <2>3. CASE \/ UploadInsert(q) \/ DeleteBlob(q) \/ ShareCommit(q) \/ RevokeCommit(q)
               \/ ShareLookup(q) \/ RevokeLookup(q) \/ DeleteLookup(q)
               \/ DownloadLookup(q) \/ DownloadBlob(q)
      <3>1. ASSUME NEW code, Answer(q, code)
            PROVE  FALSE
        BY <1>0, <3>1 DEF Answer, Idle, TypeOK, At
      <3>2. CASE UploadInsert(q)
        BY <1>0, <3>2, GotoFields DEF UploadInsert, At
      <3>3. CASE ShareLookup(q) \/ RevokeLookup(q) \/ DeleteLookup(q) \/ DownloadLookup(q)
        BY <1>0, <3>1, <3>3, KeepRowsFields
           DEF ShareLookup, RevokeLookup, DeleteLookup, DownloadLookup, At
      <3>4. CASE DeleteBlob(q) \/ ShareCommit(q) \/ RevokeCommit(q) \/ DownloadBlob(q)
        BY <1>0, <3>1, <3>4, GotoFields
           DEF DeleteBlob, ShareCommit, RevokeCommit, DownloadBlob, At
      <3> QED BY <2>3, <3>2, <3>3, <3>4
    <2>4. CASE UploadBlob(q)
      BY <1>0, <2>4, GotoFields DEF UploadBlob
    <2> QED BY <1>2, <2>1, <2>2, <2>3, <2>4 DEF Moves
  <1> QED BY <1>0, <1>1, <1>2, OneHandlerMoves DEF At

\* A blob is written for an upload that commits next, and deleted before the
\* document stops being live.
LEMMA BlobIsWantedStep ==
    ASSUME IndInv, Next, Faults = {}, NEW d \in blobs'
    PROVE  \/ status'[d] = "live"
           \/ \E r \in Requests : At(r, "upload", "commit")' /\ req'[r].doc = d
  <1>0. /\ TypeOK /\ CalmInv
        /\ \A r \in Requests : HandlerInv(r)
    BY DEF IndInv
  <1>1. CASE d \notin blobs
    <2>1. PICK r \in Requests : UploadBlob(r) /\ req[r].doc = d
      BY <1>1, OnlyBlobStepsChangeBlobs DEF UploadBlob, DeleteBlob
    <2>2. At(r, "upload", "commit")' /\ req'[r].doc = d
      BY <1>0, <2>1, GotoFields DEF UploadBlob, At
    <2> QED BY <2>2
  <1>2. CASE d \in blobs /\ status[d] = "live"
    <2>1. ASSUME NEW r \in Requests, DeleteCommit(r)
          PROVE  req[r].doc # d
      BY <1>0, <1>2, <2>1 DEF DeleteCommit, At, HandlerInv
    <2>2. status'[d] = "live"
      BY <1>0, <1>2, <2>1, OnlyCommitsChangeRows
         DEF db, UploadCommit, DeleteCommit, ShareCommit, RevokeCommit, TypeOK
    <2> QED BY <2>2
  <1>3. CASE d \in blobs /\ status[d] # "live"
    <2>1. PICK r \in Requests : At(r, "upload", "commit") /\ req[r].doc = d
      BY <1>0, <1>3 DEF CalmInv
    <2>2. CASE req'[r] = req[r]
      BY <2>1, <2>2 DEF At
    <2>3. CASE UploadCommit(r)
      <3>1. d \in Docs
        BY <1>0, <1>3 DEF TypeOK
      <3>2. status'[d] = "live"
        BY <1>0, <2>1, <2>3, <3>1 DEF UploadCommit, TypeOK
      <3> QED BY <3>2
    <2> QED BY <2>1, <2>2, <2>3, CommitStays
  <1> QED BY <1>1, <1>2, <1>3

LEMMA CalmStep ==
    ASSUME IndInv, Next, Faults = {}
    PROVE  CalmInv'
  <1>1. LiveHasBlob'
    BY LiveBlobStep
  <1>2. \A r \in Requests : At(r, "upload", "commit")' => req'[r].doc \in blobs'
    BY UploadBlobStep
  <1>3. \A d \in blobs' : \/ status'[d] = "live"
                          \/ \E r \in Requests : /\ At(r, "upload", "commit")'
                                                 /\ req'[r].doc = d
    BY BlobIsWantedStep
  <1> QED BY <1>1, <1>2, <1>3 DEF CalmInv

-----------------------------------------------------------------------------
(* Theorems.                                                               *)

LEMMA InitIndInv ==
    ASSUME Init
    PROVE  IndInv
  <1>1. TypeOK
    BY DEF Init, TypeOK, Idle, Request, Ops, Points, Codes, Statuses
  <1>2. \A r \in Requests : req[r].at = "answered"
    BY DEF Init, Idle
  <1> QED BY <1>1, <1>2 DEF Init, IndInv, OwnerKeepsAccess, DeletedBlobIsGone,
                            AuditTellsAccess, NoticeIsCommitted, NotifyInv,
                            UploadsApart, InFlight, HandlerInv,
                            CalmInv, LiveHasBlob, At

\* A stuttering step changes nothing the invariant reads.
LEMMA StutterIndInv ==
    ASSUME IndInv, UNCHANGED vars
    PROVE  IndInv'
  BY DEF vars, db, IndInv, TypeOK, OwnerKeepsAccess, DeletedBlobIsGone,
         AuditTellsAccess, NoticeIsCommitted, NotifyInv,
         UploadsApart, InFlight, HandlerInv, CalmInv, LiveHasBlob, At

\* Every reachable state of the document routes satisfies IndInv: whatever a
\* handler read before an await still entitles it to the step that follows.
THEOREM Invariance == Spec => []IndInv
  <1>1. Init => IndInv
    BY InitIndInv
  <1>2. IndInv /\ [Next]_vars => IndInv'
    BY TypeStep, OwnerStep, BlobStep, AuditStep, FreshStep, ApartStep, HandlerStep,
       NoticeStep, NotifyStep, CalmStep, StutterIndInv DEF IndInv
  <1> QED BY <1>1, <1>2, PTL DEF Spec

\* The variables keep their types.
THEOREM TypeCorrect == Spec => []TypeOK
  <1>1. IndInv => TypeOK
    BY DEF IndInv
  <1> QED BY <1>1, Invariance, PTL

\* The owner of a live document has an access row, under every interleaving
\* of shares, revocations and deletions and every failure.
THEOREM OwnerSafe == Spec => []OwnerKeepsAccess
  <1>1. IndInv => OwnerKeepsAccess
    BY DEF IndInv
  <1> QED BY <1>1, Invariance, PTL

\* scope=all lists exactly what scope=mine and scope=shared list.
THEOREM ListingSafe == Spec => []AllScopeIsBoth
  <1>1. IndInv => AllScopeIsBoth
    BY DEF IndInv, AllScopeIsBoth, OwnerKeepsAccess, Listing, Owned
  <1> QED BY <1>1, Invariance, PTL

\* No ciphertext outlives a committed deletion.
THEOREM BlobSafe == Spec => []DeletedBlobIsGone
  <1>1. IndInv => DeletedBlobIsGone
    BY DEF IndInv
  <1> QED BY <1>1, Invariance, PTL

\* The audit log never contradicts the access rows of a live document.
THEOREM AuditSafe == Spec => []AuditTellsAccess
  <1>1. IndInv => AuditTellsAccess
    BY DEF IndInv
  <1> QED BY <1>1, Invariance, PTL

\* A push on its way speaks of a share or revocation in the audit log.
THEOREM NoticeSafe == Spec => []NoticeIsCommitted
  <1>1. IndInv => NoticeIsCommitted
    BY DEF IndInv
  <1> QED BY <1>1, Invariance, PTL

\* Where nothing fails, a live document is without its blob only while a
\* deletion of it is about to commit.
THEOREM LiveBlobSafe == Faults = {} => (Spec => []LiveHasBlob)
  <1>1. Faults = {} /\ IndInv => LiveHasBlob
    BY DEF IndInv, CalmInv
  <1>2. CASE Faults = {}
    <2>1. IndInv => LiveHasBlob
      BY <1>1, <1>2
    <2> QED BY <2>1, Invariance, PTL
  <1> QED BY <1>2

\* Where nothing fails, an idle server stores the blobs of the live documents
\* and no other.
THEOREM QuietSafe == Faults = {} => (Spec => []QuietStoreMatches)
  <1>1. Faults = {} /\ IndInv => QuietStoreMatches
    <2> SUFFICES ASSUME Faults = {}, IndInv,
                        \A r \in Requests : req[r].at = "answered"
                 PROVE  blobs = {d \in Docs : status[d] = "live"}
      BY DEF QuietStoreMatches
    <2>1. \A r \in Requests : ~At(r, "upload", "commit") /\ ~At(r, "delete", "commit")
      BY DEF At
    <2>2. \A d \in blobs : d \in Docs /\ status[d] = "live"
      BY <2>1 DEF IndInv, CalmInv, TypeOK
    <2>3. \A d \in Docs : status[d] = "live" => d \in blobs
      BY <2>1 DEF IndInv, CalmInv, LiveHasBlob
    <2> QED BY <2>2, <2>3
  <1>2. CASE Faults = {}
    <2>1. IndInv => QuietStoreMatches
      BY <1>1, <1>2
    <2> QED BY <2>1, Invariance, PTL
  <1> QED BY <1>2

\* A served download read its access row while the document was live.
THEOREM DownloadSafe == Spec => ServedWhileEntitled
  <1>1. IndInv /\ [Next]_vars
          => [\A r \in Requests : Answers(r, "download", "ok")
                                     => req[r].seen = "live"]_vars
    <2> SUFFICES ASSUME IndInv, Next, NEW r \in Requests,
                        Answers(r, "download", "ok")
                 PROVE  req[r].seen = "live"
      OBVIOUS
    <2>0. TypeOK /\ HandlerInv(r)
      BY DEF IndInv
    \* Only the last step of a download answers with a 200.
    <2>1. DownloadCommit(r)
      <3>1. req'[r] # req[r]
        BY DEF Answers
      <3>2. ASSUME NEW q \in Requests, NEW code, Answer(q, code)
            PROVE  q = r /\ code = "ok"
        BY <2>0, <3>1, <3>2 DEF Answer, Idle, Answers, TypeOK
      <3>3. ASSUME NEW q \in Requests, NEW point, Goto(q, point)
            PROVE  q = r /\ point = "answered"
        BY <2>0, <3>1, <3>3 DEF Goto, Answers, TypeOK, Request
      <3>4. ASSUME NEW q \in Requests, NEW W, NEW point, KeepRows(q, point, W)
            PROVE  q = r /\ point = "answered"
        BY <2>0, <3>1, <3>4 DEF KeepRows, Answers, TypeOK, Request
      <3>5. ASSUME NEW q \in Requests, Arrive(q)
            PROVE  FALSE
        <4>1. q = r
          BY ZenonT(60), <2>0, <3>1, <3>5 DEF Arrive, UploadBegin, UploadRefused,
             ShareBegin, ShareRefused, RevokeBegin, RevokeRefused,
             DeleteBegin, DeleteRefused, DownloadBegin, DownloadRefused,
             Refuse, Answer, Started, TypeOK
        <4>2. req[q].at = "answered"
          BY <3>5 DEF Arrive, UploadBegin, UploadRefused,
             ShareBegin, ShareRefused, RevokeBegin, RevokeRefused,
             DeleteBegin, DeleteRefused, DownloadBegin, DownloadRefused
        <4> QED BY <4>1, <4>2 DEF Answers
      <3>6. ASSUME NEW q \in Requests, Resume(q)
            PROVE  DownloadCommit(r)
        <4>1. \/ UploadCommit(q) \/ ShareNotify(q) \/ RevokeNotify(q)
              \/ DeleteCommit(q) \/ DownloadCommit(q)
          BY <3>2, <3>3, <3>4, <3>6 DEF Resume, UploadInsert, UploadBlob,
             ShareLookup, ShareCommit, ShareConflict, RevokeLookup,
             RevokeCommit, DeleteLookup, DeleteBlob, DownloadLookup,
             DownloadBlob
        <4>2. q = r
          BY <3>2, <4>1 DEF UploadCommit, ShareNotify, RevokeNotify,
             DeleteCommit, DownloadCommit, CreateTask
        <4> QED BY <4>1, <4>2 DEF Answers, UploadCommit, ShareNotify,
                   RevokeNotify, DeleteCommit, At
      <3>7. ASSUME NEW q \in Requests, Fail(q)
            PROVE  FALSE
        BY <3>2, <3>7 DEF Fail, StorageFails, CommitFails
      <3>8. ~Crash
        BY DEF Crash, Answers, Idle
      <3>9. ASSUME NEW n \in Notice, TaskRuns(n)
            PROVE  FALSE
        BY <3>1, <3>9 DEF TaskRuns
      <3> QED BY <3>5, <3>6, <3>7, <3>8, <3>9 DEF Next
    <2> QED BY <2>0, <2>1 DEF DownloadCommit, At, HandlerInv
  <1> QED BY <1>1, Invariance, PTL DEF Spec, ServedWhileEntitled

-----------------------------------------------------------------------------
(* The routes implement AccessControl.                                     *)

LEMMA RefinementInit ==
    ASSUME Init
    PROVE  AC!Init
  BY DEF Init, AC!Init, Readers

\* Every commit is one abstract step or none; everything else is none.
LEMMA RefinementStep ==
    ASSUME IndInv, Next
    PROVE  [AC!Next]_(AC!vars)
  <1>0. /\ TypeOK /\ OwnerKeepsAccess
        /\ \A r \in Requests : HandlerInv(r)
    BY DEF IndInv
  <1>1. CASE UNCHANGED db
    BY <1>1 DEF db, Readers, AC!vars
  <1>2. ASSUME NEW r \in Requests, UploadCommit(r)
        PROVE  \E d \in Docs, u \in Users, G \in SUBSET Users : AC!Publish(d, u, G)
    <2> DEFINE d == req[r].doc  u == req[r].by  G == req[r].who
    <2>1. /\ d \in Docs /\ u \in Users /\ G \in SUBSET Users
          /\ u \in G /\ status[d] = "absent"
      BY <1>0, <1>2 DEF UploadCommit, At, HandlerInv, TypeOK, Request
    <2>2. Readers' = [Readers EXCEPT ![d] = G]
      BY <1>0, <1>2, <2>1 DEF UploadCommit, Readers, TypeOK
    <2> QED BY <1>2, <2>1, <2>2 DEF UploadCommit, AC!Publish
  <1>3. ASSUME NEW r \in Requests, ShareCommit(r)
        PROVE  \/ \E d \in Docs, v \in Users : AC!Grant(d, v)
               \/ UNCHANGED AC!vars
    <2> DEFINE d == req[r].doc
    <2>1. /\ d \in Docs /\ \E v \in Users : req[r].who = {v}
      BY <1>0, <1>3 DEF ShareCommit, At, HandlerInv
    <2>2. CASE status[d] = "live"
      <3>1. PICK v \in Users : req[r].who = {v}
        BY <2>1
      <3>2. Readers' = [Readers EXCEPT ![d] = @ \cup {v}]
        BY <1>0, <1>3, <2>1, <2>2, <3>1 DEF ShareCommit, Readers, TypeOK
      <3> QED BY <1>3, <2>1, <2>2, <3>2 DEF ShareCommit, AC!Grant
    <2>3. CASE status[d] # "live"
      BY <1>0, <1>3, <2>1, <2>3 DEF ShareCommit, Readers, TypeOK, AC!vars
    <2> QED BY <2>2, <2>3
  <1>4. ASSUME NEW r \in Requests, RevokeCommit(r)
        PROVE  \/ \E d \in Docs, v \in Users : AC!Withdraw(d, v)
               \/ UNCHANGED AC!vars
    <2> DEFINE d == req[r].doc
    <2>1. /\ d \in Docs /\ owner[d] = req[r].by
          /\ \E v \in Users : req[r].rows = {v} /\ v # req[r].by
      BY <1>0, <1>4 DEF RevokeCommit, At, HandlerInv
    <2>2. CASE status[d] = "live"
      <3>1. PICK v \in Users : req[r].rows = {v} /\ v # req[r].by
        BY <2>1
      <3>2. Readers' = [Readers EXCEPT ![d] = @ \ {v}]
        BY <1>0, <1>4, <2>1, <2>2, <3>1 DEF RevokeCommit, Readers, TypeOK
      <3> QED BY <1>4, <2>1, <2>2, <3>1, <3>2 DEF RevokeCommit, AC!Withdraw
    <2>3. CASE status[d] # "live"
      BY <1>0, <1>4, <2>1, <2>3 DEF RevokeCommit, Readers, TypeOK, AC!vars
    <2> QED BY <2>2, <2>3
  <1>5. ASSUME NEW r \in Requests, DeleteCommit(r)
        PROVE  \/ \E d \in Docs : AC!Retire(d)
               \/ UNCHANGED AC!vars
    <2> DEFINE d == req[r].doc
    <2>1. d \in Docs /\ status[d] \in {"live", "deleted"}
      BY <1>0, <1>5 DEF DeleteCommit, At, HandlerInv, TypeOK, Statuses
    <2>2. CASE status[d] = "live"
      <3>1. Readers' = [Readers EXCEPT ![d] = {}]
        BY <1>0, <1>5, <2>1, <2>2 DEF DeleteCommit, Readers, TypeOK
      <3> QED BY <1>5, <2>1, <2>2, <3>1 DEF DeleteCommit, AC!Retire
    <2>3. CASE status[d] = "deleted"
      BY <1>0, <1>5, <2>1, <2>3 DEF DeleteCommit, Readers, TypeOK, AC!vars
    <2> QED BY <2>1, <2>2, <2>3
  <1> QED BY <1>1, <1>2, <1>3, <1>4, <1>5, OnlyCommitsChangeRows DEF AC!Next

\* The concurrent, failing routes implement the atomic access-control
\* specification: each step maps to one of its steps or to a stutter.
THEOREM Refinement == Spec => ImplementsAccessControl
  <1>1. Init => AC!Init
    BY RefinementInit
  <1>2. IndInv /\ [Next]_vars => [AC!Next]_(AC!vars)
    <2>1. UNCHANGED vars => UNCHANGED AC!vars
      BY DEF vars, db, AC!vars, Readers
    <2> QED BY <2>1, RefinementStep
  <1> QED BY <1>1, <1>2, Invariance, PTL
          DEF Spec, ImplementsAccessControl, AC!Spec
=============================================================================
