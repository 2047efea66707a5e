------------------------------ MODULE Documents ------------------------------
(***************************************************************************)
(* The document routes of the Vellaris server                              *)
(* (src/src/vellaris/server/routes/documents.py) running concurrently.     *)
(*                                                                         *)
(* Every request is an asyncio task with its own database session.  A step *)
(* of the model is what a handler does between two awaits that other       *)
(* requests can observe: one SELECT, one blob-store call, or the flush and *)
(* COMMIT that publish everything the session has pending.  The database   *)
(* is read-committed (PostgreSQL's default, and what the SQLite driver     *)
(* gives to statements that precede the first write): a SELECT sees what   *)
(* was committed when it runs, and nothing a handler read is locked.       *)
(*                                                                         *)
(* status, owner, access and trail are committed rows.  What a session has *)
(* added and not committed lives in the request that will commit it.       *)
(***************************************************************************)

CONSTANTS
    Users,      \* user ids a request may name
    Accounts,   \* those that are rows of the users table, not deleted
    Docs,       \* ids uuid4() may draw for a document, each at most once
    Requests,   \* concurrent handlers (a handler is reused once answered)
    Faults,     \* which failures happen: "crash", "storage", "commit"
    None

ASSUME AccountsAssumption == Accounts \subseteq Users
ASSUME NoneAssumption == None \notin Users /\ None \notin Docs
ASSUME FaultsAssumption == Faults \subseteq {"crash", "storage", "commit"}

VARIABLES
    status,     \* documents.deleted_at: no row, NULL or set
    owner,      \* documents.owner_id
    access,     \* document_access: the users with a row, by document
    trail,      \* audit_log, reduced to the last entry on a document and user
    blobs,      \* documents whose blob_key is present in the BlobStore
    fresh,      \* document ids uuid4() has not drawn yet
    req,        \* the handlers: program counter and local variables
    notices     \* send_push tasks created and not yet run

db == <<status, owner, access, trail>>
vars == <<db, blobs, fresh, req, notices>>

Ops == {"none", "upload", "share", "revoke", "delete", "download"}
Points == {"insert", "lookup", "blob", "commit", "notify", "answered"}

\* How a request ends.  The last four are responses with status 500.
Codes == {"none", "ok", "bad_request", "not_found",
          "conflict", "blob_missing", "storage_error", "commit_error"}

Statuses == {"absent", "live", "deleted"}

Request ==
    [op : Ops,
     at : Points,
     by : Users \cup {None},        \* current_user
     doc : Docs \cup {None},
     who : SUBSET Users,            \* body.access, body.user_id or user_id
     rows : SUBSET Users,           \* the access rows the handler has read
     seen : Statuses,               \* ghost: the document's status at that read
     code : Codes]                  \* of the request last answered

Idle == [op |-> "none", at |-> "answered", by |-> None, doc |-> None,
         who |-> {}, rows |-> {}, seen |-> "absent", code |-> "none"]

Notice == [type : {"share", "revoke"}, to : Users, doc : Docs]

-----------------------------------------------------------------------------
(* Vocabulary of the handlers.                                             *)

At(r, op, point) == req[r].op = op /\ req[r].at = point

\* _get_owned_doc finds a row.
Owned(d, u) == status[d] = "live" /\ owner[d] = u

Started(r, op, point, u, d, W) ==
    req' = [req EXCEPT ![r] = [Idle EXCEPT !.op = op, !.at = point, !.by = u,
                                           !.doc = d, !.who = W]]

Goto(r, point) == req' = [req EXCEPT ![r].at = point]

\* The handler has read these access rows of its document.
KeepRows(r, point, rows) ==
    req' = [req EXCEPT ![r] = [@ EXCEPT !.at = point, !.rows = rows,
                                        !.seen = status[req[r].doc]]]

\* The response is sent and the local variables are gone.
Answer(r, code) == req' = [req EXCEPT ![r] = [Idle EXCEPT !.code = code]]

\* A 4xx answer before the handler has read anything it keeps.
Refuse(r, code) == Answer(r, code) /\ UNCHANGED <<db, blobs, fresh, notices>>

\* asyncio.create_task(send_push(...)), then the 204 response.
CreateTask(r, type) ==
    /\ notices' = notices \cup
           {[type |-> type, to |-> u, doc |-> req[r].doc] : u \in req[r].who}
    /\ Answer(r, "ok")
    /\ UNCHANGED <<db, blobs, fresh>>

-----------------------------------------------------------------------------
(* POST /documents                                                         *)

\* Mutant: the owner may be left out of the access list.
UploadValidWithoutOwner(u, G) == G \subseteq Accounts

UploadValid(u, G) == u \in G /\ G \subseteq Accounts

\* Mutant: an id may be drawn again.
UploadBeginSameId(r, u, G) ==
    /\ req[r].at = "answered"
    /\ UploadValid(u, G)
    /\ \E d \in fresh : Started(r, "upload", "insert", u, d, G)
    /\ UNCHANGED <<db, blobs, fresh, notices>>

UploadBegin(r, u, G) ==
    /\ req[r].at = "answered"
    /\ UploadValid(u, G)
    /\ \E d \in fresh :
          /\ fresh' = fresh \ {d}
          /\ Started(r, "upload", "insert", u, d, G)
    /\ UNCHANGED <<db, blobs, notices>>

UploadRefused(r, u, G) ==
    /\ req[r].at = "answered"
    /\ ~UploadValid(u, G)
    /\ Refuse(r, "bad_request")

\* The uncommitted row keeps blob_key = "" in the UNIQUE index.
HoldsPlaceholder(r) == req[r].op = "upload" /\ req[r].at \in {"blob", "commit"}

\* Mutant: the commit does not wait for the blob.
UploadInsertWithoutBlob(r) ==
    /\ At(r, "upload", "insert")
    /\ \A q \in Requests : ~HoldsPlaceholder(q)
    /\ Goto(r, "commit")
    /\ UNCHANGED <<db, blobs, fresh, notices>>

\* db.flush(): the INSERT waits for the transaction that holds "".
UploadInsert(r) ==
    /\ At(r, "upload", "insert")
    /\ \A q \in Requests : ~HoldsPlaceholder(q)
    /\ Goto(r, "blob")
    /\ UNCHANGED <<db, blobs, fresh, notices>>

\* Mutant: the blob call is retried, from the INSERT, without end.
UploadBlobAgain(r) ==
    /\ At(r, "upload", "blob")
    /\ blobs' = blobs \cup {req[r].doc}
    /\ Goto(r, "insert")
    /\ UNCHANGED <<db, fresh, notices>>

UploadBlob(r) ==
    /\ At(r, "upload", "blob")
    /\ blobs' = blobs \cup {req[r].doc}
    /\ Goto(r, "commit")
    /\ UNCHANGED <<db, fresh, notices>>

UploadCommit(r) ==
    LET d == req[r].doc IN
    /\ At(r, "upload", "commit")
    /\ status' = [status EXCEPT ![d] = "live"]
    /\ owner' = [owner EXCEPT ![d] = req[r].by]
    /\ access' = [access EXCEPT ![d] = req[r].who]
    /\ Answer(r, "ok")
    /\ UNCHANGED <<trail, blobs, fresh, notices>>

-----------------------------------------------------------------------------
(* POST /documents/{id}/access                                             *)

ShareBegin(r, u, d, v) ==
    /\ req[r].at = "answered"
    /\ Owned(d, u)
    /\ v \in Accounts
    /\ Started(r, "share", "lookup", u, d, {v})
    /\ UNCHANGED <<db, blobs, fresh, notices>>

ShareRefused(r, u, d, v) ==
    /\ req[r].at = "answered"
    /\ ~(Owned(d, u) /\ v \in Accounts)
    /\ Refuse(r, "not_found")

\* Mutant: the task is created before the commit.
ShareLookupNotifies(r) ==
    /\ At(r, "share", "lookup")
    /\ KeepRows(r, "commit", access[req[r].doc] \cap req[r].who)
    /\ notices' = notices \cup
           {[type |-> "share", to |-> u, doc |-> req[r].doc] : u \in req[r].who}
    /\ UNCHANGED <<db, blobs, fresh>>

\* existing = SELECT document_access
ShareLookup(r) ==
    /\ At(r, "share", "lookup")
    /\ KeepRows(r, "commit", access[req[r].doc] \cap req[r].who)
    /\ UNCHANGED <<db, blobs, fresh, notices>>

\* The INSERT or UPDATE chosen at the lookup still fits the committed rows.
ShareFits(r) == req[r].rows = access[req[r].doc] \cap req[r].who

\* Mutant: an UPDATE that matches no row goes unnoticed.
ShareCommitUnchecked(r) ==
    LET d == req[r].doc IN
    /\ At(r, "share", "commit")
    /\ access' = IF req[r].rows = {}
                 THEN [access EXCEPT ![d] = @ \cup req[r].who] ELSE access
    /\ trail' = [trail EXCEPT ![d] = [u \in Users |->
                    IF u \in req[r].who THEN "share" ELSE @[u]]]
    /\ Goto(r, "notify")
    /\ UNCHANGED <<status, owner, blobs, fresh, notices>>

ShareCommit(r) ==
    LET d == req[r].doc IN
    /\ At(r, "share", "commit")
    /\ ShareFits(r)
    /\ access' = [access EXCEPT ![d] = @ \cup req[r].who]
    /\ trail' = [trail EXCEPT ![d] = [u \in Users |->
                    IF u \in req[r].who THEN "share" ELSE @[u]]]
    /\ Goto(r, "notify")
    /\ UNCHANGED <<status, owner, blobs, fresh, notices>>

\* INSERT of a duplicate key, or UPDATE of a row that is gone: the flush
\* raises (IntegrityError, StaleDataError) and get_session rolls back.
ShareConflict(r) ==
    /\ At(r, "share", "commit")
    /\ ~ShareFits(r)
    /\ Answer(r, "conflict")
    /\ UNCHANGED <<db, blobs, fresh, notices>>

ShareNotify(r) == At(r, "share", "notify") /\ CreateTask(r, "share")

-----------------------------------------------------------------------------
(* DELETE /documents/{id}/access/{user_id}                                 *)

\* Mutant: the owner may revoke their own access.
RevokeBeginSelf(r, u, d, v) ==
    /\ req[r].at = "answered"
    /\ Owned(d, u)
    /\ Started(r, "revoke", "lookup", u, d, {v})
    /\ UNCHANGED <<db, blobs, fresh, notices>>

RevokeBegin(r, u, d, v) ==
    /\ req[r].at = "answered"
    /\ Owned(d, u)
    /\ v # u
    /\ Started(r, "revoke", "lookup", u, d, {v})
    /\ UNCHANGED <<db, blobs, fresh, notices>>

RevokeRefused(r, u, d, v) ==
    /\ req[r].at = "answered"
    /\ \/ ~Owned(d, u) /\ Refuse(r, "not_found")
       \/ Owned(d, u) /\ v = u /\ Refuse(r, "bad_request")

RevokeLookup(r) ==
    LET rows == access[req[r].doc] \cap req[r].who IN
    /\ At(r, "revoke", "lookup")
    /\ \/ rows # {} /\ KeepRows(r, "commit", rows)
       \/ rows = {} /\ Answer(r, "not_found")
    /\ UNCHANGED <<db, blobs, fresh, notices>>

\* A DELETE by primary key: matching no row is a warning, not an error.
RevokeCommit(r) ==
    LET d == req[r].doc IN
    /\ At(r, "revoke", "commit")
    /\ access' = [access EXCEPT ![d] = @ \ req[r].rows]
    /\ trail' = [trail EXCEPT ![d] = [u \in Users |->
                    IF u \in req[r].who THEN "revoke" ELSE @[u]]]
    /\ Goto(r, "notify")
    /\ UNCHANGED <<status, owner, blobs, fresh, notices>>

RevokeNotify(r) == At(r, "revoke", "notify") /\ CreateTask(r, "revoke")

-----------------------------------------------------------------------------
(* DELETE /documents/{id}                                                  *)

DeleteBegin(r, u, d) ==
    /\ req[r].at = "answered"
    /\ Owned(d, u)
    /\ Started(r, "delete", "lookup", u, d, {})
    /\ UNCHANGED <<db, blobs, fresh, notices>>

DeleteRefused(r, u, d) ==
    /\ req[r].at = "answered"
    /\ ~Owned(d, u)
    /\ Refuse(r, "not_found")

\* Mutant: the deletion commits before it turns to the blob.
DeleteLookupCommitsFirst(r) ==
    /\ At(r, "delete", "lookup")
    /\ KeepRows(r, "commit", access[req[r].doc])
    /\ UNCHANGED <<db, blobs, fresh, notices>>

DeleteLookup(r) ==
    /\ At(r, "delete", "lookup")
    /\ KeepRows(r, "blob", access[req[r].doc])
    /\ UNCHANGED <<db, blobs, fresh, notices>>

\* Mutant: the blob is left behind.
DeleteBlobForgotten(r) ==
    /\ At(r, "delete", "blob")
    /\ Goto(r, "commit")
    /\ UNCHANGED <<db, blobs, fresh, notices>>

\* The blob goes before the commit; BlobStore.delete of a missing key is no error.
DeleteBlob(r) ==
    /\ At(r, "delete", "blob")
    /\ blobs' = blobs \ {req[r].doc}
    /\ Goto(r, "commit")
    /\ UNCHANGED <<db, fresh, notices>>

DeleteCommit(r) ==
    LET d == req[r].doc IN
    /\ At(r, "delete", "commit")
    /\ status' = [status EXCEPT ![d] = "deleted"]
    /\ access' = [access EXCEPT ![d] = @ \ req[r].rows]
    /\ Answer(r, "ok")
    /\ UNCHANGED <<owner, trail, blobs, fresh, notices>>

-----------------------------------------------------------------------------
(* GET /documents/{id} and GET /documents                                  *)

DownloadBegin(r, u, d) ==
    /\ req[r].at = "answered"
    /\ status[d] = "live"
    /\ Started(r, "download", "lookup", u, d, {})
    /\ UNCHANGED <<db, blobs, fresh, notices>>

DownloadRefused(r, u, d) ==
    /\ req[r].at = "answered"
    /\ status[d] # "live"
    /\ Refuse(r, "not_found")

DownloadLookup(r) ==
    LET rows == access[req[r].doc] \cap {req[r].by} IN
    /\ At(r, "download", "lookup")
    /\ \/ rows # {} /\ KeepRows(r, "blob", rows)
       \/ rows = {} /\ Answer(r, "not_found")
    /\ UNCHANGED <<db, blobs, fresh, notices>>

DownloadBlob(r) ==
    /\ At(r, "download", "blob")
    /\ \/ req[r].doc \in blobs /\ Goto(r, "commit")
       \/ req[r].doc \notin blobs /\ Answer(r, "blob_missing")
    /\ UNCHANGED <<db, blobs, fresh, notices>>

\* The owner's grant list, the audit row (its payload says nothing of the
\* rows above) and the commit.
DownloadCommit(r) ==
    /\ At(r, "download", "commit")
    /\ Answer(r, "ok")
    /\ UNCHANGED <<db, blobs, fresh, notices>>

\* list_documents is one SELECT; this is what each scope returns.
Listing(u, scope) ==
    CASE scope = "mine" -> {d \in Docs : Owned(d, u)}
      [] scope = "all" -> {d \in Docs : status[d] = "live" /\ u \in access[d]}
      [] scope = "shared" ->
            {d \in Docs : status[d] = "live" /\ u \in access[d] /\ owner[d] # u}

-----------------------------------------------------------------------------
(* Failures, and the tasks the handlers leave behind.                      *)

\* The blob store raises something other than "not found"; get_session
\* rolls the session back.
StorageFails(r) ==
    /\ "storage" \in Faults
    /\ req[r].at = "blob"
    /\ Answer(r, "storage_error")
    /\ UNCHANGED <<db, blobs, fresh, notices>>

\* The database refuses the flush or the COMMIT.
CommitFails(r) ==
    /\ "commit" \in Faults
    /\ req[r].at \in {"insert", "commit"}
    /\ Answer(r, "commit_error")
    /\ UNCHANGED <<db, blobs, fresh, notices>>

\* The server process stops and restarts: requests and tasks are gone.
Crash ==
    /\ "crash" \in Faults
    /\ req' = [r \in Requests |-> IF req[r].at = "answered" THEN req[r] ELSE Idle]
    /\ notices' = {}
    /\ UNCHANGED <<db, blobs, fresh>>

\* A send_push task runs to its end.
TaskRuns(n) ==
    /\ n \in notices
    /\ notices' = notices \ {n}
    /\ UNCHANGED <<db, blobs, fresh, req>>

-----------------------------------------------------------------------------
Init ==
    /\ status = [d \in Docs |-> "absent"]
    /\ owner = [d \in Docs |-> None]
    /\ access = [d \in Docs |-> {}]
    /\ trail = [d \in Docs |-> [u \in Users |-> "none"]]
    /\ blobs = {}
    /\ fresh = Docs
    /\ req = [r \in Requests |-> Idle]
    /\ notices = {}

\* A request arrives.
Arrive(r) ==
    \E u \in Accounts :
       \/ \E G \in SUBSET Users : UploadBegin(r, u, G) \/ UploadRefused(r, u, G)
       \/ \E d \in Docs :
             \/ \E v \in Users : \/ ShareBegin(r, u, d, v)
                                 \/ ShareRefused(r, u, d, v)
                                 \/ RevokeBegin(r, u, d, v)
                                 \/ RevokeRefused(r, u, d, v)
             \/ DeleteBegin(r, u, d) \/ DeleteRefused(r, u, d)
             \/ DownloadBegin(r, u, d) \/ DownloadRefused(r, u, d)

\* A handler resumes after an await.
Resume(r) ==
    \/ UploadInsert(r) \/ UploadBlob(r) \/ UploadCommit(r)
    \/ ShareLookup(r) \/ ShareCommit(r) \/ ShareConflict(r) \/ ShareNotify(r)
    \/ RevokeLookup(r) \/ RevokeCommit(r) \/ RevokeNotify(r)
    \/ DeleteLookup(r) \/ DeleteBlob(r) \/ DeleteCommit(r)
    \/ DownloadLookup(r) \/ DownloadBlob(r) \/ DownloadCommit(r)

Fail(r) == StorageFails(r) \/ CommitFails(r)

Next ==
    \/ \E r \in Requests : Arrive(r) \/ Resume(r) \/ Fail(r)
    \/ Crash
    \/ \E n \in Notice : TaskRuns(n)

Spec == Init /\ [][Next]_vars

\* The event loop resumes every handler whose await is over, and the lock
\* queue of the unique index lets each waiting INSERT through in its turn.
Fairness ==
    \A r \in Requests : WF_vars(Resume(r)) /\ SF_vars(UploadInsert(r))

FairSpec == Spec /\ Fairness

-----------------------------------------------------------------------------
(* Properties.                                                             *)

\* This step ends a request of handler r, with this outcome.
Answers(r, op, code) ==
    /\ req[r].op = op /\ req[r].at # "answered"
    /\ req'[r].at = "answered" /\ req'[r].code = code

\* Every variable keeps its type.
TypeOK ==
    /\ status \in [Docs -> Statuses]
    /\ owner \in [Docs -> Users \cup {None}]
    /\ access \in [Docs -> SUBSET Users]
    /\ trail \in [Docs -> [Users -> {"none", "share", "revoke"}]]
    /\ blobs \subseteq Docs
    /\ fresh \subseteq Docs
    /\ req \in [Requests -> Request]
    /\ notices \subseteq Notice

\* Whatever shares, revocations and deletions race, the owner of a live
\* document keeps an access row: it is the only way download has to give the
\* owner an encrypted DEK ("owner must be able to download").
OwnerKeepsAccess ==
    \A d \in Docs : status[d] = "live" => owner[d] \in access[d]

\* GET /documents answers scope=all from access rows alone, and still
\* returns what its docstring says: scope=mine and scope=shared together.
AllScopeIsBoth ==
    \A u \in Users :
        Listing(u, "all") = Listing(u, "mine") \cup Listing(u, "shared")

\* For a live document the audit log, in commit order, tells who has access:
\* the last entry about a user is a share exactly when the row is there, or
\* there is no entry since the upload.  Two racing handlers never commit an
\* audit entry for a change the other one undid.
AuditTellsAccess ==
    \A d \in Docs : status[d] = "live" =>
        \A u \in Users : /\ trail[d][u] = "share" => u \in access[d]
                         /\ trail[d][u] = "revoke" => u \notin access[d]

\* A download that is served had an instant at which its document was live
\* and its caller had an access row, although the handler reads the two at
\* different times: a deleted document's blob is gone before its deletion
\* commits, so a stale first read cannot end in a 200 response.
ServedWhileEntitled ==
    [][\A r \in Requests : Answers(r, "download", "ok") => req[r].seen = "live"]_vars

\* Once a deletion has committed no ciphertext is left, whatever crashed.
DeletedBlobIsGone == \A d \in blobs : status[d] # "deleted"

\* Where nothing fails, a live document has its blob, except while a delete
\* of it is between the blob store and its commit: the 500 answer that
\* download calls server-side data corruption needs a race with a delete.
LiveHasBlob ==
    \A d \in Docs : status[d] = "live" =>
        d \in blobs \/ \E r \in Requests : At(r, "delete", "commit") /\ req[r].doc = d

\* Where nothing fails and no request is in flight, the blob store holds the
\* blobs of the live documents and no other.
QuietStoreMatches ==
    (\A r \in Requests : req[r].at = "answered") =>
        blobs = {d \in Docs : status[d] = "live"}

\* A push is on its way only where a share or a revocation of that document and that
\* user has committed: no task outlives the rollback of the first change of a pair.
NoticeIsCommitted ==
    \A n \in notices : trail[n.doc][n.to] # "none"

\* Every request is answered: no upload waits for ever behind the placeholder
\* row of others, and no interleaving leaves a handler without a next step.
EveryRequestIsAnswered ==
    \A r \in Requests : req[r].at # "answered" ~> req[r].at = "answered"

\* Who a download would serve: rows of a document that is not live count
\* for nothing.
Readers == [d \in Docs |-> IF status[d] = "live" THEN access[d] ELSE {}]

AC == INSTANCE AccessControl WITH readers <- Readers

\* The routes implement AccessControl: each commit of a handler is one atomic
\* change of who may read one document, or none at all (a share or revocation
\* that commits after the deletion, a second deletion, a row already gone).
ImplementsAccessControl == AC!Spec

-----------------------------------------------------------------------------
(* The inductive invariant behind the proofs of DocumentsProofs.tla.       *)

InFlight(r, op) == req[r].op = op /\ req[r].at # "answered"

\* What a handler relies on after an await although it holds no lock on it:
\* its document still exists and has the same owner.
HandlerInv(r) ==
    LET q == req[r] IN
    q.at # "answered" =>
        /\ q.doc \in Docs /\ q.by \in Users
        /\ q.op = "upload" => /\ q.by \in q.who
                              /\ q.doc \notin fresh
                              /\ status[q.doc] = "absent"
        /\ q.op # "upload" => status[q.doc] # "absent"
        /\ q.op \in {"share", "revoke", "delete"} => owner[q.doc] = q.by
        /\ q.op \in {"share", "revoke"} => \E v \in Users : q.who = {v}
        /\ q.op = "revoke" => q.by \notin q.who
        /\ q.op = "revoke" /\ q.at = "commit" => q.rows = q.who
        /\ q.op = "delete" /\ q.at = "commit" => q.doc \notin blobs
        /\ q.op = "download" /\ q.at = "blob" /\ q.seen # "live"
              => status[q.doc] = "deleted"
        /\ q.op = "download" /\ q.at = "commit" => q.seen = "live"

\* No two uploads in flight have drawn the same id.
UploadsApart ==
    \A r, q \in Requests :
        InFlight(r, "upload") /\ InFlight(q, "upload") /\ r # q
            => req[r].doc # req[q].doc

\* A handler about to create its task has committed the entry it speaks of.
NotifyInv(r) ==
    req[r].at = "notify" => \A u \in req[r].who : trail[req[r].doc][u] # "none"

\* Without failures every blob is accounted for: an upload has written the blob
\* before it commits, and a blob without a live document awaits that commit.
CalmInv ==
    /\ LiveHasBlob
    /\ \A r \in Requests : At(r, "upload", "commit") => req[r].doc \in blobs
    /\ \A d \in blobs : \/ status[d] = "live"
                        \/ \E r \in Requests : At(r, "upload", "commit") /\ req[r].doc = d

\* The safety invariants of the routes, with what makes them inductive.
IndInv ==
    /\ TypeOK
    /\ OwnerKeepsAccess
    /\ DeletedBlobIsGone
    /\ AuditTellsAccess
    /\ \A d \in Docs, u \in Users : status[d] = "absent" => trail[d][u] = "none"
    /\ \A d \in fresh : status[d] = "absent"
    /\ UploadsApart
    /\ \A r \in Requests : HandlerInv(r)
    /\ NoticeIsCommitted
    /\ \A r \in Requests : NotifyInv(r)
    /\ Faults = {} => CalmInv
=============================================================================
