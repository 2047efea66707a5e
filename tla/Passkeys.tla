------------------------------ MODULE Passkeys ------------------------------
(***************************************************************************)
(* Passkey enrolment and passkey login: routes/webauthn.py of the Vellaris *)
(* server, with the authenticators and browsers that call it.              *)
(*                                                                         *)
(* One SELECT or one COMMIT per step, read-committed, as in Documents.tla. *)
(* One flush happens before the commit: the SELECT of auth_finish that     *)
(* follows db.delete(challenge) flushes the DELETE, which locks the row    *)
(* until the transaction ends.  An ORM DELETE of a missing row is a        *)
(* warning, an ORM UPDATE of one raises StaleDataError, and either is      *)
(* undone when get_session rolls back.                                     *)
(***************************************************************************)
EXTENDS Naturals, FiniteSets

CONSTANTS
    Users,
    Keys,           \* credential ids authenticators may create, each once
    Synced,         \* those of authenticators whose sign counter stays 0
    Challenges,     \* ids uuid4() may draw for a challenge, each at most once
    Requests,       \* concurrent handlers
    Faults,         \* which failures happen: "crash", "commit"
    None

ASSUME NoneAssumption == None \notin Users \cup Keys \cup Challenges
ASSUME SyncedAssumption == Synced \subseteq Keys
ASSUME RequestsAssumption == IsFiniteSet(Requests)
ASSUME FaultsAssumption == Faults \subseteq {"crash", "commit"}

VARIABLES
    active,     \* users whose deleted_at is NULL
    chal,       \* webauthn_challenges
    cred,       \* webauthn_credentials, by credential_id
    opened,     \* sessions that login with a challenge has opened
    proof,      \* what an authenticator answered to each challenge
    clock,      \* sign counter inside each authenticator
    req

rows == <<active, chal, cred, opened>>
client == <<proof, clock>>
vars == <<rows, client, req>>

Purposes == {"register", "auth"}

Challenge == [st : {"unused", "live", "expired", "gone"},
              purpose : Purposes, of : Users \cup {None}]
\* gen tells a row from an earlier one with the same credential_id.
Credential == [st : {"unused", "live", "gone"}, of : Users \cup {None},
               count : Nat, gen : Nat]
Proof == [by : Keys \cup {None}, count : Nat]

Codes == {"none", "ok", "not_found", "wrong_purpose", "expired", "other_user",
          "invalid", "malformed", "unauthorized", "conflict", "stale_credential",
          "refresh_error", "commit_error"}

Request ==
    [op : {"none", "register_begin", "auth_begin", "register_finish",
           "auth_finish", "delete"},
     at : {"commit", "drop", "find", "verify", "refresh", "answered"},
     user : Users \cup {None},
     chal : Challenges \cup {None},     \* challenge_id, or the id drawn
     resp : Challenges \cup {None},     \* the challenge credential_json answers
     key : Keys \cup {None},            \* the credential row read,
     count : Nat, gen : Nat,            \* with its sign_count and identity
     code : Codes]          \* of the answer, kept; on "drop", of the answer to come

Idle == [op |-> "none", at |-> "answered", user |-> None, chal |-> None,
         resp |-> None, key |-> None, count |-> 0, gen |-> 0, code |-> "none"]

-----------------------------------------------------------------------------
At(r, op, point) == req[r].op = op /\ req[r].at = point

Answer(r, code) == req' = [req EXCEPT ![r] = [Idle EXCEPT !.code = code]]

\* get_session rolls back: the answer changes no row.
Refuse(r, code) == Answer(r, code) /\ UNCHANGED <<rows, client>>

NewChallenges ==
    {c \in Challenges : chal[c].st = "unused" /\ \A r \in Requests : req[r].chal # c}

Present(c) == c \in Challenges /\ chal[c].st \in {"live", "expired"}

\* Mutant: no flush before the commit, so nothing is locked.
LockedByNobody(r) == FALSE

\* Another transaction has flushed its DELETE of r's challenge.
Locked(r) ==
    \E p \in Requests \ {r} : /\ At(p, "auth_finish", "verify")
                                    \/ At(p, "auth_finish", "commit")
                              /\ req[p].chal = req[r].chal

-----------------------------------------------------------------------------
(* register_begin and auth_begin: _new_challenge.  The credentials they    *)
(* read only fill the options sent to the browser.                         *)

Begin(r, op, u) ==
    /\ req[r].at = "answered"
    /\ \E c \in NewChallenges :
          req' = [req EXCEPT ![r] = [Idle EXCEPT !.op = op, !.at = "commit",
                                                 !.user = u, !.chal = c]]
    /\ UNCHANGED <<rows, client>>

RegisterBegin(r, u) == u \in active /\ Begin(r, "register_begin", u)

\* A name nobody has gets a challenge like any other.
AuthBegin(r, u) == Begin(r, "auth_begin", IF u \in active THEN u ELSE None)

BeginCommit(r) ==
    /\ req[r].op \in {"register_begin", "auth_begin"} /\ req[r].at = "commit"
    /\ chal' = [chal EXCEPT ![req[r].chal] =
          [st |-> "live", of |-> req[r].user,
           purpose |-> IF req[r].op = "register_begin" THEN "register" ELSE "auth"]]
    /\ Answer(r, "ok")
    /\ UNCHANGED <<active, cred, opened, client>>

-----------------------------------------------------------------------------
(* The authenticator answers a challenge once.                             *)

SignAttestation(c, k) ==
    /\ Present(c) /\ chal[c].purpose = "register" /\ proof[c].by = None
    /\ \A d \in Challenges : proof[d].by # k
    /\ proof' = [proof EXCEPT ![c] = [by |-> k, count |-> 0]]
    /\ UNCHANGED <<rows, clock, req>>

SignAssertion(c, k) ==
    LET count == IF k \in Synced THEN 0 ELSE clock[k] + 1 IN
    /\ Present(c) /\ chal[c].purpose = "auth" /\ proof[c].by = None
    /\ \E d \in Challenges : proof[d].by = k
    /\ proof' = [proof EXCEPT ![c] = [by |-> k, count |-> count]]
    /\ clock' = [clock EXCEPT ![k] = count]
    /\ UNCHANGED <<rows, req>>

-----------------------------------------------------------------------------
(* The finish routes: _consume_challenge and, as no await lies between,     *)
(* what register_finish tests next.                                        *)

Purpose(op) == IF op = "auth_finish" THEN "auth" ELSE "register"

\* Mutant: whoever is logged in may finish a registration.
RefusalAnyUser(op, u, c, p) ==
    IF ~Present(c) THEN "not_found"
    ELSE IF chal[c].purpose # Purpose(op) THEN "wrong_purpose"
    ELSE IF chal[c].st = "expired" THEN "expired"
    ELSE IF p = None THEN "malformed"
    ELSE IF op = "register_finish" /\ p # c THEN "invalid"
    ELSE "none"

\* Which test refuses the request, "none" if the handler goes on.  JSON of no
\* credential: register_finish does not catch what the library raises then,
\* auth_finish answers 400, and neither has committed.
Refusal(op, u, c, p) ==
    IF ~Present(c) THEN "not_found"
    ELSE IF chal[c].purpose # Purpose(op) THEN "wrong_purpose"
    ELSE IF chal[c].st = "expired" THEN "expired"
    ELSE IF op = "register_finish" /\ chal[c].of # u THEN "other_user"
    ELSE IF p = None THEN "malformed"
    ELSE IF op = "register_finish" /\ p # c THEN "invalid"
    ELSE "none"

\* credential_json answers challenge p; None stands for JSON of no credential.
Finish(r, op, next, u, c, p) ==
    LET code == Refusal(op, u, c, p)
        Go(point) == req' = [req EXCEPT ![r] =
                        [Idle EXCEPT !.op = op, !.at = point, !.user = u,
                                     !.chal = c, !.resp = p, !.code = code]] IN
    /\ req[r].at = "answered"
    /\ p # None => proof[p].by # None
    /\ \/ code = "none" /\ Go(next)
       \/ code \in {"not_found", "malformed"} /\ Answer(r, code)
       \/ code \notin {"none", "not_found", "malformed"} /\ Go("drop")
    /\ UNCHANGED <<rows, client>>

RegisterFinish(r, u, c, p) == Finish(r, "register_finish", "commit", u, c, p)

AuthFinish(r, c, p) == Finish(r, "auth_finish", "find", None, c, p)

Drop(c) == chal' = [chal EXCEPT ![c].st = "gone"]

\* Mutant: a refusal that raises before it commits.
DropRefusedUncommitted(r) == req[r].at = "drop" /\ Refuse(r, req[r].code)

DropRefused(r) ==
    /\ req[r].at = "drop"
    /\ ~Locked(r)
    /\ Drop(req[r].chal)
    /\ Answer(r, req[r].code)
    /\ UNCHANGED <<active, cred, opened, client>>

\* credential_id is unique.
RegisterCommit(r) ==
    LET k == proof[req[r].resp].by IN
    /\ At(r, "register_finish", "commit")
    /\ \/ /\ cred[k].st # "live"
          /\ cred' = [cred EXCEPT ![k] = [st |-> "live", of |-> req[r].user,
                                          count |-> 0, gen |-> @.gen + 1]]
          /\ Drop(req[r].chal)
          /\ Answer(r, "ok")
          /\ UNCHANGED <<active, opened, client>>
       \/ cred[k].st = "live" /\ Refuse(r, "conflict")

-----------------------------------------------------------------------------
(* auth_finish, after the challenge.                                       *)

\* SELECT webauthn_credentials, which first flushes the DELETE.
AuthFind(r) ==
    LET k == proof[req[r].resp].by IN
    /\ At(r, "auth_finish", "find")
    /\ ~Locked(r)
    /\ \/ /\ cred[k].st = "live"
          /\ req' = [req EXCEPT ![r].at = "verify", ![r].key = k,
                         ![r].user = cred[k].of, ![r].count = cred[k].count,
                         ![r].gen = cred[k].gen]
          /\ UNCHANGED <<rows, client>>
       \/ cred[k].st # "live" /\ Refuse(r, "unauthorized")

\* verify_authentication_response: the assertion is for this challenge and,
\* if either counter is in use, counts further than the row that was read.
Verifies(r) ==
    LET p == proof[req[r].resp] IN
    /\ req[r].resp = req[r].chal
    /\ p.count > 0 \/ req[r].count > 0 => p.count > req[r].count

\* SELECT users, then the assertion.
AuthVerify(r) ==
    /\ At(r, "auth_finish", "verify")
    /\ \/ /\ req[r].user \in active /\ Verifies(r)
          /\ req' = [req EXCEPT ![r].at = "commit"]
          /\ UNCHANGED <<rows, client>>
       \/ ~(req[r].user \in active /\ Verifies(r)) /\ Refuse(r, "unauthorized")

\* The row the handler read is still there.
SameRow(r) == cred[req[r].key].st = "live" /\ cred[req[r].key].gen = req[r].gen

\* Mutant: the challenge is left for another use.
OpenSessionKeepsChallenge(r) ==
    /\ cred' = [cred EXCEPT ![req[r].key].count = proof[req[r].resp].count]
    /\ opened' = [opened EXCEPT ![req[r].chal] = @ + 1]
    /\ req' = [req EXCEPT ![r].at = "refresh"]
    /\ UNCHANGED <<active, chal, client>>

OpenSession(r) ==
    /\ cred' = [cred EXCEPT ![req[r].key].count = proof[req[r].resp].count]
    /\ opened' = [opened EXCEPT ![req[r].chal] = @ + 1]
    /\ Drop(req[r].chal)
    /\ req' = [req EXCEPT ![r].at = "refresh"]
    /\ UNCHANGED <<active, client>>

AuthCommit(r) ==
    /\ At(r, "auth_finish", "commit")
    /\ \/ SameRow(r) /\ OpenSession(r)
       \/ ~SameRow(r) /\ Refuse(r, "stale_credential")

\* db.refresh(cred) fails on a row deleted since: the session stays.
AuthRefresh(r) ==
    /\ At(r, "auth_finish", "refresh")
    /\ Refuse(r, IF SameRow(r) THEN "ok" ELSE "refresh_error")

-----------------------------------------------------------------------------
(* delete_credential                                                       *)

DeleteBegin(r, u, k) ==
    /\ req[r].at = "answered"
    /\ \/ /\ cred[k].st = "live" /\ cred[k].of = u
          /\ req' = [req EXCEPT ![r] = [Idle EXCEPT !.op = "delete", !.at = "commit",
                         !.user = u, !.key = k, !.gen = cred[k].gen]]
          /\ UNCHANGED <<rows, client>>
       \/ ~(cred[k].st = "live" /\ cred[k].of = u) /\ Refuse(r, "not_found")

DeleteCommit(r) ==
    /\ At(r, "delete", "commit")
    /\ cred' = IF SameRow(r) THEN [cred EXCEPT ![req[r].key].st = "gone"] ELSE cred
    /\ Answer(r, "ok")
    /\ UNCHANGED <<active, chal, opened, client>>

-----------------------------------------------------------------------------
(* Time, the operator, failures.                                           *)

Expire(c) ==
    /\ chal[c].st = "live"
    /\ chal' = [chal EXCEPT ![c].st = "expired"]
    /\ UNCHANGED <<active, cred, opened, client, req>>

RemoveUser(u) ==
    /\ u \in active
    /\ active' = active \ {u}
    /\ UNCHANGED <<chal, cred, opened, client, req>>

CommitFails(r) ==
    /\ "commit" \in Faults
    /\ req[r].at \in {"commit", "drop"}
    /\ Refuse(r, "commit_error")

Crash ==
    /\ "crash" \in Faults
    /\ req' = [r \in Requests |-> IF req[r].at = "answered" THEN req[r] ELSE Idle]
    /\ UNCHANGED <<rows, client>>

-----------------------------------------------------------------------------
Init ==
    /\ active = Users
    /\ chal = [c \in Challenges |-> [st |-> "unused", purpose |-> "auth", of |-> None]]
    /\ cred = [k \in Keys |-> [st |-> "unused", of |-> None, count |-> 0, gen |-> 0]]
    /\ opened = [c \in Challenges |-> 0]
    /\ proof = [c \in Challenges |-> [by |-> None, count |-> 0]]
    /\ clock = [k \in Keys |-> 0]
    /\ req = [r \in Requests |-> Idle]

Arrive(r) ==
    \/ \E u \in Users : RegisterBegin(r, u)
    \/ \E u \in Users \cup {None} : AuthBegin(r, u)
    \/ \E c \in Challenges, p \in Challenges \cup {None} :
          \/ \E u \in Users : RegisterFinish(r, u, c, p)
          \/ AuthFinish(r, c, p)
    \/ \E u \in Users, k \in Keys : DeleteBegin(r, u, k)

Resume(r) ==
    \/ BeginCommit(r)
    \/ DropRefused(r) \/ RegisterCommit(r)
    \/ AuthFind(r) \/ AuthVerify(r) \/ AuthCommit(r) \/ AuthRefresh(r)
    \/ DeleteCommit(r)

Client == \E c \in Challenges, k \in Keys : SignAttestation(c, k) \/ SignAssertion(c, k)

Next ==
    \/ \E r \in Requests : Arrive(r) \/ Resume(r) \/ CommitFails(r)
    \/ Client
    \/ \E c \in Challenges : Expire(c)
    \/ \E u \in Users : RemoveUser(u)
    \/ Crash

Spec == Init /\ [][Next]_vars

-----------------------------------------------------------------------------
(* Properties.                                                             *)

\* This step answers a request that had found its challenge.
Ends(r, op) == req[r].op = op /\ req[r].at # "answered" /\ req'[r].at = "answered"

\* Every variable keeps its type.
TypeOK ==
    /\ active \subseteq Users
    /\ chal \in [Challenges -> Challenge]
    /\ cred \in [Keys -> Credential]
    /\ opened \in [Challenges -> Nat]
    /\ proof \in [Challenges -> Proof]
    /\ clock \in [Keys -> Nat]
    /\ req \in [Requests -> Request]

\* Handlers that found c before its removal committed and may still log in.
InFlight(c) ==
    {r \in Requests : /\ req[r].op = "auth_finish" /\ req[r].chal = c
                      /\ req[r].at \in {"find", "verify", "commit"}}

\* A challenge is for one use, and what that comes to, whatever the
\* authenticator: once it has opened a session no later request finds it, and
\* the sessions it opens after the first are those of handlers that had found
\* it by then, so no retry makes more of them than handlers run at a time.
ReplayIsConcurrent ==
    \A c \in Challenges : opened[c] > 0 =>
        /\ chal[c].st = "gone"
        /\ opened[c] + Cardinality(InFlight(c)) <= Cardinality(Requests)

\* A login of the same passkey with an older assertion has committed.
Overtaken(c) ==
    \E d \in Challenges : /\ proof[d].by = proof[c].by /\ opened[d] > 0
                          /\ proof[d].count < proof[c].count

\* One assertion opens one session if its authenticator counts: finishes of
\* one challenge that are in flight together are held up by the flushed DELETE
\* and then find the counter used up.  Two things put the counter back: a login
\* with an older assertion that commits later (the counter is compared when it
\* is read), and the passkey enrolled again by a second finish of its
\* registration after its deletion.
CounterStopsReplay ==
    \A c \in Challenges : opened[c] > 1 =>
        \/ proof[c].by \in Synced
        \/ cred[proof[c].by].gen > 1
        \/ Overtaken(c)

\* A passkey is filed under the account its registration was begun for, also
\* when other users call finish with the same challenge.
FiledForRequester ==
    \A k \in Keys, c \in Challenges :
        cred[k].st = "live" /\ proof[c].by = k /\ chal[c].purpose = "register"
            => cred[k].of = chal[c].of

\* A finish refused for the kind, the age or the owner of its challenge, or for an
\* attestation that does not answer it, uses the challenge up.  The others roll
\* back and leave it: malformed JSON, an unknown passkey, an assertion that fails.
RefusalSpendsChallenge ==
    [][\A r \in Requests :
          /\ Ends(r, "register_finish") \/ Ends(r, "auth_finish")
          /\ req'[r].code \in {"wrong_purpose", "expired", "other_user", "invalid"}
          => chal'[req[r].chal].st = "gone"]_vars
=============================================================================
