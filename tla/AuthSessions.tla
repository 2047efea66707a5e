---------------------------- MODULE AuthSessions ----------------------------
(***************************************************************************)
(* Challenge login, opaque session tokens and the current_user dependency  *)
(* of the Vellaris server: routes/auth.py, sessions.py and security.py.    *)
(*                                                                         *)
(* The granularity is that of Documents.tla: one SELECT or one COMMIT per  *)
(* step, with read-committed reads.  An ORM DELETE that matches no row is a *)
(* warning; an ORM UPDATE that matches no row raises StaleDataError.       *)
(***************************************************************************)

CONSTANTS
    Users,
    Challenges,     \* ids uuid4() may draw for a challenge, each at most once
    Tokens,         \* values new_token() may draw, each at most once
    Requests,       \* concurrent handlers
    Faults,         \* which failures happen: "crash", "commit"
    None

ASSUME NoneAssumption == None \notin Users \cup Challenges \cup Tokens
ASSUME FaultsAssumption == Faults \subseteq {"crash", "commit"}

VARIABLES
    active,     \* users whose deleted_at is NULL
    chal,       \* auth_challenges
    sess,       \* sessions
    loggedOut,  \* ghost: tokens whose logout has been answered with a 204
    req

rows == <<active, chal, sess>>
vars == <<rows, loggedOut, req>>

\* unused: the id has not been drawn; gone: the row was deleted.  A row stays
\* when its expires_at passes.
Stages == {"unused", "live", "expired", "gone"}

Challenge == [st : Stages, of : Users \cup {None}]
\* from is a ghost: the challenge the session was issued for.
Session == [st : Stages, of : Users \cup {None}, from : Challenges \cup {None}]

Codes == {"none", "ok", "not_found", "expired", "bad_signature",
          "unauthorized", "stale_session", "commit_error"}

Request ==
    [op : {"none", "issue", "verify", "call", "logout"},
     at : {"user", "drop", "commit", "touch", "lookup", "answered"},
     user : Users \cup {None},
     chal : Challenges \cup {None},    \* of the body, or drawn by this handler
     tok : Tokens \cup {None},
     signed : BOOLEAN,      \* the signature in the body verifies
     code : Codes]          \* of the answer, kept; on "drop", of the answer to come

Idle == [op |-> "none", at |-> "answered", user |-> None, chal |-> None,
         tok |-> None, signed |-> FALSE, code |-> "none"]

-----------------------------------------------------------------------------
At(r, op, point) == req[r].op = op /\ req[r].at = point

Goto(r, point) == req' = [req EXCEPT ![r].at = point]

Answer(r, code) == req' = [req EXCEPT ![r] = [Idle EXCEPT !.code = code]]

\* The row can still be read.
Present(x) == x.st \in {"live", "expired"}

\* Ids a handler may draw: no row and no other handler has them.
NewChallenges ==
    {c \in Challenges : chal[c].st = "unused" /\ \A r \in Requests : req[r].chal # c}
NewTokens ==
    {t \in Tokens : sess[t].st = "unused" /\ \A r \in Requests : req[r].tok # t}

-----------------------------------------------------------------------------
(* POST /auth/challenge                                                    *)

IssueBegin(r, u) ==
    /\ req[r].at = "answered"
    /\ u \in active
    /\ \E c \in NewChallenges :
          req' = [req EXCEPT ![r] = [Idle EXCEPT !.op = "issue", !.at = "commit",
                                                 !.user = u, !.chal = c]]
    /\ UNCHANGED <<rows, loggedOut>>

IssueRefused(r, u) ==
    /\ req[r].at = "answered"
    /\ u \notin active
    /\ Answer(r, "not_found")
    /\ UNCHANGED <<rows, loggedOut>>

IssueCommit(r) ==
    /\ At(r, "issue", "commit")
    /\ chal' = [chal EXCEPT ![req[r].chal] = [st |-> "live", of |-> req[r].user]]
    /\ Answer(r, "ok")
    /\ UNCHANGED <<active, sess, loggedOut>>

-----------------------------------------------------------------------------
(* POST /auth/verify                                                       *)

VerifyStart(r, c, signed, point, t, code) ==
    req' = [req EXCEPT ![r] =
        [op |-> "verify", at |-> point, user |-> chal[c].of, chal |-> c,
         tok |-> t, signed |-> signed, code |-> code]]

\* SELECT auth_challenges, and the test of expires_at.  The handler draws its
\* token here, so that the bound on Tokens holds back no handler half-way.
VerifyBegin(r, c, signed) ==
    /\ req[r].at = "answered"
    /\ \/ chal[c].st = "live"
             /\ \E t \in NewTokens : VerifyStart(r, c, signed, "user", t, "none")
       \/ chal[c].st = "expired"
             /\ VerifyStart(r, c, signed, "drop", None, "expired")
       \/ ~Present(chal[c]) /\ Answer(r, "not_found")
    /\ UNCHANGED <<rows, loggedOut>>

\* SELECT users, then the signature.
VerifyUser(r) ==
    /\ At(r, "verify", "user")
    /\ req' = [req EXCEPT ![r] =
          IF req[r].user \notin active
          THEN [@ EXCEPT !.at = "drop", !.code = "not_found"]
          ELSE IF ~req[r].signed
               THEN [@ EXCEPT !.at = "drop", !.code = "bad_signature"]
               ELSE [@ EXCEPT !.at = "commit"]]
    /\ UNCHANGED <<rows, loggedOut>>

Drop(c) == chal' = [chal EXCEPT ![c].st = "gone"]

\* Mutant: a refusal that forgets to commit the deletion.
VerifyDropUncommitted(r) ==
    /\ At(r, "verify", "drop")
    /\ Answer(r, req[r].code)
    /\ UNCHANGED <<rows, loggedOut>>

\* Every refusal after the challenge was found deletes it and commits.
VerifyDrop(r) ==
    /\ At(r, "verify", "drop")
    /\ Drop(req[r].chal)
    /\ Answer(r, req[r].code)
    /\ UNCHANGED <<active, sess, loggedOut>>

VerifyCommit(r) ==
    /\ At(r, "verify", "commit")
    /\ Drop(req[r].chal)
    /\ sess' = [sess EXCEPT ![req[r].tok] =
                   [st |-> "live", of |-> req[r].user, from |-> req[r].chal]]
    /\ Answer(r, "ok")
    /\ UNCHANGED <<active, loggedOut>>

-----------------------------------------------------------------------------
(* current_user, in front of every authenticated route.                    *)

\* get_session_by_token
CallBegin(r, op, t) ==
    /\ req[r].at = "answered"
    /\ \/ /\ sess[t].st = "live"
          /\ req' = [req EXCEPT ![r] = [Idle EXCEPT !.op = op, !.at = "user",
                                           !.tok = t, !.user = sess[t].of]]
       \/ sess[t].st # "live" /\ Answer(r, "unauthorized")
    /\ UNCHANGED <<rows, loggedOut>>

\* load_user
CallUser(r) ==
    /\ req[r].op \in {"call", "logout"} /\ req[r].at = "user"
    /\ \/ req[r].user \in active /\ Goto(r, "touch")
       \/ req[r].user \notin active /\ Answer(r, "unauthorized")
    /\ UNCHANGED <<rows, loggedOut>>

\* The route runs: an ordinary one is answered, logout goes on.
EnterRoute(r) ==
    IF req[r].op = "logout" THEN Goto(r, "lookup") ELSE Answer(r, "ok")

\* Mutant: an UPDATE that matches no row goes unnoticed.
CallTouchUnchecked(r) ==
    /\ req[r].at = "touch"
    /\ EnterRoute(r)
    /\ UNCHANGED <<rows, loggedOut>>

\* Mutant: the session row is written whether or not it is there.
CallTouchMerge(r) ==
    /\ req[r].at = "touch"
    /\ sess' = [sess EXCEPT ![req[r].tok].st = "live"]
    /\ EnterRoute(r)
    /\ UNCHANGED <<active, chal, loggedOut>>

\* touch_session and the commit: an UPDATE of the row read before.
CallTouch(r) ==
    /\ req[r].at = "touch"
    /\ \/ Present(sess[req[r].tok]) /\ EnterRoute(r)
       \/ ~Present(sess[req[r].tok]) /\ Answer(r, "stale_session")
    /\ UNCHANGED <<rows, loggedOut>>

\* revoke_session: the row may have gone since, then nothing is deleted.
LogoutLookup(r) ==
    /\ At(r, "logout", "lookup")
    /\ Goto(r, "commit")
    /\ UNCHANGED <<rows, loggedOut>>

LogoutCommit(r) ==
    /\ At(r, "logout", "commit")
    /\ sess' = [sess EXCEPT ![req[r].tok].st = "gone"]
    /\ loggedOut' = loggedOut \cup {req[r].tok}
    /\ Answer(r, "ok")
    /\ UNCHANGED <<active, chal>>

-----------------------------------------------------------------------------
(* Time, the operator, failures.                                           *)

Expire ==
    /\ \/ \E c \in Challenges :
             chal[c].st = "live" /\ chal' = [chal EXCEPT ![c].st = "expired"]
                                 /\ UNCHANGED sess
       \/ \E t \in Tokens :
             sess[t].st = "live" /\ sess' = [sess EXCEPT ![t].st = "expired"]
                                 /\ UNCHANGED chal
    /\ UNCHANGED <<active, loggedOut, req>>

\* users.deleted_at is set: every lookup of the server tests it, no route sets it.
RemoveUser(u) ==
    /\ u \in active
    /\ active' = active \ {u}
    /\ UNCHANGED <<chal, sess, loggedOut, req>>

CommitFails(r) ==
    /\ "commit" \in Faults
    /\ req[r].at \in {"drop", "commit", "touch"}
    /\ Answer(r, "commit_error")
    /\ UNCHANGED <<rows, loggedOut>>

Crash ==
    /\ "crash" \in Faults
    /\ req' = [r \in Requests |-> IF req[r].at = "answered" THEN req[r] ELSE Idle]
    /\ UNCHANGED <<rows, loggedOut>>

-----------------------------------------------------------------------------
Init ==
    /\ active = Users
    /\ chal = [c \in Challenges |-> [st |-> "unused", of |-> None]]
    /\ sess = [t \in Tokens |-> [st |-> "unused", of |-> None, from |-> None]]
    /\ loggedOut = {}
    /\ req = [r \in Requests |-> Idle]

Arrive(r) ==
    \/ \E u \in Users : IssueBegin(r, u) \/ IssueRefused(r, u)
    \/ \E c \in Challenges, signed \in BOOLEAN : VerifyBegin(r, c, signed)
    \/ \E t \in Tokens, op \in {"call", "logout"} : CallBegin(r, op, t)

Resume(r) ==
    \/ IssueCommit(r)
    \/ VerifyUser(r) \/ VerifyDrop(r) \/ VerifyCommit(r)
    \/ CallUser(r) \/ CallTouch(r)
    \/ LogoutLookup(r) \/ LogoutCommit(r)

Next ==
    \/ \E r \in Requests : Arrive(r) \/ Resume(r) \/ CommitFails(r)
    \/ \E u \in Users : RemoveUser(u)
    \/ Expire
    \/ Crash

Spec == Init /\ [][Next]_vars

-----------------------------------------------------------------------------
(* Properties.                                                             *)

\* This step takes a request through current_user.
EntersRoute(r) ==
    /\ req[r].at = "touch"
    /\ \/ req'[r].at = "lookup"
       \/ req'[r].at = "answered" /\ req'[r].code = "ok"

\* This step answers a verification that had found its challenge.
AnswersVerify(r) ==
    /\ req[r].op = "verify" /\ req[r].at # "answered"
    /\ req'[r].at = "answered"
    /\ req'[r].code \in {"ok", "expired", "bad_signature", "not_found"}

\* Every variable keeps its type.
TypeOK ==
    /\ active \subseteq Users
    /\ chal \in [Challenges -> Challenge]
    /\ sess \in [Tokens -> Session]
    /\ loggedOut \subseteq Tokens
    /\ req \in [Requests -> Request]

\* A token whose logout was answered is never a session again, although other
\* requests read its row before the logout and write it back afterwards.
LogoutIsFinal == \A t \in loggedOut : sess[t].st = "gone"

\* No request enters its route with a token that was logged out by then, even
\* when it found the session row before the logout committed.
NoRouteAfterLogout ==
    [][\A r \in Requests : EntersRoute(r) => req[r].tok \notin loggedOut]_vars

\* A verification that found its challenge and is answered by the route, with
\* a token or with a refusal, leaves no challenge behind: the next attempt
\* with the same challenge is a 404.
AnswerSpendsChallenge ==
    [][\A r \in Requests : AnswersVerify(r) => chal'[req[r].chal].st = "gone"]_vars

\* What a handler keeps across its awaits: its ids, and the session it has
\* read or, when it verifies, the token nobody else has drawn.
HandlerInv(r) ==
    LET q == req[r] IN
    /\ q.at = "answered" => q.tok = None /\ q.op = "none"
    /\ q.at # "answered" => q.op # "none"
    /\ q.at \in {"touch", "lookup"} => q.op \in {"call", "logout"}
    /\ q.op = "issue" => q.tok = None
    /\ q.op = "verify" => q.chal \in Challenges
    /\ q.op = "verify" /\ q.at \in {"user", "commit"} => q.tok \in Tokens
    /\ q.op \in {"call", "logout"} => q.tok \in Tokens /\ sess[q.tok].st # "unused"
    /\ q.op = "verify" /\ q.tok # None =>
          /\ sess[q.tok].st = "unused"
          /\ \A p \in Requests : req[p].tok = q.tok => p = r

\* The safety invariants with what makes them inductive.
IndInv ==
    /\ TypeOK
    /\ LogoutIsFinal
    /\ \A r \in Requests : HandlerInv(r)
=============================================================================
