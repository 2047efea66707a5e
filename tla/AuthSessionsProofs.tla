------------------------- MODULE AuthSessionsProofs -------------------------
(* Theorems about AuthSessions, for every set of users, challenges, tokens, *)
(* handlers and faults.                                                    *)
EXTENDS AuthSessions, TLAPS

-----------------------------------------------------------------------------
(* How a step changes the locals of handlers.                              *)

\* The locals of a handler that is answered.
LEMMA AnswerLocals ==
    ASSUME TypeOK, NEW r \in Requests, NEW code \in Codes, Answer(r, code)
    PROVE  /\ req' \in [Requests -> Request]
           /\ \A p \in Requests : p # r => req'[p] = req[p]
           /\ req'[r] = [Idle EXCEPT !.code = code]
  BY DEF TypeOK, Answer, Request, Idle

LEMMA GotoLocals ==
    ASSUME TypeOK, NEW r \in Requests, NEW point \in {"touch", "lookup", "commit"},
           Goto(r, point)
    PROVE  /\ req' \in [Requests -> Request]
           /\ \A p \in Requests : p # r => req'[p] = req[p]
           /\ req'[r] = [req[r] EXCEPT !.at = point]
           /\ req[r] \in Request
  BY DEF TypeOK, Goto, Request

\* The locals of a handler that starts with these values.
LEMMA StartLocals ==
    ASSUME TypeOK, NEW r \in Requests,
           NEW op \in {"issue", "verify", "call", "logout"},
           NEW point \in {"user", "drop", "commit"}, NEW u \in Users \cup {None},
           NEW c \in Challenges \cup {None}, NEW t \in Tokens \cup {None},
           NEW signed \in BOOLEAN, NEW code \in Codes,
           req' = [req EXCEPT ![r] = [op |-> op, at |-> point, user |-> u,
                       chal |-> c, tok |-> t, signed |-> signed, code |-> code]]
    PROVE  /\ req' \in [Requests -> Request]
           /\ \A p \in Requests : p # r => req'[p] = req[p]
           /\ req'[r] = [op |-> op, at |-> point, user |-> u, chal |-> c,
                         tok |-> t, signed |-> signed, code |-> code]
  <1>1. [op |-> op, at |-> point, user |-> u, chal |-> c, tok |-> t,
         signed |-> signed, code |-> code] \in Request
    BY DEF Request
  <1> QED BY <1>1 DEF TypeOK

\* What the three kinds of handlers that start hold.
LEMMA BeginLocals ==
    ASSUME TypeOK, NEW r \in Requests
    PROVE  /\ \A u \in Users : IssueBegin(r, u) =>
                /\ req' \in [Requests -> Request]
                /\ \A p \in Requests : p # r => req'[p] = req[p]
                /\ req'[r].op = "issue" /\ req'[r].at = "commit"
                /\ req'[r].tok = None
           /\ \A c \in Challenges, signed \in BOOLEAN : VerifyBegin(r, c, signed) =>
                /\ req' \in [Requests -> Request]
                /\ \A p \in Requests : p # r => req'[p] = req[p]
                /\ \/ /\ req'[r].op = "verify" /\ req'[r].chal = c
                      /\ \/ req'[r].at = "user" /\ req'[r].tok \in NewTokens
                         \/ req'[r].at = "drop" /\ req'[r].tok = None
                   \/ req'[r] = [Idle EXCEPT !.code = "not_found"]
           /\ \A t \in Tokens, op \in {"call", "logout"} : CallBegin(r, op, t) =>
                /\ req' \in [Requests -> Request]
                /\ \A p \in Requests : p # r => req'[p] = req[p]
                /\ \/ /\ req'[r].op = op /\ req'[r].at = "user"
                      /\ req'[r].tok = t /\ sess[t].st = "live"
                   \/ req'[r] = [Idle EXCEPT !.code = "unauthorized"]
  <1>1. ASSUME NEW u \in Users, IssueBegin(r, u)
        PROVE  /\ req' \in [Requests -> Request]
               /\ \A p \in Requests : p # r => req'[p] = req[p]
               /\ req'[r].op = "issue" /\ req'[r].at = "commit"
               /\ req'[r].tok = None
    <2>1. PICK c \in NewChallenges :
             req' = [req EXCEPT ![r] = [op |-> "issue", at |-> "commit", user |-> u,
                       chal |-> c, tok |-> None, signed |-> FALSE, code |-> "none"]]
      BY ZenonT(60), <1>1 DEF IssueBegin, Idle
    <2>2. c \in Challenges \cup {None} /\ "none" \in Codes
      BY DEF NewChallenges, Codes
    <2>3. FALSE \in BOOLEAN /\ None \in Tokens \cup {None} /\ u \in Users \cup {None}
      OBVIOUS
    <2> HIDE DEF Codes
    <2>4. /\ req' \in [Requests -> Request]
          /\ \A p \in Requests : p # r => req'[p] = req[p]
          /\ req'[r] = [op |-> "issue", at |-> "commit", user |-> u,
                 chal |-> c, tok |-> None, signed |-> FALSE, code |-> "none"]
      BY <2>1, <2>2, <2>3, StartLocals
    <2> QED BY <2>4
  <1>2. ASSUME NEW c \in Challenges, NEW signed \in BOOLEAN, VerifyBegin(r, c, signed)
        PROVE  /\ req' \in [Requests -> Request]
               /\ \A p \in Requests : p # r => req'[p] = req[p]
               /\ \/ /\ req'[r].op = "verify" /\ req'[r].chal = c
                     /\ \/ req'[r].at = "user" /\ req'[r].tok \in NewTokens
                        \/ req'[r].at = "drop" /\ req'[r].tok = None
                  \/ req'[r] = [Idle EXCEPT !.code = "not_found"]
    <2>0. chal[c].of \in Users \cup {None}
      BY DEF TypeOK, Challenge
    <2>1. ASSUME NEW t \in NewTokens, VerifyStart(r, c, signed, "user", t, "none")
          PROVE  /\ req' \in [Requests -> Request]
                 /\ \A p \in Requests : p # r => req'[p] = req[p]
                 /\ req'[r].op = "verify" /\ req'[r].chal = c
                 /\ req'[r].at = "user" /\ req'[r].tok \in NewTokens
      <3>1. req' = [req EXCEPT ![r] = [op |-> "verify", at |-> "user",
                     user |-> chal[c].of, chal |-> c, tok |-> t,
                     signed |-> signed, code |-> "none"]]
        BY <2>1 DEF VerifyStart
      <3>2. t \in Tokens \cup {None} /\ "none" \in Codes
        BY DEF NewTokens, Codes
      <3>3. /\ req' \in [Requests -> Request]
            /\ \A p \in Requests : p # r => req'[p] = req[p]
            /\ req'[r] = [op |-> "verify", at |-> "user",
                     user |-> chal[c].of, chal |-> c, tok |-> t,
                     signed |-> signed, code |-> "none"]
        BY ZenonT(60), <2>0, <3>1, <3>2, StartLocals
      <3> QED BY <3>3
    <2>2. ASSUME VerifyStart(r, c, signed, "drop", None, "expired")
          PROVE  /\ req' \in [Requests -> Request]
                 /\ \A p \in Requests : p # r => req'[p] = req[p]
                 /\ req'[r].op = "verify" /\ req'[r].chal = c
                 /\ req'[r].at = "drop" /\ req'[r].tok = None
      <3>1. "expired" \in Codes
        BY DEF Codes
      <3>2. req' = [req EXCEPT ![r] = [op |-> "verify", at |-> "drop",
                     user |-> chal[c].of, chal |-> c, tok |-> None,
                     signed |-> signed, code |-> "expired"]]
        BY <2>2 DEF VerifyStart
      <3>3. /\ req' \in [Requests -> Request]
            /\ \A p \in Requests : p # r => req'[p] = req[p]
            /\ req'[r] = [op |-> "verify", at |-> "drop",
                     user |-> chal[c].of, chal |-> c, tok |-> None,
                     signed |-> signed, code |-> "expired"]
        BY ZenonT(60), <2>0, <3>1, <3>2, StartLocals
      <3> QED BY <3>3
    <2>3. CASE Answer(r, "not_found")
      BY <2>3, AnswerLocals DEF Codes
    <2> QED BY <1>2, <2>1, <2>2, <2>3 DEF VerifyBegin
  <1>3. ASSUME NEW t \in Tokens, NEW op \in {"call", "logout"}, CallBegin(r, op, t)
        PROVE  /\ req' \in [Requests -> Request]
               /\ \A p \in Requests : p # r => req'[p] = req[p]
               /\ \/ /\ req'[r].op = op /\ req'[r].at = "user"
                     /\ req'[r].tok = t /\ sess[t].st = "live"
                  \/ req'[r] = [Idle EXCEPT !.code = "unauthorized"]
    <2>1. CASE sess[t].st = "live"
      <3>1. sess[t].of \in Users \cup {None} /\ "none" \in Codes
        BY DEF TypeOK, Session, Codes
      <3>2. req' = [req EXCEPT ![r] = [op |-> op, at |-> "user", user |-> sess[t].of,
                       chal |-> None, tok |-> t, signed |-> FALSE, code |-> "none"]]
        BY <1>3, <2>1 DEF CallBegin, Idle
      <3>3. /\ req' \in [Requests -> Request]
            /\ \A p \in Requests : p # r => req'[p] = req[p]
            /\ req'[r] = [op |-> op, at |-> "user", user |-> sess[t].of,
                       chal |-> None, tok |-> t, signed |-> FALSE, code |-> "none"]
        BY ZenonT(60), <3>1, <3>2, StartLocals
      <3> QED BY <2>1, <3>3
    <2>2. CASE Answer(r, "unauthorized")
      BY <2>2, AnswerLocals DEF Codes
    <2> QED BY <1>3, <2>1, <2>2 DEF CallBegin
  <1> QED BY <1>1, <1>2, <1>3

\* A handler that is answered holds nothing.
LEMMA AnsweredInv ==
    ASSUME NEW r \in Requests, NEW code, req'[r] = [Idle EXCEPT !.code = code]
    PROVE  HandlerInv(r)'
  BY DEF Idle, HandlerInv

\* A step of r keeps the invariant of another handler p unless it takes p's
\* token or changes the session p relies on.
LEMMA OthersKeep ==
    ASSUME IndInv, NEW r \in Requests, NEW p \in Requests, p # r,
           \A o \in Requests : o # r => req'[o] = req[o],
           req[p].op = "verify" /\ req[p].tok # None => req'[r].tok # req[p].tok,
           \A t \in Tokens : \/ sess'[t].st = sess[t].st
                             \/ sess'[t].st # "unused" /\ \A o \in Requests :
                                   o # r /\ req[o].op = "verify" => req[o].tok # t
    PROVE  HandlerInv(p)'
  <1> DEFINE q == req[p]
  <1>1. HandlerInv(p) /\ req'[p] = q /\ q.tok \in Tokens \cup {None}
    BY DEF IndInv, TypeOK, Request
  <1>2. ASSUME q.op = "verify", q.tok # None, NEW o \in Requests, req'[o].tok = q.tok
        PROVE  o = p
    BY <1>1, <1>2 DEF HandlerInv
  <1>3. ASSUME q.op \in {"call", "logout"}
        PROVE  q.tok \in Tokens /\ sess'[q.tok].st # "unused"
    BY <1>1, <1>3 DEF HandlerInv
  <1>4. ASSUME q.op = "verify", q.tok # None
        PROVE  sess'[q.tok].st = "unused"
    BY <1>1, <1>4 DEF HandlerInv
  <1> QED BY <1>1, <1>2, <1>3, <1>4 DEF HandlerInv

\* A step that only answers r, or moves it on, keeps the invariant of others.
LEMMA OthersKeepSameToken ==
    ASSUME IndInv, NEW r \in Requests, UNCHANGED sess,
           \A o \in Requests : o # r => req'[o] = req[o],
           req'[r].tok \in {None, req[r].tok}
    PROVE  \A p \in Requests : p # r => HandlerInv(p)'
  <1> SUFFICES ASSUME NEW p \in Requests, p # r
               PROVE  HandlerInv(p)'
    OBVIOUS
  <1>1. req[p].op = "verify" /\ req[p].tok # None => req'[r].tok # req[p].tok
    BY DEF IndInv, HandlerInv
  <1> QED BY <1>1, OthersKeep

-----------------------------------------------------------------------------
(* Types.                                                                  *)

LEMMA TypeStep ==
    ASSUME IndInv, [Next]_vars
    PROVE  TypeOK'
  <1> USE DEF rows
  <1>0. TypeOK /\ \A r \in Requests : HandlerInv(r)
    BY DEF IndInv
  <1>1. ASSUME NEW r \in Requests, Arrive(r)
        PROVE  TypeOK'
    <2>1. ASSUME NEW u \in Users, IssueBegin(r, u)
          PROVE  TypeOK'
      BY <1>0, <2>1, BeginLocals DEF IssueBegin, TypeOK
    <2>2. ASSUME NEW u \in Users, IssueRefused(r, u)
          PROVE  TypeOK'
      BY <1>0, <2>2, AnswerLocals DEF IssueRefused, TypeOK, Codes
    <2>3. ASSUME NEW c \in Challenges, NEW signed \in BOOLEAN, VerifyBegin(r, c, signed)
          PROVE  TypeOK'
      <3>1. req' \in [Requests -> Request]
        BY <1>0, <2>3, BeginLocals
      <3>2. UNCHANGED <<rows, loggedOut>>
        BY <2>3 DEF VerifyBegin
      <3> QED BY <1>0, <3>1, <3>2 DEF TypeOK
    <2>4. ASSUME NEW t \in Tokens, NEW op \in {"call", "logout"}, CallBegin(r, op, t)
          PROVE  TypeOK'
      BY <1>0, <2>4, BeginLocals DEF CallBegin, TypeOK
    <2> QED BY <1>1, <2>1, <2>2, <2>3, <2>4 DEF Arrive
  <1>2. ASSUME NEW r \in Requests, Resume(r)
        PROVE  TypeOK'
    <2>0. req[r] \in Request
      BY <1>0 DEF TypeOK
    <2>1. CASE IssueCommit(r)
      <3>1. req' \in [Requests -> Request]
        BY <1>0, <2>1, AnswerLocals DEF IssueCommit, Codes
      <3>2. chal' \in [Challenges -> Challenge]
        BY <1>0, <2>0, <2>1 DEF IssueCommit, TypeOK, Request, Challenge, Stages
      <3> QED BY <1>0, <2>1, <3>1, <3>2 DEF IssueCommit, TypeOK
    <2>2. CASE VerifyUser(r)
      <3>1. req' \in [Requests -> Request]
        BY ZenonT(60), <1>0, <2>0, <2>2 DEF VerifyUser, TypeOK, Request, Codes
      <3> QED BY <1>0, <2>2, <3>1 DEF VerifyUser, TypeOK
    <2>3. CASE VerifyDrop(r)
      <3>1. req' \in [Requests -> Request]
        BY <1>0, <2>0, <2>3, AnswerLocals DEF VerifyDrop, Request
      <3>2. chal' \in [Challenges -> Challenge]
        BY <1>0, <2>3 DEF VerifyDrop, Drop, TypeOK, Challenge, Stages
      <3> QED BY <1>0, <2>3, <3>1, <3>2 DEF VerifyDrop, TypeOK
    <2>4. CASE VerifyCommit(r)
      <3>1. req' \in [Requests -> Request]
        BY <1>0, <2>4, AnswerLocals DEF VerifyCommit, Codes
      <3>2. chal' \in [Challenges -> Challenge]
        BY <1>0, <2>4 DEF VerifyCommit, Drop, TypeOK, Challenge, Stages
      <3>3. sess' \in [Tokens -> Session]
        BY <1>0, <2>0, <2>4 DEF VerifyCommit, TypeOK, Session, Stages, Request
      <3> QED BY <1>0, <2>4, <3>1, <3>2, <3>3 DEF VerifyCommit, TypeOK
    <2>5. CASE CallUser(r)
      BY <1>0, <2>5, AnswerLocals, GotoLocals DEF CallUser, TypeOK, Codes
    <2>6. CASE CallTouch(r)
      BY <1>0, <2>6, AnswerLocals, GotoLocals DEF CallTouch, EnterRoute, TypeOK, Codes
    <2>7. CASE LogoutLookup(r)
      BY <1>0, <2>7, GotoLocals DEF LogoutLookup, TypeOK
    <2>8. CASE LogoutCommit(r)
      <3>1. req' \in [Requests -> Request]
        BY <1>0, <2>8, AnswerLocals DEF LogoutCommit, Codes
      <3>2. sess' \in [Tokens -> Session]
        BY <1>0, <2>8 DEF LogoutCommit, TypeOK, Session, Stages
      <3> QED BY <1>0, <2>0, <2>8, <3>1, <3>2 DEF LogoutCommit, TypeOK, Request, At, HandlerInv
    <2> QED BY <1>2, <2>1, <2>2, <2>3, <2>4, <2>5, <2>6, <2>7, <2>8 DEF Resume
  <1>3. ASSUME NEW r \in Requests, CommitFails(r)
        PROVE  TypeOK'
    BY <1>0, <1>3, AnswerLocals DEF CommitFails, TypeOK, Codes
  <1>4. ASSUME NEW u \in Users, RemoveUser(u)
        PROVE  TypeOK'
    BY <1>0, <1>4 DEF RemoveUser, TypeOK
  <1>5. CASE Expire
    BY SMTT(30), <1>0, <1>5 DEF Expire, TypeOK, Challenge, Session, Stages
  <1>6. CASE Crash
    <2>1. Idle \in Request
      BY DEF Idle, Request, Codes
    <2> QED BY <1>0, <1>6, <2>1 DEF Crash, TypeOK
  <1>7. CASE UNCHANGED vars
    BY <1>0, <1>7 DEF vars, TypeOK
  <1> QED BY <1>1, <1>2, <1>3, <1>4, <1>5, <1>6, <1>7 DEF Next

-----------------------------------------------------------------------------
(* What handlers keep across their awaits.                                 *)

\* A step that answers r and leaves the sessions alone.
LEMMA AnswerKeepsHandlers ==
    ASSUME IndInv, NEW r \in Requests, NEW code \in Codes, Answer(r, code),
           UNCHANGED sess
    PROVE  \A p \in Requests : HandlerInv(p)'
  <1>1. /\ \A p \in Requests : p # r => req'[p] = req[p]
        /\ req'[r] = [Idle EXCEPT !.code = code]
    BY AnswerLocals DEF IndInv
  <1>2. HandlerInv(r)' /\ req'[r].tok = None
    BY <1>1, AnsweredInv DEF Idle
  <1> QED BY <1>1, <1>2, OthersKeepSameToken

\* A step that moves r on in current_user or in logout.
LEMMA GotoKeepsHandlers ==
    ASSUME IndInv, NEW r \in Requests, NEW point \in {"touch", "lookup", "commit"},
           Goto(r, point), req[r].op \in {"call", "logout"}, UNCHANGED sess
    PROVE  \A p \in Requests : HandlerInv(p)'
  <1>1. /\ \A p \in Requests : p # r => req'[p] = req[p]
        /\ req'[r] = [req[r] EXCEPT !.at = point]
        /\ req[r] \in Request
    BY GotoLocals DEF IndInv
  <1>2. req'[r].tok = req[r].tok /\ req'[r].op = req[r].op /\ req'[r].at = point
    BY <1>1 DEF Request
  <1>3. HandlerInv(r)'
    BY <1>1, <1>2 DEF IndInv, HandlerInv
  <1> QED BY <1>1, <1>2, <1>3, OthersKeepSameToken

LEMMA BeginKeepsHandlers ==
    ASSUME IndInv, NEW r \in Requests, Arrive(r)
    PROVE  \A p \in Requests : HandlerInv(p)'
  <1>0. TypeOK /\ \A p \in Requests : HandlerInv(p)
    BY DEF IndInv
  <1>1. ASSUME NEW u \in Users, IssueBegin(r, u)
        PROVE  \A p \in Requests : HandlerInv(p)'
    <2>1. /\ \A p \in Requests : p # r => req'[p] = req[p]
          /\ req'[r].op = "issue" /\ req'[r].at = "commit" /\ req'[r].tok = None
      BY <1>0, <1>1, BeginLocals
    <2>2. UNCHANGED sess
      BY <1>1 DEF IssueBegin, rows
    <2>3. HandlerInv(r)'
      BY <2>1 DEF HandlerInv
    <2> QED BY <2>1, <2>2, <2>3, OthersKeepSameToken
  <1>2. ASSUME NEW u \in Users, IssueRefused(r, u)
        PROVE  \A p \in Requests : HandlerInv(p)'
    BY <1>2, AnswerKeepsHandlers DEF IssueRefused, rows, Codes
  <1>3. ASSUME NEW c \in Challenges, NEW signed \in BOOLEAN, VerifyBegin(r, c, signed)
        PROVE  \A p \in Requests : HandlerInv(p)'
    <2>1. /\ \A p \in Requests : p # r => req'[p] = req[p]
          /\ \/ /\ req'[r].op = "verify" /\ req'[r].chal = c
                /\ \/ req'[r].at = "user" /\ req'[r].tok \in NewTokens
                   \/ req'[r].at = "drop" /\ req'[r].tok = None
             \/ req'[r] = [Idle EXCEPT !.code = "not_found"]
      BY <1>0, <1>3, BeginLocals
    <2>2. UNCHANGED sess
      BY <1>3 DEF VerifyBegin, rows
    <2>3. CASE req'[r] = [Idle EXCEPT !.code = "not_found"]
      <3>1. HandlerInv(r)' /\ req'[r].tok = None
        BY <2>3, AnsweredInv DEF Idle
      <3> QED BY <2>1, <2>2, <3>1, OthersKeepSameToken
    <2>4. CASE req'[r].op = "verify" /\ req'[r].at = "drop" /\ req'[r].tok = None
      <3>1. HandlerInv(r)'
        BY <2>1, <2>4, AnsweredInv DEF HandlerInv, Idle
      <3> QED BY <2>1, <2>2, <2>4, <3>1, OthersKeepSameToken
    <2>5. CASE req'[r].op = "verify" /\ req'[r].at = "user" /\ req'[r].tok \in NewTokens
                  /\ req'[r].chal = c
      <3>1. /\ req'[r].tok \in Tokens /\ sess[req'[r].tok].st = "unused"
            /\ \A p \in Requests : req[p].tok # req'[r].tok
        BY <2>5 DEF NewTokens
      <3>2. HandlerInv(r)'
        BY <2>1, <2>2, <2>5, <3>1 DEF HandlerInv
      <3>3. ASSUME NEW p \in Requests, p # r
            PROVE  HandlerInv(p)'
        BY <2>1, <2>2, <3>1, <3>3, OthersKeep
      <3> QED BY <3>2, <3>3
    <2> QED BY <2>1, <2>3, <2>4, <2>5
  <1>4. ASSUME NEW t \in Tokens, NEW op \in {"call", "logout"}, CallBegin(r, op, t)
        PROVE  \A p \in Requests : HandlerInv(p)'
    <2>1. /\ \A p \in Requests : p # r => req'[p] = req[p]
          /\ \/ /\ req'[r].op = op /\ req'[r].at = "user"
                /\ req'[r].tok = t /\ sess[t].st = "live"
             \/ req'[r] = [Idle EXCEPT !.code = "unauthorized"]
      BY <1>0, <1>4, BeginLocals
    <2>2. UNCHANGED sess
      BY <1>4 DEF CallBegin, rows
    <2>3. CASE req'[r] = [Idle EXCEPT !.code = "unauthorized"]
      <3>1. HandlerInv(r)' /\ req'[r].tok = None
        BY <2>3, AnsweredInv DEF Idle
      <3> QED BY <2>1, <2>2, <3>1, OthersKeepSameToken
    <2>4. CASE req'[r].op = op /\ req'[r].at = "user" /\ req'[r].tok = t
                  /\ sess[t].st = "live"
      <3>1. HandlerInv(r)'
        BY <2>2, <2>4 DEF HandlerInv
      <3>2. ASSUME NEW p \in Requests, p # r
            PROVE  HandlerInv(p)'
        <4>1. req[p].op = "verify" /\ req[p].tok # None => req'[r].tok # req[p].tok
          BY <1>0, <2>4 DEF HandlerInv
        <4> QED BY <2>1, <2>2, <3>2, <4>1, OthersKeep
      <3> QED BY <3>1, <3>2
    <2> QED BY <2>1, <2>3, <2>4
  <1> QED BY <1>1, <1>2, <1>3, <1>4 DEF Arrive

LEMMA ResumeKeepsHandlers ==
    ASSUME IndInv, NEW r \in Requests, Resume(r)
    PROVE  \A p \in Requests : HandlerInv(p)'
  <1>0. TypeOK /\ HandlerInv(r) /\ req[r] \in Request
    BY DEF IndInv, TypeOK
  <1>1. CASE IssueCommit(r)
    BY <1>1, AnswerKeepsHandlers DEF IssueCommit, Codes
  <1>2. CASE VerifyUser(r)
    <2>1. /\ \A p \in Requests : p # r => req'[p] = req[p]
          /\ req'[r].tok = req[r].tok /\ req'[r].op = "verify"
          /\ req'[r].chal = req[r].chal /\ req'[r].at \in {"drop", "commit"}
      BY <1>0, <1>2 DEF VerifyUser, At, TypeOK, Request
    <2>2. UNCHANGED sess
      BY <1>2 DEF VerifyUser, rows
    <2>3. req[r].op = "verify" /\ req[r].at = "user"
      BY <1>2 DEF VerifyUser, At
    <2>4. HandlerInv(r)'
      BY <1>0, <2>1, <2>2, <2>3 DEF HandlerInv
    <2> QED BY <2>1, <2>2, <2>4, OthersKeepSameToken
  <1>3. CASE VerifyDrop(r)
    BY <1>0, <1>3, AnswerKeepsHandlers DEF VerifyDrop, Request
  <1>4. CASE VerifyCommit(r)
    <2>1. /\ \A p \in Requests : p # r => req'[p] = req[p]
          /\ req'[r] = [Idle EXCEPT !.code = "ok"]
      BY <1>0, <1>4, AnswerLocals DEF VerifyCommit, Codes
    <2>2. HandlerInv(r)' /\ req'[r].tok = None
      BY <2>1, AnsweredInv DEF Idle
    <2>3. /\ req[r].tok \in Tokens /\ sess[req[r].tok].st = "unused"
          /\ \A p \in Requests : req[p].tok = req[r].tok => p = r
      BY <1>0, <1>4, NoneAssumption DEF VerifyCommit, At, HandlerInv
    <2>4. \A t \in Tokens : sess'[t].st = sess[t].st \/ (t = req[r].tok /\ sess'[t].st = "live")
      BY <1>0, <1>4 DEF VerifyCommit, TypeOK
    <2>5. ASSUME NEW p \in Requests, p # r
          PROVE  HandlerInv(p)'
      <3>1. req[p].op = "verify" /\ req[p].tok # None => req'[r].tok # req[p].tok
        BY <2>2
      <3>2. \A t \in Tokens : \/ sess'[t].st = sess[t].st
                              \/ sess'[t].st # "unused" /\ \A o \in Requests :
                                    o # r /\ req[o].op = "verify" => req[o].tok # t
        BY <2>3, <2>4
      <3> QED BY <2>1, <2>5, <3>1, <3>2, OthersKeep
    <2> QED BY <2>2, <2>5
  <1>5. CASE CallUser(r)
    BY <1>5, AnswerKeepsHandlers, GotoKeepsHandlers DEF CallUser, rows, Codes
  <1>6. CASE CallTouch(r)
    BY <1>0, <1>6, AnswerKeepsHandlers, GotoKeepsHandlers
       DEF CallTouch, EnterRoute, rows, Codes, HandlerInv
  <1>7. CASE LogoutLookup(r)
    BY <1>7, GotoKeepsHandlers DEF LogoutLookup, At, rows
  <1>8. CASE LogoutCommit(r)
    <2>1. /\ \A p \in Requests : p # r => req'[p] = req[p]
          /\ req'[r] = [Idle EXCEPT !.code = "ok"]
      BY <1>0, <1>8, AnswerLocals DEF LogoutCommit, Codes
    <2>2. HandlerInv(r)' /\ req'[r].tok = None
      BY <2>1, AnsweredInv DEF Idle
    <2>3. \A t \in Tokens : sess'[t].st = sess[t].st \/ (t = req[r].tok /\ sess'[t].st = "gone")
      BY <1>0, <1>8 DEF LogoutCommit, TypeOK, Session
    <2>4. \A o \in Requests : o # r /\ req[o].op = "verify" => req[o].tok # req[r].tok
      BY <1>0, <1>8, NoneAssumption DEF LogoutCommit, At, IndInv, HandlerInv
    <2>5. ASSUME NEW p \in Requests, p # r
          PROVE  HandlerInv(p)'
      <3>1. req[p].op = "verify" /\ req[p].tok # None => req'[r].tok # req[p].tok
        BY <2>2
      <3>2. \A t \in Tokens : \/ sess'[t].st = sess[t].st
                              \/ sess'[t].st # "unused" /\ \A o \in Requests :
                                    o # r /\ req[o].op = "verify" => req[o].tok # t
        BY <2>3, <2>4
      <3> QED BY <2>1, <2>5, <3>1, <3>2, OthersKeep
    <2> QED BY <2>2, <2>5
  <1> QED BY <1>1, <1>2, <1>3, <1>4, <1>5, <1>6, <1>7, <1>8 DEF Resume

LEMMA HandlerStep ==
    ASSUME IndInv, [Next]_vars
    PROVE  \A p \in Requests : HandlerInv(p)'
  <1>0. TypeOK /\ \A p \in Requests : HandlerInv(p)
    BY DEF IndInv
  <1>1. ASSUME NEW r \in Requests, Arrive(r) \/ Resume(r)
        PROVE  \A p \in Requests : HandlerInv(p)'
    BY <1>1, BeginKeepsHandlers, ResumeKeepsHandlers
  <1>2. ASSUME NEW r \in Requests, CommitFails(r)
        PROVE  \A p \in Requests : HandlerInv(p)'
    BY <1>2, AnswerKeepsHandlers DEF CommitFails, rows, Codes
  <1>3. ASSUME NEW u \in Users, RemoveUser(u)
        PROVE  \A p \in Requests : HandlerInv(p)'
    BY <1>0, <1>3 DEF RemoveUser, HandlerInv
  <1>4. CASE Expire
    <2>1. \A t \in Tokens : sess'[t].st = "unused" <=> sess[t].st = "unused"
      BY <1>0, <1>4 DEF Expire, TypeOK, Session
    <2>2. UNCHANGED req
      BY <1>4 DEF Expire
    <2>3. \A p \in Requests : req[p].tok \in Tokens \cup {None}
      BY <1>0 DEF TypeOK, Request
    <2> QED BY <1>0, <2>1, <2>2, <2>3 DEF HandlerInv
  <1>5. CASE Crash
    <2>1. UNCHANGED sess
      BY <1>5 DEF Crash, rows
    <2>2. \A p \in Requests : req'[p] = req[p] \/ req'[p] = Idle
      BY <1>0, <1>5 DEF Crash
    <2>3. \A p \in Requests : req'[p].tok \in {None, req[p].tok}
      BY <2>2 DEF Idle
    <2> QED BY <1>0, <2>1, <2>2, <2>3 DEF HandlerInv, Idle
  <1>6. CASE UNCHANGED vars
    BY <1>0, <1>6 DEF vars, rows, HandlerInv
  <1> QED BY <1>1, <1>2, <1>3, <1>4, <1>5, <1>6 DEF Next

-----------------------------------------------------------------------------
(* Logout.                                                                 *)

\* A session that is gone stays gone, and only logouts add to loggedOut.
LEMMA LogoutStep ==
    ASSUME IndInv, [Next]_vars
    PROVE  LogoutIsFinal'
  <1>0. /\ TypeOK /\ LogoutIsFinal
        /\ \A r \in Requests : HandlerInv(r)
    BY DEF IndInv
  <1>1. CASE UNCHANGED <<sess, loggedOut>>
    BY <1>0, <1>1 DEF LogoutIsFinal
  <1>2. ASSUME NEW r \in Requests, VerifyCommit(r)
        PROVE  LogoutIsFinal'
    <2>1. req[r].tok \in Tokens /\ sess[req[r].tok].st = "unused"
      BY <1>0, <1>2, NoneAssumption DEF VerifyCommit, At, HandlerInv
    <2>2. loggedOut' = loggedOut /\ \A t \in loggedOut : sess'[t] = sess[t]
      BY <1>0, <1>2, <2>1 DEF VerifyCommit, TypeOK, LogoutIsFinal
    <2> QED BY <1>0, <2>2 DEF LogoutIsFinal
  <1>3. ASSUME NEW r \in Requests, LogoutCommit(r)
        PROVE  LogoutIsFinal'
    <2>1. req[r].tok \in Tokens
      BY <1>0, <1>3 DEF LogoutCommit, At, HandlerInv
    <2>2. loggedOut' = loggedOut \cup {req[r].tok}
      BY <1>3 DEF LogoutCommit
    <2>3. sess'[req[r].tok].st = "gone"
      BY <1>0, <1>3, <2>1 DEF LogoutCommit, TypeOK, Session
    <2>4. \A t \in Tokens : t # req[r].tok => sess'[t] = sess[t]
      BY <1>0, <1>3, <2>1 DEF LogoutCommit, TypeOK
    <2> QED BY <1>0, <2>2, <2>3, <2>4 DEF LogoutIsFinal, TypeOK
  <1>4. CASE Expire
    <2>1. loggedOut' = loggedOut /\ \A t \in loggedOut : sess'[t] = sess[t]
      BY <1>0, <1>4 DEF Expire, TypeOK, LogoutIsFinal
    <2> QED BY <1>0, <2>1 DEF LogoutIsFinal
  <1>5. ASSUME NEW r \in Requests, Arrive(r) \/ CommitFails(r)
        PROVE  UNCHANGED <<sess, loggedOut>>
    BY <1>5 DEF Arrive, CommitFails, IssueBegin, IssueRefused, VerifyBegin,
       CallBegin, rows
  <1>6. ASSUME NEW r \in Requests, Resume(r)
        PROVE  UNCHANGED <<sess, loggedOut>> \/ VerifyCommit(r) \/ LogoutCommit(r)
    BY <1>6 DEF Resume, IssueCommit, VerifyUser, VerifyDrop, CallUser,
       CallTouch, LogoutLookup, rows
  <1>7. CASE (\E u \in Users : RemoveUser(u)) \/ Crash \/ UNCHANGED vars
    BY <1>1, <1>7 DEF RemoveUser, Crash, vars, rows
  <1> QED BY <1>1, <1>2, <1>3, <1>4, <1>5, <1>6, <1>7 DEF Next

\* Which steps take a request through current_user, and which answer a
\* verification with one of the answers of its route.
LEMMA AnsweringSteps ==
    ASSUME IndInv, Next, NEW r \in Requests
    PROVE  /\ EntersRoute(r) => CallTouch(r)
           /\ AnswersVerify(r) => VerifyDrop(r) \/ VerifyCommit(r)
  <1>0. TypeOK /\ req[r] \in Request
    BY DEF IndInv, TypeOK
  <1>1. req'[r] = req[r] => ~EntersRoute(r) /\ ~AnswersVerify(r)
    BY DEF EntersRoute, AnswersVerify
  <1>2. ASSUME NEW p \in Requests, p # r, Arrive(p) \/ Resume(p) \/ CommitFails(p)
        PROVE  req'[r] = req[r]
    <2>1. CASE Arrive(p)
      BY <1>0, <1>2, <2>1 DEF Arrive, IssueBegin, IssueRefused, VerifyBegin,
         VerifyStart, CallBegin, Answer, TypeOK
    <2>2. CASE Resume(p) \/ CommitFails(p)
      BY <1>0, <1>2, <2>2 DEF Resume, CommitFails, IssueCommit, VerifyUser,
         VerifyDrop, VerifyCommit, CallUser, CallTouch, LogoutLookup,
         LogoutCommit, EnterRoute, Answer, Goto, TypeOK
    <2> QED BY <1>2, <2>1, <2>2
  <1>3. CASE Arrive(r)
    BY <1>3 DEF Arrive, IssueBegin, IssueRefused, VerifyBegin, CallBegin,
       EntersRoute, AnswersVerify
  <1>4. CASE CommitFails(r)
    BY <1>0, <1>4, AnswerLocals DEF CommitFails, Codes, Idle, EntersRoute, AnswersVerify
  <1>5. CASE Crash
    BY <1>0, <1>5 DEF Crash, Idle, EntersRoute, AnswersVerify
  <1>6. CASE Expire \/ \E u \in Users : RemoveUser(u)
    BY <1>1, <1>6 DEF Expire, RemoveUser
  <1>7. CASE Resume(r)
    <2>1. CASE IssueCommit(r)
      BY <2>1 DEF IssueCommit, At, EntersRoute, AnswersVerify
    <2>2. CASE VerifyUser(r)
      BY <1>0, <2>2 DEF VerifyUser, At, TypeOK, EntersRoute, AnswersVerify
    <2>3. CASE CallUser(r)
      BY <2>3 DEF CallUser, EntersRoute, AnswersVerify
    <2>4. CASE LogoutLookup(r) \/ LogoutCommit(r)
      BY <2>4 DEF LogoutLookup, LogoutCommit, At, EntersRoute, AnswersVerify
    <2>5. CASE CallTouch(r)
      BY <2>5 DEF CallTouch, IndInv, HandlerInv, AnswersVerify
    <2>6. CASE VerifyDrop(r) \/ VerifyCommit(r)
      BY <2>6 DEF VerifyDrop, VerifyCommit, At, EntersRoute
    <2> QED BY <1>7, <2>1, <2>2, <2>3, <2>4, <2>5, <2>6 DEF Resume
  <1> QED BY <1>1, <1>2, <1>3, <1>4, <1>5, <1>6, <1>7 DEF Next

-----------------------------------------------------------------------------
(* Theorems.                                                               *)

LEMMA InitInv == Init => IndInv
  BY NoneAssumption DEF Init, IndInv, TypeOK, LogoutIsFinal, HandlerInv, Idle,
     Request, Challenge, Session, Stages, Codes

\* What a handler of the login routes or of current_user keeps across its
\* awaits, and finality of logout, are invariant together.
THEOREM Invariance == Spec => []IndInv
  <1>1. Init => IndInv
    BY InitInv
  <1>2. IndInv /\ [Next]_vars => IndInv'
    BY TypeStep, HandlerStep, LogoutStep DEF IndInv
  <1> QED BY <1>1, <1>2, PTL DEF Spec

\* The tables, the ghosts and the locals of the handlers keep their types.
THEOREM TypeCorrect == Spec => []TypeOK
  <1>1. IndInv => TypeOK
    BY DEF IndInv
  <1> QED BY <1>1, Invariance, PTL

\* A logged-out token is never again a session, however requests that read
\* its row before the logout interleave with it.
THEOREM LogoutSafe == Spec => []LogoutIsFinal
  <1>1. IndInv => LogoutIsFinal
    BY DEF IndInv
  <1> QED BY <1>1, Invariance, PTL

\* current_user lets no request through on a token logged out by then.
THEOREM NoStaleSession == Spec => NoRouteAfterLogout
  <1>1. ASSUME IndInv, Next, NEW r \in Requests, EntersRoute(r)
        PROVE  req[r].tok \notin loggedOut
    <2>1. CallTouch(r)
      BY <1>1, AnsweringSteps
    <2>2. Present(sess[req[r].tok])
      BY <1>1, <2>1 DEF CallTouch, Answer, Idle, EntersRoute, IndInv, TypeOK
    <2> QED BY <1>1, <2>2 DEF Present, IndInv, LogoutIsFinal
  <1>2. IndInv /\ [Next]_vars =>
           [\A r \in Requests : EntersRoute(r) => req[r].tok \notin loggedOut]_vars
    BY <1>1
  <1> QED BY <1>2, Invariance, PTL DEF Spec, NoRouteAfterLogout

\* Every answer the verify route itself gives leaves no challenge behind.
THEOREM ChallengeSpent == Spec => AnswerSpendsChallenge
  <1>1. ASSUME IndInv, Next, NEW r \in Requests, AnswersVerify(r)
        PROVE  chal'[req[r].chal].st = "gone"
    <2>1. VerifyDrop(r) \/ VerifyCommit(r)
      BY <1>1, AnsweringSteps
    <2>2. req[r].chal \in Challenges
      BY <1>1 DEF IndInv, HandlerInv, AnswersVerify
    <2>3. chal \in [Challenges -> Challenge]
      BY <1>1 DEF IndInv, TypeOK
    <2> QED BY <2>1, <2>2, <2>3 DEF VerifyDrop, VerifyCommit, Drop, Challenge
  <1>2. IndInv /\ [Next]_vars =>
           [\A r \in Requests :
               AnswersVerify(r) => chal'[req[r].chal].st = "gone"]_vars
    BY <1>1
  <1> QED BY <1>2, Invariance, PTL DEF Spec, AnswerSpendsChallenge
=============================================================================
