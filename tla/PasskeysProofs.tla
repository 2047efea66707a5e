--------------------------- MODULE PasskeysProofs ---------------------------
(* Theorems about Passkeys, for every set of users, passkeys, challenges,   *)
(* handlers and faults.                                                    *)
EXTENDS Passkeys, FiniteSetTheorems, TLAPS

-----------------------------------------------------------------------------
(* The inductive invariant.                                                *)

Begins(r) == req[r].op \in {"register_begin", "auth_begin"} /\ req[r].at = "commit"
Finishes(r) == req[r].op \in {"register_finish", "auth_finish"} /\ req[r].at # "answered"
Holds(r) == req[r].op = "auth_finish" /\ req[r].at \in {"verify", "commit"}

\* What a handler may rely on between its awaits.
HandlerOK(r) ==
    /\ req[r].at = "drop" => Finishes(r)
    /\ Begins(r) => req[r].chal \in Challenges /\ chal[req[r].chal].st = "unused"
    /\ Finishes(r) => req[r].chal \in Challenges /\ chal[req[r].chal].st # "unused"
    /\ At(r, "register_finish", "commit") =>
          /\ req[r].resp = req[r].chal /\ proof[req[r].chal].by # None
          /\ chal[req[r].chal].purpose = "register" /\ chal[req[r].chal].of = req[r].user
    /\ At(r, "auth_finish", "find") \/ Holds(r) =>
          /\ req[r].resp \in Challenges /\ proof[req[r].resp].by # None
          /\ chal[req[r].chal].purpose = "auth"
    /\ Holds(r) => req[r].key = proof[req[r].resp].by
    /\ At(r, "auth_finish", "commit") => Verifies(r)
    /\ At(r, "delete", "commit") => req[r].key \in Keys

\* Two handlers draw different challenges, and one at most has flushed the DELETE
\* of a challenge.
Apart ==
    \A r, p \in Requests :
        /\ Begins(r) /\ Begins(p) /\ r # p => req[r].chal # req[p].chal
        /\ Holds(r) /\ Holds(p) /\ r # p => req[r].chal # req[p].chal

\* n is the counter of a login with k that has committed.
Counts(k, n) ==
    \E d \in Challenges : proof[d].by = k /\ opened[d] > 0 /\ proof[d].count = n

\* k counts and was enrolled once at most.
Counting(k) == k \notin Synced /\ cred[k].gen <= 1

\* The counter a login has read is that of a login, if its own challenge has
\* opened a session before.
ReadOK(r) ==
    Holds(r) /\ proof[req[r].chal].by = req[r].key /\ Counting(req[r].key)
       /\ opened[req[r].chal] > 0 => Counts(req[r].key, req[r].count)

ProofsOK ==
    /\ \A c \in Challenges : proof[c].by # None => chal[c].st # "unused"
    /\ \A c, d \in Challenges :
          proof[c].by # None /\ proof[c].by = proof[d].by
             /\ chal[c].purpose = "register" /\ chal[d].purpose = "register" => c = d
    /\ \A c \in Challenges :
          proof[c].by # None /\ proof[c].by \notin Synced /\ chal[c].purpose = "auth"
             => proof[c].count > 0

RowsOK ==
    /\ \A k \in Keys : cred[k].st # "unused" =>
          cred[k].gen > 0 /\ \E c \in Challenges : proof[c].by = k
    /\ \A c \in Challenges : opened[c] > 0 =>
          proof[c].by # None /\ cred[proof[c].by].gen > 0
    /\ \A c \in Challenges : opened[c] > 0 /\ Counting(proof[c].by) =>
          Counts(proof[c].by, cred[proof[c].by].count)

PasskeyInv ==
    /\ TypeOK /\ ProofsOK /\ RowsOK /\ FiledForRequester /\ CounterStopsReplay
    /\ Apart
    /\ \A r \in Requests : HandlerOK(r) /\ ReadOK(r)

-----------------------------------------------------------------------------
(* How steps change the locals of handlers.                                *)

\* The locals of a handler that has answered.
LEMMA AnswerLocals ==
    ASSUME TypeOK, NEW r \in Requests, NEW code \in Codes, Answer(r, code)
    PROVE  /\ req' \in [Requests -> Request]
           /\ \A p \in Requests \ {r} : req'[p] = req[p]
           /\ req'[r].op = "none" /\ req'[r].at = "answered" /\ req'[r].code = code
  <1>1. [Idle EXCEPT !.code = code] \in Request
    BY DEF Idle, Request
  <1>2. [Idle EXCEPT !.code = code].op = "none" /\ [Idle EXCEPT !.code = code].at = "answered"
        /\ [Idle EXCEPT !.code = code].code = code
    BY DEF Idle
  <1> QED BY <1>1, <1>2 DEF Answer, TypeOK

\* A handler that holds nothing satisfies its invariant.
LEMMA AnsweredOK ==
    ASSUME NEW r \in Requests, req[r].op = "none", req[r].at = "answered"
    PROVE  HandlerOK(r) /\ ReadOK(r) /\ ~Begins(r) /\ ~Holds(r)
  BY DEF HandlerOK, ReadOK, Begins, Finishes, Holds, At

\* A step of r leaves what the other handlers rely on, if challenges and proofs
\* only get further and no drawn challenge of another is used.
Onward ==
    /\ \A c \in Challenges : chal[c].st # "unused" =>
          /\ chal'[c].st # "unused" /\ chal'[c].purpose = chal[c].purpose
          /\ chal'[c].of = chal[c].of
    /\ \A c \in Challenges : proof[c].by # None => proof'[c] = proof[c]

LEMMA OthersOK ==
    ASSUME PasskeyInv, NEW p \in Requests, req'[p] = req[p], Onward,
           Begins(p) => chal'[req[p].chal].st = "unused"
    PROVE  HandlerOK(p)'
  <1>1. HandlerOK(p) /\ req[p] \in Request
    BY DEF PasskeyInv, TypeOK
  <1>2. Begins(p)' = Begins(p) /\ Finishes(p)' = Finishes(p) /\ Holds(p)' = Holds(p)
    BY DEF Begins, Finishes, Holds
  <1>3. At(p, "auth_finish", "find") \/ Holds(p) \/ At(p, "register_finish", "commit")
           => Finishes(p)
    BY DEF At, Holds, Finishes
  <1>4. At(p, "auth_finish", "commit") => Holds(p)
    BY DEF At, Holds
  <1>5. Finishes(p) => /\ chal'[req[p].chal].st # "unused"
                       /\ chal'[req[p].chal].purpose = chal[req[p].chal].purpose
                       /\ chal'[req[p].chal].of = chal[req[p].chal].of
    BY <1>1 DEF HandlerOK, Onward
  <1>6. At(p, "auth_finish", "find") \/ Holds(p) => proof'[req[p].resp] = proof[req[p].resp]
    BY <1>1 DEF HandlerOK, Onward
  <1>7. At(p, "register_finish", "commit") => proof'[req[p].chal] = proof[req[p].chal]
    BY <1>1, <1>3 DEF HandlerOK, Onward
  <1> QED BY <1>1, <1>2, <1>3, <1>4, <1>5, <1>6, <1>7 DEF HandlerOK, At, Verifies

\* Handlers stay apart if the one that steps draws no challenge and locks none.
LEMMA ApartStep ==
    ASSUME Apart, NEW r \in Requests, \A p \in Requests \ {r} : req'[p] = req[p],
           ~Begins(r)', Holds(r)' => Holds(r) /\ req'[r].chal = req[r].chal
    PROVE  Apart'
  BY DEF Apart, Begins, Holds

\* The facts about rows and proofs, where a step changes neither.
LEMMA SameRows ==
    ASSUME PasskeyInv, UNCHANGED <<rows, client>>
    PROVE  (ProofsOK /\ RowsOK /\ FiledForRequester /\ CounterStopsReplay)' /\ Onward
  BY DEF PasskeyInv, rows, client, ProofsOK, RowsOK, FiledForRequester, CounterStopsReplay,
         Onward, Counting, Counts, Overtaken

\* A step that changes the locals of r alone.
LEMMA LocalStep ==
    ASSUME PasskeyInv, NEW r \in Requests, UNCHANGED <<rows, client>>,
           req' \in [Requests -> Request], \A p \in Requests \ {r} : req'[p] = req[p],
           HandlerOK(r)', ReadOK(r)', Apart'
    PROVE  PasskeyInv'
  <1>1. (ProofsOK /\ RowsOK /\ FiledForRequester /\ CounterStopsReplay)' /\ Onward
    BY SameRows
  <1>2. TypeOK'
    BY DEF PasskeyInv, TypeOK, rows, client
  <1>3. ASSUME NEW p \in Requests \ {r} PROVE HandlerOK(p)' /\ ReadOK(p)'
    <2>1. Begins(p) => chal'[req[p].chal].st = "unused"
      BY DEF PasskeyInv, HandlerOK, rows
    <2>2. HandlerOK(p)'
      BY <1>1, <2>1, OthersOK
    <2>3. ReadOK(p)'
      BY DEF PasskeyInv, ReadOK, Holds, Counting, Counts, rows, client
    <2> QED BY <2>2, <2>3
  <1> QED BY <1>1, <1>2, <1>3 DEF PasskeyInv

LEMMA RefuseStep ==
    ASSUME PasskeyInv, NEW r \in Requests, NEW code \in Codes, Refuse(r, code)
    PROVE  PasskeyInv'
  <1>1. /\ req' \in [Requests -> Request]
        /\ \A p \in Requests \ {r} : req'[p] = req[p]
        /\ req'[r].op = "none" /\ req'[r].at = "answered"
    BY AnswerLocals DEF Refuse, PasskeyInv
  <1>2. HandlerOK(r)' /\ ReadOK(r)' /\ ~Begins(r)' /\ ~Holds(r)'
    BY <1>1 DEF HandlerOK, ReadOK, Begins, Finishes, Holds, At
  <1>3. Apart'
    BY <1>1, <1>2, ApartStep DEF PasskeyInv
  <1> QED BY <1>1, <1>2, <1>3, LocalStep DEF Refuse

-----------------------------------------------------------------------------
(* Steps of one handler that change no row.                                *)

LEMMA BeginStep ==
    ASSUME PasskeyInv, NEW r \in Requests, NEW u \in Users \cup {None},
           NEW op \in {"register_begin", "auth_begin"}, Begin(r, op, u)
    PROVE  PasskeyInv'
  <1>1. PICK c \in NewChallenges :
           req' = [req EXCEPT ![r] = [Idle EXCEPT !.op = op, !.at = "commit",
                                                  !.user = u, !.chal = c]]
    BY DEF Begin
  <1> DEFINE l == [Idle EXCEPT !.op = op, !.at = "commit", !.user = u, !.chal = c]
  <1>2. c \in Challenges /\ chal[c].st = "unused" /\ \A p \in Requests : req[p].chal # c
    BY DEF NewChallenges
  <1>3. l \in Request /\ l.op = op /\ l.at = "commit" /\ l.chal = c
    BY <1>2 DEF Idle, Request, Codes
  <1>4. /\ req' \in [Requests -> Request] /\ req'[r] = l
        /\ \A p \in Requests \ {r} : req'[p] = req[p]
    BY <1>1, <1>3 DEF PasskeyInv, TypeOK
  <1> HIDE DEF l
  <1>5. HandlerOK(r)' /\ ReadOK(r)' /\ ~Holds(r)'
    BY <1>2, <1>3, <1>4
    DEF HandlerOK, ReadOK, Begins, Finishes, Holds, At, Begin, rows, client
  <1>6. Apart'
    BY <1>2, <1>3, <1>4, <1>5 DEF PasskeyInv, Apart, Begins, Holds
  <1> QED BY <1>4, <1>5, <1>6, LocalStep DEF Begin

\* What a handler that got past _consume_challenge may rely on.
LEMMA RefusalFacts ==
    ASSUME TypeOK, NEW op \in {"register_finish", "auth_finish"}, NEW u,
           NEW c \in Challenges, NEW p
    PROVE  /\ Refusal(op, u, c, p) \in Codes
           /\ Refusal(op, u, c, p) # "not_found" => chal[c].st # "unused"
           /\ Refusal(op, u, c, p) = "none" =>
                 /\ chal[c].purpose = Purpose(op)
                 /\ op = "register_finish" => chal[c].of = u /\ p = c
                 /\ op = "auth_finish" => p # None
  BY DEF Refusal, Codes, Present

LEMMA FinishStep ==
    ASSUME PasskeyInv, NEW r \in Requests, NEW u \in Users \cup {None},
           NEW c \in Challenges, NEW p \in Challenges \cup {None}, NEW op, NEW next,
           \/ op = "register_finish" /\ next = "commit"
           \/ op = "auth_finish" /\ next = "find",
           Finish(r, op, next, u, c, p)
    PROVE  PasskeyInv'
  <1> DEFINE code == Refusal(op, u, c, p)
             l(point) == [Idle EXCEPT !.op = op, !.at = point, !.user = u,
                                      !.chal = c, !.resp = p, !.code = code]
  <1>1. /\ code \in Codes
        /\ code # "not_found" => chal[c].st # "unused"
        /\ code = "none" =>
              /\ chal[c].purpose = Purpose(op)
              /\ op = "register_finish" => chal[c].of = u /\ p = c
              /\ op = "auth_finish" => p # None
    BY RefusalFacts DEF PasskeyInv
  <1>2. /\ p # None => proof[p].by # None
        /\ \/ code = "none" /\ req' = [req EXCEPT ![r] = l(next)]
           \/ code \in {"not_found", "malformed"} /\ Answer(r, code)
           \/ code \notin {"none", "not_found"} /\ req' = [req EXCEPT ![r] = l("drop")]
        /\ UNCHANGED <<rows, client>>
    BY DEF Finish
  <1> HIDE DEF code
  <1>3. CASE Answer(r, code)
    BY <1>1, <1>2, <1>3, RefuseStep DEF Refuse
  <1>4. ASSUME NEW point \in {next, "drop"}
        PROVE  /\ l(point) \in Request
               /\ l(point).op = op /\ l(point).at = point /\ l(point).user = u
               /\ l(point).chal = c /\ l(point).resp = p
    BY <1>1 DEF Idle, Request
  <1> HIDE DEF l
  <1>5. ASSUME NEW point \in {next, "drop"}, req' = [req EXCEPT ![r] = l(point)]
        PROVE  /\ req' \in [Requests -> Request] /\ req'[r] = l(point)
               /\ \A q \in Requests \ {r} : req'[q] = req[q]
               /\ ~Begins(r)' /\ ~Holds(r)' /\ ReadOK(r)' /\ Apart'
    <2>1. /\ req' \in [Requests -> Request] /\ req'[r] = l(point)
          /\ \A q \in Requests \ {r} : req'[q] = req[q]
      BY <1>4, <1>5 DEF PasskeyInv, TypeOK
    <2>2. ~Begins(r)' /\ ~Holds(r)' /\ ReadOK(r)'
      BY <1>4, <2>1 DEF Begins, Holds, ReadOK
    <2> QED BY <2>1, <2>2, ApartStep DEF PasskeyInv
  <1>6. CASE code = "none" /\ req' = [req EXCEPT ![r] = l(next)]
    <2>1. /\ req'[r].op = op /\ req'[r].at = next /\ req'[r].user = u
          /\ req'[r].chal = c /\ req'[r].resp = p
      BY <1>4, <1>5, <1>6
    <2>2. chal' = chal /\ proof' = proof
      BY <1>2 DEF rows, client
    <2>3. HandlerOK(r)'
      <3>1. CASE op = "register_finish" /\ next = "commit"
        BY <1>1, <1>2, <1>6, <2>1, <2>2, <3>1, NoneAssumption
        DEF HandlerOK, Begins, Finishes, Holds, At, Purpose
      <3>2. CASE op = "auth_finish" /\ next = "find"
        BY <1>1, <1>2, <1>6, <2>1, <2>2, <3>2
        DEF HandlerOK, Begins, Finishes, Holds, At, Purpose
      <3> QED BY <3>1, <3>2
    <2> QED BY <1>2, <1>5, <1>6, <2>3, LocalStep
  <1>7. CASE code \notin {"none", "not_found"} /\ req' = [req EXCEPT ![r] = l("drop")]
    <2>1. HandlerOK(r)'
      BY <1>1, <1>2, <1>4, <1>5, <1>7
      DEF HandlerOK, Begins, Finishes, Holds, At, rows, client
    <2> QED BY <1>2, <1>5, <1>7, <2>1, LocalStep
  <1> QED BY <1>2, <1>3, <1>6, <1>7

LEMMA AuthFindStep ==
    ASSUME PasskeyInv, NEW r \in Requests, AuthFind(r)
    PROVE  PasskeyInv'
  <1>1. /\ At(r, "auth_finish", "find") /\ ~Locked(r) /\ req[r] \in Request
        /\ req[r].resp \in Challenges /\ proof[req[r].resp].by # None
        /\ chal[req[r].chal].purpose = "auth"
        /\ req[r].chal \in Challenges /\ chal[req[r].chal].st # "unused"
    BY DEF AuthFind, PasskeyInv, TypeOK, HandlerOK, At, Finishes
  <1>2. PICK k \in Keys : k = proof[req[r].resp].by
    BY <1>1 DEF PasskeyInv, TypeOK, Proof
  <1> DEFINE l == [req[r] EXCEPT !.at = "verify", !.key = k, !.user = cred[k].of,
                                 !.count = cred[k].count, !.gen = cred[k].gen]
  <1>3. CASE Refuse(r, "unauthorized")
    BY <1>3, RefuseStep DEF Codes
  <1>4. CASE req' = [req EXCEPT ![r].at = "verify", ![r].key = k,
                        ![r].user = cred[k].of, ![r].count = cred[k].count,
                        ![r].gen = cred[k].gen]
             /\ UNCHANGED <<rows, client>>
    <2>1. cred[k] \in Credential
      BY DEF PasskeyInv, TypeOK
    <2>2. /\ l \in Request /\ l.op = "auth_finish" /\ l.at = "verify" /\ l.key = k
          /\ l.chal = req[r].chal /\ l.resp = req[r].resp /\ l.count = cred[k].count
      BY <1>1, <2>1 DEF Request, Credential, At
    <2>3. req' = [req EXCEPT ![r] = l]
      BY <1>4
    <2> HIDE DEF l
    <2>4. /\ req' \in [Requests -> Request]
          /\ req'[r].op = "auth_finish" /\ req'[r].at = "verify" /\ req'[r].key = k
          /\ req'[r].chal = req[r].chal /\ req'[r].resp = req[r].resp
          /\ req'[r].count = cred[k].count
          /\ \A p \in Requests \ {r} : req'[p] = req[p]
      BY <2>2, <2>3 DEF PasskeyInv, TypeOK
    <2>5. chal' = chal /\ cred' = cred /\ proof' = proof /\ opened' = opened
      BY <1>4 DEF rows, client
    <2>6. HandlerOK(r)'
      BY <1>1, <1>2, <2>4, <2>5 DEF HandlerOK, Begins, Finishes, Holds, At
    <2>7. proof[req[r].chal].by = k /\ Counting(k) /\ opened[req[r].chal] > 0
             => Counts(k, cred[k].count)
      BY <1>1 DEF PasskeyInv, RowsOK
    <2>8. ReadOK(r)'
      BY <2>4, <2>5, <2>7 DEF ReadOK, Counting, Counts
    <2>9. \A p \in Requests \ {r} : Holds(p) => req[p].chal # req[r].chal
      BY <1>1 DEF Locked, Holds, At
    <2>10. Apart'
      BY <2>4, <2>9 DEF PasskeyInv, Apart, Begins, Holds
    <2> QED BY <1>4, <2>4, <2>6, <2>8, <2>10, LocalStep
  <1> QED BY <1>2, <1>3, <1>4 DEF AuthFind

LEMMA AuthVerifyStep ==
    ASSUME PasskeyInv, NEW r \in Requests, AuthVerify(r)
    PROVE  PasskeyInv'
  <1> DEFINE l == [req[r] EXCEPT !.at = "commit"]
  <1>1. CASE Refuse(r, "unauthorized")
    BY <1>1, RefuseStep DEF Codes
  <1>2. CASE /\ Verifies(r)
             /\ req' = [req EXCEPT ![r].at = "commit"]
             /\ UNCHANGED <<rows, client>>
    <2>1. At(r, "auth_finish", "verify") /\ req[r] \in Request /\ HandlerOK(r) /\ Holds(r)
      BY DEF AuthVerify, PasskeyInv, TypeOK, At, Holds
    <2>2. /\ l \in Request /\ l.op = "auth_finish" /\ l.at = "commit" /\ l.key = req[r].key
          /\ l.chal = req[r].chal /\ l.resp = req[r].resp /\ l.count = req[r].count
      BY <2>1 DEF Request, At
    <2>3. req' = [req EXCEPT ![r] = l]
      BY <1>2
    <2> HIDE DEF l
    <2>4. /\ req' \in [Requests -> Request] /\ req'[r] = l
          /\ \A p \in Requests \ {r} : req'[p] = req[p]
      BY <2>2, <2>3 DEF PasskeyInv, TypeOK
    <2>5. HandlerOK(r)'
      BY <1>2, <2>1, <2>2, <2>4
      DEF HandlerOK, Begins, Finishes, Holds, At, Verifies, rows, client
    <2>6. ReadOK(r)'
      BY <1>2, <2>1, <2>2, <2>4
      DEF PasskeyInv, ReadOK, Holds, Counting, Counts, rows, client
    <2>7. Apart'
      BY <2>1, <2>2, <2>4 DEF PasskeyInv, Apart, Begins, Holds
    <2> QED BY <1>2, <2>4, <2>5, <2>6, <2>7, LocalStep
  <1> QED BY <1>1, <1>2 DEF AuthVerify

LEMMA DeleteBeginStep ==
    ASSUME PasskeyInv, NEW r \in Requests, NEW u \in Users, NEW k \in Keys,
           DeleteBegin(r, u, k)
    PROVE  PasskeyInv'
  <1>1. PICK g \in Nat : g = cred[k].gen
    BY DEF PasskeyInv, TypeOK, Credential
  <1> DEFINE l == [Idle EXCEPT !.op = "delete", !.at = "commit",
                               !.user = u, !.key = k, !.gen = g]
  <1>2. CASE Refuse(r, "not_found")
    BY <1>2, RefuseStep DEF Codes
  <1>3. CASE req' = [req EXCEPT ![r] = l] /\ UNCHANGED <<rows, client>>
    <2>1. l \in Request /\ l.op = "delete" /\ l.at = "commit" /\ l.key = k
      BY DEF Idle, Request, Codes
    <2> HIDE DEF l
    <2>2. /\ req' \in [Requests -> Request] /\ req'[r] = l
          /\ \A p \in Requests \ {r} : req'[p] = req[p]
      BY <1>3, <2>1 DEF PasskeyInv, TypeOK
    <2>3. HandlerOK(r)' /\ ReadOK(r)' /\ ~Begins(r)' /\ ~Holds(r)'
      BY <2>1, <2>2 DEF HandlerOK, ReadOK, Begins, Finishes, Holds, At
    <2> QED BY <1>3, <2>2, <2>3, ApartStep, LocalStep DEF PasskeyInv
  <1> QED BY <1>1, <1>2, <1>3 DEF DeleteBegin

LEMMA CrashStep ==
    ASSUME PasskeyInv, Crash
    PROVE  PasskeyInv'
  <1>1. (ProofsOK /\ RowsOK /\ FiledForRequester /\ CounterStopsReplay)' /\ Onward
    BY SameRows DEF Crash
  <1>2. Idle \in Request /\ Idle.op = "none" /\ Idle.at = "answered"
    BY DEF Idle, Request, Codes
  <1>3. \A p \in Requests : \/ req'[p] = req[p]
                            \/ req'[p].op = "none" /\ req'[p].at = "answered"
    BY <1>2 DEF Crash
  <1>4. req' \in [Requests -> Request]
    BY <1>2 DEF Crash, PasskeyInv, TypeOK
  <1>5. TypeOK'
    BY <1>4 DEF Crash, PasskeyInv, TypeOK, rows, client
  <1>6. Apart'
    BY <1>3 DEF PasskeyInv, Apart, Begins, Holds
  <1>7. ASSUME NEW p \in Requests PROVE HandlerOK(p)' /\ ReadOK(p)'
    <2>1. CASE req'[p] = req[p]
      <3>1. Begins(p) => chal'[req[p].chal].st = "unused"
        BY DEF PasskeyInv, HandlerOK, Crash, rows
      <3>2. HandlerOK(p)'
        BY <1>1, <2>1, <3>1, OthersOK
      <3>3. ReadOK(p)'
        BY <2>1 DEF Crash, PasskeyInv, ReadOK, Holds, Counting, Counts, rows, client
      <3> QED BY <3>2, <3>3
    <2>2. CASE req'[p].op = "none" /\ req'[p].at = "answered"
      BY <2>2 DEF HandlerOK, ReadOK, Begins, Finishes, Holds, At
    <2> QED BY <1>3, <2>1, <2>2
  <1> QED BY <1>1, <1>5, <1>6, <1>7 DEF PasskeyInv

-----------------------------------------------------------------------------
(* Steps that write rows.                                                  *)

\* What is left to show of a step that answers r and writes rows.
LEMMA AnswerStep ==
    ASSUME PasskeyInv, NEW r \in Requests, NEW code \in Codes, Answer(r, code), Onward,
           \A p \in Requests \ {r} :
               /\ Begins(p) => chal'[req[p].chal].st = "unused"
               /\ ReadOK(p)'
    PROVE  /\ req' \in [Requests -> Request] /\ Apart'
           /\ \A p \in Requests : HandlerOK(p)' /\ ReadOK(p)'
  <1>1. /\ req' \in [Requests -> Request]
        /\ \A p \in Requests \ {r} : req'[p] = req[p]
        /\ req'[r].op = "none" /\ req'[r].at = "answered"
    BY AnswerLocals DEF PasskeyInv
  <1>2. HandlerOK(r)' /\ ReadOK(r)' /\ ~Begins(r)' /\ ~Holds(r)'
    BY <1>1 DEF HandlerOK, ReadOK, Begins, Finishes, Holds, At
  <1>3. Apart'
    BY <1>1, <1>2, ApartStep DEF PasskeyInv
  <1>4. \A p \in Requests \ {r} : HandlerOK(p)'
    BY <1>1, OthersOK
  <1> QED BY <1>1, <1>2, <1>3, <1>4

\* Challenges that change without their purpose, and no passkey, session or proof:
\* the facts about rows stay.
LEMMA ChallengeMoves ==
    ASSUME PasskeyInv, UNCHANGED <<cred, opened, client>>, Onward,
           \A c \in Challenges : chal[c].st # "unused" => chal'[c].st # "unused"
    PROVE  /\ (ProofsOK /\ RowsOK /\ FiledForRequester /\ CounterStopsReplay)'
           /\ \A p \in Requests : req'[p] = req[p] => ReadOK(p)'
  <1>1. proof' = proof /\ cred' = cred /\ opened' = opened
    BY DEF client
  <1>2. \A c \in Challenges : proof[c].by # None =>
           /\ chal'[c].st # "unused" /\ chal'[c].purpose = chal[c].purpose
           /\ chal'[c].of = chal[c].of
    BY DEF PasskeyInv, ProofsOK, Onward
  <1>3. ProofsOK'
    BY <1>1, <1>2 DEF PasskeyInv, ProofsOK
  <1>4. RowsOK' /\ CounterStopsReplay'
    BY <1>1 DEF PasskeyInv, RowsOK, CounterStopsReplay, Counting, Counts, Overtaken
  <1>5. FiledForRequester'
    BY <1>1, <1>2, NoneAssumption DEF PasskeyInv, FiledForRequester
  <1>6. \A p \in Requests : req'[p] = req[p] => ReadOK(p)'
    BY <1>1 DEF PasskeyInv, ReadOK, Holds, Counting, Counts
  <1> QED BY <1>3, <1>4, <1>5, <1>6

\* One challenge is used up.
LEMMA DropOnward ==
    ASSUME TypeOK, NEW c \in Challenges, chal[c].st # "unused", Drop(c)
    PROVE  /\ chal' \in [Challenges -> Challenge]
           /\ \A d \in Challenges :
                 /\ chal'[d].purpose = chal[d].purpose /\ chal'[d].of = chal[d].of
                 /\ (chal[d].st = "unused") <=> (chal'[d].st = "unused")
           /\ chal'[c].st = "gone"
  <1>1. [chal[c] EXCEPT !.st = "gone"] \in Challenge
    BY DEF TypeOK, Challenge
  <1>2. chal' = [chal EXCEPT ![c] = [chal[c] EXCEPT !.st = "gone"]]
    BY DEF Drop
  <1>3. /\ [chal[c] EXCEPT !.st = "gone"].st = "gone"
        /\ [chal[c] EXCEPT !.st = "gone"].purpose = chal[c].purpose
        /\ [chal[c] EXCEPT !.st = "gone"].of = chal[c].of
    BY DEF TypeOK, Challenge
  <1> QED BY <1>1, <1>2, <1>3 DEF TypeOK

LEMMA BeginCommitStep ==
    ASSUME PasskeyInv, NEW r \in Requests, BeginCommit(r)
    PROVE  PasskeyInv'
  <1>1. Begins(r) /\ req[r] \in Request
    BY DEF BeginCommit, Begins, PasskeyInv, TypeOK
  <1>2. PICK c \in Challenges : c = req[r].chal /\ chal[c].st = "unused"
    BY <1>1 DEF PasskeyInv, HandlerOK
  <1>3. PICK row \in Challenge : row.st = "live" /\ chal' = [chal EXCEPT ![c] = row]
    <2> DEFINE row == [st |-> "live", of |-> req[r].user,
           purpose |-> IF req[r].op = "register_begin" THEN "register" ELSE "auth"]
    <2>1. row \in Challenge /\ row.st = "live"
      BY <1>1 DEF Request, Challenge, Purposes
    <2>2. chal' = [chal EXCEPT ![c] = row]
      BY <1>2 DEF BeginCommit
    <2> QED BY <2>1, <2>2
  <1>4. chal' \in [Challenges -> Challenge] /\ chal'[c] = row
        /\ \A d \in Challenges \ {c} : chal'[d] = chal[d]
    BY <1>3 DEF PasskeyInv, TypeOK
  <1>5. UNCHANGED <<active, cred, opened, client>> /\ Answer(r, "ok") /\ "ok" \in Codes
    BY DEF BeginCommit, Codes
  <1>6. Onward
    BY <1>2, <1>4, <1>5 DEF Onward, client
  <1>7. /\ (ProofsOK /\ RowsOK /\ FiledForRequester /\ CounterStopsReplay)'
        /\ \A p \in Requests : req'[p] = req[p] => ReadOK(p)'
    BY <1>5, <1>6, ChallengeMoves DEF Onward
  <1>8. \A p \in Requests \ {r} : req'[p] = req[p]
    BY <1>5, AnswerLocals DEF PasskeyInv
  <1>9. \A p \in Requests \ {r} : Begins(p) => chal'[req[p].chal].st = "unused"
    BY <1>1, <1>2, <1>4 DEF PasskeyInv, HandlerOK, Apart
  <1>10. /\ req' \in [Requests -> Request] /\ Apart'
         /\ \A p \in Requests : HandlerOK(p)' /\ ReadOK(p)'
    BY <1>5, <1>6, <1>7, <1>8, <1>9, AnswerStep
  <1>11. TypeOK'
    BY <1>4, <1>5, <1>10 DEF PasskeyInv, TypeOK, client
  <1> QED BY <1>7, <1>10, <1>11 DEF PasskeyInv

LEMMA DropRefusedStep ==
    ASSUME PasskeyInv, NEW r \in Requests, DropRefused(r)
    PROVE  PasskeyInv' /\ chal'[req[r].chal].st = "gone"
  <1>1. /\ req[r].chal \in Challenges /\ chal[req[r].chal].st # "unused"
        /\ req[r].code \in Codes
    BY DEF DropRefused, PasskeyInv, TypeOK, Request, HandlerOK
  <1>2. Drop(req[r].chal) /\ Answer(r, req[r].code)
        /\ UNCHANGED <<active, cred, opened, client>>
    BY DEF DropRefused
  <1>3. /\ chal' \in [Challenges -> Challenge]
        /\ \A d \in Challenges :
              /\ chal'[d].purpose = chal[d].purpose /\ chal'[d].of = chal[d].of
              /\ (chal[d].st = "unused") <=> (chal'[d].st = "unused")
        /\ chal'[req[r].chal].st = "gone"
    BY <1>1, <1>2, DropOnward DEF PasskeyInv
  <1>4. Onward
    BY <1>2, <1>3 DEF Onward, client
  <1>5. /\ (ProofsOK /\ RowsOK /\ FiledForRequester /\ CounterStopsReplay)'
        /\ \A p \in Requests : req'[p] = req[p] => ReadOK(p)'
    BY <1>2, <1>3, <1>4, ChallengeMoves
  <1>6. \A p \in Requests \ {r} : req'[p] = req[p]
    BY <1>1, <1>2, AnswerLocals DEF PasskeyInv
  <1>7. \A p \in Requests \ {r} : Begins(p) => chal'[req[p].chal].st = "unused"
    BY <1>3 DEF PasskeyInv, HandlerOK
  <1>8. /\ req' \in [Requests -> Request] /\ Apart'
        /\ \A p \in Requests : HandlerOK(p)' /\ ReadOK(p)'
    BY <1>1, <1>2, <1>4, <1>5, <1>6, <1>7, AnswerStep
  <1>9. TypeOK'
    BY <1>2, <1>3, <1>8 DEF PasskeyInv, TypeOK, client
  <1> QED BY <1>3, <1>5, <1>8, <1>9 DEF PasskeyInv

LEMMA RegisterCommitStep ==
    ASSUME PasskeyInv, NEW r \in Requests, RegisterCommit(r)
    PROVE  PasskeyInv'
  <1>1. /\ At(r, "register_finish", "commit") /\ req[r].resp = req[r].chal
        /\ req[r].chal \in Challenges /\ chal[req[r].chal].st # "unused"
        /\ proof[req[r].chal].by # None /\ req[r].user \in Users \cup {None}
        /\ chal[req[r].chal].purpose = "register" /\ chal[req[r].chal].of = req[r].user
    BY DEF RegisterCommit, PasskeyInv, TypeOK, Request, HandlerOK, Finishes, At
  <1>2. PICK c \in Challenges, k \in Keys : c = req[r].chal /\ k = proof[c].by
    BY <1>1 DEF PasskeyInv, TypeOK, Proof
  <1>3. CASE Refuse(r, "conflict")
    BY <1>3, RefuseStep DEF Codes
  <1>4. CASE /\ cred[k].st # "live"
             /\ cred' = [cred EXCEPT ![k] = [st |-> "live", of |-> req[r].user,
                                             count |-> 0, gen |-> @.gen + 1]]
             /\ Drop(c) /\ Answer(r, "ok") /\ UNCHANGED <<active, opened, client>>
    <2>1. PICK row \in Credential : /\ row.st = "live" /\ row.of = chal[c].of
                                    /\ row.gen = cred[k].gen + 1
                                    /\ cred' = [cred EXCEPT ![k] = row]
      <3> DEFINE row == [st |-> "live", of |-> req[r].user, count |-> 0,
                         gen |-> cred[k].gen + 1]
      <3>1. cred[k].gen \in Nat
        BY DEF PasskeyInv, TypeOK, Credential
      <3>2. row \in Credential /\ row.st = "live" /\ row.of = chal[c].of
            /\ row.gen = cred[k].gen + 1
        BY <1>1, <1>2, <3>1 DEF Credential
      <3>3. cred' = [cred EXCEPT ![k] = row]
        BY <1>4
      <3> QED BY <3>2, <3>3
    <2>2. /\ cred' \in [Keys -> Credential] /\ cred'[k] = row
          /\ \A j \in Keys \ {k} : cred'[j] = cred[j]
          /\ cred[k].gen \in Nat
      BY <2>1 DEF PasskeyInv, TypeOK, Credential
    <2>3. /\ chal' \in [Challenges -> Challenge]
          /\ \A d \in Challenges :
                /\ chal'[d].purpose = chal[d].purpose /\ chal'[d].of = chal[d].of
                /\ (chal[d].st = "unused") <=> (chal'[d].st = "unused")
      BY <1>1, <1>2, <1>4, DropOnward DEF PasskeyInv
    <2>4. proof' = proof /\ opened' = opened /\ Onward
      BY <1>4, <2>3 DEF Onward, client
    <2>5. ProofsOK'
      BY <2>3, <2>4 DEF PasskeyInv, ProofsOK
    <2> DEFINE Kept(j) ==
                 /\ cred[j].gen \in Nat /\ cred'[j].gen \in Nat
                 /\ cred'[j].gen >= cred[j].gen
                 /\ cred[j].gen > 0 /\ cred'[j].gen <= 1 =>
                       cred[j].gen <= 1 /\ cred'[j] = cred[j]
    <2>6. \A j \in Keys : Kept(j)
      <3> TAKE j \in Keys
      <3>1. cred[j].gen \in Nat /\ cred'[j].gen \in Nat
        BY <2>2 DEF PasskeyInv, TypeOK, Credential
      <3>2. CASE j = k
        BY <2>1, <2>2, <3>1, <3>2
      <3>3. CASE j # k
        BY <2>2, <3>1, <3>3
      <3> QED BY <3>2, <3>3
    <2> HIDE DEF Kept
    <2>7. \A d \in Challenges : opened[d] > 0 => /\ proof[d].by \in Keys
                                                  /\ cred[proof[d].by].gen \in Nat \ {0}
      <3>1. \A d \in Challenges : opened[d] > 0 =>
               proof[d].by # None /\ cred[proof[d].by].gen > 0
        BY DEF PasskeyInv, RowsOK
      <3>2. \A d \in Challenges : proof[d].by # None =>
               proof[d].by \in Keys /\ cred[proof[d].by].gen \in Nat
        BY DEF PasskeyInv, TypeOK, Credential, Proof
      <3> QED BY <3>1, <3>2
    <2>8. \A j, n : Counts(j, n)' <=> Counts(j, n)
      BY <2>4 DEF Counts
    <2>9. RowsOK'
      <3>1. ASSUME NEW j \in Keys, cred'[j].st # "unused"
            PROVE  cred'[j].gen > 0 /\ \E d \in Challenges : proof'[d].by = j
        BY <1>2, <2>1, <2>2, <2>4, <3>1 DEF PasskeyInv, RowsOK
      <3>2. ASSUME NEW d \in Challenges, opened'[d] > 0
            PROVE  (/\ proof[d].by # None /\ cred[proof[d].by].gen > 0
                    /\ Counting(proof[d].by) =>
                           Counts(proof[d].by, cred[proof[d].by].count))'
        <4>1. PICK j \in Keys : j = proof[d].by /\ cred[j].gen > 0
          BY <2>4, <2>7, <3>2
        <4>2. cred'[j].gen > 0
          BY <2>6, <4>1 DEF Kept
        <4>3. Counting(j)' => Counting(j) /\ cred'[j] = cred[j]
          BY <2>6, <4>1 DEF Counting, Kept
        <4>4. Counting(j) => Counts(j, cred[j].count)
          BY <2>4, <3>2, <4>1 DEF PasskeyInv, RowsOK
        <4>5. Counting(j)' => Counts(j, cred[j].count)'
          BY <2>4, <4>3, <4>4 DEF Counts
        <4>6. proof'[d].by = j /\ j # None
          BY <2>4, <4>1, NoneAssumption
        <4> QED BY <4>2, <4>5, <4>6 DEF Counting, Counts
      <3> QED BY <3>1, <3>2 DEF RowsOK
    <2>10. FiledForRequester'
      <3>1. ASSUME NEW j \in Keys, NEW d \in Challenges, cred'[j].st = "live",
                   proof[d].by = j, chal[d].purpose = "register"
            PROVE  cred'[j].of = chal[d].of
        <4>1. CASE j = k
          <5>1. d = c
            BY <1>1, <1>2, <3>1, <4>1 DEF PasskeyInv, ProofsOK
          <5> QED BY <2>1, <2>2, <4>1, <5>1
        <4>2. CASE j # k
          BY <2>2, <3>1, <4>2 DEF PasskeyInv, FiledForRequester
        <4> QED BY <4>1, <4>2
      <3> QED BY <2>3, <2>4, <3>1 DEF FiledForRequester
    <2>11. CounterStopsReplay'
      <3>1. ASSUME NEW d \in Challenges, opened[d] > 1
            PROVE  proof[d].by \in Synced \/ cred'[proof[d].by].gen > 1 \/ Overtaken(d)'
        <4>1. proof[d].by \in Synced \/ cred[proof[d].by].gen > 1 \/ Overtaken(d)
          BY <3>1 DEF PasskeyInv, CounterStopsReplay
        <4>2. Overtaken(d)' <=> Overtaken(d)
          BY <2>4 DEF Overtaken
        <4>3. opened[d] \in Nat
          BY DEF PasskeyInv, TypeOK
        <4>4. /\ proof[d].by \in Keys /\ cred[proof[d].by].gen \in Nat
              /\ cred'[proof[d].by].gen >= cred[proof[d].by].gen
              /\ cred'[proof[d].by].gen \in Nat
          <5>1. opened[d] > 0
            BY <3>1, <4>3
          <5> QED BY <2>6, <2>7, <5>1 DEF Kept
        <4> QED BY <4>1, <4>2, <4>4
      <3> QED BY <2>4, <3>1 DEF CounterStopsReplay
    <2>12. \A p \in Requests \ {r} : req'[p] = req[p]
      BY <1>4, AnswerLocals DEF PasskeyInv, Codes
    <2>13. ASSUME NEW p \in Requests \ {r} PROVE ReadOK(p)'
      <3>1. SUFFICES ASSUME Holds(p), proof[req[p].chal].by = req[p].key,
                            Counting(req[p].key)', opened[req[p].chal] > 0
                     PROVE  Counts(req[p].key, req[p].count)
        BY <2>4, <2>8, <2>12 DEF ReadOK, Holds, Counting
      <3>2. req[p].chal \in Challenges
        BY <3>1 DEF PasskeyInv, HandlerOK, Holds, Finishes
      <3>3. PICK j \in Keys : j = req[p].key /\ cred[j].gen > 0
        BY <2>7, <3>1, <3>2
      <3>4. req'[p].key = j
        BY <2>12, <3>3
      <3>5. Counting(j)'
        BY <3>1, <3>4 DEF Counting
      <3>6. Counting(req[p].key)
        BY <2>6, <3>3, <3>5 DEF Counting, Kept
      <3> QED BY <3>1, <3>6 DEF PasskeyInv, ReadOK
    <2>14. \A p \in Requests \ {r} : Begins(p) => chal'[req[p].chal].st = "unused"
      BY <2>3 DEF PasskeyInv, HandlerOK
    <2>15. /\ req' \in [Requests -> Request] /\ Apart'
           /\ \A p \in Requests : HandlerOK(p)' /\ ReadOK(p)'
      BY <1>4, <2>4, <2>13, <2>14, AnswerStep DEF Codes
    <2>16. TypeOK'
      BY <1>4, <2>2, <2>3, <2>15 DEF PasskeyInv, TypeOK, client
    <2> QED BY <2>5, <2>9, <2>10, <2>11, <2>15, <2>16 DEF PasskeyInv
  <1> QED BY <1>1, <1>2, <1>3, <1>4 DEF RegisterCommit

\* A committed login: the counter of the passkey moves to that of its assertion.
LEMMA OpenSessionStep ==
    ASSUME PasskeyInv, NEW r \in Requests, At(r, "auth_finish", "commit"),
           SameRow(r), OpenSession(r)
    PROVE  PasskeyInv'
  <1>1. Holds(r) /\ Finishes(r) /\ HandlerOK(r) /\ ReadOK(r) /\ req[r] \in Request
    BY DEF Holds, Finishes, At, PasskeyInv, TypeOK
  <1>2. PICK c \in Challenges : c = req[r].chal
    BY <1>1 DEF HandlerOK
  <1>3. /\ req[r].resp = c /\ proof[c].by # None /\ proof[c].by = req[r].key
        /\ chal[c].purpose = "auth" /\ chal[c].st # "unused" /\ Verifies(r)
    BY <1>1, <1>2 DEF HandlerOK, Verifies
  <1>4. PICK k \in Keys : k = proof[c].by
    BY <1>3 DEF PasskeyInv, TypeOK, Proof
  <1>5. /\ cred' = [cred EXCEPT ![k].count = proof[c].count]
        /\ opened' = [opened EXCEPT ![c] = @ + 1]
        /\ Drop(c) /\ req' = [req EXCEPT ![r].at = "refresh"]
        /\ UNCHANGED <<active, client>>
    BY <1>2, <1>3, <1>4 DEF OpenSession
  <1>6. /\ cred' \in [Keys -> Credential]
        /\ cred'[k].st = "live" /\ cred'[k].count = proof[c].count /\ cred[k].gen > 0
        /\ \A j \in Keys : /\ cred'[j].gen = cred[j].gen /\ cred'[j].st = cred[j].st
                            /\ cred'[j].of = cred[j].of
        /\ \A j \in Keys \ {k} : cred'[j] = cred[j]
    <2> DEFINE row == [cred[k] EXCEPT !.count = proof[c].count]
    <2>1. cred[k] \in Credential /\ proof[c].count \in Nat
          /\ cred[k].st = "live" /\ cred[k].gen > 0
      BY <1>3, <1>4 DEF PasskeyInv, TypeOK, Proof, SameRow, RowsOK
    <2>2. /\ row \in Credential /\ row.st = cred[k].st /\ row.of = cred[k].of
          /\ row.gen = cred[k].gen /\ row.count = proof[c].count
      BY <2>1 DEF Credential
    <2>3. cred' = [cred EXCEPT ![k] = row]
      BY <1>5
    <2> HIDE DEF row
    <2> QED BY <2>1, <2>2, <2>3 DEF PasskeyInv, TypeOK
  <1>7. /\ opened' \in [Challenges -> Nat] /\ opened[c] \in Nat
        /\ opened'[c] = opened[c] + 1
        /\ \A d \in Challenges \ {c} : opened'[d] = opened[d]
        /\ \A d \in Challenges : opened[d] > 0 => opened'[d] > 0
    BY <1>5 DEF PasskeyInv, TypeOK
  <1>8. /\ chal' \in [Challenges -> Challenge]
        /\ \A d \in Challenges :
              /\ chal'[d].purpose = chal[d].purpose /\ chal'[d].of = chal[d].of
              /\ (chal[d].st = "unused") <=> (chal'[d].st = "unused")
        /\ chal'[c].st = "gone"
    BY <1>3, <1>5, DropOnward DEF PasskeyInv
  <1>9. proof' = proof /\ Onward
    BY <1>5, <1>8 DEF Onward, client
  <1> DEFINE l == [req[r] EXCEPT !.at = "refresh"]
  <1>10. l \in Request /\ l.op = "auth_finish" /\ l.at = "refresh" /\ l.chal = c
    BY <1>1, <1>2 DEF Request, At
  <1>11. req' = [req EXCEPT ![r] = l]
    BY <1>5
  <1> HIDE DEF l
  <1>12. /\ req' \in [Requests -> Request] /\ req'[r] = l
         /\ \A p \in Requests \ {r} : req'[p] = req[p]
    BY <1>10, <1>11 DEF PasskeyInv, TypeOK
  <1>13. \A j, n : Counts(j, n) => Counts(j, n)'
    BY <1>7, <1>9 DEF Counts
  <1>14. ProofsOK'
    BY <1>8, <1>9 DEF PasskeyInv, ProofsOK
  <1>15. FiledForRequester'
    BY <1>6, <1>8, <1>9 DEF PasskeyInv, FiledForRequester
  <1>16. RowsOK'
    <2>1. ASSUME NEW j \in Keys, cred'[j].st # "unused"
          PROVE  cred'[j].gen > 0 /\ \E d \in Challenges : proof'[d].by = j
      BY <1>6, <1>9, <2>1 DEF PasskeyInv, RowsOK
    <2>2. ASSUME NEW d \in Challenges, opened'[d] > 0
          PROVE  (/\ proof[d].by # None /\ cred[proof[d].by].gen > 0
                  /\ Counting(proof[d].by) =>
                         Counts(proof[d].by, cred[proof[d].by].count))'
      <3>1. d # c => /\ opened[d] > 0 /\ proof[d].by # None
                     /\ cred[proof[d].by].gen > 0
                     /\ Counting(proof[d].by) =>
                           Counts(proof[d].by, cred[proof[d].by].count)
        BY <1>7, <2>2 DEF PasskeyInv, RowsOK
      <3>2. proof[d].by # None /\ proof[d].by \in Keys
        BY <1>3, <3>1 DEF PasskeyInv, TypeOK, Proof
      <3>3. PICK j \in Keys : j = proof[d].by
        BY <3>2
      <3>4. proof'[d].by = j /\ j # None
        BY <1>9, <3>2, <3>3
      <3>5. cred'[j].gen > 0 /\ cred'[j].gen = cred[j].gen
        BY <1>4, <1>6, <3>1, <3>3
      <3>6. CASE j = k
        <4>1. opened'[c] > 0
          BY <1>7
        <4>2. Counts(j, cred[j].count)'
          BY <1>4, <1>6, <1>9, <3>6, <4>1 DEF Counts
        <4> QED BY <3>4, <3>5, <4>2 DEF Counts
      <3>7. CASE j # k
        <4>1. Counting(j)' => Counts(j, cred[j].count)
          BY <1>4, <3>1, <3>3, <3>5, <3>7 DEF Counting
        <4>2. Counting(j)' => Counts(j, cred[j].count)'
          BY <1>6, <1>13, <3>7, <4>1 DEF Counts
        <4> QED BY <3>4, <3>5, <4>2 DEF Counts, Counting
      <3> QED BY <3>6, <3>7
    <2> QED BY <2>1, <2>2 DEF RowsOK
  <1>17. CounterStopsReplay'
    <2>1. ASSUME NEW d \in Challenges, opened'[d] > 1
          PROVE  (\/ proof[d].by \in Synced \/ cred[proof[d].by].gen > 1
                  \/ Overtaken(d))'
      <3>1. Overtaken(d) => Overtaken(d)'
        BY <1>7, <1>9 DEF Overtaken
      <3>2. CASE d # c
        <4>1. opened[d] > 1 /\ opened[d] > 0
          BY <1>7, <2>1, <3>2
        <4>2. proof[d].by \in Keys
          BY <4>1 DEF PasskeyInv, TypeOK, Proof, RowsOK
        <4>3. proof[d].by \in Synced \/ cred[proof[d].by].gen > 1 \/ Overtaken(d)
          BY <4>1 DEF PasskeyInv, CounterStopsReplay
        <4> QED BY <1>6, <1>9, <3>1, <4>2, <4>3
      <3>3. CASE d = c /\ Counting(k)
        <4>1. opened[c] > 0
          BY <1>7, <2>1, <3>3
        <4>2. Counts(k, req[r].count)
          BY <1>1, <1>2, <1>3, <1>4, <3>3, <4>1 DEF ReadOK
        <4>3. PICK e \in Challenges : /\ proof[e].by = k /\ opened[e] > 0
                                      /\ proof[e].count = req[r].count
          BY <4>2 DEF Counts
        <4>4. proof[c].count > 0
          BY <1>3, <1>4, <3>3 DEF PasskeyInv, ProofsOK, Counting
        <4>5. proof[c].count > req[r].count
          BY <1>3, <4>4 DEF Verifies
        <4>6. Overtaken(c)
          BY <1>4, <4>3, <4>5 DEF Overtaken
        <4> QED BY <3>1, <3>3, <4>6
      <3>4. CASE d = c /\ ~Counting(k)
        <4>1. cred[k].gen \in Nat
          BY DEF PasskeyInv, TypeOK, Credential
        <4>2. k \in Synced \/ cred'[k].gen > 1
          BY <1>6, <3>4, <4>1 DEF Counting
        <4> QED BY <1>4, <1>9, <3>4, <4>2
      <3> QED BY <3>2, <3>3, <3>4
    <2> QED BY <2>1 DEF CounterStopsReplay
  <1>18. HandlerOK(r)' /\ ReadOK(r)' /\ ~Begins(r)' /\ ~Holds(r)'
    BY <1>2, <1>3, <1>8, <1>10, <1>12 DEF HandlerOK, ReadOK, Begins, Finishes, Holds, At
  <1>19. Apart'
    BY <1>12, <1>18, ApartStep DEF PasskeyInv
  <1>20. ASSUME NEW p \in Requests \ {r} PROVE HandlerOK(p)' /\ ReadOK(p)'
    <2>1. Begins(p) => chal'[req[p].chal].st = "unused"
      BY <1>8 DEF PasskeyInv, HandlerOK
    <2>2. HandlerOK(p)'
      BY <1>9, <1>12, <2>1, OthersOK
    <2>3. ASSUME Holds(p)'
          PROVE  ReadOK(p)'
      <3>1. Holds(p) /\ req[p].chal \in Challenges /\ req[p].chal # c
        BY <1>1, <1>2, <1>12, <2>3 DEF Holds, PasskeyInv, HandlerOK, Finishes, Apart
      <3>2. opened'[req[p].chal] = opened[req[p].chal]
        BY <1>7, <3>1
      <3>3. HandlerOK(p) /\ req[p].key = proof[req[p].resp].by
            /\ req[p].resp \in Challenges /\ proof[req[p].resp].by # None
        BY <3>1 DEF PasskeyInv, HandlerOK
      <3>4. PICK j \in Keys : j = req[p].key
        BY <3>3 DEF PasskeyInv, TypeOK, Proof
      <3>5. Counting(j)' => Counting(j)
        BY <1>6 DEF Counting
      <3>6. ReadOK(p)
        BY DEF PasskeyInv
      <3>7. proof[req[p].chal].by = j /\ Counting(j)' /\ opened'[req[p].chal] > 0
               => Counts(j, req[p].count)'
        <4>1. proof[req[p].chal].by = j /\ Counting(j)' /\ opened'[req[p].chal] > 0
                 => Counts(j, req[p].count)
          BY <3>1, <3>2, <3>4, <3>5, <3>6 DEF ReadOK
        <4>2. Counts(j, req[p].count) =>
                 \E d \in Challenges : /\ proof'[d].by = j /\ opened'[d] > 0
                                       /\ proof'[d].count = req'[p].count
          BY <1>7, <1>9, <1>12 DEF Counts
        <4> QED BY <4>1, <4>2 DEF Counts
      <3> QED BY <1>9, <1>12, <3>4, <3>7 DEF ReadOK, Counting, Counts
    <2> QED BY <2>2, <2>3 DEF ReadOK
  <1>21. TypeOK'
    BY <1>5, <1>6, <1>7, <1>8, <1>12 DEF PasskeyInv, TypeOK, client
  <1> QED BY <1>14, <1>15, <1>16, <1>17, <1>18, <1>19, <1>20, <1>21 DEF PasskeyInv

LEMMA DeleteCommitStep ==
    ASSUME PasskeyInv, NEW r \in Requests, DeleteCommit(r)
    PROVE  PasskeyInv'
  <1>1. /\ UNCHANGED <<active, chal, opened, client>> /\ Answer(r, "ok")
        /\ "ok" \in Codes /\ proof' = proof /\ chal' = chal /\ opened' = opened
    BY DEF DeleteCommit, Codes, client
  <1>2. PICK k \in Keys : k = req[r].key
    BY DEF DeleteCommit, PasskeyInv, HandlerOK
  <1>3. /\ cred' \in [Keys -> Credential]
        /\ \A j \in Keys : /\ cred'[j].gen = cred[j].gen /\ cred'[j].count = cred[j].count
                            /\ cred'[j].of = cred[j].of
        /\ \A j \in Keys : cred'[j].st # "unused" => cred[j].st # "unused"
        /\ \A j \in Keys : cred'[j].st = "live" => cred[j].st = "live"
    <2>1. CASE cred' = cred
      BY <2>1 DEF PasskeyInv, TypeOK
    <2>2. CASE SameRow(r) /\ cred' = [cred EXCEPT ![k].st = "gone"]
      <3> DEFINE row == [cred[k] EXCEPT !.st = "gone"]
      <3>1. cred[k] \in Credential /\ cred[k].st = "live"
        BY <1>2, <2>2 DEF SameRow, PasskeyInv, TypeOK
      <3>2. /\ row \in Credential /\ row.st = "gone" /\ row.of = cred[k].of
            /\ row.gen = cred[k].gen /\ row.count = cred[k].count
        BY <3>1 DEF Credential
      <3>3. cred' = [cred EXCEPT ![k] = row]
        BY <2>2
      <3> HIDE DEF row
      <3> QED BY <3>1, <3>2, <3>3 DEF PasskeyInv, TypeOK
    <2> QED BY <1>2, <2>1, <2>2 DEF DeleteCommit
  <1>4. Onward
    BY <1>1 DEF Onward
  <1>5. ProofsOK' /\ FiledForRequester'
    <2>1. ProofsOK'
      BY <1>1 DEF PasskeyInv, ProofsOK
    <2>2. FiledForRequester'
      BY <1>1, <1>3 DEF PasskeyInv, FiledForRequester
    <2> QED BY <2>1, <2>2
  <1>6. \A d \in Challenges : proof[d].by # None => proof[d].by \in Keys
    BY DEF PasskeyInv, TypeOK, Proof
  <1>7. RowsOK'
    <2>1. ASSUME NEW j \in Keys, cred'[j].st # "unused"
          PROVE  cred'[j].gen > 0 /\ \E d \in Challenges : proof'[d].by = j
      BY <1>1, <1>3, <2>1 DEF PasskeyInv, RowsOK
    <2>2. ASSUME NEW d \in Challenges, opened[d] > 0
          PROVE  (/\ proof[d].by # None /\ cred[proof[d].by].gen > 0
                  /\ Counting(proof[d].by) =>
                         Counts(proof[d].by, cred[proof[d].by].count))'
      <3>1. /\ proof[d].by # None /\ cred[proof[d].by].gen > 0
            /\ Counting(proof[d].by) =>
                  Counts(proof[d].by, cred[proof[d].by].count)
        BY <2>2 DEF PasskeyInv, RowsOK
      <3>2. PICK j \in Keys : j = proof[d].by
        BY <1>6, <3>1
      <3>3. cred'[j].gen = cred[j].gen /\ cred'[j].count = cred[j].count
        BY <1>3
      <3> QED BY <1>1, <3>1, <3>2, <3>3 DEF Counting, Counts
    <2> QED BY <1>1, <2>1, <2>2 DEF RowsOK
  <1>8. CounterStopsReplay'
    <2>1. \A d \in Challenges : opened[d] > 1 => proof[d].by \in Keys
      BY <1>6 DEF PasskeyInv, TypeOK, RowsOK
    <2>2. ASSUME NEW d \in Challenges, opened[d] > 1
          PROVE  (\/ proof[d].by \in Synced \/ cred[proof[d].by].gen > 1
                  \/ Overtaken(d))'
      <3>1. proof[d].by \in Synced \/ cred[proof[d].by].gen > 1 \/ Overtaken(d)
        BY <2>2 DEF PasskeyInv, CounterStopsReplay
      <3>2. Overtaken(d) => Overtaken(d)'
        BY <1>1 DEF Overtaken
      <3>3. cred'[proof[d].by].gen = cred[proof[d].by].gen
        BY <1>3, <2>1, <2>2
      <3> QED BY <1>1, <3>1, <3>2, <3>3
    <2> QED BY <1>1, <2>2 DEF CounterStopsReplay
  <1>9. \A p \in Requests \ {r} : req'[p] = req[p]
    BY <1>1, AnswerLocals DEF PasskeyInv
  <1>10. ASSUME NEW p \in Requests \ {r} PROVE ReadOK(p)'
    <2>1. Holds(p) => req[p].key \in Keys
      BY <1>6 DEF PasskeyInv, HandlerOK, Holds
    <2>2. Holds(p) => cred'[req[p].key].gen = cred[req[p].key].gen
      BY <1>3, <2>1
    <2>3. ReadOK(p) /\ req'[p] = req[p]
      BY <1>9 DEF PasskeyInv
    <2> QED BY <1>1, <2>2, <2>3 DEF ReadOK, Holds, Counting, Counts
  <1>11. \A p \in Requests \ {r} : Begins(p) => chal'[req[p].chal].st = "unused"
    BY <1>1 DEF PasskeyInv, HandlerOK
  <1>12. /\ req' \in [Requests -> Request] /\ Apart'
         /\ \A p \in Requests : HandlerOK(p)' /\ ReadOK(p)'
    BY <1>1, <1>4, <1>10, <1>11, AnswerStep
  <1>13. TypeOK'
    BY <1>1, <1>3, <1>12 DEF PasskeyInv, TypeOK, client
  <1> QED BY <1>5, <1>7, <1>8, <1>12, <1>13 DEF PasskeyInv

-----------------------------------------------------------------------------
(* Steps outside the handlers.                                             *)

LEMMA OthersStand ==
    ASSUME PasskeyInv, req' = req, Onward,
           \A p \in Requests : Begins(p) => chal'[req[p].chal].st = "unused"
    PROVE  Apart' /\ \A p \in Requests : HandlerOK(p)'
  <1>1. Apart'
    BY DEF PasskeyInv, Apart, Begins, Holds
  <1>2. \A p \in Requests : HandlerOK(p)'
    BY OthersOK
  <1> QED BY <1>1, <1>2

\* An answer to c, where there was none.
LEMMA SignStep ==
    ASSUME PasskeyInv, NEW c \in Challenges, NEW k \in Keys, NEW count \in Nat,
           Present(c), proof[c].by = None,
           proof' = [proof EXCEPT ![c] = [by |-> k, count |-> count]],
           UNCHANGED <<rows, req>>, clock' \in [Keys -> Nat],
           \/ chal[c].purpose = "register" /\ \A d \in Challenges : proof[d].by # k
           \/ chal[c].purpose = "auth" /\ (k \in Synced \/ count > 0)
    PROVE  PasskeyInv'
  <1>1. chal' = chal /\ cred' = cred /\ opened' = opened /\ req' = req
        /\ active' = active
    BY DEF rows
  <1>2. /\ proof' \in [Challenges -> Proof]
        /\ proof'[c].by = k /\ proof'[c].count = count
        /\ \A d \in Challenges \ {c} : proof'[d] = proof[d]
        /\ k # None /\ chal[c].st # "unused"
    BY NoneAssumption DEF PasskeyInv, TypeOK, Proof, Present
  <1>3. Onward
    BY <1>1, <1>2 DEF Onward
  <1>4. Apart' /\ \A p \in Requests : HandlerOK(p)'
    BY <1>1, <1>3, OthersStand DEF PasskeyInv, HandlerOK
  <1>5. ~(opened[c] > 0)
    BY DEF PasskeyInv, RowsOK
  <1>6. \A d \in Challenges : opened[d] > 0 => proof'[d] = proof[d] /\ proof[d].by # None
    BY <1>2, <1>5 DEF PasskeyInv, RowsOK
  <1>7. ProofsOK'
    BY <1>1, <1>2 DEF PasskeyInv, ProofsOK, Purposes
  <1>8. RowsOK'
    <2>1. ASSUME NEW j \in Keys, cred[j].st # "unused"
          PROVE  cred[j].gen > 0 /\ \E d \in Challenges : proof'[d].by = j
      <3>1. PICK d \in Challenges : proof[d].by = j
        BY <2>1 DEF PasskeyInv, RowsOK
      <3>2. d # c
        BY <3>1, NoneAssumption
      <3> QED BY <1>2, <2>1, <3>1, <3>2 DEF PasskeyInv, RowsOK
    <2>2. ASSUME NEW d \in Challenges, opened[d] > 0
          PROVE  (/\ proof[d].by # None /\ cred[proof[d].by].gen > 0
                  /\ Counting(proof[d].by) =>
                         Counts(proof[d].by, cred[proof[d].by].count))'
      <3>1. /\ proof[d].by # None /\ cred[proof[d].by].gen > 0
            /\ Counting(proof[d].by) =>
                  Counts(proof[d].by, cred[proof[d].by].count)
        BY <2>2 DEF PasskeyInv, RowsOK
      <3>2. Counts(proof[d].by, cred[proof[d].by].count) =>
              \E e \in Challenges : /\ proof'[e].by = proof[d].by /\ opened'[e] > 0
                                    /\ proof'[e].count = cred[proof[d].by].count
        BY <1>1, <1>6 DEF Counts
      <3>3. proof'[d] = proof[d]
        BY <1>6, <2>2
      <3> QED BY <1>1, <3>1, <3>2, <3>3 DEF Counting, Counts
    <2> QED BY <1>1, <2>1, <2>2 DEF RowsOK
  <1>9. FiledForRequester'
    <2>1. ASSUME NEW j \in Keys, NEW d \in Challenges, cred[j].st = "live",
                 proof'[d].by = j, chal[d].purpose = "register"
          PROVE  cred[j].of = chal[d].of
      <3>1. CASE d = c
        <4>1. j = k /\ \A e \in Challenges : proof[e].by # k
          BY <1>2, <2>1, <3>1
        <4> QED BY <2>1, <4>1 DEF PasskeyInv, RowsOK
      <3>2. CASE d # c
        BY <1>2, <2>1, <3>2 DEF PasskeyInv, FiledForRequester
      <3> QED BY <3>1, <3>2
    <2> QED BY <1>1, <2>1 DEF FiledForRequester
  <1>10. CounterStopsReplay'
    <2>1. ASSUME NEW d \in Challenges, opened[d] > 1
          PROVE  (\/ proof[d].by \in Synced \/ cred[proof[d].by].gen > 1
                  \/ Overtaken(d))'
      <3>1. opened[d] > 0
        BY <2>1 DEF PasskeyInv, TypeOK
      <3>2. proof[d].by \in Synced \/ cred[proof[d].by].gen > 1 \/ Overtaken(d)
        BY <2>1 DEF PasskeyInv, CounterStopsReplay
      <3>3. Overtaken(d) => Overtaken(d)'
        BY <1>1, <1>6, <3>1 DEF Overtaken
      <3> QED BY <1>1, <1>6, <3>1, <3>2, <3>3
    <2> QED BY <1>1, <2>1 DEF CounterStopsReplay
  <1>11. ASSUME NEW p \in Requests PROVE ReadOK(p)'
    <2>1. ReadOK(p)
      BY DEF PasskeyInv
    <2>2. Holds(p) => req[p].chal \in Challenges
      BY DEF PasskeyInv, HandlerOK, Holds, Finishes
    <2>3. Counts(req[p].key, req[p].count) =>
            \E e \in Challenges : /\ proof'[e].by = req[p].key /\ opened'[e] > 0
                                  /\ proof'[e].count = req[p].count
      BY <1>1, <1>6 DEF Counts
    <2> QED BY <1>1, <1>6, <2>1, <2>2, <2>3 DEF ReadOK, Holds, Counting, Counts
  <1>12. TypeOK'
    BY <1>1, <1>2 DEF PasskeyInv, TypeOK
  <1> QED BY <1>4, <1>7, <1>8, <1>9, <1>10, <1>11, <1>12 DEF PasskeyInv

LEMMA ClientStep ==
    ASSUME PasskeyInv, NEW c \in Challenges, NEW k \in Keys,
           SignAttestation(c, k) \/ SignAssertion(c, k)
    PROVE  PasskeyInv'
  <1>1. CASE SignAttestation(c, k)
    <2>1. clock' \in [Keys -> Nat]
      BY <1>1 DEF SignAttestation, PasskeyInv, TypeOK
    <2> QED BY <1>1, <2>1, SignStep DEF SignAttestation
  <1>2. CASE SignAssertion(c, k)
    <2>1. PICK count \in Nat : count = IF k \in Synced THEN 0 ELSE clock[k] + 1
      BY DEF PasskeyInv, TypeOK
    <2>2. clock' \in [Keys -> Nat] /\ (k \in Synced \/ count > 0)
      BY <1>2, <2>1 DEF SignAssertion, PasskeyInv, TypeOK
    <2> QED BY <1>2, <2>1, <2>2, SignStep DEF SignAssertion
  <1> QED BY <1>1, <1>2

LEMMA ExpireStep ==
    ASSUME PasskeyInv, NEW c \in Challenges, Expire(c)
    PROVE  PasskeyInv'
  <1>1. /\ chal[c].st = "live" /\ chal' = [chal EXCEPT ![c].st = "expired"]
        /\ UNCHANGED <<active, cred, opened, client, req>>
    BY DEF Expire
  <1> DEFINE row == [chal[c] EXCEPT !.st = "expired"]
  <1>2. row \in Challenge /\ row.st = "expired" /\ row.purpose = chal[c].purpose
        /\ row.of = chal[c].of
    BY DEF PasskeyInv, TypeOK, Challenge
  <1>3. chal' = [chal EXCEPT ![c] = row]
    BY <1>1
  <1> HIDE DEF row
  <1>4. /\ chal' \in [Challenges -> Challenge]
        /\ \A d \in Challenges :
              /\ chal'[d].purpose = chal[d].purpose /\ chal'[d].of = chal[d].of
              /\ (chal[d].st = "unused") <=> (chal'[d].st = "unused")
    BY <1>1, <1>2, <1>3 DEF PasskeyInv, TypeOK
  <1>5. Onward
    BY <1>1, <1>4 DEF Onward, client
  <1>6. /\ (ProofsOK /\ RowsOK /\ FiledForRequester /\ CounterStopsReplay)'
        /\ \A p \in Requests : ReadOK(p)'
    BY <1>1, <1>4, <1>5, ChallengeMoves
  <1>7. Apart' /\ \A p \in Requests : HandlerOK(p)'
    BY <1>1, <1>4, <1>5, OthersStand DEF PasskeyInv, HandlerOK
  <1>8. TypeOK'
    BY <1>1, <1>4 DEF PasskeyInv, TypeOK, client
  <1> QED BY <1>6, <1>7, <1>8 DEF PasskeyInv

LEMMA RemoveUserStep ==
    ASSUME PasskeyInv, NEW u \in Users, RemoveUser(u)
    PROVE  PasskeyInv'
  <1>1. UNCHANGED <<chal, cred, opened, client, req>> /\ active' \subseteq active
    BY DEF RemoveUser
  <1>2. Onward
    BY <1>1 DEF Onward, client
  <1>3. /\ (ProofsOK /\ RowsOK /\ FiledForRequester /\ CounterStopsReplay)'
        /\ \A p \in Requests : ReadOK(p)'
    BY <1>1, <1>2, ChallengeMoves
  <1>4. Apart' /\ \A p \in Requests : HandlerOK(p)'
    BY <1>1, <1>2, OthersStand DEF PasskeyInv, HandlerOK
  <1>5. TypeOK'
    BY <1>1 DEF PasskeyInv, TypeOK, client
  <1> QED BY <1>3, <1>4, <1>5 DEF PasskeyInv

-----------------------------------------------------------------------------
(* The theorems.                                                           *)

LEMMA InitInv == Init => PasskeyInv
  <1> SUFFICES ASSUME Init PROVE PasskeyInv
    OBVIOUS
  <1>1. TypeOK
    BY DEF Init, TypeOK, Challenge, Credential, Proof, Request, Idle, Purposes, Codes
  <1>2. \A r \in Requests : req[r].op = "none" /\ req[r].at = "answered"
    BY DEF Init, Idle
  <1>3. \A c \in Challenges : ~(opened[c] > 0) /\ ~(opened[c] > 1) /\ proof[c].by = None
    BY DEF Init
  <1>4. \A k \in Keys : cred[k].st = "unused"
    BY DEF Init
  <1>5. ProofsOK /\ RowsOK /\ FiledForRequester /\ CounterStopsReplay
    BY <1>3, <1>4 DEF ProofsOK, RowsOK, FiledForRequester, CounterStopsReplay
  <1>6. \A r \in Requests : HandlerOK(r) /\ ReadOK(r) /\ ~Begins(r) /\ ~Holds(r)
    BY <1>2, AnsweredOK
  <1> QED BY <1>1, <1>5, <1>6 DEF PasskeyInv, Apart

LEMMA ArriveStep ==
    ASSUME PasskeyInv, NEW r \in Requests, Arrive(r)
    PROVE  PasskeyInv'
  <1>1. CASE \E u \in Users : RegisterBegin(r, u)
    BY <1>1, BeginStep DEF RegisterBegin
  <1>2. CASE \E u \in Users \cup {None} : AuthBegin(r, u)
    <2>1. PICK u \in Users \cup {None} : Begin(r, "auth_begin", u)
      BY <1>2 DEF AuthBegin
    <2> QED BY <2>1, BeginStep
  <1>3. CASE \E u \in Users, c \in Challenges, p \in Challenges \cup {None} :
               RegisterFinish(r, u, c, p)
    BY <1>3, FinishStep DEF RegisterFinish
  <1>4. CASE \E c \in Challenges, p \in Challenges \cup {None} : AuthFinish(r, c, p)
    BY <1>4, FinishStep DEF AuthFinish
  <1>5. CASE \E u \in Users, k \in Keys : DeleteBegin(r, u, k)
    BY <1>5, DeleteBeginStep
  <1> QED BY <1>1, <1>2, <1>3, <1>4, <1>5 DEF Arrive

LEMMA ResumeStep ==
    ASSUME PasskeyInv, NEW r \in Requests, Resume(r)
    PROVE  PasskeyInv'
  <1>1. CASE BeginCommit(r)
    BY <1>1, BeginCommitStep
  <1>2. CASE DropRefused(r)
    BY <1>2, DropRefusedStep
  <1>3. CASE RegisterCommit(r)
    BY <1>3, RegisterCommitStep
  <1>4. CASE AuthFind(r)
    BY <1>4, AuthFindStep
  <1>5. CASE AuthVerify(r)
    BY <1>5, AuthVerifyStep
  <1>6. CASE AuthCommit(r)
    BY <1>6, OpenSessionStep, RefuseStep DEF AuthCommit, Codes
  <1>7. CASE AuthRefresh(r)
    BY <1>7, RefuseStep DEF AuthRefresh, Codes
  <1>8. CASE DeleteCommit(r)
    BY <1>8, DeleteCommitStep
  <1> QED BY <1>1, <1>2, <1>3, <1>4, <1>5, <1>6, <1>7, <1>8 DEF Resume

LEMMA StepInv == PasskeyInv /\ [Next]_vars => PasskeyInv'
  <1> SUFFICES ASSUME PasskeyInv, [Next]_vars PROVE PasskeyInv'
    OBVIOUS
  <1>1. CASE \E r \in Requests : Arrive(r)
    BY <1>1, ArriveStep
  <1>2. CASE \E r \in Requests : Resume(r)
    BY <1>2, ResumeStep
  <1>3. CASE \E r \in Requests : CommitFails(r)
    BY <1>3, RefuseStep DEF CommitFails, Codes
  <1>4. CASE Client
    BY <1>4, ClientStep DEF Client
  <1>5. CASE \E c \in Challenges : Expire(c)
    BY <1>5, ExpireStep
  <1>6. CASE \E u \in Users : RemoveUser(u)
    BY <1>6, RemoveUserStep
  <1>7. CASE Crash
    BY <1>7, CrashStep
  <1>8. CASE UNCHANGED vars
    <2>1. (ProofsOK /\ RowsOK /\ FiledForRequester /\ CounterStopsReplay)' /\ Onward
      BY <1>8, SameRows DEF vars
    <2>2. TypeOK' /\ Apart' /\ \A r \in Requests : ReadOK(r)'
      BY <1>8 DEF vars, rows, client, PasskeyInv, TypeOK, Apart, Begins, Holds, ReadOK,
         Counting, Counts
    <2>3. \A r \in Requests : HandlerOK(r)'
      BY <1>8, <2>1, OthersStand DEF vars, rows, PasskeyInv, HandlerOK
    <2> QED BY <2>1, <2>2, <2>3 DEF PasskeyInv
  <1> QED BY <1>1, <1>2, <1>3, <1>4, <1>5, <1>6, <1>7, <1>8 DEF Next

\* The inductive invariant holds.
THEOREM Invariance == Spec => []PasskeyInv
  BY InitInv, StepInv, PTL DEF Spec

\* The variables keep their types.
THEOREM TypeCorrect == Spec => []TypeOK
  <1>1. PasskeyInv => TypeOK
    BY DEF PasskeyInv
  <1> QED BY <1>1, Invariance, PTL

\* A passkey is filed under the account its registration was begun for, however many
\* users call register_finish with each other's challenges.
THEOREM RegistrantOnly == Spec => []FiledForRequester
  <1>1. PasskeyInv => FiledForRequester
    BY DEF PasskeyInv
  <1> QED BY <1>1, Invariance, PTL

\* One assertion opens one session if its authenticator counts, unless an older
\* assertion has put the counter back or the passkey was enrolled again.
THEOREM ReplayStopped == Spec => []CounterStopsReplay
  <1>1. PasskeyInv => CounterStopsReplay
    BY DEF PasskeyInv
  <1> QED BY <1>1, Invariance, PTL

\* A step of p leaves the locals of every other handler.
LEMMA OneHandler ==
    ASSUME TypeOK, NEW p \in Requests, Arrive(p) \/ Resume(p) \/ CommitFails(p),
           NEW r \in Requests, r # p
    PROVE  req'[r] = req[r]
  <1> USE DEF TypeOK
  <1>1. CASE Arrive(p)
    <2>1. ASSUME NEW op, NEW u, Begin(p, op, u) PROVE req'[r] = req[r]
      BY <2>1 DEF Begin
    <2>2. ASSUME NEW op, NEW next, NEW u, NEW c, NEW q, Finish(p, op, next, u, c, q)
          PROVE  req'[r] = req[r]
      BY <2>2 DEF Finish, Answer
    <2>3. ASSUME NEW u, NEW k, DeleteBegin(p, u, k) PROVE req'[r] = req[r]
      BY <2>3 DEF DeleteBegin, Refuse, Answer
    <2> QED BY <1>1, <2>1, <2>2, <2>3
            DEF Arrive, RegisterBegin, AuthBegin, RegisterFinish, AuthFinish
  <1>2. CASE Resume(p)
    <2>1. CASE AuthFind(p)
      BY <2>1 DEF AuthFind, Refuse, Answer
    <2>2. CASE AuthVerify(p)
      BY <2>2 DEF AuthVerify, Refuse, Answer
    <2>3. CASE AuthCommit(p)
      BY <2>3 DEF AuthCommit, OpenSession, Refuse, Answer
    <2>4. CASE BeginCommit(p) \/ DropRefused(p) \/ RegisterCommit(p) \/ AuthRefresh(p)
                  \/ DeleteCommit(p)
      BY <2>4 DEF BeginCommit, DropRefused, RegisterCommit, AuthRefresh, DeleteCommit,
         Refuse, Answer
    <2> QED BY <1>2, <2>1, <2>2, <2>3, <2>4 DEF Resume
  <1>3. CASE CommitFails(p)
    BY <1>3 DEF CommitFails, Refuse, Answer
  <1> QED BY <1>1, <1>2, <1>3

\* What a step may do to a handler that has not answered: nothing, its own next step,
\* or a crash that ends it.
LEMMA StepsOf ==
    ASSUME TypeOK, [Next]_vars, NEW r \in Requests, req[r].at # "answered"
    PROVE  \/ req'[r] = req[r]
           \/ Resume(r)
           \/ CommitFails(r)
           \/ req'[r] = Idle
  <1>1. CASE UNCHANGED req
    BY <1>1
  <1>2. CASE Crash
    BY <1>2 DEF Crash
  <1>3. ASSUME NEW p \in Requests, Arrive(p) \/ Resume(p) \/ CommitFails(p)
        PROVE  req'[r] = req[r] \/ Resume(r) \/ CommitFails(r)
    <2>1. CASE p # r
      BY <1>3, <2>1, OneHandler
    <2>2. CASE p = r
      BY <1>3, <2>2 DEF Arrive, RegisterBegin, AuthBegin, Begin, RegisterFinish, AuthFinish,
         Finish, DeleteBegin
    <2> QED BY <2>1, <2>2
  <1>4. CASE Client
    BY <1>4 DEF Client, SignAttestation, SignAssertion
  <1> QED BY <1>1, <1>2, <1>3, <1>4 DEF Next, vars, Expire, RemoveUser

-----------------------------------------------------------------------------
(* One use of a challenge.  ReplayIsConcurrent is inductive on top of        *)
(* PasskeyInv.                                                             *)

\* A challenge that is gone stays gone.
LEMMA GoneStays ==
    ASSUME PasskeyInv, [Next]_vars, NEW c \in Challenges, chal[c].st = "gone"
    PROVE  chal'[c].st = "gone"
  <1>1. ASSUME NEW d, Drop(d) PROVE chal'[c].st = "gone"
    BY <1>1 DEF PasskeyInv, TypeOK, Drop, Challenge
  <1>2. CASE UNCHANGED chal
    BY <1>2
  <1>3. ASSUME NEW r \in Requests, Resume(r) PROVE chal'[c].st = "gone"
    <2>1. CASE BeginCommit(r)
      <3>1. req[r].chal # c
        BY <2>1 DEF BeginCommit, PasskeyInv, HandlerOK, Begins
      <3> QED BY <2>1, <3>1 DEF BeginCommit, PasskeyInv, TypeOK
    <2> QED BY <1>1, <1>2, <1>3, <2>1 DEF Resume, DropRefused, RegisterCommit, AuthFind,
            AuthVerify, AuthCommit, OpenSession, AuthRefresh, DeleteCommit, Refuse, rows
  <1>4. ASSUME NEW d \in Challenges, Expire(d) PROVE chal'[c].st = "gone"
    BY <1>4 DEF Expire, PasskeyInv, TypeOK
  <1>5. ASSUME NEW r \in Requests, Arrive(r) PROVE UNCHANGED chal
    BY <1>5 DEF Arrive, RegisterBegin, AuthBegin, Begin, RegisterFinish, AuthFinish, Finish,
       DeleteBegin, Refuse, rows
  <1> QED BY <1>2, <1>3, <1>4, <1>5 DEF Next, vars, rows, CommitFails, Refuse, Client,
          SignAttestation, SignAssertion, RemoveUser, Crash

\* Nobody finds a challenge that is gone.
LEMMA NobodyJoins ==
    ASSUME PasskeyInv, [Next]_vars, NEW c \in Challenges, chal[c].st = "gone",
           NEW r \in InFlight(c)'
    PROVE  r \in InFlight(c)
  <1>1. /\ r \in Requests /\ req'[r].op = "auth_finish" /\ req'[r].chal = c
        /\ req'[r].at \in {"find", "verify", "commit"}
    BY DEF InFlight
  <1>2. TypeOK /\ req[r] \in Request
    BY <1>1 DEF PasskeyInv, TypeOK
  <1>3. ASSUME NEW code, Answer(r, code) PROVE FALSE
    BY <1>1, <1>2, <1>3 DEF Answer, Idle, TypeOK
  <1>4. CASE req[r].at # "answered"
    <2>1. CASE req'[r] = req[r]
      BY <1>1, <2>1 DEF InFlight
    <2>2. CASE Resume(r)
      <3>1. AuthFind(r) \/ AuthVerify(r) \/ AuthCommit(r)
        BY <1>3, <2>2 DEF Resume, BeginCommit, DropRefused, RegisterCommit, AuthRefresh,
           DeleteCommit, Refuse
      <3>2. CASE AuthFind(r)
        <4> DEFINE k == proof[req[r].resp].by
        <4>1. req' = [req EXCEPT ![r].at = "verify", ![r].key = k,
                        ![r].user = cred[k].of, ![r].count = cred[k].count,
                        ![r].gen = cred[k].gen]
          BY <1>3, <3>2 DEF AuthFind, Refuse
        <4> HIDE DEF k
        <4>2. req'[r].chal = req[r].chal
          BY <1>1, <1>2, <4>1 DEF TypeOK, Request
        <4> QED BY <1>1, <3>2, <4>2 DEF AuthFind, At, InFlight
      <3>3. CASE AuthVerify(r)
        <4>1. req' = [req EXCEPT ![r].at = "commit"]
          BY <1>3, <3>3 DEF AuthVerify, Refuse
        <4>2. req'[r].chal = req[r].chal
          BY <1>1, <1>2, <4>1 DEF TypeOK, Request
        <4> QED BY <1>1, <3>3, <4>2 DEF AuthVerify, At, InFlight
      <3>4. ~AuthCommit(r)
        <4>1. AuthCommit(r) => req' = [req EXCEPT ![r].at = "refresh"]
          BY <1>3 DEF AuthCommit, OpenSession, Refuse
        <4> QED BY <1>1, <1>2, <4>1 DEF TypeOK, Request
      <3> QED BY <3>1, <3>2, <3>3, <3>4
    <2>3. ~CommitFails(r)
      BY <1>3 DEF CommitFails, Refuse
    <2>4. req'[r] # Idle
      BY <1>1 DEF Idle
    <2> QED BY <1>1, <1>2, <1>4, <2>1, <2>2, <2>3, <2>4, StepsOf
  <1>5. CASE req[r].at = "answered"
    <2>1. req'[r] # req[r]
      BY <1>1, <1>5
    <2>2. PICK p \in Requests : Arrive(p) \/ Resume(p) \/ CommitFails(p)
      BY <1>1, <1>5, <2>1 DEF Next, vars, Client, SignAttestation, SignAssertion, Expire,
         RemoveUser, Crash
    <2>3. p = r
      BY <1>1, <1>2, <2>1, <2>2, OneHandler
    <2>4. Arrive(r)
      BY <1>5, <2>2, <2>3 DEF Resume, CommitFails, BeginCommit, DropRefused, RegisterCommit,
         AuthFind, AuthVerify, AuthCommit, AuthRefresh, DeleteCommit, At
    <2>5. ASSUME NEW op \in {"register_begin", "auth_begin"}, NEW u, Begin(r, op, u)
          PROVE  FALSE
      <3>1. PICK d : req' = [req EXCEPT ![r] = [Idle EXCEPT !.op = op, !.at = "commit",
                                                            !.user = u, !.chal = d]]
        BY <2>5 DEF Begin
      <3> QED BY <1>1, <1>2, <3>1 DEF TypeOK, Idle
    <2>6. ASSUME NEW op, NEW next, NEW u, NEW d, NEW q, op # "auth_finish",
                 Finish(r, op, next, u, d, q)
          PROVE  FALSE
      BY <1>1, <1>2, <1>3, <2>6 DEF Finish, TypeOK, Idle
    <2>7. ASSUME NEW d, NEW q, AuthFinish(r, d, q) PROVE FALSE
      <3> DEFINE code == Refusal("auth_finish", None, d, q)
                 l(point) == [Idle EXCEPT !.op = "auth_finish", !.at = point, !.user = None,
                                          !.chal = d, !.resp = q, !.code = code]
      <3>1. \/ code = "none" /\ req' = [req EXCEPT ![r] = l("find")]
            \/ req' = [req EXCEPT ![r] = l("drop")]
        BY <1>3, <2>7 DEF AuthFinish, Finish
      <3>2. code = "none" => Present(d)
        BY DEF Refusal
      <3> HIDE DEF code
      <3>3. \A point : l(point).at = point /\ l(point).chal = d
        BY DEF Idle
      <3> HIDE DEF l
      <3>4. Present(d) /\ d = c
        BY <1>1, <1>2, <3>1, <3>2, <3>3 DEF TypeOK
      <3> QED BY <3>4 DEF Present
    <2>8. ASSUME NEW u, NEW k, DeleteBegin(r, u, k) PROVE FALSE
      BY <1>1, <1>2, <1>3, <2>8 DEF DeleteBegin, Refuse, TypeOK, Idle
    <2> QED BY <2>4, <2>5, <2>6, <2>7, <2>8
            DEF Arrive, RegisterBegin, AuthBegin, RegisterFinish
  <1> QED BY <1>4, <1>5

\* Only the commit of a login counts a session.
LEMMA OnlyLoginsOpen ==
    ASSUME [Next]_vars
    PROVE  \/ UNCHANGED opened
           \/ \E r \in Requests : At(r, "auth_finish", "commit") /\ OpenSession(r)
  <1>1. ASSUME NEW r \in Requests, Arrive(r) PROVE UNCHANGED opened
    <2>1. ASSUME NEW op, NEW u, Begin(r, op, u) PROVE UNCHANGED opened
      BY <2>1 DEF Begin, rows
    <2>2. ASSUME NEW op, NEW next, NEW u, NEW c, NEW p, Finish(r, op, next, u, c, p)
          PROVE  UNCHANGED opened
      BY <2>2 DEF Finish, rows
    <2>3. ASSUME NEW u, NEW k, DeleteBegin(r, u, k) PROVE UNCHANGED opened
      BY <2>3 DEF DeleteBegin, Refuse, rows
    <2> QED BY <1>1, <2>1, <2>2, <2>3
            DEF Arrive, RegisterBegin, AuthBegin, RegisterFinish, AuthFinish
  <1>2. ASSUME NEW r \in Requests, Resume(r), ~AuthCommit(r) PROVE UNCHANGED opened
    BY <1>2 DEF Resume, BeginCommit, DropRefused, RegisterCommit, AuthFind, AuthVerify,
       AuthRefresh, DeleteCommit, Refuse, rows
  <1>3. ASSUME NEW r \in Requests, AuthCommit(r)
        PROVE  \/ UNCHANGED opened
               \/ At(r, "auth_finish", "commit") /\ OpenSession(r)
    BY <1>3 DEF AuthCommit, Refuse, rows
  <1>4. CASE \/ \E r \in Requests : CommitFails(r)
             \/ Client \/ Crash \/ UNCHANGED vars
             \/ \E c \in Challenges : Expire(c)
             \/ \E u \in Users : RemoveUser(u)
    BY <1>4 DEF CommitFails, Refuse, Client, SignAttestation, SignAssertion, Crash, Expire,
       RemoveUser, vars, rows
  <1> QED BY <1>1, <1>2, <1>3, <1>4 DEF Next

LEMMA OneUseStep ==
    ASSUME PasskeyInv, ReplayIsConcurrent, [Next]_vars
    PROVE  ReplayIsConcurrent'
  <1> DEFINE room(c) == opened[c] + Cardinality(InFlight(c)) <= Cardinality(Requests)
  <1>1. SUFFICES ASSUME NEW c \in Challenges, opened'[c] > 0
                 PROVE  chal'[c].st = "gone" /\ room(c)'
    BY DEF ReplayIsConcurrent
  <1>2. /\ opened[c] \in Nat /\ IsFiniteSet(Requests) /\ Cardinality(Requests) \in Nat
        /\ InFlight(c) \subseteq Requests /\ InFlight(c)' \subseteq Requests
    BY RequestsAssumption, FS_CardinalityType DEF PasskeyInv, TypeOK, InFlight
  <1>3. IsFiniteSet(InFlight(c)) /\ Cardinality(InFlight(c)) \in Nat
        /\ IsFiniteSet(InFlight(c)') /\ Cardinality(InFlight(c)') \in Nat
    BY <1>2, FS_Subset, FS_CardinalityType
  <1>4. CASE opened'[c] = opened[c]
    <2>1. chal[c].st = "gone" /\ room(c)
      BY <1>1, <1>4 DEF ReplayIsConcurrent
    <2>2. InFlight(c)' \subseteq InFlight(c)
      BY <2>1, NobodyJoins
    <2>3. Cardinality(InFlight(c)') <= Cardinality(InFlight(c))
      BY <1>3, <2>2, FS_Subset
    <2>4. room(c)'
      BY <1>2, <1>3, <1>4, <2>1, <2>3
    <2> QED BY <2>1, <2>4, GoneStays
  <1>5. CASE opened'[c] # opened[c]
    <2>1. PICK r \in Requests : At(r, "auth_finish", "commit") /\ OpenSession(r)
      BY <1>5, OnlyLoginsOpen
    <2>2. /\ req[r].chal = c /\ opened'[c] = opened[c] + 1 /\ Drop(c)
          /\ req' = [req EXCEPT ![r].at = "refresh"]
      BY <1>2, <1>5, <2>1 DEF OpenSession, PasskeyInv, TypeOK
    <2>3. chal'[c].st = "gone"
      BY <2>2 DEF Drop, PasskeyInv, TypeOK, Challenge
    <2>4. r \in InFlight(c) /\ r \notin InFlight(c)'
      BY <2>1, <2>2 DEF InFlight, At, PasskeyInv, TypeOK, Request
    <2>5. /\ Cardinality(InFlight(c) \ {r}) = Cardinality(InFlight(c)) - 1
          /\ Cardinality(Requests \ {r}) = Cardinality(Requests) - 1
          /\ IsFiniteSet(InFlight(c) \ {r}) /\ IsFiniteSet(Requests \ {r})
      BY <1>2, <1>3, <2>4, FS_RemoveElement
    <2>6. CASE opened[c] > 0
      <3>1. chal[c].st = "gone" /\ room(c)
        BY <2>6 DEF ReplayIsConcurrent
      <3>2. InFlight(c)' \subseteq InFlight(c) \ {r}
        BY <2>4, <3>1, NobodyJoins
      <3>3. Cardinality(InFlight(c)') <= Cardinality(InFlight(c) \ {r})
        BY <2>5, <3>2, FS_Subset
      <3>4. room(c)'
        BY <1>2, <1>3, <2>2, <2>5, <3>1, <3>3
      <3> QED BY <2>3, <3>4
    <2>7. CASE opened[c] = 0
      <3>1. InFlight(c)' \subseteq Requests \ {r}
        BY <1>2, <2>4
      <3>2. Cardinality(InFlight(c)') <= Cardinality(Requests \ {r})
        BY <2>5, <3>1, FS_Subset
      <3>3. room(c)'
        BY <1>2, <1>3, <2>2, <2>5, <2>7, <3>2
      <3> QED BY <2>3, <3>3
    <2> QED BY <1>2, <2>6, <2>7
  <1> QED BY <1>4, <1>5

\* A challenge that has opened a session is found by no later request, and opens at most
\* as many sessions as handlers run at a time, with any authenticator.
THEOREM OneUse == Spec => []ReplayIsConcurrent
  <1>1. Init => ReplayIsConcurrent
    BY DEF Init, ReplayIsConcurrent
  <1>2. PasskeyInv /\ ReplayIsConcurrent /\ [Next]_vars => ReplayIsConcurrent'
    BY OneUseStep
  <1> QED BY <1>1, <1>2, Invariance, PTL DEF Spec

\* A finish refused for the kind, the age or the owner of its challenge, or for an
\* attestation that does not answer it, commits the removal of the challenge.
THEOREM RefusalSpends == Spec => RefusalSpendsChallenge
  <1> DEFINE Refused(r) ==
          /\ Ends(r, "register_finish") \/ Ends(r, "auth_finish")
          /\ req'[r].code \in {"wrong_purpose", "expired", "other_user", "invalid"}
  <1>1. ASSUME PasskeyInv, [Next]_vars, NEW r \in Requests, Refused(r)
        PROVE  chal'[req[r].chal].st = "gone"
    <2>1. /\ req[r].op \in {"register_finish", "auth_finish"}
          /\ req[r].at # "answered" /\ req'[r].at = "answered"
          /\ req'[r].code \in {"wrong_purpose", "expired", "other_user", "invalid"}
      BY <1>1 DEF Ends
    <2>2. TypeOK
      BY <1>1 DEF PasskeyInv
    <2>3. ASSUME NEW code \in {"ok", "conflict", "unauthorized", "stale_credential",
                               "refresh_error", "commit_error"}, Answer(r, code)
          PROVE  FALSE
      BY <2>1, <2>2, <2>3, AnswerLocals DEF Codes
    <2>4. Resume(r) \/ CommitFails(r)
      BY <1>1, <2>1, <2>2, StepsOf DEF Idle
    <2>5. ASSUME NEW point \in {"verify", "commit", "refresh"}, req'[r].at = point
          PROVE  FALSE
      BY <2>1, <2>5
    <2>6. ~AuthFind(r) /\ ~AuthVerify(r) /\ ~AuthCommit(r)
      <3>1. ~AuthFind(r)
        <4> SUFFICES ASSUME AuthFind(r) PROVE FALSE
          OBVIOUS
        <4> DEFINE k == proof[req[r].resp].by
        <4>1. req' = [req EXCEPT ![r].at = "verify", ![r].key = k,
                        ![r].user = cred[k].of, ![r].count = cred[k].count,
                        ![r].gen = cred[k].gen]
          BY <2>3 DEF AuthFind, Refuse
        <4> HIDE DEF k
        <4>2. req'[r].at = "verify"
          BY <2>2, <4>1 DEF TypeOK, Request
        <4> QED BY <2>5, <4>2
      <3>2. ~AuthVerify(r)
        BY <2>2, <2>3, <2>5 DEF AuthVerify, Refuse, TypeOK, Request
      <3>3. ~AuthCommit(r)
        BY <2>2, <2>3, <2>5 DEF AuthCommit, OpenSession, Refuse, TypeOK, Request
      <3> QED BY <3>1, <3>2, <3>3
    <2>7. DropRefused(r)
      BY <2>1, <2>3, <2>4, <2>6 DEF Resume, CommitFails, BeginCommit, RegisterCommit,
         AuthRefresh, DeleteCommit, Refuse, At
    <2> QED BY <1>1, <2>7, DropRefusedStep
  <1> HIDE DEF Refused
  <1>2. PasskeyInv /\ [Next]_vars
           => [\A r \in Requests : Refused(r) => chal'[req[r].chal].st = "gone"]_vars
    BY <1>1
  <1>3. Spec => [][\A r \in Requests : Refused(r) => chal'[req[r].chal].st = "gone"]_vars
    BY <1>2, Invariance, PTL DEF Spec
  <1> QED BY <1>3 DEF Refused, RefusalSpendsChallenge
=============================================================================
