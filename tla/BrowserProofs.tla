---------------------------- MODULE BrowserProofs ----------------------------
(* Theorems about the two components whose tabs share the browser's        *)
(* storage: BrowserAccount, for every set of tabs, servers, users, keys    *)
(* and handlers under way, and InstallBuilder, for every set of tabs,      *)
(* credentials and links.                                                  *)
EXTENDS BrowserAccount, InstallBuilder, TLAPS

-----------------------------------------------------------------------------
(* BrowserAccount.                                                         *)
(*                                                                         *)
(* The inductive invariant, as predicates on a tab r, a call x, the public *)
(* keys p of the accounts and the keys h the keystore was given: what is   *)
(* proved of them then holds before a step and after it.                   *)

Of(token) == <<token.srv, token.user>>

OnePerson(r, p) ==
    IF r.tok = None
    THEN r.pem = None /\ r.who = None
    ELSE /\ r.who = r.tok.user
         /\ r.pem = p[Of(r.tok)] /\ r.pem # None

\* What a signed-in page memoised is a server and a token, on /settings the
\* token the tab still holds; on /dashboard a late login may have replaced it.
Memoised(r) ==
    /\ r.page \in InnerPages => r.srv \in Servers /\ r.mtok # None
    /\ r.page = "settings" => r.mtok = r.tok

TabOK(r, p) == r \in Tab /\ OnePerson(r, p) /\ Memoised(r)

\* What a handler holds across its awaits.
CallOK(x, p, h) ==
    /\ x \in Call
    /\ x.kind \in {"signup", "login"} => x.user \in Users
    /\ x.kind = "signup" /\ x.at # "begin" => x.key \in h
    /\ x.kind = "passkey" /\ x.at = "answered" =>
          /\ x.user \in Users /\ x.key # None
          /\ x.key = p[<<x.srv, x.user>>]
    /\ x.kind = "pull" /\ x.at = "answered" => x.key # None
    /\ x.kind \in {"push", "pull", "delete", "enroll", "unenroll"} => x.tok # None
    /\ x.kind = "enroll" => x.key # None /\ x.key = p[Of(x.tok)]

TabsOK(T, p) == T \in [Tabs -> Tab] /\ \A t \in Tabs : TabOK(T[t], p)

CallsOK(C, p, h) ==
    /\ C \in [Calls -> Perhaps(Call)]
    /\ \A c \in Calls : C[c] # None => CallOK(C[c], p, h)

PasskeysOK(P, p) == \A q \in P : q.key = p[<<q.srv, q.user>>]

AccountInv ==
    /\ TypeOK
    /\ TabsOK(tab, pub)
    /\ CallsOK(call, pub, kept)
    /\ PasskeysOK(passkeys, pub)
    /\ AccountKeyWasKept

-----------------------------------------------------------------------------
(* Lemmas.                                                                 *)

Extends(p, q) == \A a \in Accounts : p[a] # None => q[a] = p[a]

\* An account is made once: what was true of a tab stays true of it.
LEMMA TabKeeps ==
    ASSUME NEW p, NEW q, Extends(p, q), NEW r, TabOK(r, p)
    PROVE  TabOK(r, q)
  <1>1. CASE r.tok = None
    BY <1>1 DEF TabOK, OnePerson
  <1>2. CASE r.tok # None
    <2>1. r.tok \in Token
      BY <1>2 DEF TabOK, Tab, Perhaps
    <2>2. Of(r.tok) \in Accounts
      BY <2>1 DEF Of, Accounts, Token
    <2> QED BY <1>2, <2>2 DEF TabOK, OnePerson, Extends
  <1> QED BY <1>1, <1>2

LEMMA TabsKeep ==
    ASSUME NEW p, NEW q, Extends(p, q), NEW T, TabsOK(T, p)
    PROVE  TabsOK(T, q)
  BY TabKeeps DEF TabsOK

\* So it does of a handler, and of the keys the keystore was given.
LEMMA CallKeeps ==
    ASSUME NEW p, NEW q, Extends(p, q), NEW h, NEW g, h \subseteq g,
           NEW x, CallOK(x, p, h)
    PROVE  CallOK(x, q, g)
  <1>1. x \in Call
    BY DEF CallOK
  <1>2. ASSUME x.kind = "passkey", x.at = "answered"
        PROVE  x.key = q[<<x.srv, x.user>>]
    <2>1. <<x.srv, x.user>> \in Accounts
      BY <1>1, <1>2 DEF CallOK, Call, Accounts
    <2> QED BY <1>2, <2>1 DEF CallOK, Extends
  <1>3. ASSUME x.kind = "enroll"
        PROVE  x.key = q[Of(x.tok)]
    <2>1. x.tok \in Token
      BY <1>1, <1>3 DEF CallOK, Call, Perhaps
    <2>2. Of(x.tok) \in Accounts
      BY <2>1 DEF Of, Accounts, Token
    <2> QED BY <1>3, <2>2 DEF CallOK, Extends
  <1> QED BY <1>2, <1>3 DEF CallOK

LEMMA CallsKeep ==
    ASSUME NEW p, NEW q, Extends(p, q), NEW h, NEW g, h \subseteq g,
           NEW C, CallsOK(C, p, h)
    PROVE  CallsOK(C, q, g)
  BY CallKeeps DEF CallsOK

\* A field outside the conditions may change: the page a handler was started
\* from is mounted or not.
LEMMA UnmountedOK ==
    ASSUME NEW p, NEW h, NEW x, CallOK(x, p, h)
    PROVE  CallOK([x EXCEPT !.mounted = FALSE], p, h)
  <1>1. x \in Call /\ [x EXCEPT !.mounted = FALSE] \in Call
    BY DEF CallOK, Call
  <1> QED BY <1>1 DEF CallOK, Call

LEMMA UnmountOK ==
    ASSUME NEW p, NEW h, CallsOK(call, p, h), NEW t, NEW to
    PROVE  CallsOK(Unmount(t, to), p, h)
  <1> DEFINE C == Unmount(t, to)
  <1>1. ASSUME NEW c \in Calls
        PROVE  C[c] \in Perhaps(Call) /\ (C[c] # None => CallOK(C[c], p, h))
    <2>1. C[c] = call[c] \/ (call[c] # None /\ C[c] = [call[c] EXCEPT !.mounted = FALSE])
      BY DEF Unmount
    <2>2. call[c] \in Perhaps(Call) /\ (call[c] # None => CallOK(call[c], p, h))
      BY DEF CallsOK
    <2>3. CASE C[c] = call[c]
      BY <2>2, <2>3
    <2>4. CASE call[c] # None /\ C[c] = [call[c] EXCEPT !.mounted = FALSE]
      <3>1. CallOK(C[c], p, h)
        BY <2>2, <2>4, UnmountedOK
      <3> QED BY <3>1 DEF CallOK, Perhaps
    <2> QED BY <2>1, <2>3, <2>4
  <1> QED BY <1>1 DEF CallsOK, Unmount

\* A handler ends, or goes on with what it may hold.
LEMMA EndsOK ==
    ASSUME NEW p, NEW h, NEW C, CallsOK(C, p, h), NEW c
    PROVE  CallsOK([C EXCEPT ![c] = None], p, h)
  BY DEF CallsOK, Perhaps

LEMMA GoesOnOK ==
    ASSUME NEW p, NEW h, NEW C, CallsOK(C, p, h), NEW c, NEW x, CallOK(x, p, h)
    PROVE  CallsOK([C EXCEPT ![c] = x], p, h)
  BY DEF CallsOK, CallOK, Perhaps

LEMMA DropOK ==
    ASSUME NEW p, NEW h, CallsOK(call, p, h), NEW t
    PROVE  CallsOK(DropCalls(t), p, h)
  BY DEF CallsOK, DropCalls, Perhaps

LEMMA OneTabOK ==
    ASSUME NEW p, NEW T, TabsOK(T, p), NEW t, NEW r, TabOK(r, p)
    PROVE  TabsOK([T EXCEPT ![t] = r], p)
  BY DEF TabsOK, TabOK

\* A tab without a page and without a session.
LEMMA ClosedOK == ASSUME NEW p PROVE TabOK(Closed, p)
  BY NoneAssumption DEF Closed, TabOK, Tab, Perhaps, OnePerson, Memoised, Pages, AuthPages, InnerPages

\* What is read off the keystore changes nothing.
LEMMA CachedOK ==
    ASSUME NEW p, NEW r, TabOK(r, p), NEW k \in Perhaps(Keys)
    PROVE  TabOK([r EXCEPT !.cache = k], p)
  <1>1. r \in Tab /\ [r EXCEPT !.cache = k] \in Tab
    BY DEF TabOK, Tab
  <1> QED BY <1>1 DEF TabOK, Tab, OnePerson, Memoised

LEMMA RemoteOK ==
    ASSUME NEW p, NEW r, TabOK(r, p), NEW b \in BOOLEAN
    PROVE  TabOK([r EXCEPT !.remote = b], p)
  <1>1. r \in Tab /\ [r EXCEPT !.remote = b] \in Tab
    BY DEF TabOK, Tab
  <1> QED BY <1>1 DEF TabOK, Tab, OnePerson, Memoised

\* What a page memoises when it mounts, and who is let in.
LEMMA MountOK ==
    ASSUME NEW p, NEW r \in Tab, OnePerson(r, p), NEW to \in Pages, NEW addr \in Perhaps(Servers)
    PROVE  TabOK(Mount(r, to, addr), p)
  <1> DEFINE at == CASE to \in InnerPages -> Admitted(r, to, addr)
                     [] to \in {"signup", "login"} /\ addr = None -> "connect"
                     [] OTHER -> to
             m == [r EXCEPT !.page = at, !.remote = FALSE,
                            !.srv = IF at \in InnerPages THEN addr ELSE None,
                            !.mtok = IF at \in InnerPages THEN r.tok ELSE None]
  <1>1. Mount(r, to, addr) = m
    BY DEF Mount
  <1>2. at \in Pages /\ (at \in InnerPages => addr # None /\ r.tok # None)
    BY DEF Admitted, Pages, InnerPages, AuthPages
  <1> HIDE DEF at
  <1>3. r.tok \in Perhaps(Token) /\ None \in Perhaps(Token) /\ None \in Perhaps(Servers)
    BY DEF Tab, Perhaps
  <1>4. m \in Tab
    BY <1>2, <1>3 DEF Tab, Perhaps
  <1>5. /\ m.page = at /\ m.tok = r.tok /\ m.who = r.who /\ m.pem = r.pem
        /\ m.srv = (IF at \in InnerPages THEN addr ELSE None)
        /\ m.mtok = (IF at \in InnerPages THEN r.tok ELSE None)
    BY DEF Tab
  <1>6. OnePerson(m, p)
    BY <1>5 DEF OnePerson
  <1>7. Memoised(m)
    BY <1>2, <1>5 DEF Memoised, InnerPages, Perhaps
  <1> QED BY <1>1, <1>4, <1>6, <1>7 DEF TabOK

\* navigate(page): the page of the tab, or a new one.
LEMMA GoOK ==
    ASSUME NEW p, NEW r \in Tab, OnePerson(r, p), NEW to \in Pages, NEW addr \in Perhaps(Servers),
           to = r.page => Memoised(r)
    PROVE  TabOK(IF to = r.page THEN r ELSE Mount(r, to, addr), p)
  BY MountOK DEF TabOK

LEMMA SignedInOK ==
    ASSUME NEW p, NEW r \in Tab, NEW token \in Token, NEW k \in Keys, p[Of(token)] = k
    PROVE  /\ SignedIn(r, token, k) \in Tab
           /\ OnePerson(SignedIn(r, token, k), p)
           /\ SignedIn(r, token, k).page = r.page
           /\ SignedIn(r, token, k).srv = r.srv
           /\ SignedIn(r, token, k).mtok = r.mtok
  <1>1. token # None /\ k # None /\ token.user \in Users
    BY NoneAssumption, AccountAssumption DEF Token
  <1> DEFINE n == [[r EXCEPT !.tok = token, !.who = token.user] EXCEPT !.pem = k]
  <1>2. SignedIn(r, token, k) = n
    BY <1>1 DEF SignedIn, WithPem, WithSession
  <1>3. /\ n \in Tab /\ n.tok = token /\ n.who = token.user /\ n.pem = k
        /\ n.page = r.page /\ n.srv = r.srv /\ n.mtok = r.mtok
    BY <1>1 DEF Tab, Perhaps
  <1> QED BY <1>1, <1>2, <1>3 DEF OnePerson

LEMMA ClearedOK ==
    ASSUME NEW p, NEW r \in Tab
    PROVE  /\ ClearSessionAndKey(r) \in Tab
           /\ OnePerson(ClearSessionAndKey(r), p)
           /\ ClearSessionAndKey(r).page = r.page
  <1> DEFINE n == [[r EXCEPT !.tok = None, !.who = None] EXCEPT !.pem = None]
  <1>1. ClearSessionAndKey(r) = n
    BY DEF ClearSessionAndKey, WithPem, WithSession
  <1>2. n \in Tab /\ n.tok = None /\ n.who = None /\ n.pem = None /\ n.page = r.page
    BY DEF Tab, Perhaps
  <1> QED BY <1>1, <1>2 DEF OnePerson

-----------------------------------------------------------------------------
(* What a step has to show.                                                *)

LEMMA Parts ==
    ASSUME AccountInv
    PROVE  /\ serverUrl \in Perhaps(Servers)
           /\ legacy \in Perhaps(Keys) /\ idb \in Perhaps(Keys)
           /\ tab \in [Tabs -> Tab] /\ call \in [Calls -> Perhaps(Call)]
           /\ pub \in [Accounts -> Perhaps(Keys)] /\ blob \in [Accounts -> Perhaps(Keys)]
           /\ passkeys \subseteq [srv : Servers, user : Users, key : Keys]
           /\ kept \subseteq Keys
           /\ \A t \in Tabs : tab[t] \in Tab /\ OnePerson(tab[t], pub) /\ Memoised(tab[t])
           /\ TabsOK(tab, pub) /\ CallsOK(call, pub, kept) /\ Extends(pub, pub)
           /\ \A c \in Calls : call[c] # None =>
                 call[c] \in Call /\ CallOK(call[c], pub, kept)
  BY DEF AccountInv, TypeOK, TabsOK, TabOK, CallsOK, CallOK, Extends

\* A step of the server.
LEMMA Assemble ==
    ASSUME AccountInv, Extends(pub, pub'), kept \subseteq kept', kept' \subseteq Keys,
           serverUrl' \in Perhaps(Servers),
           legacy' \in Perhaps(Keys), idb' \in Perhaps(Keys),
           pub' \in [Accounts -> Perhaps(Keys)], blob' \in [Accounts -> Perhaps(Keys)],
           passkeys' \subseteq [srv : Servers, user : Users, key : Keys],
           TabsOK(tab', pub), CallsOK(call', pub, kept'), PasskeysOK(passkeys', pub),
           \A a \in Accounts : pub'[a] # None => pub'[a] \in kept'
    PROVE  AccountInv'
  <1>1. TabsOK(tab', pub') /\ CallsOK(call', pub', kept')
    BY TabsKeep, CallsKeep
  <1>2. PasskeysOK(passkeys', pub')
    <2>1. ASSUME NEW q \in passkeys'
          PROVE  q.key = pub'[<<q.srv, q.user>>]
      <3>1. <<q.srv, q.user>> \in Accounts /\ q.key # None
        BY <2>1, AccountAssumption DEF Accounts
      <3>2. q.key = pub[<<q.srv, q.user>>]
        BY <2>1 DEF PasskeysOK
      <3> QED BY <3>1, <3>2 DEF Extends
    <2> QED BY <2>1 DEF PasskeysOK
  <1>3. TypeOK'
    BY <1>1 DEF TypeOK, TabsOK, CallsOK
  <1> QED BY <1>1, <1>2, <1>3 DEF AccountInv, AccountKeyWasKept

\* A step of the browser.
LEMMA BrowserMoves ==
    ASSUME AccountInv, UNCHANGED server, kept \subseteq kept', kept' \subseteq Keys,
           serverUrl' \in Perhaps(Servers),
           legacy' \in Perhaps(Keys), idb' \in Perhaps(Keys),
           TabsOK(tab', pub), CallsOK(call', pub, kept')
    PROVE  AccountInv'
  <1>1. pub' = pub /\ blob' = blob /\ passkeys' = passkeys
    BY DEF server
  <1>2. \A a \in Accounts : pub'[a] # None => pub'[a] \in kept'
    BY <1>1 DEF AccountInv, AccountKeyWasKept
  <1> QED BY <1>1, <1>2, Parts, Assemble DEF AccountInv

LEMMA TabStep ==
    ASSUME AccountInv, UNCHANGED <<server, kept>>, serverUrl' \in Perhaps(Servers),
           legacy' \in Perhaps(Keys), idb' \in Perhaps(Keys),
           TabsOK(tab', pub), CallsOK(call', pub, kept)
    PROVE  AccountInv'
  <1>1. kept' = kept /\ UNCHANGED server
    OBVIOUS
  <1> QED BY <1>1, Parts, BrowserMoves

-----------------------------------------------------------------------------
(* Tabs.                                                                   *)

LEMMA LoadOK ==
    ASSUME AccountInv, NEW t \in Tabs, NEW r \in Tab, OnePerson(r, pub), NEW to \in Pages,
           Load(t, r, to)
    PROVE  /\ TabsOK(tab', pub) /\ UNCHANGED <<server, kept>>
           /\ serverUrl' \in Perhaps(Servers)
           /\ legacy' \in Perhaps(Keys) /\ idb' \in Perhaps(Keys)
  <1>1. PICK k \in Perhaps(Keys) :
           /\ LoadKeystore(k)
           /\ tab' = [tab EXCEPT ![t] = Mount([r EXCEPT !.cache = k], to, serverUrl)]
    BY DEF Load
  <1>2. [r EXCEPT !.cache = k] \in Tab /\ OnePerson([r EXCEPT !.cache = k], pub)
    <2>1. [r EXCEPT !.cache = k] \in Tab
      BY DEF Tab
    <2> QED BY <2>1 DEF Tab, OnePerson
  <1>3. TabOK(Mount([r EXCEPT !.cache = k], to, serverUrl), pub)
    BY <1>2, Parts, MountOK
  <1>4. TabsOK(tab', pub)
    BY <1>1, <1>3, Parts, OneTabOK
  <1>5. legacy' \in Perhaps(Keys) /\ idb' \in Perhaps(Keys)
    BY <1>1, Parts DEF LoadKeystore, Perhaps
  <1> QED BY <1>4, <1>5, Parts DEF Load

LEMMA OpenTabKeeps ==
    ASSUME AccountInv, NEW t \in Tabs, OpenTab(t)
    PROVE  AccountInv'
  <1>1. PICK from \in Tabs, to \in Pages :
           Load(t, WithPem(WithSession(Closed, tab[from].tok), tab[from].pem), to)
    BY DEF OpenTab
  <1> DEFINE r == WithPem(WithSession(Closed, tab[from].tok), tab[from].pem)
             n == [[Closed EXCEPT !.tok = tab[from].tok,
                                  !.who = IF tab[from].tok = None THEN None ELSE tab[from].tok.user]
                      EXCEPT !.pem = tab[from].pem]
  <1>2. r = n
    BY DEF WithPem, WithSession
  <1>3. tab[from] \in Tab /\ OnePerson(tab[from], pub) /\ Closed \in Tab
    BY Parts, ClosedOK DEF TabOK
  <1>4. /\ tab[from].tok \in Perhaps(Token) /\ tab[from].pem \in Perhaps(Keys)
        /\ (IF tab[from].tok = None THEN None ELSE tab[from].tok.user) \in Perhaps(Users)
    BY <1>3 DEF Tab, Perhaps, Token
  <1>5. n \in Tab
    BY <1>3, <1>4 DEF Tab
  <1>6. /\ n.tok = tab[from].tok /\ n.pem = tab[from].pem
        /\ n.who = (IF tab[from].tok = None THEN None ELSE tab[from].tok.user)
    BY <1>3 DEF Tab
  <1>7. OnePerson(n, pub)
    BY <1>3, <1>6 DEF OnePerson
  <1>8. /\ TabsOK(tab', pub) /\ UNCHANGED <<server, kept>>
        /\ serverUrl' \in Perhaps(Servers)
        /\ legacy' \in Perhaps(Keys) /\ idb' \in Perhaps(Keys)
    BY <1>1, <1>2, <1>5, <1>7, LoadOK
  <1>9. call' = call
    BY DEF OpenTab
  <1> QED BY <1>8, <1>9, Parts, TabStep

LEMMA ReloadKeeps ==
    ASSUME AccountInv, NEW t \in Tabs, Reload(t)
    PROVE  AccountInv'
  <1>1. tab[t] \in Tab /\ OnePerson(tab[t], pub) /\ tab[t].page \in Pages
    BY Parts DEF Reload, Tab, Perhaps
  <1>2. /\ TabsOK(tab', pub) /\ UNCHANGED <<server, kept>>
        /\ serverUrl' \in Perhaps(Servers)
        /\ legacy' \in Perhaps(Keys) /\ idb' \in Perhaps(Keys)
    BY <1>1, LoadOK DEF Reload
  <1>3. CallsOK(call', pub, kept)
    BY Parts, DropOK DEF Reload
  <1> QED BY <1>2, <1>3, TabStep

LEMMA CloseTabKeeps ==
    ASSUME AccountInv, NEW t \in Tabs, CloseTab(t)
    PROVE  AccountInv'
  <1>1. TabsOK(tab', pub)
    BY Parts, ClosedOK, OneTabOK DEF CloseTab
  <1>2. CallsOK(call', pub, kept)
    BY Parts, DropOK DEF CloseTab
  <1> QED BY <1>1, <1>2, Parts, TabStep DEF CloseTab, browser

\* A page is left for another, with the session that r holds.
LEMMA LeaveOK ==
    ASSUME AccountInv, NEW t \in Tabs, NEW r \in Tab, OnePerson(r, pub),
           NEW to \in Pages, NEW addr \in Perhaps(Servers),
           tab' = [tab EXCEPT ![t] = Mount(r, to, addr)], call' = Unmount(t, to)
    PROVE  TabsOK(tab', pub) /\ CallsOK(call', pub, kept)
  <1>1. TabOK(Mount(r, to, addr), pub)
    BY MountOK
  <1> QED BY <1>1, Parts, OneTabOK, UnmountOK

LEMMA LeavingKeeps ==
    ASSUME AccountInv, NEW t \in Tabs,
           (\E to \in Pages : Navigate(t, to)) \/ Disconnect(t) \/ DisconnectServer(t)
    PROVE  AccountInv'
  <1>0. tab[t] \in Tab /\ OnePerson(tab[t], pub) /\ "connect" \in Pages /\ None \in Perhaps(Servers)
    BY Parts DEF Pages, AuthPages, Perhaps
  <1>1. ASSUME NEW to \in Pages, Navigate(t, to)
        PROVE  AccountInv'
    BY <1>0, <1>1, Parts, LeaveOK, TabStep DEF Navigate, browser
  <1>2. CASE Disconnect(t)
    BY <1>0, <1>2, Parts, LeaveOK, TabStep DEF Disconnect, ServerUrlIs
  <1>3. CASE DisconnectServer(t)
    <2>1. ClearSessionAndKey(tab[t]) \in Tab /\ OnePerson(ClearSessionAndKey(tab[t]), pub)
      BY <1>0, ClearedOK
    <2> QED BY <1>0, <1>3, <2>1, Parts, LeaveOK, TabStep DEF DisconnectServer, ServerUrlIs
  <1> QED BY <1>1, <1>2, <1>3

LEMMA ProbeKeeps ==
    ASSUME AccountInv, NEW t \in Tabs, ProbeBlob(t)
    PROVE  AccountInv'
  <1>1. TabOK([tab[t] EXCEPT !.remote = TRUE], pub)
    BY Parts, RemoteOK DEF TabsOK
  <1>2. tab' = [tab EXCEPT ![t] = [tab[t] EXCEPT !.remote = TRUE]]
    BY DEF ProbeBlob
  <1>3. TabsOK(tab', pub)
    BY <1>1, <1>2, Parts, OneTabOK
  <1> QED BY <1>3, Parts, TabStep DEF ProbeBlob, browser

LEMMA TabsMove ==
    ASSUME AccountInv, NEW t \in Tabs,
           \/ OpenTab(t) \/ Reload(t) \/ CloseTab(t)
           \/ Disconnect(t) \/ DisconnectServer(t) \/ ProbeBlob(t)
           \/ \E to \in Pages : Navigate(t, to)
    PROVE  AccountInv'
  BY OpenTabKeeps, ReloadKeeps, CloseTabKeeps, LeavingKeeps, ProbeKeeps

-----------------------------------------------------------------------------
(* Handlers, up to their request.                                          *)

LEMMA BeginKeeps ==
    ASSUME AccountInv, NEW c \in Calls, NEW t \in Tabs, NEW kind \in Kinds,
           NEW at \in {"begin", "fetch", "sent", "answered"}, NEW srv \in Servers,
           NEW token \in Perhaps(Token), NEW user \in Perhaps(Users), NEW k \in Perhaps(Keys),
           Begin(c, t, kind, at, srv, token, user, k),
           kind \in {"signup", "login"} => user \in Users,
           kind = "signup" => at = "begin",
           kind \in {"passkey", "pull"} => at = "sent",
           kind \in {"push", "pull", "delete", "enroll", "unenroll"} => token # None,
           kind = "enroll" => k # None /\ k = pub[Of(token)]
    PROVE  AccountInv'
  <1> DEFINE x == [kind |-> kind, tab |-> t, mounted |-> TRUE, at |-> at, srv |-> srv,
                   tok |-> token, user |-> user, key |-> k]
  <1>1. x \in Call
    BY DEF Call
  <1>2. CallOK(x, pub, kept)
    BY <1>1 DEF CallOK
  <1>3. call' = [call EXCEPT ![c] = x]
    BY DEF Begin
  <1>4. CallsOK(call', pub, kept)
    BY <1>2, <1>3, Parts, GoesOnOK
  <1>5. tab' = tab /\ UNCHANGED <<server, kept>> /\ UNCHANGED browser
    BY DEF Begin
  <1> QED BY <1>4, <1>5, Parts, TabStep DEF browser

\* What a mounted page hands its handlers.
LEMMA InnerPage ==
    ASSUME AccountInv, NEW t \in Tabs, tab[t].page \in InnerPages
    PROVE  /\ tab[t].srv \in Servers /\ tab[t].mtok \in Token
           /\ tab[t].page = "settings" =>
                 /\ tab[t].mtok = tab[t].tok
                 /\ tab[t].pem # None /\ tab[t].pem = pub[Of(tab[t].mtok)]
  <1>1. tab[t] \in Tab /\ OnePerson(tab[t], pub) /\ Memoised(tab[t])
    BY Parts
  <1>2. tab[t].mtok # None /\ tab[t].srv \in Servers
    BY <1>1 DEF Memoised
  <1> QED BY <1>1, <1>2 DEF Tab, Perhaps, OnePerson, Memoised

LEMMA AuthClicks ==
    ASSUME AccountInv, NEW c \in Calls, NEW t \in Tabs,
           \/ \E s \in Servers : ConnectSubmit(c, t, s)
           \/ \E u \in Users : SignupSubmit(c, t, u) \/ LoginSubmit(c, t, u)
           \/ PasskeySubmit(c, t)
    PROVE  AccountInv'
  <1>0. /\ None \in Perhaps(Token) /\ None \in Perhaps(Users) /\ None \in Perhaps(Keys)
        /\ {"connect", "signup", "login", "passkey"} \subseteq Kinds
        /\ serverUrl \in Perhaps(Servers) /\ tab[t].cache \in Perhaps(Keys)
        /\ \A u \in Users : u \in Perhaps(Users)
    BY Parts DEF Perhaps, Kinds, Tab
  <1>1. ASSUME NEW s \in Servers, ConnectSubmit(c, t, s)
        PROVE  AccountInv'
    BY <1>0, <1>1, BeginKeeps DEF ConnectSubmit
  <1>2. ASSUME NEW u \in Users, SignupSubmit(c, t, u)
        PROVE  AccountInv'
    <2>1. serverUrl \in Servers
      BY <1>0, <1>2 DEF SignupSubmit, SignupForm, Perhaps
    <2> QED BY <1>0, <1>2, <2>1, BeginKeeps DEF SignupSubmit
  <1>3. ASSUME NEW u \in Users, LoginSubmit(c, t, u)
        PROVE  AccountInv'
    <2>1. serverUrl \in Servers
      BY <1>0, <1>3 DEF LoginSubmit, LoginForm, Perhaps
    <2> DEFINE at == IF tab[t].cache = None THEN "fetch" ELSE "sent"
    <2>2. Begin(c, t, "login", at, serverUrl, None, u, tab[t].cache)
      BY <1>3 DEF LoginSubmit
    <2>3. at \in {"begin", "fetch", "sent", "answered"}
      OBVIOUS
    <2> HIDE DEF at
    <2> QED BY <1>0, <2>1, <2>2, <2>3, BeginKeeps
  <1>4. CASE PasskeySubmit(c, t)
    <2>1. serverUrl \in Servers
      BY <1>0, <1>4 DEF PasskeySubmit, LoginForm, Perhaps
    <2> QED BY <1>0, <1>4, <2>1, BeginKeeps DEF PasskeySubmit
  <1> QED BY <1>1, <1>2, <1>3, <1>4

LEMMA InnerClicks ==
    ASSUME AccountInv, NEW c \in Calls, NEW t \in Tabs,
           \/ LogoutClick(c, t)
           \/ \E kind \in {"push", "pull", "delete"} : KeyBlobClick(c, t, kind)
           \/ \E kind \in {"enroll", "unenroll"} : PasskeyClick(c, t, kind)
    PROVE  AccountInv'
  <1>0. /\ None \in Perhaps(Users) /\ None \in Perhaps(Keys)
        /\ {"logout", "push", "pull", "delete", "enroll", "unenroll"} \subseteq Kinds
        /\ tab[t].cache \in Perhaps(Keys) /\ tab[t].pem \in Perhaps(Keys)
        /\ "settings" \in InnerPages
        /\ \A x \in Token : x \in Perhaps(Token) /\ x # None
    BY Parts, NoneAssumption DEF Perhaps, Kinds, Tab, InnerPages
  <1>1. CASE LogoutClick(c, t)
    <2>1. tab[t].srv \in Servers /\ tab[t].mtok \in Token
      BY <1>1, InnerPage DEF LogoutClick
    <2> QED BY <1>0, <1>1, <2>1, BeginKeeps DEF LogoutClick
  <1>2. ASSUME NEW kind \in {"push", "pull", "delete"}, KeyBlobClick(c, t, kind)
        PROVE  AccountInv'
    <2>1. tab[t].srv \in Servers /\ tab[t].mtok \in Token
      BY <1>0, <1>2, InnerPage DEF KeyBlobClick, KeySection
    <2> DEFINE k == IF kind = "push" THEN tab[t].cache ELSE None
    <2>2. Begin(c, t, kind, "sent", tab[t].srv, tab[t].mtok, None, k)
      BY <1>2 DEF KeyBlobClick
    <2>3. k \in Perhaps(Keys) /\ kind \in Kinds /\ kind # "enroll" /\ kind \notin {"signup", "login"}
      BY <1>0
    <2> HIDE DEF k
    <2> QED BY <1>0, <2>1, <2>2, <2>3, BeginKeeps
  <1>3. ASSUME NEW kind \in {"enroll", "unenroll"}, PasskeyClick(c, t, kind)
        PROVE  AccountInv'
    <2>1. /\ tab[t].srv \in Servers /\ tab[t].mtok \in Token
          /\ tab[t].pem # None /\ tab[t].pem = pub[Of(tab[t].mtok)]
      BY <1>0, <1>3, InnerPage DEF PasskeyClick, PasskeySection
    <2> DEFINE k == IF kind = "enroll" THEN tab[t].pem ELSE None
    <2>2. Begin(c, t, kind, "sent", tab[t].srv, tab[t].mtok, None, k)
      BY <1>3 DEF PasskeyClick
    <2>3. /\ k \in Perhaps(Keys) /\ kind \in Kinds
          /\ kind \notin {"signup", "login", "passkey", "pull"}
          /\ kind = "enroll" => k # None /\ k = pub[Of(tab[t].mtok)]
      BY <1>0, <2>1
    <2> HIDE DEF k
    <2> QED BY <1>0, <2>1, <2>2, <2>3, BeginKeeps
  <1> QED BY <1>1, <1>2, <1>3

\* A handler goes on, and its tab with it: what the handler brings to the
\* keystore is a key.
LEMMA HandlerMoves ==
    ASSUME AccountInv, NEW c \in Calls, call[c] # None, UNCHANGED server,
           NEW k \in Keys, SetWrappedKey(k),
           tab' = [tab EXCEPT ![call[c].tab].cache = k],
           CallsOK(call', pub, kept')
    PROVE  AccountInv'
  <1> DEFINE t == call[c].tab
  <1>1. t \in Tabs /\ k \in Perhaps(Keys)
    BY Parts DEF Call, Perhaps
  <1>2. tab' = [tab EXCEPT ![t] = [tab[t] EXCEPT !.cache = k]]
    OBVIOUS
  <1>3. TabOK([tab[t] EXCEPT !.cache = k], pub)
    BY <1>1, Parts, CachedOK DEF TabsOK
  <1>4. TabsOK(tab', pub)
    <2>1. TabsOK([tab EXCEPT ![t] = [tab[t] EXCEPT !.cache = k]], pub)
      BY <1>3, Parts, OneTabOK
    <2> QED BY <1>2, <2>1
  <1>5. /\ kept \subseteq kept' /\ kept' \subseteq Keys /\ idb' \in Perhaps(Keys)
        /\ serverUrl' = serverUrl /\ legacy' = legacy
    BY <1>1, Parts DEF SetWrappedKey
  <1> QED BY <1>4, <1>5, Parts, BrowserMoves

LEMMA StoreKeeps ==
    ASSUME AccountInv, NEW c \in Calls,
           (\E k \in Keys : SignupStore(c, k)) \/ LoginFetch(c) \/ KeyBlobPulled(c)
    PROVE  AccountInv'
  <1>0. CallsOK(call, pub, kept) /\ Extends(pub, pub)
    BY Parts
  <1>1. ASSUME NEW k \in Keys, SignupStore(c, k)
        PROVE  AccountInv'
    <2> DEFINE x == [call[c] EXCEPT !.at = "sent", !.key = k]
    <2>1. call[c] \in Call /\ call[c].kind = "signup" /\ call[c].user \in Users
      BY <1>1, Parts DEF SignupStore, CallOK
    <2>2. kept' = kept \cup {k} /\ call' = [call EXCEPT ![c] = x]
      BY <1>1 DEF SignupStore, SetWrappedKey
    <2>3. x \in Call /\ x.kind = "signup" /\ x.user \in Users /\ x.key = k
      BY <2>1 DEF Call, Perhaps
    <2>4. CallOK(x, pub, kept')
      BY <2>2, <2>3 DEF CallOK
    <2>5. CallsOK(call, pub, kept')
      BY <1>0, <2>2, CallsKeep
    <2>6. CallsOK(call', pub, kept')
      BY <2>2, <2>4, <2>5, GoesOnOK
    <2> QED BY <1>1, <2>6, HandlerMoves DEF SignupStore
  <1>2. CASE LoginFetch(c)
    <2> DEFINE k == blob[<<call[c].srv, call[c].user>>]
               x == [call[c] EXCEPT !.at = "sent", !.key = k]
    <2>1. call[c] \in Call /\ call[c].kind = "login" /\ call[c].user \in Users
      BY <1>2, Parts DEF LoginFetch, CallOK
    <2>2. k \in Keys
      BY <1>2, <2>1, Parts DEF LoginFetch, Accounts, Call, Perhaps
    <2>3. SetWrappedKey(k) /\ call' = [call EXCEPT ![c] = x]
          /\ tab' = [tab EXCEPT ![call[c].tab].cache = k]
      BY <1>2 DEF LoginFetch
    <2>4. kept' = kept \cup {k}
      BY <2>3 DEF SetWrappedKey
    <2> HIDE DEF k
    <2>5. x \in Call /\ x.kind = "login" /\ x.user \in Users
      BY <2>1, <2>2 DEF Call, Perhaps
    <2>6. CallOK(x, pub, kept')
      BY <2>5 DEF CallOK
    <2>7. CallsOK(call, pub, kept')
      BY <1>0, <2>4, CallsKeep
    <2>8. CallsOK(call', pub, kept')
      BY <2>3, <2>6, <2>7, GoesOnOK
    <2> QED BY <1>2, <2>2, <2>3, <2>8, HandlerMoves DEF LoginFetch
  <1>3. CASE KeyBlobPulled(c)
    <2>1. call[c] # None /\ call[c].key \in Keys
      BY <1>3, Parts DEF KeyBlobPulled, At, CallOK, Call, Perhaps
    <2>2. kept' = kept \cup {call[c].key}
      BY <1>3 DEF KeyBlobPulled, SetWrappedKey
    <2>3. CallsOK(call', pub, kept')
      <3>1. CallsOK(call, pub, kept')
        BY <1>0, <2>2, CallsKeep
      <3> QED BY <1>3, <3>1, EndsOK DEF KeyBlobPulled
    <2> QED BY <1>3, <2>1, <2>3, HandlerMoves DEF KeyBlobPulled
  <1> QED BY <1>1, <1>2, <1>3

-----------------------------------------------------------------------------
(* What the handlers do with their answers.                                *)

\* navigate at the end of a handler, with what it made of its tab.
LEMMA GoKeeps ==
    ASSUME AccountInv, NEW c \in Calls, call[c] # None, NEW r \in Tab, OnePerson(r, pub),
           NEW to \in Pages, NEW addr \in Perhaps(Servers), to = r.page => Memoised(r),
           Go(call[c].tab, r, to, addr, c)
    PROVE  TabsOK(tab', pub) /\ CallsOK(call', pub, kept)
  <1> DEFINE t == call[c].tab
             m == IF to = r.page THEN r ELSE Mount(r, to, addr)
  <1>1. TabOK(m, pub)
    BY GoOK
  <1>2. tab' = [tab EXCEPT ![t] = m] /\ call' = [Unmount(t, to) EXCEPT ![c] = None]
    BY DEF Go
  <1> HIDE DEF m
  <1>3. TabsOK(tab', pub)
    BY <1>1, <1>2, Parts, OneTabOK
  <1>4. CallsOK(Unmount(t, to), pub, kept)
    BY Parts, UnmountOK
  <1> QED BY <1>2, <1>3, <1>4, EndsOK

LEMMA EnterKeeps ==
    ASSUME AccountInv, NEW c \in Calls, call[c] # None, NEW u \in Users, NEW k \in Keys,
           pub[<<call[c].srv, u>>] = k, EnterAs(c, u, k)
    PROVE  AccountInv'
  <1> DEFINE t == call[c].tab
             token == [srv |-> call[c].srv, user |-> u]
             r == SignedIn(tab[t], token, k)
  <1>1. t \in Tabs /\ call[c].srv \in Servers /\ token \in Token
    BY Parts DEF Call, Token
  <1>2. tab[t] \in Tab /\ Memoised(tab[t]) /\ pub[Of(token)] = k
    BY <1>1, Parts DEF Of
  <1>3. /\ r \in Tab /\ OnePerson(r, pub)
        /\ r.page = tab[t].page /\ r.srv = tab[t].srv /\ r.mtok = tab[t].mtok
    BY <1>1, <1>2, SignedInOK
  <1>4. Go(t, r, "dashboard", serverUrl, c) /\ UNCHANGED <<browser, server, kept>>
    BY DEF EnterAs
  <1> HIDE DEF r
  <1>5. "dashboard" = r.page => Memoised(r)
    BY <1>2, <1>3 DEF Memoised
  <1>6. TabsOK(tab', pub) /\ CallsOK(call', pub, kept)
    BY <1>3, <1>4, <1>5, Parts, GoKeeps DEF Pages, InnerPages
  <1> QED BY <1>4, <1>6, Parts, TabStep DEF browser

LEMMA SessionKeeps ==
    ASSUME AccountInv, NEW c \in Calls,
           Connected(c) \/ LoginVerified(c) \/ PasskeyEntered(c) \/ LoggedOut(c)
    PROVE  AccountInv'
  <1>1. CASE Connected(c)
    <2> DEFINE t == call[c].tab
               to == IF tab[t].cache = None THEN "signup" ELSE "login"
    <2>1. call[c] # None /\ call[c].srv \in Perhaps(Servers) /\ t \in Tabs
      BY <1>1, Parts DEF Connected, At, Call, Perhaps
    <2>2. tab[t] \in Tab /\ OnePerson(tab[t], pub) /\ Memoised(tab[t])
      BY <2>1, Parts
    <2>3. Go(t, tab[t], to, call[c].srv, c) /\ to \in Pages
      BY <1>1 DEF Connected, Pages, AuthPages
    <2> HIDE DEF to
    <2>4. TabsOK(tab', pub) /\ CallsOK(call', pub, kept)
      BY <2>1, <2>2, <2>3, GoKeeps
    <2> QED BY <1>1, <2>1, <2>4, Parts, TabStep DEF Connected, ServerUrlIs
  <1>2. CASE LoginVerified(c)
    <2>1. call[c] # None /\ call[c] \in Call /\ call[c].user \in Users
      BY <1>2, Parts DEF LoginVerified, At, CallOK
    <2>2. <<call[c].srv, call[c].user>> \in Accounts
      BY <2>1 DEF Call, Accounts
    <2>3. pub[<<call[c].srv, call[c].user>>] = call[c].key /\ call[c].key \in Keys
      BY <1>2, <2>2, Parts DEF LoginVerified, Verifies, Perhaps
    <2> QED BY <1>2, <2>1, <2>3, EnterKeeps DEF LoginVerified
  <1>3. CASE PasskeyEntered(c)
    <2>1. /\ call[c] # None /\ call[c] \in Call /\ call[c].user \in Users /\ call[c].key # None
          /\ pub[<<call[c].srv, call[c].user>>] = call[c].key
      BY <1>3, Parts DEF PasskeyEntered, At, CallOK
    <2>2. call[c].key \in Keys
      BY <2>1 DEF Call, Perhaps
    <2> QED BY <1>3, <2>1, <2>2, EnterKeeps DEF PasskeyEntered
  <1>4. CASE LoggedOut(c)
    <2> DEFINE t == call[c].tab
               r == ClearSessionAndKey(tab[t])
    <2>1. call[c] # None /\ t \in Tabs /\ None \in Perhaps(Servers) /\ "connect" \in Pages
      BY <1>4, Parts DEF LoggedOut, At, Call, Perhaps, Pages, AuthPages
    <2>2. r \in Tab /\ OnePerson(r, pub) /\ r.page = tab[t].page
      BY <2>1, Parts, ClearedOK
    <2>3. Go(t, r, "connect", None, c)
      BY <1>4 DEF LoggedOut
    <2> HIDE DEF r
    <2>4. "connect" = r.page => Memoised(r)
      BY DEF Memoised, InnerPages
    <2>5. TabsOK(tab', pub) /\ CallsOK(call', pub, kept)
      BY <2>1, <2>2, <2>3, <2>4, GoKeeps
    <2> QED BY <1>4, <2>1, <2>5, Parts, TabStep DEF LoggedOut, ServerUrlIs
  <1> QED BY <1>1, <1>2, <1>3, <1>4

-----------------------------------------------------------------------------
(* Steps of the server.                                                    *)

\* A handler waits for its next answer or is over; the browser keeps its state.
LEMMA CallStep ==
    ASSUME AccountInv, NEW c \in Calls, UNCHANGED <<browser, tab, server, kept>>,
           \/ call' = [call EXCEPT ![c] = None]
           \/ \E x : CallOK(x, pub, kept) /\ call' = [call EXCEPT ![c] = x]
    PROVE  AccountInv'
  <1>1. CallsOK(call', pub, kept)
    <2>1. CASE call' = [call EXCEPT ![c] = None]
      BY <2>1, Parts, EndsOK
    <2>2. ASSUME NEW x, CallOK(x, pub, kept), call' = [call EXCEPT ![c] = x]
          PROVE  CallsOK(call', pub, kept)
      BY <2>2, Parts, GoesOnOK
    <2> QED BY <2>1, <2>2
  <1>2. tab' = tab /\ UNCHANGED browser /\ UNCHANGED <<server, kept>>
    OBVIOUS
  <1> QED BY <1>1, <1>2, Parts, TabStep DEF browser

LEMMA ServedKeeps ==
    ASSUME AccountInv, NEW c \in Calls, Fail(c) \/ PasskeyServed(c) \/ KeyBlobServed(c)
    PROVE  AccountInv'
  <1>1. CASE Fail(c)
    BY <1>1, CallStep DEF Fail
  <1>2. CASE PasskeyServed(c)
    <2>1. PICK q \in Usable(call[c].srv) :
             call' = [call EXCEPT ![c].at = "answered", ![c].user = q.user, ![c].key = q.key]
      BY <1>2 DEF PasskeyServed
    <2> DEFINE x == [call[c] EXCEPT !.at = "answered", !.user = q.user, !.key = q.key]
    <2>2. call[c] \in Call /\ call[c].kind = "passkey"
      BY <1>2, Parts DEF PasskeyServed, At
    <2>3. q \in passkeys /\ q.srv = call[c].srv
      BY DEF Usable
    <2>4. /\ q.user \in Users /\ q.key \in Keys /\ q.key # None
          /\ q.key = pub[<<call[c].srv, q.user>>]
      BY <2>3, Parts, AccountAssumption DEF AccountInv, PasskeysOK
    <2>5. /\ x \in Call /\ x.kind = "passkey" /\ x.user = q.user /\ x.key = q.key
          /\ x.srv = call[c].srv
      BY <2>2, <2>4 DEF Call, Perhaps
    <2>6. CallOK(x, pub, kept)
      BY <2>4, <2>5 DEF CallOK
    <2>7. call' = [call EXCEPT ![c] = x]
      BY <2>1
    <2> QED BY <1>2, <2>6, <2>7, CallStep DEF PasskeyServed
  <1>3. CASE KeyBlobServed(c)
    <2> DEFINE k == blob[Caller(c)]
               x == [call[c] EXCEPT !.at = "answered", !.key = k]
    <2>1. call[c] \in Call /\ call[c].kind = "pull" /\ call[c].tok # None
      BY <1>3, Parts DEF KeyBlobServed, At, CallOK
    <2>2. Caller(c) \in Accounts
      BY <2>1 DEF Caller, Accounts, Call, Perhaps, Token
    <2>3. k \in Keys /\ k # None
      BY <1>3, <2>2, Parts DEF KeyBlobServed, Perhaps
    <2>4. call' = [call EXCEPT ![c] = x]
      BY <1>3 DEF KeyBlobServed
    <2> HIDE DEF k
    <2>5. x \in Call /\ x.kind = "pull" /\ x.key = k /\ x.tok = call[c].tok
      BY <2>1, <2>3 DEF Call, Perhaps
    <2>6. CallOK(x, pub, kept)
      BY <2>1, <2>3, <2>5 DEF CallOK
    <2> QED BY <1>3, <2>4, <2>6, CallStep DEF KeyBlobServed
  <1> QED BY <1>1, <1>2, <1>3

\* An account that was made keeps its key, and a new one has a key that the
\* keystore of the tab was given.
LEMMA SignupCreatesKeeps ==
    ASSUME AccountInv, NEW c \in Calls, call[c] # None, SignupCreates(c)
    PROVE  AccountInv'
  <1> DEFINE a == <<call[c].srv, call[c].user>>
             t == call[c].tab
  <1>1. /\ call[c] \in Call /\ call[c].user \in Users
        /\ call[c].key \in kept /\ call[c].key \in Keys
    BY Parts DEF SignupCreates, At, CallOK
  <1>2. a \in Accounts /\ t \in Tabs
    BY <1>1 DEF Accounts, Call
  <1>3. pub[a] = None /\ pub' = [pub EXCEPT ![a] = call[c].key]
    BY DEF SignupCreates, CreateUser
  <1>4. Extends(pub, pub') /\ pub' \in [Accounts -> Perhaps(Keys)]
    BY <1>1, <1>2, <1>3, Parts DEF Extends, Perhaps
  <1>5. \A b \in Accounts : pub'[b] # None => pub'[b] \in kept
    BY <1>1, <1>3, Parts DEF AccountInv, AccountKeyWasKept
  <1>6. TabsOK(tab', pub) /\ CallsOK(call', pub, kept)
    <2>1. CASE Go(t, tab[t], "login", serverUrl, c)
      <3>1. tab[t] \in Tab /\ OnePerson(tab[t], pub) /\ Memoised(tab[t]) /\ "login" \in Pages
        BY <1>2, Parts DEF Pages, AuthPages
      <3> QED BY <2>1, <3>1, Parts, GoKeeps
    <2>2. CASE call' = [call EXCEPT ![c] = None] /\ UNCHANGED tab
      BY <2>2, Parts, EndsOK
    <2> QED BY <2>1, <2>2 DEF SignupCreates
  <1>7. UNCHANGED <<browser, blob, passkeys, kept>>
    BY DEF SignupCreates
  <1>8. PasskeysOK(passkeys', pub)
    BY <1>7 DEF AccountInv
  <1>9. UNCHANGED <<serverUrl, legacy, idb, blob, passkeys, kept>>
    BY <1>7 DEF browser
  <1> QED BY <1>4, <1>5, <1>6, <1>8, <1>9, Parts, Assemble

LEMMA KeyBlobStoredKeeps ==
    ASSUME AccountInv, NEW c \in Calls, call[c] # None, KeyBlobStored(c)
    PROVE  AccountInv'
  <1> DEFINE t == call[c].tab
             b == call[c].kind = "push"
  <1>1. call[c] \in Call /\ call[c].tok # None
    BY Parts DEF KeyBlobStored, At, CallOK
  <1>2. Caller(c) \in Accounts /\ t \in Tabs /\ call[c].key \in Perhaps(Keys)
    BY <1>1 DEF Caller, Accounts, Call, Perhaps, Token
  <1>3. blob' \in [Accounts -> Perhaps(Keys)]
    BY <1>2, Parts DEF KeyBlobStored
  <1>4. tab' = [tab EXCEPT ![t] = [tab[t] EXCEPT !.remote = b]] \/ tab' = tab
    BY DEF KeyBlobStored
  <1>5. TabOK([tab[t] EXCEPT !.remote = b], pub)
    BY <1>2, Parts, RemoteOK DEF TabsOK
  <1>6. TabsOK(tab', pub)
    <2>1. TabsOK([tab EXCEPT ![t] = [tab[t] EXCEPT !.remote = b]], pub)
      BY <1>5, Parts, OneTabOK
    <2> QED BY <1>4, <2>1, Parts
  <1>7. CallsOK(call', pub, kept)
    BY Parts, EndsOK DEF KeyBlobStored
  <1>8. UNCHANGED <<serverUrl, legacy, idb, pub, passkeys, kept>>
    BY DEF KeyBlobStored, browser
  <1>9. PasskeysOK(passkeys', pub) /\ \A a \in Accounts : pub'[a] # None => pub'[a] \in kept'
    BY <1>8 DEF AccountInv, AccountKeyWasKept
  <1> QED BY <1>3, <1>6, <1>7, <1>8, <1>9, Parts, Assemble

LEMMA PasskeyFiledKeeps ==
    ASSUME AccountInv, NEW c \in Calls, call[c] # None, PasskeyFiled(c)
    PROVE  AccountInv'
  <1> DEFINE mine == [srv |-> call[c].srv, user |-> call[c].tok.user, key |-> call[c].key]
  <1>1. call[c] \in Call /\ call[c].tok # None /\ call[c].tok.srv = call[c].srv
    BY Parts DEF PasskeyFiled, At, CallOK, Accepted
  <1>2. call[c].srv \in Servers /\ call[c].tok \in Token /\ call[c].tok.user \in Users
    BY <1>1 DEF Call, Perhaps, Token
  <1>3. ASSUME call[c].kind = "enroll"
        PROVE  /\ mine \in [srv : Servers, user : Users, key : Keys]
               /\ mine.key = pub[<<mine.srv, mine.user>>]
    <2>1. call[c].key # None /\ call[c].key = pub[Of(call[c].tok)]
      BY <1>3, Parts DEF CallOK
    <2>2. call[c].key \in Keys
      BY <1>1, <2>1 DEF Call, Perhaps
    <2> QED BY <1>1, <1>2, <2>1, <2>2 DEF Of
  <1>4. \/ call[c].kind = "enroll" /\ passkeys' = passkeys \cup {mine}
        \/ passkeys' \subseteq passkeys
    BY DEF PasskeyFiled
  <1>5. /\ passkeys' \subseteq [srv : Servers, user : Users, key : Keys]
        /\ PasskeysOK(passkeys', pub)
    BY <1>3, <1>4, Parts DEF AccountInv, PasskeysOK
  <1>6. CallsOK(call', pub, kept)
    BY Parts, EndsOK DEF PasskeyFiled
  <1>7. UNCHANGED <<serverUrl, legacy, idb, tab, pub, blob, kept>>
    BY DEF PasskeyFiled, browser
  <1>8. \A a \in Accounts : pub'[a] # None => pub'[a] \in kept'
    BY <1>7 DEF AccountInv, AccountKeyWasKept
  <1> QED BY <1>5, <1>6, <1>7, <1>8, Parts, Assemble

-----------------------------------------------------------------------------
(* The theorems.                                                           *)

LEMMA InitInv == Init => AccountInv
  <1> SUFFICES ASSUME Init PROVE AccountInv
    OBVIOUS
  <1>1. /\ legacy \in Perhaps(Keys) /\ kept \subseteq Keys
        /\ pub \in [Accounts -> Perhaps(Keys)] /\ AccountKeyWasKept
    BY AccountAssumption DEF Init, Perhaps, AccountKeyWasKept
  <1>2. TabsOK(tab, pub)
    BY ClosedOK DEF Init, TabsOK, TabOK
  <1>3. CallsOK(call, pub, kept) /\ PasskeysOK(passkeys, pub)
    BY DEF Init, CallsOK, PasskeysOK, Perhaps
  <1>4. TypeOK
    BY <1>1, <1>2, <1>3 DEF Init, TypeOK, TabsOK, CallsOK, Perhaps
  <1> QED BY <1>1, <1>2, <1>3, <1>4 DEF AccountInv

LEMMA NextKeeps == AccountInv /\ [Next]_vars => AccountInv'
  <1> SUFFICES ASSUME AccountInv, [Next]_vars PROVE AccountInv'
    OBVIOUS
  <1>1. CASE UNCHANGED vars
    BY <1>1, Parts, TabStep DEF vars, server
  <1>2. ASSUME NEW t \in Tabs,
               \/ OpenTab(t) \/ Reload(t) \/ CloseTab(t)
               \/ Disconnect(t) \/ DisconnectServer(t) \/ ProbeBlob(t)
               \/ \E to \in Pages : Navigate(t, to)
        PROVE  AccountInv'
    BY <1>2, TabsMove
  <1>3. ASSUME NEW c \in Calls, NEW t \in Tabs,
               \/ \E s \in Servers : ConnectSubmit(c, t, s)
               \/ \E u \in Users : SignupSubmit(c, t, u) \/ LoginSubmit(c, t, u)
               \/ PasskeySubmit(c, t) \/ LogoutClick(c, t)
               \/ \E kind \in {"push", "pull", "delete"} : KeyBlobClick(c, t, kind)
               \/ \E kind \in {"enroll", "unenroll"} : PasskeyClick(c, t, kind)
        PROVE  AccountInv'
    BY <1>3, AuthClicks, InnerClicks
  <1>4. ASSUME NEW c \in Calls, NEW k \in Keys, SignupStore(c, k)
        PROVE  AccountInv'
    BY <1>4, StoreKeeps
  <1>5. ASSUME NEW c \in Calls,
               \/ LoginFetch(c) \/ Fail(c)
               \/ Connected(c) \/ SignupCreates(c) \/ LoginVerified(c)
               \/ PasskeyServed(c) \/ PasskeyEntered(c) \/ LoggedOut(c)
               \/ KeyBlobStored(c) \/ KeyBlobServed(c) \/ KeyBlobPulled(c) \/ PasskeyFiled(c)
        PROVE  AccountInv'
    <2>1. SignupCreates(c) \/ KeyBlobStored(c) \/ PasskeyFiled(c) => call[c] # None
      BY DEF SignupCreates, KeyBlobStored, PasskeyFiled, At
    <2> QED BY <1>5, <2>1, StoreKeeps, ServedKeeps, SessionKeeps, SignupCreatesKeeps,
               KeyBlobStoredKeeps, PasskeyFiledKeeps
  <1> QED BY <1>1, <1>2, <1>3, <1>4, <1>5 DEF Next

\* The invariant holds in every behaviour, whatever the number of tabs, of
\* handlers that finish late, of servers and of accounts.
THEOREM Invariance == Spec => []AccountInv
  BY InitInv, NextKeeps, PTL DEF Spec

\* A tab never mixes the session of one account with the key of another
\* (login.tsx, settings.tsx, key-cache.ts).
THEOREM OnePersonAlways == Spec => []SessionIsOnePerson
  <1>1. AccountInv => SessionIsOnePerson
    BY Parts DEF AccountInv, SessionIsOnePerson, OnePerson, Of
  <1> QED BY <1>1, Invariance, PTL

\* A passkey opens to the key of the account it is filed under (passkey.ts).
THEOREM PasskeyOpensOwnKeyAlways == Spec => []PasskeyOpensOwnKey
  <1>1. AccountInv => PasskeyOpensOwnKey
    BY DEF AccountInv, PasskeysOK, PasskeyOpensOwnKey
  <1> QED BY <1>1, Invariance, PTL

\* No account is stranded without the key that opens it (signup.tsx).
THEOREM AccountKeyWasKeptAlways == Spec => []AccountKeyWasKept
  <1>1. AccountInv => AccountKeyWasKept
    BY DEF AccountInv
  <1> QED BY <1>1, Invariance, PTL

-----------------------------------------------------------------------------
(* InstallBuilder.                                                         *)

Fields == UrlFields \cup CredKeys

\* What a field may hold.
Typed(f, v) == /\ f \in DOMAIN Choices => v \in Choices[f]
               /\ f \in Flags => v \in BOOLEAN
               /\ f \in Numbers => v \in Int
               /\ f \in CredKeys => v \in Secrets \cup {None}

\* A state of the page, or a part of one.
Part(s, S) == DOMAIN s = S /\ \A f \in S : Typed(f, s[f])
Whole(s) == Part(s, Fields) /\ s = [f \in Fields |-> s[f]]

\* The typed credentials of a state.
Held(s) == {s[k] : k \in CredKeys} \ {None}

\* The two entries hold what effects wrote: typed fields, and credentials that
\* nobody forgot.
EntriesFine ==
    /\ config = NoEntry \/ Part(config, UrlFields)
    /\ DOMAIN creds \subseteq CredKeys /\ \A k \in DOMAIN creds : creds[k] \in live

\* The inductive invariant of the builder: a tab whose effect has run shows its
\* state in its URL, and a credential that a page or an entry holds is live.
BuilderInv ==
    /\ BuilderTypeOK /\ EntriesFine
    /\ state = [t \in Tabs |-> state[t]] /\ \A t \in Tabs : Whole(state[t])
    /\ url = [t \in Tabs |-> url[t]] /\ \A t \in Tabs : Query(url[t])
    /\ \A t \in open \ due : url[t] = EncodeStateToUrl(state[t])
    /\ \A t \in open : Held(state[t]) \subseteq live

-----------------------------------------------------------------------------
\* Fields, states and what is made of them.

LEMMA FieldKinds ==
    /\ Fields = UrlFields \cup CredKeys /\ UrlFields \cap CredKeys = {}
    /\ UrlFields = DOMAIN Choices \cup Flags \cup Numbers \cup Texts
    /\ DOMAIN Choices \cap (Flags \cup Numbers \cup Texts) = {}
    /\ Flags \cap (Numbers \cup Texts) = {} /\ Numbers \cap Texts = {}
  BY DEF Fields, UrlFields, CredKeys, Choices, Flags, Numbers, Texts

LEMMA Spreading ==
    ASSUME NEW base, NEW over
    PROVE  /\ DOMAIN Spread(base, over) = DOMAIN base \cup DOMAIN over
           /\ Spread(base, over) = [f \in DOMAIN base \cup DOMAIN over |-> Spread(base, over)[f]]
           /\ \A f \in DOMAIN over : Spread(base, over)[f] = over[f]
           /\ \A f \in DOMAIN base \ DOMAIN over : Spread(base, over)[f] = base[f]
  BY DEF Spread

LEMMA Restricting ==
    ASSUME NEW s, NEW S
    PROVE  DOMAIN Restrict(s, S) = S /\ \A f \in S : Restrict(s, S)[f] = s[f]
  BY DEF Restrict

\* A number of a link is parsed to the nearest positive integer.
LEMMA ParsesToNearest ==
    ASSUME NEW n \in Int
    PROVE  ParsePositiveInt(n) \in Int /\ ComesBackAs(n, ParsePositiveInt(n))
  <1>1. PICK q \in Int : q = (n + 5) \div 10 /\ 10 * q <= n + 5 /\ n + 5 < 10 * q + 10
    OBVIOUS
  <1>2. Rounded(n) = 10 * q
    BY <1>1 DEF Rounded
  <1>3. CASE q < 1
    <2>1. ParsePositiveInt(n) = 10 /\ n < 5
      BY <1>1, <1>2, <1>3 DEF ParsePositiveInt
    <2> QED BY <2>1 DEF ComesBackAs
  <1>4. CASE q >= 1
    <2>1. ParsePositiveInt(n) = 10 * q
      BY <1>2, <1>4 DEF ParsePositiveInt
    <2>2. (10 * q) % 10 = 0
      OBVIOUS
    <2>3. 10 * q >= 10 /\ 10 * q - n \in -4..5
      BY <1>1, <1>4
    <2> QED BY <2>1, <2>2, <2>3 DEF ComesBackAs
  <1> QED BY <1>3, <1>4

\* What the page starts with is typed, its numbers parse to themselves, it holds no
\* credential.
LEMMA DefaultFits ==
    /\ Whole(DefaultInstallState)
    /\ \A f \in Numbers : ParsePositiveInt(DefaultInstallState[f]) = DefaultInstallState[f]
    /\ \A k \in CredKeys : DefaultInstallState[k] = None
    /\ Held(DefaultInstallState) = {}
  <1> DEFINE base == [k \in CredKeys |-> None]
             given == [runMode |-> "compose", db |-> "postgres", storage |-> "local", image |-> "slim",
     bucket |-> "vellaris-blobs", endpoint |-> "", dbHost |-> "postgres",
     dbPort |-> "5432", dbName |-> "vellaris", dbUser |-> "vellaris",
     credsMode |-> "export", advancedOpen |-> FALSE, maxUploadMb |-> 1000,
     rateLimitPerMin |-> 1200, rateLimitBurst |-> 200, sessionTtlHours |-> 80,
     challengeTtlMin |-> 50, corsOrigins |-> "*", auditKeyMode |-> "generate",
     auditKeyPath |-> "/secrets/vellaris-audit-key", autoMigrate |-> TRUE,
     replicas |-> 10, proxyMode |-> "none", proxyHostname |-> "vault.example.com",
     tlsMode |-> "off", tlsCertPath |-> "/certs/cert.pem",
     tlsKeyPath |-> "/certs/key.pem", webauthnSpaHost |-> ""]
  <1>1. DefaultInstallState = Spread(base, given)
    BY DEF DefaultInstallState
  <1>2. DOMAIN given = UrlFields
    BY DEF UrlFields, Choices, Flags, Numbers, Texts
  <1>3. \A f \in DOMAIN Choices : given[f] \in Choices[f]
    <2>1. /\ given.runMode \in Choices.runMode /\ given.db \in Choices.db
          /\ given.storage \in Choices.storage /\ given.image \in Choices.image
          /\ given.credsMode \in Choices.credsMode /\ given.auditKeyMode \in Choices.auditKeyMode
          /\ given.proxyMode \in Choices.proxyMode /\ given.tlsMode \in Choices.tlsMode
      BY DEF Choices, RunModes
    <2>2. DOMAIN Choices = {"runMode", "db", "storage", "image", "credsMode", "auditKeyMode",
                            "proxyMode", "tlsMode"}
      BY DEF Choices
    <2> HIDE DEF given
    <2> QED BY <2>1, <2>2
  <1>4. \A f \in Flags : given[f] \in BOOLEAN
    <2>1. given.advancedOpen \in BOOLEAN /\ given.autoMigrate \in BOOLEAN
      OBVIOUS
    <2> HIDE DEF given
    <2> QED BY <2>1 DEF Flags
  <1>5. \A f \in Numbers : given[f] \in Int /\ ParsePositiveInt(given[f]) = given[f]
    <2>1. /\ given.maxUploadMb = 1000 /\ given.rateLimitPerMin = 1200
          /\ given.rateLimitBurst = 200 /\ given.sessionTtlHours = 80
          /\ given.challengeTtlMin = 50 /\ given.replicas = 10
      OBVIOUS
    <2> HIDE DEF given
    <2>2. \A n \in {10, 50, 80, 200, 1000, 1200} : n \in Int /\ ParsePositiveInt(n) = n
      BY DEF ParsePositiveInt, Rounded
    <2> QED BY <2>1, <2>2 DEF Numbers
  <1>6. \A k \in CredKeys : base[k] = None
    OBVIOUS
  <1>7. DOMAIN base = CredKeys
    OBVIOUS
  <1> HIDE DEF base, given
  <1>8. /\ DOMAIN DefaultInstallState = Fields
        /\ DefaultInstallState = [f \in Fields |-> DefaultInstallState[f]]
        /\ \A f \in UrlFields : DefaultInstallState[f] = given[f]
        /\ \A k \in CredKeys : DefaultInstallState[k] = None
    <2> DEFINE d == Spread(base, given)
    <2>1. /\ DOMAIN d = DOMAIN base \cup DOMAIN given
          /\ d = [f \in DOMAIN base \cup DOMAIN given |-> d[f]]
          /\ \A f \in DOMAIN given : d[f] = given[f]
          /\ \A f \in DOMAIN base \ DOMAIN given : d[f] = base[f]
      BY Spreading
    <2> HIDE DEF d
    <2>2. DOMAIN base \cup DOMAIN given = Fields /\ CredKeys = DOMAIN base \ DOMAIN given
      BY <1>2, <1>7, FieldKinds
    <2>3. /\ DOMAIN d = Fields /\ d = [f \in Fields |-> d[f]]
          /\ \A f \in UrlFields : d[f] = given[f]
          /\ \A k \in CredKeys : d[k] = None
      BY <1>2, <1>6, <2>1, <2>2
    <2> QED BY <1>1, <2>3 DEF d
  <1>9. \A f \in Fields : Typed(f, DefaultInstallState[f])
    BY <1>3, <1>4, <1>5, <1>8, FieldKinds DEF Typed
  <1>10. Whole(DefaultInstallState)
    BY <1>8, <1>9 DEF Whole, Part
  <1>11. \A f \in Numbers : ParsePositiveInt(DefaultInstallState[f]) = DefaultInstallState[f]
    BY <1>5, <1>8, FieldKinds
  <1>12. Held(DefaultInstallState) = {}
    BY <1>8 DEF Held
  <1> QED BY <1>8, <1>10, <1>11, <1>12

\* A parameter sets its field to something the field may hold.
LEMMA ParsedFits ==
    ASSUME NEW f \in UrlFields, NEW raw, f \in Numbers => raw \in Int \cup {Garbage}
    PROVE  Typed(f, Parsed(f, raw))
  <1>1. Typed(f, DefaultInstallState[f])
    BY DefaultFits, FieldKinds DEF Whole, Part
  <1>2. f \notin CredKeys
    BY FieldKinds
  <1>3. CASE f \in Texts
    BY <1>3, <1>2, FieldKinds DEF Typed
  <1>4. CASE f \in DOMAIN Choices
    <2>1. CASE raw \in Choices[f]
      BY <1>4, <2>1, <1>2, FieldKinds DEF Parsed, Typed
    <2>2. CASE raw \notin Choices[f]
      <3>1. Parsed(f, raw) = DefaultInstallState[f]
        BY <1>4, <2>2, FieldKinds DEF Parsed
      <3> QED BY <1>1, <3>1
    <2> QED BY <2>1, <2>2
  <1>5. CASE f \in Flags
    <2>1. CASE raw \in BOOLEAN
      <3>1. Parsed(f, raw) = raw
        BY <1>5, <2>1, FieldKinds DEF Parsed
      <3> QED BY <1>5, <2>1, <3>1, <1>2, FieldKinds DEF Typed
    <2>2. CASE raw \notin BOOLEAN
      <3>1. Parsed(f, raw) = DefaultInstallState[f]
        BY <1>5, <2>2, FieldKinds DEF Parsed
      <3> QED BY <1>1, <3>1
    <2> QED BY <2>1, <2>2
  <1>6. CASE f \in Numbers
    <2>1. CASE raw = Garbage
      <3>1. Parsed(f, raw) = DefaultInstallState[f]
        BY <1>6, <2>1, FieldKinds DEF Parsed
      <3> QED BY <1>1, <3>1
    <2>2. CASE raw # Garbage
      <3>1. Parsed(f, raw) = ParsePositiveInt(raw) /\ raw \in Int
        BY <1>6, <2>2, FieldKinds DEF Parsed
      <3>2. ParsePositiveInt(raw) \in Int
        BY <3>1, ParsesToNearest
      <3> QED BY <1>6, <3>1, <3>2, <1>2, FieldKinds DEF Typed
    <2> QED BY <2>1, <2>2
  <1> QED BY <1>3, <1>4, <1>5, <1>6, FieldKinds

\* What a query string makes of the page.
LEMMA DecodeFits ==
    ASSUME NEW search, Query(search)
    PROVE  /\ Part(DecodeStateFromUrl(search), UrlFields)
           /\ \A f \in DOMAIN search : DecodeStateFromUrl(search)[f] = Parsed(f, search[f])
           /\ \A f \in UrlFields \ DOMAIN search :
                 DecodeStateFromUrl(search)[f] = DefaultInstallState[f]
  <1> DEFINE base == Restrict(DefaultInstallState, UrlFields)
             over == [f \in DOMAIN search |-> Parsed(f, search[f])]
  <1>1. DOMAIN base = UrlFields /\ \A f \in UrlFields : base[f] = DefaultInstallState[f]
    BY Restricting
  <1>2. DOMAIN over = DOMAIN search /\ \A f \in DOMAIN search : over[f] = Parsed(f, search[f])
    OBVIOUS
  <1>3. DecodeStateFromUrl(search) = Spread(base, over)
    BY DEF DecodeStateFromUrl
  <1>4. DOMAIN search \subseteq UrlFields
    BY DEF Query
  <1> HIDE DEF base, over
  <1>5. /\ DOMAIN Spread(base, over) = UrlFields
        /\ \A f \in DOMAIN search : Spread(base, over)[f] = Parsed(f, search[f])
        /\ \A f \in UrlFields \ DOMAIN search : Spread(base, over)[f] = DefaultInstallState[f]
    <2> DEFINE d == Spread(base, over)
    <2>1. /\ DOMAIN d = DOMAIN base \cup DOMAIN over
          /\ d = [f \in DOMAIN base \cup DOMAIN over |-> d[f]]
          /\ \A f \in DOMAIN over : d[f] = over[f]
          /\ \A f \in DOMAIN base \ DOMAIN over : d[f] = base[f]
      BY Spreading
    <2> HIDE DEF d
    <2>2. DOMAIN base \cup DOMAIN over = UrlFields
      BY <1>1, <1>2, <1>4
    <2>3. /\ DOMAIN d = UrlFields
          /\ \A f \in DOMAIN search : d[f] = Parsed(f, search[f])
          /\ \A f \in UrlFields \ DOMAIN search : d[f] = DefaultInstallState[f]
      BY <1>1, <1>2, <2>1, <2>2
    <2> QED BY <2>3 DEF d
  <1>6. ASSUME NEW f \in UrlFields PROVE Typed(f, Spread(base, over)[f])
    <2>1. CASE f \in DOMAIN search
      <3>1. f \in Numbers => search[f] \in Int \cup {Garbage}
        BY <2>1 DEF Query
      <3>2. Typed(f, Parsed(f, search[f]))
        BY <3>1, ParsedFits
      <3> QED BY <2>1, <3>2, <1>5
    <2>2. CASE f \notin DOMAIN search
      <3>1. Typed(f, DefaultInstallState[f])
        BY DefaultFits, FieldKinds DEF Whole, Part
      <3> QED BY <2>2, <3>1, <1>5
    <2> QED BY <2>1, <2>2
  <1> QED BY <1>3, <1>5, <1>6 DEF Part

\* The query string of a state.
LEMMA EncodeFits ==
    ASSUME NEW s, Whole(s)
    PROVE  /\ Query(EncodeStateToUrl(s))
           /\ \A f \in UrlFields : f \in DOMAIN EncodeStateToUrl(s)
                 <=> s[f] # DefaultInstallState[f] /\ (f \in Texts => s[f] # "")
           /\ \A f \in DOMAIN EncodeStateToUrl(s) : EncodeStateToUrl(s)[f] = s[f]
  <1> DEFINE S == {f \in UrlFields : s[f] # DefaultInstallState[f] /\ (f \in Texts => s[f] # "")}
  <1>1. EncodeStateToUrl(s) = Restrict(s, S)
    BY DEF EncodeStateToUrl
  <1>2. DOMAIN Restrict(s, S) = S /\ \A f \in S : Restrict(s, S)[f] = s[f]
    BY Restricting
  <1>3. \A f \in Numbers : s[f] \in Int
    BY FieldKinds DEF Whole, Part, Typed
  <1>4. /\ S \subseteq UrlFields
        /\ \A f \in UrlFields : f \in S
              <=> s[f] # DefaultInstallState[f] /\ (f \in Texts => s[f] # "")
    OBVIOUS
  <1> DEFINE q == Restrict(s, S)
  <1> HIDE DEF S
  <1>5. DOMAIN q = S /\ \A f \in S : q[f] = s[f]
    BY <1>2
  <1> HIDE DEF q
  <1>6. Query(q)
    <2>1. DOMAIN q \subseteq UrlFields
      BY <1>4, <1>5
    <2>2. ASSUME NEW f \in DOMAIN q \cap Numbers PROVE q[f] \in Int
      BY <1>3, <1>5
    <2> QED BY <2>1, <2>2 DEF Query
  <1>7. EncodeStateToUrl(s) = q
    BY <1>1 DEF q
  <1> QED BY <1>4, <1>5, <1>6, <1>7

\* And back.
LEMMA RoundTrip ==
    ASSUME NEW s, Whole(s), NEW f \in UrlFields
    PROVE  DecodeStateFromUrl(EncodeStateToUrl(s))[f] =
               CASE f \in Texts /\ s[f] = "" -> DefaultInstallState[f]
                 [] f \in Numbers -> ParsePositiveInt(s[f])
                 [] OTHER -> s[f]
  <1> DEFINE q == EncodeStateToUrl(s)
  <1>1. /\ Query(q) /\ \A g \in DOMAIN q : q[g] = s[g]
        /\ f \in DOMAIN q <=> s[f] # DefaultInstallState[f] /\ (f \in Texts => s[f] # "")
    BY EncodeFits
  <1> HIDE DEF q
  <1> SUFFICES DecodeStateFromUrl(q)[f] =
                   CASE f \in Texts /\ s[f] = "" -> DefaultInstallState[f]
                     [] f \in Numbers -> ParsePositiveInt(s[f])
                     [] OTHER -> s[f]
    BY DEF q
  <1>a. /\ f \in DOMAIN q => DecodeStateFromUrl(q)[f] = Parsed(f, q[f])
        /\ f \notin DOMAIN q => DecodeStateFromUrl(q)[f] = DefaultInstallState[f]
    BY <1>1, DecodeFits
  <1>2. Typed(f, s[f])
    BY FieldKinds DEF Whole, Part
  <1>3. CASE f \in DOMAIN q
    <2>1. DecodeStateFromUrl(q)[f] = Parsed(f, s[f]) /\ (f \in Texts => s[f] # "")
      BY <1>1, <1>a, <1>3
    <2>2. CASE f \in Texts
      <3>1. Parsed(f, s[f]) = s[f]
        BY <2>2, FieldKinds DEF Parsed
      <3> QED BY <2>1, <2>2, <3>1, FieldKinds
    <2>3. CASE f \in DOMAIN Choices \cup Flags
      <3>1. Parsed(f, s[f]) = s[f]
        BY <2>3, <1>2, FieldKinds DEF Parsed, Typed
      <3> QED BY <2>1, <2>3, <3>1, FieldKinds
    <2>4. CASE f \in Numbers
      <3>1. s[f] \in Int /\ s[f] # Garbage
        BY <2>4, <1>2, LinksAssumption DEF Typed
      <3>2. Parsed(f, s[f]) = ParsePositiveInt(s[f])
        BY <2>4, <3>1, FieldKinds DEF Parsed
      <3> QED BY <2>1, <2>4, <3>2, FieldKinds
    <2> QED BY <2>2, <2>3, <2>4, FieldKinds
  <1>4. CASE f \notin DOMAIN q
    <2>1. DecodeStateFromUrl(q)[f] = DefaultInstallState[f]
      BY <1>a, <1>4
    <2>2. s[f] = DefaultInstallState[f] \/ (f \in Texts /\ s[f] = "")
      BY <1>1, <1>4
    <2>3. CASE f \in Numbers
      <3>1. s[f] = DefaultInstallState[f]
        BY <2>2, <2>3, FieldKinds
      <3>2. ParsePositiveInt(DefaultInstallState[f]) = DefaultInstallState[f]
        BY <2>3, DefaultFits
      <3> QED BY <2>1, <2>3, <3>1, <3>2, FieldKinds
    <2> QED BY <2>1, <2>2, <2>3, FieldKinds
  <1> QED BY <1>3, <1>4

\* A page that opens shows a typed state, with the stored credentials.
LEMMA MergedFits ==
    ASSUME NEW search, Query(search), EntriesFine, live \subseteq Secrets
    PROVE  Whole(Merged(search)) /\ Held(Merged(search)) \subseteq live
  <1> DEFINE link == IF search = NoEntry THEN NoEntry ELSE DecodeStateFromUrl(search)
             a == Spread(DefaultInstallState, config)
             b == Spread(a, link)
             m == Spread(b, creds)
  <1>1. Merged(search) = m
    BY DEF Merged
  <1>2. DOMAIN NoEntry = {}
    BY DEF NoEntry
  <1>3. /\ DOMAIN config \subseteq UrlFields
        /\ \A f \in DOMAIN config : Typed(f, config[f])
    BY <1>2 DEF EntriesFine, Part
  <1>4. /\ DOMAIN link \subseteq UrlFields
        /\ \A f \in DOMAIN link : Typed(f, link[f])
    <2>1. Part(DecodeStateFromUrl(search), UrlFields)
      BY DecodeFits
    <2> QED BY <1>2, <2>1 DEF Part
  <1> HIDE DEF link
  <1>5. /\ DOMAIN DefaultInstallState = Fields
        /\ \A f \in Fields : Typed(f, DefaultInstallState[f])
        /\ \A k \in CredKeys : DefaultInstallState[k] = None
    BY DefaultFits DEF Whole, Part
  <1>6. /\ DOMAIN a = Fields /\ \A f \in Fields : Typed(f, a[f])
        /\ \A k \in CredKeys : a[k] = None
    <2>1. /\ DOMAIN a = DOMAIN DefaultInstallState \cup DOMAIN config
          /\ a = [f \in DOMAIN DefaultInstallState \cup DOMAIN config |-> a[f]]
          /\ \A f \in DOMAIN config : a[f] = config[f]
          /\ \A f \in DOMAIN DefaultInstallState \ DOMAIN config : a[f] = DefaultInstallState[f]
      BY Spreading
    <2> HIDE DEF a
    <2> QED BY <1>3, <1>5, <2>1, FieldKinds
  <1> HIDE DEF a
  <1>7. /\ DOMAIN b = Fields /\ \A f \in Fields : Typed(f, b[f])
        /\ \A k \in CredKeys : b[k] = None
    <2>1. /\ DOMAIN b = DOMAIN a \cup DOMAIN link
          /\ b = [f \in DOMAIN a \cup DOMAIN link |-> b[f]]
          /\ \A f \in DOMAIN link : b[f] = link[f]
          /\ \A f \in DOMAIN a \ DOMAIN link : b[f] = a[f]
      BY Spreading
    <2> HIDE DEF b
    <2> QED BY <1>4, <1>6, <2>1, FieldKinds
  <1> HIDE DEF b
  <1>8. DOMAIN creds \subseteq CredKeys /\ \A k \in DOMAIN creds : creds[k] \in live
    BY DEF EntriesFine
  <1>9. /\ DOMAIN m = Fields /\ m = [f \in Fields |-> m[f]]
        /\ \A f \in Fields \ DOMAIN creds : m[f] = b[f]
        /\ \A k \in DOMAIN creds : m[k] = creds[k]
    <2>1. /\ DOMAIN m = DOMAIN b \cup DOMAIN creds
          /\ m = [f \in DOMAIN b \cup DOMAIN creds |-> m[f]]
          /\ \A f \in DOMAIN creds : m[f] = creds[f]
          /\ \A f \in DOMAIN b \ DOMAIN creds : m[f] = b[f]
      BY Spreading
    <2> HIDE DEF m
    <2>2. DOMAIN b \cup DOMAIN creds = Fields
      BY <1>7, <1>8, FieldKinds
    <2> QED BY <1>7, <2>1, <2>2
  <1> HIDE DEF m
  <1>10. ASSUME NEW f \in Fields PROVE Typed(f, m[f])
    <2>1. CASE f \in DOMAIN creds
      BY <1>8, <1>9, <2>1, FieldKinds DEF Typed
    <2> QED BY <1>7, <1>9, <2>1
  <1>11. Whole(m)
    BY <1>9, <1>10 DEF Whole, Part
  <1>12. \A k \in CredKeys : m[k] = None \/ m[k] \in live
    BY <1>7, <1>8, <1>9, FieldKinds
  <1> QED BY <1>1, <1>11, <1>12 DEF Held

\* What an effect writes.
LEMMA SavedFits ==
    ASSUME NEW s, Whole(s), Held(s) \subseteq live'
    PROVE  /\ Part(SaveConfig(s), UrlFields)
           /\ DOMAIN SaveCreds(s) \subseteq CredKeys
           /\ \A k \in DOMAIN SaveCreds(s) : SaveCreds(s)[k] \in live'
  <1>1. DOMAIN s = Fields /\ \A f \in Fields : Typed(f, s[f])
    BY DEF Whole, Part
  <1>2. Part(SaveConfig(s), UrlFields)
    <2>1. DOMAIN s \ CredKeys = UrlFields
      BY <1>1, FieldKinds
    <2>2. DOMAIN SaveConfig(s) = UrlFields /\ \A f \in UrlFields : SaveConfig(s)[f] = s[f]
      BY <2>1, Restricting DEF SaveConfig
    <2> QED BY <1>1, <2>2, FieldKinds DEF Part
  <1>3. \A k \in {j \in CredKeys : s[j] # None} : s[k] \in live'
    BY DEF Held
  <1>4. /\ DOMAIN SaveCreds(s) = {j \in CredKeys : s[j] # None}
        /\ \A k \in {j \in CredKeys : s[j] # None} : SaveCreds(s)[k] = s[k]
    BY Restricting DEF SaveCreds
  <1> QED BY <1>2, <1>3, <1>4

-----------------------------------------------------------------------------
\* The snippets of a state.

\* The variables that the block above the commands sets.
Exported(s) == {l.var : l \in GenerateExportBlock(s)}

\* Lines that show a credential in inline mode only, and refer to what is set.
Sound(lines, s) ==
    \A l \in lines : /\ l.value.secret \in Secrets => Inline(s)
                     /\ l.value.ref # None => l.value.ref \in Exported(s)

LEMMA Values ==
    ASSUME NEW x
    PROVE  /\ Literal.ref = None /\ Literal.secret = None
           /\ Ref(x).ref = x /\ Ref(x).secret = None
           /\ Given(x).ref = None /\ Given(x).secret = x
           /\ \A v : Line(v, x).var = v /\ Line(v, x).value = x
  BY DEF Literal, Ref, Given, Line

\* What may be given a variable.
Fair(x, s) == /\ x.secret \in Secrets => Inline(s)
              /\ x.ref # None => x.ref \in Exported(s)

LEMMA FairLiteral == ASSUME NEW s PROVE Fair(Literal, s)
  <1>1. Literal.secret \notin Secrets /\ Literal.ref = None
    BY Values, InstallAssumption
  <1> QED BY <1>1 DEF Fair

LEMMA FairRef == ASSUME NEW s, NEW v \in Exported(s) PROVE Fair(Ref(v), s)
  <1>1. Ref(v).secret \notin Secrets /\ Ref(v).ref = v
    BY Values, InstallAssumption
  <1> QED BY <1>1 DEF Fair

LEMMA FairGiven == ASSUME NEW s, Inline(s), NEW x PROVE Fair(Given(x), s)
  BY Values DEF Fair

LEMMA SoundLine ==
    ASSUME NEW s, NEW v, NEW x, Fair(x, s)
    PROVE  Sound({Line(v, x)}, s)
  <1>1. Line(v, x).value = x
    BY Values
  <1> QED BY <1>1 DEF Sound, Fair

LEMMA SoundLines ==
    ASSUME NEW s, NEW V
    PROVE  Sound({Line(v, Literal) : v \in V}, s)
  <1>1. ASSUME NEW v PROVE Line(v, Literal).value = Literal
    BY Values
  <1> QED BY <1>1, FairLiteral DEF Sound, Fair

LEMMA SoundRefs ==
    ASSUME NEW s, NEW V, V \subseteq Exported(s)
    PROVE  Sound({Line(v, Ref(v)) : v \in V}, s)
  <1>1. ASSUME NEW v \in V PROVE Line(v, Ref(v)).value = Ref(v) /\ Fair(Ref(v), s)
    BY Values, FairRef
  <1> QED BY <1>1 DEF Sound, Fair

LEMMA SoundUnion ==
    ASSUME NEW s, NEW L, NEW M, Sound(L, s), Sound(M, s)
    PROVE  Sound(L \cup M, s)
  BY DEF Sound

LEMMA SoundEmpty == ASSUME NEW s PROVE Sound({}, s)
  BY DEF Sound

\* The block sets what the chosen backends need.
LEMMA ExportedFits ==
    ASSUME NEW s, ~ Inline(s)
    PROVE  /\ s.db # "sqlite" => "DB_PASSWORD" \in Exported(s)
           /\ s.storage = "s3" => AwsVars \subseteq Exported(s)
           /\ s.storage = "s3" /\ s.endpoint # "" => "VELLARIS_BLOB_OPTIONS_JSON" \in Exported(s)
           /\ s.storage = "gcs" => "GOOGLE_APPLICATION_CREDENTIALS" \in Exported(s)
           /\ s.storage = "azure" => AzureVars \subseteq Exported(s)
  <1> DEFINE V == (IF s.db # "sqlite" THEN {"DB_PASSWORD"} ELSE {})
                  \cup CASE s.storage = "s3" -> AwsVars \cup
                               (IF s.endpoint # "" THEN {"VELLARIS_BLOB_OPTIONS_JSON"} ELSE {})
                         [] s.storage = "gcs" -> {"GOOGLE_APPLICATION_CREDENTIALS"}
                         [] s.storage = "azure" -> AzureVars
                         [] OTHER -> {}
  <1>1. GenerateExportBlock(s) = {Line(v, Literal) : v \in V}
    BY DEF GenerateExportBlock
  <1>2. /\ s.db # "sqlite" => "DB_PASSWORD" \in V
        /\ s.storage = "s3" => AwsVars \subseteq V
        /\ s.storage = "s3" /\ s.endpoint # "" => "VELLARIS_BLOB_OPTIONS_JSON" \in V
        /\ s.storage = "gcs" => "GOOGLE_APPLICATION_CREDENTIALS" \in V
        /\ s.storage = "azure" => AzureVars \subseteq V
    OBVIOUS
  <1> HIDE DEF V
  <1>3. ASSUME NEW v \in V PROVE v \in Exported(s)
    <2>1. Line(v, Literal) \in GenerateExportBlock(s) /\ Line(v, Literal).var = v
      BY <1>1, Values
    <2> QED BY <2>1 DEF Exported
  <1> QED BY <1>2, <1>3

LEMMA PasswordFair ==
    ASSUME NEW s, s.db # "sqlite"
    PROVE  Fair(DbPassword(s), s)
  <1>1. CASE Inline(s)
    BY <1>1, FairGiven DEF DbPassword
  <1>2. CASE ~ Inline(s)
    BY <1>2, FairRef, ExportedFits DEF DbPassword
  <1> QED BY <1>1, <1>2

LEMMA AwsFair ==
    ASSUME NEW s, s.storage = "s3", NEW v \in AwsVars
    PROVE  Fair(Aws(s, v), s)
  <1>1. CASE Inline(s)
    <2>1. \/ Aws(s, v) = Given(s.credAwsAccessKeyId)
          \/ Aws(s, v) = Given(s.credAwsSecretAccessKey)
          \/ Aws(s, v) = Given(s.credAwsRegion)
      BY <1>1 DEF Aws, AwsVars
    <2> QED BY <1>1, <2>1, FairGiven
  <1>2. CASE ~ Inline(s)
    <2>1. Aws(s, v) = Ref(v) /\ v \in Exported(s)
      <3>1. AwsVars \subseteq Exported(s)
        BY <1>2, ExportedFits
      <3>2. Aws(s, v) = Ref(v)
        BY <1>2 DEF Aws
      <3> QED BY <3>1, <3>2
    <2> QED BY <2>1, FairRef
  <1> QED BY <1>1, <1>2

LEMMA BackendsSound == ASSUME NEW s PROVE Sound(Backends(s), s)
  <1> DEFINE x == IF s.db = "sqlite" THEN Literal ELSE DbPassword(s)
  <1>1. Fair(x, s) /\ Fair(Literal, s)
    BY FairLiteral, PasswordFair
  <1> HIDE DEF x
  <1>2. Sound({Line("VELLARIS_DATABASE_URL", x)}, s)
        /\ Sound({Line("VELLARIS_BLOB_URL", Literal)}, s)
    BY <1>1, SoundLine
  <1>3. Backends(s) = {Line("VELLARIS_DATABASE_URL", x)} \cup {Line("VELLARIS_BLOB_URL", Literal)}
    BY DEF Backends, x
  <1> QED BY <1>2, <1>3, SoundUnion

LEMMA PasswordSound == ASSUME NEW s PROVE Sound(PasswordLine(s), s)
  <1>1. CASE s.db = "sqlite"
    BY <1>1, SoundEmpty DEF PasswordLine
  <1>2. CASE s.db # "sqlite"
    BY <1>2, PasswordFair, SoundLine DEF PasswordLine
  <1> QED BY <1>1, <1>2

LEMMA AwsSound == ASSUME NEW s PROVE Sound(AwsLines(s), s)
  <1>1. CASE s.storage = "s3"
    <2>1. ASSUME NEW v \in AwsVars PROVE Fair(Aws(s, v), s) /\ Line(v, Aws(s, v)).value = Aws(s, v)
      BY <1>1, AwsFair, Values
    <2>2. AwsLines(s) = {Line(v, Aws(s, v)) : v \in AwsVars}
      BY <1>1 DEF AwsLines
    <2> QED BY <2>1, <2>2 DEF Sound, Fair
  <1>2. CASE s.storage # "s3"
    BY <1>2, SoundEmpty DEF AwsLines
  <1> QED BY <1>1, <1>2

LEMMA AdvancedSound == ASSUME NEW s PROVE Sound(AdvancedEnvVars(s), s)
  <1> DEFINE changed(f) == s[f] # DefaultInstallState[f]
             set == {v \in {<<"maxUploadMb", "VELLARIS_MAX_UPLOAD_BYTES">>,
                            <<"rateLimitPerMin", "VELLARIS_RATE_LIMIT_PER_MINUTE">>,
                            <<"rateLimitBurst", "VELLARIS_RATE_LIMIT_BURST">>,
                            <<"sessionTtlHours", "VELLARIS_SESSION_TTL_SECONDS">>,
                            <<"challengeTtlMin", "VELLARIS_CHALLENGE_TTL_SECONDS">>,
                            <<"corsOrigins", "VELLARIS_CORS_ALLOW_ORIGINS">>,
                            <<"auditKeyMode", "VELLARIS_AUDIT_SIGNING_KEY_PATH">>,
                            <<"autoMigrate", "VELLARIS_AUTO_MIGRATE">>} : changed(v[1])}
             names == {v[2] : v \in set}
             host == IF RpHost(s) THEN {Line("VELLARIS_WEBAUTHN_RP_ID", Literal),
                                        Line("VELLARIS_WEBAUTHN_RP_ORIGINS", Literal)} ELSE {}
  <1>1. AdvancedEnvVars(s) = {Line(v[2], Literal) : v \in set} \cup host
    BY DEF AdvancedEnvVars
  <1> HIDE DEF set
  <1>2. Sound({Line(v[2], Literal) : v \in set}, s)
    <2>1. ASSUME NEW v PROVE Line(v[2], Literal).value = Literal
      BY Values
    <2> QED BY <2>1, FairLiteral DEF Sound, Fair
  <1>3. Sound(host, s)
    <2>1. Line("VELLARIS_WEBAUTHN_RP_ID", Literal).value = Literal
          /\ Line("VELLARIS_WEBAUTHN_RP_ORIGINS", Literal).value = Literal
      BY Values
    <2> QED BY <2>1, FairLiteral DEF Sound, Fair
  <1> HIDE DEF host
  <1> QED BY <1>1, <1>2, <1>3, SoundUnion

LEMMA DockerSound == ASSUME NEW s PROVE Sound(GenerateDockerRun(s), s)
  <1> DEFINE passed == IF Inline(s) THEN {} ELSE
                       CASE s.storage = "s3" /\ s.endpoint # "" -> {"VELLARIS_BLOB_OPTIONS_JSON"}
                         [] s.storage = "gcs" -> {"GOOGLE_APPLICATION_CREDENTIALS"}
                         [] s.storage = "azure" -> AzureVars
                         [] OTHER -> {}
             refs == {Line(v, Ref(v)) : v \in passed}
             a == Backends(s) \cup PasswordLine(s)
             b == a \cup AwsLines(s)
             c == b \cup refs
  <1>1. GenerateDockerRun(s) = c \cup AdvancedEnvVars(s)
    BY DEF GenerateDockerRun, DockerEnvFlags
  <1>2. passed \subseteq Exported(s)
    <2>1. CASE Inline(s)
      <3>1. passed = {}
        BY <2>1
      <3> QED BY <3>1
    <2>2. CASE ~ Inline(s)
      <3>1. \/ passed = {}
            \/ passed = {"VELLARIS_BLOB_OPTIONS_JSON"} /\ s.storage = "s3" /\ s.endpoint # ""
            \/ passed = {"GOOGLE_APPLICATION_CREDENTIALS"} /\ s.storage = "gcs"
            \/ passed = AzureVars /\ s.storage = "azure"
        BY <2>2
      <3> HIDE DEF passed
      <3> QED BY <2>2, <3>1, ExportedFits
    <2> QED BY <2>1, <2>2
  <1> HIDE DEF passed
  <1>3. Sound(refs, s)
    BY <1>2, SoundRefs
  <1> HIDE DEF refs
  <1>4. Sound(a, s)
    BY BackendsSound, PasswordSound, SoundUnion
  <1> HIDE DEF a
  <1>5. Sound(b, s)
    BY <1>4, AwsSound, SoundUnion
  <1> HIDE DEF b
  <1>6. Sound(c, s)
    BY <1>3, <1>5, SoundUnion
  <1> HIDE DEF c
  <1> QED BY <1>1, <1>6, AdvancedSound, SoundUnion

LEMMA DockerfileSound == ASSUME NEW s, Whole(s) PROVE Sound(GenerateCustomDockerfile(s), s)
  <1> DEFINE r == [s EXCEPT !.image = "slim"]
  <1>1. DOMAIN s = Fields /\ s = [f \in Fields |-> s[f]]
    BY DEF Whole, Part
  <1>2. {"credsMode", "db", "storage", "endpoint"} \subseteq Fields
    BY DEF Fields, UrlFields, Choices, Texts
  <1>3. /\ r.credsMode = s.credsMode /\ r.db = s.db /\ r.storage = s.storage
        /\ r.endpoint = s.endpoint
    BY <1>1, <1>2
  <1>4. GenerateCustomDockerfile(s) = GenerateDockerRun(r)
    BY DEF GenerateCustomDockerfile
  <1> HIDE DEF r
  <1>5. Inline(r) <=> Inline(s)
    BY <1>3 DEF Inline
  <1>6. Exported(r) = Exported(s)
    BY <1>3, <1>5 DEF Exported, GenerateExportBlock
  <1>7. Sound(GenerateDockerRun(r), r)
    BY DockerSound
  <1> QED BY <1>4, <1>5, <1>6, <1>7 DEF Sound

LEMMA ComposeSound == ASSUME NEW s PROVE Sound(GenerateCompose(s), s)
  <1> DEFINE service == CASE s.db = "postgres" -> {Line("POSTGRES_PASSWORD", DbPassword(s))}
                          [] s.db = "mysql" -> {Line("MARIADB_PASSWORD", DbPassword(s)),
                                                Line("MARIADB_ROOT_PASSWORD", DbPassword(s))}
                          [] OTHER -> {}
             a == Backends(s) \cup PasswordLine(s)
             b == a \cup AwsLines(s)
             c == b \cup AdvancedEnvVars(s)
  <1>1. GenerateCompose(s) = c \cup service
    BY DEF GenerateCompose
  <1>2. Sound(service, s)
    <2>1. CASE s.db = "postgres"
      <3>1. service = {Line("POSTGRES_PASSWORD", DbPassword(s))}
        BY <2>1
      <3> QED BY <2>1, <3>1, PasswordFair, SoundLine
    <2>2. CASE s.db = "mysql"
      <3>1. service = {Line("MARIADB_PASSWORD", DbPassword(s))}
                      \cup {Line("MARIADB_ROOT_PASSWORD", DbPassword(s))}
        BY <2>2
      <3>2. Sound({Line("MARIADB_PASSWORD", DbPassword(s))}, s)
        BY <2>2, PasswordFair, SoundLine
      <3>3. Sound({Line("MARIADB_ROOT_PASSWORD", DbPassword(s))}, s)
        BY <2>2, PasswordFair, SoundLine
      <3> QED BY <3>1, <3>2, <3>3, SoundUnion
    <2>3. CASE s.db \notin {"postgres", "mysql"}
      <3>1. service = {}
        BY <2>3
      <3> QED BY <3>1, SoundEmpty
    <2> QED BY <2>1, <2>2, <2>3
  <1> HIDE DEF service
  <1>3. Sound(a, s)
    BY BackendsSound, PasswordSound, SoundUnion
  <1> HIDE DEF a
  <1>4. Sound(b, s)
    BY <1>3, AwsSound, SoundUnion
  <1> HIDE DEF b
  <1>5. Sound(c, s)
    BY <1>4, AdvancedSound, SoundUnion
  <1> HIDE DEF c
  <1> QED BY <1>1, <1>2, <1>5, SoundUnion

LEMMA PipSound == ASSUME NEW s PROVE Sound(GeneratePip(s), s)
  <1> DEFINE x == IF Inline(s) THEN DbPassword(s) ELSE Literal
             env == IF s.db = "sqlite" THEN {} ELSE {Line("DB_PASSWORD", x)}
             a == Backends(s) \cup AdvancedEnvVars(s)
  <1>1. GeneratePip(s) = a \cup env
    BY DEF GeneratePip
  <1>2. Sound(env, s)
    <2>1. CASE s.db = "sqlite"
      BY <2>1, SoundEmpty
    <2>2. CASE s.db # "sqlite"
      <3>1. Fair(x, s)
        BY <2>2, PasswordFair, FairLiteral
      <3> HIDE DEF x
      <3> QED BY <2>2, <3>1, SoundLine
    <2> QED BY <2>1, <2>2
  <1> HIDE DEF env
  <1>3. Sound(a, s)
    BY BackendsSound, AdvancedSound, SoundUnion
  <1> HIDE DEF a
  <1> QED BY <1>1, <1>2, <1>3, SoundUnion

LEMMA RunSound == ASSUME NEW s, Whole(s) PROVE Sound(GenerateRunSnippet(s), s)
  <1>1. s.runMode \in {"docker", "compose", "pip", "helm", "systemd"}
    <2>1. "runMode" \in Fields /\ "runMode" \in DOMAIN Choices /\ Choices["runMode"] = RunModes
      BY DEF Fields, UrlFields, Choices
    <2>2. s["runMode"] \in RunModes
      BY <2>1 DEF Whole, Part, Typed
    <2> QED BY <2>2 DEF RunModes
  <1>2. Sound(GenerateHelm(s), s) /\ Sound(GenerateSystemd(s), s)
    <2>1. Sound(Backends(s) \cup AdvancedEnvVars(s), s)
      BY BackendsSound, AdvancedSound, SoundUnion
    <2> QED BY <2>1 DEF GenerateHelm, GenerateSystemd
  <1>3. \/ GenerateRunSnippet(s) = GenerateCustomDockerfile(s)
        \/ GenerateRunSnippet(s) = GenerateDockerRun(s)
        \/ GenerateRunSnippet(s) = GenerateCompose(s)
        \/ GenerateRunSnippet(s) = GenerateHelm(s)
        \/ GenerateRunSnippet(s) = GenerateSystemd(s)
        \/ GenerateRunSnippet(s) = GeneratePip(s)
    BY <1>1 DEF GenerateRunSnippet
  <1> QED BY <1>2, <1>3, DockerfileSound, DockerSound, ComposeSound, PipSound

\* The three boxes: the block above, the commands, and the proxy.
LEMMA BoxesSound ==
    ASSUME NEW s, Whole(s), NEW box \in Snippets(s), NEW l \in box.lines
    PROVE  /\ l.value.secret \in Secrets => box.warn
           /\ l.value.ref # None => l.value.ref \in Exported(s)
  <1> DEFINE quiet(L) == \A x \in L : x.value.secret \notin Secrets /\ x.value.ref = None
  <1>1. ASSUME NEW V PROVE quiet({Line(v, Literal) : v \in V})
    <2>1. ASSUME NEW v PROVE /\ Line(v, Literal).value.secret \notin Secrets
                             /\ Line(v, Literal).value.ref = None
      BY Values, InstallAssumption
    <2> QED BY <2>1
  <1>2. quiet(GenerateExportBlock(s))
    <2> DEFINE V == (IF s.db # "sqlite" THEN {"DB_PASSWORD"} ELSE {})
                    \cup CASE s.storage = "s3" -> AwsVars \cup
                                 (IF s.endpoint # "" THEN {"VELLARIS_BLOB_OPTIONS_JSON"} ELSE {})
                           [] s.storage = "gcs" -> {"GOOGLE_APPLICATION_CREDENTIALS"}
                           [] s.storage = "azure" -> AzureVars
                           [] OTHER -> {}
    <2>1. GenerateExportBlock(s) = {} \/ GenerateExportBlock(s) = {Line(v, Literal) : v \in V}
      BY DEF GenerateExportBlock
    <2> HIDE DEF V
    <2>2. quiet({Line(v, Literal) : v \in V})
      BY <1>1
    <2> QED BY <2>1, <2>2
  <1>3. quiet(GenerateProxySnippet(s))
    <2> DEFINE V == CASE s.proxyMode = "none" -> {}
                      [] s.proxyMode = "nginx" /\ s.tlsMode = "manual" ->
                            {"server_name", "ssl_certificate"}
                      [] OTHER -> {"server_name"}
    <2>1. GenerateProxySnippet(s) = {Line(v, Literal) : v \in V}
      BY DEF GenerateProxySnippet
    <2> HIDE DEF V
    <2>2. quiet({Line(v, Literal) : v \in V})
      BY <1>1
    <2> QED BY <2>1, <2>2
  <1>4. \/ box.lines = GenerateExportBlock(s)
        \/ box.lines = GenerateProxySnippet(s)
        \/ box.lines = GenerateRunSnippet(s) /\ box.warn = Inline(s)
    BY DEF Snippets
  <1>5. Sound(GenerateRunSnippet(s), s)
    BY RunSound
  <1> QED BY <1>2, <1>3, <1>4, <1>5 DEF Sound

-----------------------------------------------------------------------------
\* The steps of the builder.

\* What the user enters in a field is something it may hold.
LEMMA EnteredFits ==
    ASSUME NEW t \in Tabs, NEW f \in Offered(t), NEW v \in Entered(f)
    PROVE  f \in Fields /\ Typed(f, v)
  <1>1. f \in Fields
    <2>1. Offered(t) \subseteq
              {"runMode", "db", "storage", "image", "bucket", "endpoint", "dbHost", "dbPort",
               "dbName", "dbUser", "credsMode", "credDbPassword", "credAwsAccessKeyId",
               "credAwsSecretAccessKey", "credAwsRegion", "corsOrigins", "auditKeyMode",
               "autoMigrate", "auditKeyPath", "proxyMode", "webauthnSpaHost", "tlsMode",
               "proxyHostname", "tlsCertPath", "tlsKeyPath"} \cup Numbers
      BY DEF Offered, PickersOffer, ConfigOffers, CredsOffer, LimitsOffer, ProxyOffers
    <2>2. {"runMode", "db", "storage", "image", "credsMode", "auditKeyMode", "proxyMode",
           "tlsMode"} \subseteq Fields
      BY DEF Fields, UrlFields, Choices
    <2>3. {"bucket", "endpoint", "dbHost", "dbPort", "dbName", "dbUser", "corsOrigins",
           "auditKeyPath", "webauthnSpaHost", "proxyHostname", "tlsCertPath",
           "tlsKeyPath"} \subseteq Fields
      BY DEF Fields, UrlFields, Texts
    <2>4. {"credDbPassword", "credAwsAccessKeyId", "credAwsSecretAccessKey", "credAwsRegion"}
              \subseteq Fields
      BY DEF Fields, CredKeys
    <2>5. "autoMigrate" \in Fields /\ Numbers \subseteq Fields
      BY DEF Fields, UrlFields, Flags
    <2> QED BY <2>1, <2>2, <2>3, <2>4, <2>5
  <1>2. CASE f \in DOMAIN Choices
    <2>1. Entered(f) = Choices[f]
      BY <1>2, FieldKinds DEF Entered
    <2> QED BY <1>1, <1>2, <2>1, FieldKinds DEF Typed
  <1>3. CASE f \in Flags
    <2>1. Entered(f) = BOOLEAN
      BY <1>3, FieldKinds DEF Entered
    <2> QED BY <1>1, <1>3, <2>1, FieldKinds DEF Typed
  <1>4. CASE f \in Numbers
    <2>1. Entered(f) = Amounts \cup {0}
      BY <1>4, FieldKinds DEF Entered
    <2>2. Amounts \subseteq Int
      BY InstallAssumption
    <2>3. v \in Amounts \cup {0}
      BY <2>1
    <2>4. v \in Int
      BY <2>2, <2>3
    <2> QED BY <1>1, <1>4, <2>4, FieldKinds DEF Typed
  <1>5. CASE f \in Texts
    BY <1>1, <1>5, FieldKinds DEF Typed
  <1>6. CASE f \in CredKeys
    <2>1. Entered(f) = Secrets \cup {None}
      BY <1>6, FieldKinds DEF Entered
    <2> QED BY <1>1, <1>6, <2>1, FieldKinds DEF Typed
  <1> QED BY <1>1, <1>2, <1>3, <1>4, <1>5, <1>6, FieldKinds

LEMMA ChangeFits ==
    ASSUME NEW s, Whole(s), NEW f \in Fields, NEW v, Typed(f, v)
    PROVE  /\ Whole([s EXCEPT ![f] = v])
           /\ \A g \in Fields : [s EXCEPT ![f] = v][g] = IF g = f THEN v ELSE s[g]
  <1>1. DOMAIN s = Fields /\ s = [g \in Fields |-> s[g]] /\ \A g \in Fields : Typed(g, s[g])
    BY DEF Whole, Part
  <1> DEFINE r == [s EXCEPT ![f] = v]
  <1>2. /\ DOMAIN r = Fields /\ r = [g \in Fields |-> r[g]]
        /\ \A g \in Fields : r[g] = IF g = f THEN v ELSE s[g]
    BY <1>1
  <1> HIDE DEF r
  <1>3. \A g \in Fields : Typed(g, r[g])
    BY <1>1, <1>2
  <1>4. Whole(r)
    BY <1>2, <1>3 DEF Whole, Part
  <1> QED BY <1>2, <1>4 DEF r

\* The part of the type invariant that a step must keep.
TypesOf(s) == /\ \A f \in UrlFields :
                    /\ f \in DOMAIN Choices => s[f] \in Choices[f]
                    /\ f \in Flags => s[f] \in BOOLEAN
                    /\ f \in Numbers => s[f] \in Int
              /\ \A k \in CredKeys : s[k] \in Secrets \cup {None}

LEMMA WholeTyped == ASSUME NEW s, Whole(s) PROVE TypesOf(s)
  <1>1. \A f \in Fields : Typed(f, s[f])
    BY DEF Whole, Part
  <1> QED BY <1>1, FieldKinds DEF Typed, TypesOf

\* The type invariant, from the states being whole.
LEMMA TypesHold ==
    ASSUME open' \subseteq Tabs, due' \subseteq open', toggled' \subseteq open', shown' \subseteq open',
           \A t \in Tabs : Whole(state'[t]), DOMAIN creds' \subseteq CredKeys,
           live' \subseteq Secrets, clicks' \in 0..MaxClicks
    PROVE  BuilderTypeOK'
  <1>1. \A t \in open' : TypesOf(state'[t])
    BY WholeTyped
  <1> QED BY <1>1 DEF BuilderTypeOK, TypesOf

\* A gesture shows a state and its effect writes it.
LEMMA GestureKeeps ==
    ASSUME BuilderInv, NEW t \in Tabs, NEW s, Gesture(t, s), Whole(s), live' \subseteq Secrets,
           Held(s) \subseteq live', \A u \in open \ {t} : Held(state[u]) \subseteq live'
    PROVE  BuilderInv'
  <1>1. /\ clicks < MaxClicks /\ t \in open /\ clicks' = clicks + 1 /\ open' = open
        /\ state' = [state EXCEPT ![t] = s]
        /\ url' = [url EXCEPT ![t] = EncodeStateToUrl(s)]
        /\ config' = SaveConfig(s) /\ creds' = SaveCreds(s) /\ due' = due \ {t}
    BY DEF Gesture, Render, Sync
  <1>2. shown' \subseteq shown \cup {t} /\ toggled' \subseteq toggled \cup {t}
    BY DEF Gesture, Render
  <1>3. /\ state' = [u \in Tabs |-> state'[u]] /\ url' = [u \in Tabs |-> url'[u]]
        /\ \A u \in Tabs : state'[u] = IF u = t THEN s ELSE state[u]
        /\ \A u \in Tabs : url'[u] = IF u = t THEN EncodeStateToUrl(s) ELSE url[u]
    BY <1>1 DEF BuilderInv
  <1>4. \A u \in Tabs : Whole(state'[u])
    BY <1>3 DEF BuilderInv
  <1>5. \A u \in Tabs : Query(url'[u])
    BY <1>3, EncodeFits DEF BuilderInv
  <1>6. EntriesFine'
    BY <1>1, SavedFits DEF EntriesFine
  <1>7. \A u \in open' \ due' : url'[u] = EncodeStateToUrl(state'[u])
    BY <1>1, <1>3 DEF BuilderInv, BuilderTypeOK
  <1>8. \A u \in open' : Held(state'[u]) \subseteq live'
    BY <1>1, <1>3 DEF BuilderInv, BuilderTypeOK
  <1>9. BuilderTypeOK'
    <2>1. open' \subseteq Tabs /\ due' \subseteq open' /\ toggled' \subseteq open' /\ shown' \subseteq open'
      BY <1>1, <1>2 DEF BuilderInv, BuilderTypeOK
    <2>2. clicks' \in 0..MaxClicks
      BY <1>1, InstallAssumption DEF BuilderInv, BuilderTypeOK
    <2>3. DOMAIN creds' \subseteq CredKeys
      BY <1>6 DEF EntriesFine
    <2> QED BY <1>4, <2>1, <2>2, <2>3, TypesHold
  <1> QED BY <1>3, <1>4, <1>5, <1>6, <1>7, <1>8, <1>9 DEF BuilderInv

\* The other steps leave the entries and the history alone, but for an effect.
LEMMA StepKeeps ==
    ASSUME BuilderInv, NEW t \in Tabs, open' \subseteq Tabs, t \in open' \/ open' \subseteq open \ {t},
           open' \subseteq open \cup {t},
           due' \subseteq open', due \ {t} \subseteq due',
           toggled' \subseteq open', shown' \subseteq open',
           clicks' \in 0..MaxClicks, live' = live, EntriesFine',
           NEW s, Whole(s), state' = [state EXCEPT ![t] = s],
           NEW q, Query(q), url' = [url EXCEPT ![t] = q],
           t \in open' => Held(s) \subseteq live,
           t \in open' \ due' => q = EncodeStateToUrl(s)
    PROVE  BuilderInv'
  <1>1. /\ state' = [u \in Tabs |-> state'[u]] /\ url' = [u \in Tabs |-> url'[u]]
        /\ \A u \in Tabs : state'[u] = IF u = t THEN s ELSE state[u]
        /\ \A u \in Tabs : url'[u] = IF u = t THEN q ELSE url[u]
    BY DEF BuilderInv
  <1>2. \A u \in Tabs : Whole(state'[u])
    BY <1>1 DEF BuilderInv
  <1>3. \A u \in Tabs : Query(url'[u])
    BY <1>1 DEF BuilderInv
  <1>4. \A u \in open' \ due' : url'[u] = EncodeStateToUrl(state'[u])
    BY <1>1 DEF BuilderInv
  <1>5. \A u \in open' : Held(state'[u]) \subseteq live'
    BY <1>1 DEF BuilderInv
  <1>6. BuilderTypeOK'
    <2>1. DOMAIN creds' \subseteq CredKeys
      BY DEF EntriesFine
    <2>2. live' \subseteq Secrets
      BY DEF BuilderInv, BuilderTypeOK
    <2> QED BY <1>2, <2>1, <2>2, TypesHold
  <1> QED BY <1>1, <1>2, <1>3, <1>4, <1>5, <1>6 DEF BuilderInv

LEMMA PatchKeeps == ASSUME BuilderInv, NEW t \in Tabs, Patch(t) PROVE BuilderInv'
  <1>0. PICK f \in Offered(t) \cap Edited : \E v \in Entered(f) :
            /\ Gesture(t, [state[t] EXCEPT ![f] = v])
            /\ live' = IF f \in CredKeys THEN live \cup ({v} \ {None}) ELSE live
    BY DEF Patch
  <1>1. PICK v \in Entered(f) :
            /\ Gesture(t, [state[t] EXCEPT ![f] = v])
            /\ live' = IF f \in CredKeys THEN live \cup ({v} \ {None}) ELSE live
    BY <1>0
  <1> DEFINE s == [state[t] EXCEPT ![f] = v]
  <1>2. t \in open /\ live \subseteq Secrets /\ Whole(state[t]) /\ Held(state[t]) \subseteq live
    BY <1>1 DEF Gesture, BuilderInv, BuilderTypeOK
  <1>3. f \in Fields /\ Typed(f, v)
    BY EnteredFits
  <1>4. Whole(s) /\ \A g \in Fields : s[g] = IF g = f THEN v ELSE state[t][g]
    BY <1>2, <1>3, ChangeFits
  <1>5. Gesture(t, s)
    BY <1>1
  <1> HIDE DEF s
  <1>6. live \subseteq live' /\ live' \subseteq Secrets
    BY <1>1, <1>2, <1>3 DEF Typed
  <1>7. Held(s) \subseteq live'
    <2>1. ASSUME NEW k \in CredKeys, s[k] # None PROVE s[k] \in live'
      <3>1. s[k] = IF k = f THEN v ELSE state[t][k]
        BY <1>4, FieldKinds
      <3>2. CASE k = f
        BY <1>1, <2>1, <3>1, <3>2
      <3>3. CASE k # f
        BY <1>2, <1>6, <2>1, <3>1, <3>3 DEF Held
      <3> QED BY <3>2, <3>3
    <2> QED BY <2>1 DEF Held
  <1>8. \A u \in open \ {t} : Held(state[u]) \subseteq live'
    BY <1>6 DEF BuilderInv
  <1> QED BY <1>4, <1>5, <1>6, <1>7, <1>8, GestureKeeps

LEMMA ResetKeeps == ASSUME BuilderInv, NEW t \in Tabs, Reset(t) PROVE BuilderInv'
  <1> DEFINE v == state[t].credsMode
             s == [DefaultInstallState EXCEPT !.credsMode = v]
  <1>1. Gesture(t, s) /\ live' = live
    BY DEF Reset
  <1>2. "credsMode" \in Fields /\ "credsMode" \notin CredKeys
    BY DEF Fields, UrlFields, Choices, CredKeys
  <1>3. Typed("credsMode", v)
    <2>1. Typed("credsMode", state[t]["credsMode"])
      BY <1>2 DEF BuilderInv, Whole, Part
    <2> QED BY <2>1
  <1> HIDE DEF v
  <1>4. /\ Whole(s)
        /\ \A g \in Fields : s[g] = IF g = "credsMode" THEN v ELSE DefaultInstallState[g]
    <2>1. Whole(DefaultInstallState)
      BY DefaultFits
    <2>2. /\ Whole([DefaultInstallState EXCEPT !["credsMode"] = v])
          /\ \A g \in Fields : [DefaultInstallState EXCEPT !["credsMode"] = v][g] =
                               IF g = "credsMode" THEN v ELSE DefaultInstallState[g]
      BY <1>2, <1>3, <2>1, ChangeFits
    <2> QED BY <2>2
  <1> HIDE DEF s
  <1>5. \A k \in CredKeys : s[k] = None
    BY <1>2, <1>4, DefaultFits, FieldKinds
  <1>6. Held(s) = {}
    BY <1>5 DEF Held
  <1>7. live' \subseteq Secrets /\ \A u \in open : Held(state[u]) \subseteq live'
    BY <1>1 DEF BuilderInv, BuilderTypeOK
  <1> QED BY <1>1, <1>4, <1>6, <1>7, GestureKeeps

LEMMA ForgetKeeps == ASSUME BuilderInv, NEW t \in Tabs, ForgetAll(t) PROVE BuilderInv'
  <1>1. Gesture(t, DefaultInstallState) /\ live' = UNION {HeldBy(u) : u \in open \ {t}}
    BY DEF ForgetAll
  <1>2. \A u \in open : HeldBy(u) = Held(state[u]) /\ Held(state[u]) \subseteq live
    BY DEF HeldBy, Held, BuilderInv
  <1>3. live \subseteq Secrets
    BY DEF BuilderInv, BuilderTypeOK
  <1>4. live' \subseteq Secrets
    BY <1>1, <1>2, <1>3
  <1>5. \A u \in open \ {t} : Held(state[u]) \subseteq live'
    BY <1>1, <1>2
  <1>6. Whole(DefaultInstallState) /\ Held(DefaultInstallState) = {}
    BY DefaultFits
  <1> QED BY <1>1, <1>4, <1>5, <1>6, GestureKeeps

\* What the invariant says of one tab.
LEMMA TabFits ==
    ASSUME BuilderInv, NEW t \in Tabs
    PROVE  /\ state = [state EXCEPT ![t] = state[t]] /\ url = [url EXCEPT ![t] = url[t]]
           /\ Whole(state[t]) /\ Query(url[t])
           /\ t \in open => Held(state[t]) \subseteq live
  BY DEF BuilderInv

LEMMA SummaryKeeps == ASSUME BuilderInv, NEW t \in Tabs, Summary(t) PROVE BuilderInv'
  <1>1. /\ t \in open /\ UNCHANGED <<open, state, url, due, config, creds, live>>
        /\ shown' \subseteq shown \cup {t} /\ toggled' = toggled \cup {t}
    BY DEF Summary
  <1>2. clicks' \in 0..MaxClicks
    BY InstallAssumption DEF Summary, BuilderInv, BuilderTypeOK
  <1>3. /\ open' \subseteq Tabs /\ due' \subseteq open' /\ toggled' \subseteq open'
        /\ shown' \subseteq open' /\ EntriesFine'
    BY <1>1 DEF BuilderInv, BuilderTypeOK, EntriesFine
  <1>4. t \in open' \ due' => url[t] = EncodeStateToUrl(state[t])
    BY <1>1 DEF BuilderInv
  <1>5. state' = [state EXCEPT ![t] = state[t]] /\ url' = [url EXCEPT ![t] = url[t]]
    BY <1>1, TabFits
  <1> QED BY <1>1, <1>2, <1>3, <1>4, <1>5, TabFits, StepKeeps

LEMMA ToggleKeeps == ASSUME BuilderInv, NEW t \in Tabs, Toggle(t) PROVE BuilderInv'
  <1> DEFINE v == ~ state[t].advancedOpen
             s == [state[t] EXCEPT !.advancedOpen = v]
  <1>1. /\ t \in toggled /\ state' = [state EXCEPT ![t] = s]
        /\ shown' \subseteq shown \cup {t} /\ toggled' \subseteq toggled /\ due' = due \cup {t}
        /\ UNCHANGED <<open, url, config, creds, live, clicks>>
    <2>1. state' = [state EXCEPT ![t] = s]
      BY DEF Toggle
    <2>2. shown' \subseteq shown \cup {t}
      BY DEF Toggle
    <2>3. toggled' \subseteq toggled
      BY DEF Toggle
    <2> QED BY <2>1, <2>2, <2>3 DEF Toggle
  <1>2. /\ "advancedOpen" \in Fields /\ "advancedOpen" \notin CredKeys
        /\ Typed("advancedOpen", v)
    <2>1. "advancedOpen" \in Flags
      BY DEF Flags
    <2>2. v \in BOOLEAN
      OBVIOUS
    <2> HIDE DEF v
    <2> QED BY <2>1, <2>2, FieldKinds DEF Typed
  <1> HIDE DEF v
  <1>3. Whole(s) /\ \A g \in Fields : s[g] = IF g = "advancedOpen" THEN v ELSE state[t][g]
    <2>1. Whole(state[t])
      BY TabFits
    <2>2. /\ Whole([state[t] EXCEPT !["advancedOpen"] = v])
          /\ \A g \in Fields : [state[t] EXCEPT !["advancedOpen"] = v][g] =
                               IF g = "advancedOpen" THEN v ELSE state[t][g]
      BY <1>2, <2>1, ChangeFits
    <2> QED BY <2>2
  <1> HIDE DEF s
  <1>4. t \in open
    BY <1>1 DEF BuilderInv, BuilderTypeOK
  <1>5. Held(s) \subseteq live
    <2>1. \A k \in CredKeys : s[k] = state[t][k]
      BY <1>2, <1>3, FieldKinds
    <2>2. Held(s) = Held(state[t])
      BY <2>1 DEF Held
    <2> QED BY <1>4, <2>2, TabFits
  <1>6. /\ open' \subseteq Tabs /\ due' \subseteq open' /\ toggled' \subseteq open'
        /\ shown' \subseteq open' /\ EntriesFine' /\ clicks' \in 0..MaxClicks
    BY <1>1, <1>4 DEF BuilderInv, BuilderTypeOK, EntriesFine
  <1>7. url' = [url EXCEPT ![t] = url[t]]
    BY <1>1, TabFits
  <1> QED BY <1>1, <1>3, <1>4, <1>5, <1>6, <1>7, TabFits, StepKeeps

LEMMA EffectKeeps == ASSUME BuilderInv, NEW t \in Tabs, Effect(t) PROVE BuilderInv'
  <1>1. /\ t \in due /\ url' = [url EXCEPT ![t] = EncodeStateToUrl(state[t])]
        /\ config' = SaveConfig(state[t]) /\ creds' = SaveCreds(state[t]) /\ due' = due \ {t}
        /\ UNCHANGED <<open, state, shown, toggled, live, clicks>>
    BY DEF Effect, Sync
  <1>2. t \in open
    BY <1>1 DEF BuilderInv, BuilderTypeOK
  <1>3. EntriesFine'
    <2>1. Held(state[t]) \subseteq live'
      BY <1>1, <1>2, TabFits
    <2> QED BY <1>1, <2>1, TabFits, SavedFits DEF EntriesFine
  <1>4. /\ open' \subseteq Tabs /\ due' \subseteq open' /\ toggled' \subseteq open'
        /\ shown' \subseteq open' /\ clicks' \in 0..MaxClicks
    BY <1>1 DEF BuilderInv, BuilderTypeOK
  <1>5. state' = [state EXCEPT ![t] = state[t]] /\ Query(EncodeStateToUrl(state[t]))
    BY <1>1, TabFits, EncodeFits
  <1> QED BY <1>1, <1>2, <1>3, <1>4, <1>5, TabFits, StepKeeps

LEMMA OpenKeeps ==
    ASSUME BuilderInv, NEW t \in Tabs, NEW search \in Links \cup {NoEntry, url[t]}, Open(t, search)
    PROVE  BuilderInv'
  <1>1. /\ clicks < MaxClicks /\ clicks' = clicks + 1
        /\ open' = open \cup {t} /\ state' = [state EXCEPT ![t] = Merged(search)]
        /\ url' = [url EXCEPT ![t] = search] /\ due' = due \cup {t}
        /\ shown' \subseteq shown \cup {t} /\ toggled' \subseteq toggled \cup {t}
        /\ UNCHANGED <<config, creds, live>>
    BY DEF Open
  <1>2. Query(search)
    <2>1. Query(NoEntry)
      BY DEF Query, NoEntry
    <2> QED BY <2>1, LinksAssumption, TabFits
  <1>3. Whole(Merged(search)) /\ Held(Merged(search)) \subseteq live
    BY <1>2, MergedFits DEF BuilderInv, BuilderTypeOK
  <1>4. /\ open' \subseteq Tabs /\ due' \subseteq open' /\ toggled' \subseteq open'
        /\ shown' \subseteq open' /\ EntriesFine'
    BY <1>1 DEF BuilderInv, BuilderTypeOK, EntriesFine
  <1>5. clicks' \in 0..MaxClicks
    BY <1>1, InstallAssumption DEF BuilderInv, BuilderTypeOK
  <1> QED BY <1>1, <1>2, <1>3, <1>4, <1>5, StepKeeps

LEMMA FollowKeeps == ASSUME BuilderInv, NEW t \in Tabs, FollowOwnLink(t) PROVE BuilderInv'
  <1>1. /\ clicks < MaxClicks /\ t \in open /\ clicks' = clicks + 1
        /\ url' = [url EXCEPT ![t] = NoEntry] /\ due' = due \cup {t}
        /\ UNCHANGED <<open, state, shown, toggled, config, creds, live>>
    BY DEF FollowOwnLink
  <1>2. Query(NoEntry)
    BY DEF Query, NoEntry
  <1>3. /\ open' \subseteq Tabs /\ due' \subseteq open' /\ toggled' \subseteq open'
        /\ shown' \subseteq open' /\ EntriesFine'
    BY <1>1 DEF BuilderInv, BuilderTypeOK, EntriesFine
  <1>4. clicks' \in 0..MaxClicks
    BY <1>1, InstallAssumption DEF BuilderInv, BuilderTypeOK
  <1>5. state' = [state EXCEPT ![t] = state[t]]
    BY <1>1, TabFits
  <1> QED BY <1>1, <1>2, <1>3, <1>4, <1>5, TabFits, StepKeeps

LEMMA CloseKeeps == ASSUME BuilderInv, NEW t \in Tabs, Close(t) PROVE BuilderInv'
  <1>1. /\ open' = open \ {t} /\ due' = due \ {t} /\ shown' = shown \ {t}
        /\ toggled' = toggled \ {t} /\ state' = [state EXCEPT ![t] = DefaultInstallState]
        /\ url' = [url EXCEPT ![t] = NoEntry]
        /\ UNCHANGED <<config, creds, live, clicks>>
    BY DEF Close
  <1>2. Query(NoEntry)
    BY DEF Query, NoEntry
  <1>3. Whole(DefaultInstallState)
    BY DefaultFits
  <1>4. /\ open' \subseteq Tabs /\ due' \subseteq open' /\ toggled' \subseteq open'
        /\ shown' \subseteq open' /\ EntriesFine' /\ clicks' \in 0..MaxClicks
    BY <1>1 DEF BuilderInv, BuilderTypeOK, EntriesFine
  <1> QED BY <1>1, <1>2, <1>3, <1>4, StepKeeps

-----------------------------------------------------------------------------
\* The builder: the inductive invariant and what follows from it.

\* The invariant above, in every state the pages can reach (deployment.tsx 30-80).
THEOREM BuilderInvariance == BuilderSpec => []BuilderInv
  <1>1. BuilderInit => BuilderInv
    <2> SUFFICES ASSUME BuilderInit PROVE BuilderInv
      OBVIOUS
    <2>1. /\ Whole(DefaultInstallState) /\ DOMAIN NoEntry = {} /\ Query(NoEntry)
      BY DefaultFits DEF NoEntry, Query
    <2>2. /\ state = [t \in Tabs |-> DefaultInstallState] /\ url = [t \in Tabs |-> NoEntry]
          /\ open = {} /\ due = {} /\ shown = {} /\ toggled = {}
          /\ config = NoEntry /\ creds = NoEntry /\ live = {} /\ clicks = 0
      BY DEF BuilderInit
    <2>3. BuilderTypeOK
      BY <2>1, <2>2, InstallAssumption DEF BuilderTypeOK
    <2> QED BY <2>1, <2>2, <2>3 DEF BuilderInv, EntriesFine
  <1>2. BuilderInv /\ [BuilderNext]_builderVars => BuilderInv'
    <2> SUFFICES ASSUME BuilderInv, [BuilderNext]_builderVars PROVE BuilderInv'
      OBVIOUS
    <2>1. CASE UNCHANGED builderVars
      BY <2>1 DEF builderVars, BuilderInv, BuilderTypeOK, EntriesFine
    <2>2. ASSUME NEW t \in Tabs,
                 \/ Patch(t) \/ Reset(t) \/ ForgetAll(t) \/ Summary(t) \/ Toggle(t) \/ Effect(t)
                 \/ \E search \in Links \cup {NoEntry, url[t]} : Open(t, search)
                 \/ FollowOwnLink(t) \/ Close(t)
          PROVE  BuilderInv'
      BY <2>2, PatchKeeps, ResetKeeps, ForgetKeeps, SummaryKeeps, ToggleKeeps, EffectKeeps,
         OpenKeeps, FollowKeeps, CloseKeeps
    <2> QED BY <2>1, <2>2 DEF BuilderNext
  <1> QED BY <1>1, <1>2, PTL DEF BuilderSpec

\* A credential is in no URL and not in the configuration's entry, and a box that
\* shows one warns, whatever was typed, opened, reset or reopened before.
THEOREM SecretsSafe == BuilderSpec => []SecretsAreMarked
  <1>1. BuilderInv => SecretsAreMarked
    <2> SUFFICES ASSUME BuilderInv PROVE SecretsAreMarked
      OBVIOUS
    <2>1. ASSUME NEW t \in open
          PROVE  Range(Restrict(url[t], DOMAIN url[t] \cap CredKeys)) \cap Secrets = {}
      <3>1. DOMAIN url[t] \cap CredKeys = {}
        BY FieldKinds DEF BuilderInv, BuilderTypeOK, Query
      <3> QED BY <3>1 DEF Range, Restrict
    <2>2. ASSUME NEW t \in open, NEW box \in Snippets(state[t]), NEW l \in box.lines,
                 l.value.secret \in Secrets
          PROVE  box.warn
      BY <2>2, BoxesSound DEF BuilderInv, BuilderTypeOK
    <2>3. DOMAIN config \cap CredKeys = {}
      <3>1. DOMAIN NoEntry = {}
        BY DEF NoEntry
      <3>2. DOMAIN config = {} \/ DOMAIN config = UrlFields
        BY <3>1 DEF BuilderInv, EntriesFine, Part
      <3> QED BY <3>2, FieldKinds
    <2> QED BY <2>1, <2>2, <2>3 DEF SecretsAreMarked
  <1> QED BY <1>1, BuilderInvariance, PTL

\* A link that the page shows for its state opens that state again, but for emptied
\* texts and for numbers that are no positive integer, which are rounded to one.
THEOREM LinkSafe == BuilderSpec => []LinkReopens
  <1>1. BuilderInv => LinkReopens
    <2> SUFFICES ASSUME BuilderInv PROVE LinkReopens
      OBVIOUS
    <2>1. ASSUME NEW t \in open \ due, NEW f \in UrlFields
          PROVE  DecodeStateFromUrl(url[t])[f] =
                     CASE f \in Texts /\ state[t][f] = "" -> DefaultInstallState[f]
                       [] f \in Numbers -> ParsePositiveInt(state[t][f])
                       [] OTHER -> state[t][f]
      <3>1. Whole(state[t]) /\ url[t] = EncodeStateToUrl(state[t])
        BY DEF BuilderInv, BuilderTypeOK
      <3> QED BY <3>1, RoundTrip
    <2>2. ASSUME NEW t \in open \ due, NEW f \in Numbers
          PROVE  ComesBackAs(state[t][f], DecodeStateFromUrl(url[t])[f])
      <3>1. state[t][f] \in Int
        BY FieldKinds DEF BuilderInv, BuilderTypeOK
      <3>2. DecodeStateFromUrl(url[t])[f] = ParsePositiveInt(state[t][f])
        BY <2>1, FieldKinds
      <3> QED BY <3>1, <3>2, ParsesToNearest
    <2>3. ASSUME NEW t \in open \ due, NEW f \in UrlFields \ Numbers
          PROVE  DecodeStateFromUrl(url[t])[f] = IF f \in Texts /\ state[t][f] = ""
                                                 THEN DefaultInstallState[f] ELSE state[t][f]
      BY <2>1
    <2>4. BuilderTypeOK
      BY DEF BuilderInv
    <2> QED BY <2>2, <2>3, <2>4 DEF LinkReopens
  <1> QED BY <1>1, BuilderInvariance, PTL

\* A credential that is stored was typed since "Forget everything", or another tab
\* of the browser still held it.
THEOREM ForgottenSafe == BuilderSpec => []ForgottenIsGone
  <1>1. BuilderInv => ForgottenIsGone
    BY DEF BuilderInv, EntriesFine, ForgottenIsGone
  <1> QED BY <1>1, BuilderInvariance, PTL

\* The commands refer to the variables that the block above them sets, for every
\* choice of backends, image and run mode.
THEOREM ReferencesSafe == BuilderSpec => []ReferencesAreExported
  <1>1. BuilderInv => ReferencesAreExported
    BY BoxesSound DEF BuilderInv, BuilderTypeOK, ReferencesAreExported, Exported
  <1> QED BY <1>1, BuilderInvariance, PTL
=============================================================================
