--------------------------- MODULE BrowserAccount ---------------------------
(***************************************************************************)
(* Accounts, sign-in and keys in the browser: the keystore of              *)
(* state/keystore.ts, the session and the unwrapped key of a tab, and the  *)
(* pages that change them (connect, signup, login, settings, the layout of *)
(* the signed-in pages), with the server's users, key blobs and passkeys   *)
(* as the pages use them.                                                  *)
(*                                                                         *)
(* An asynchronous handler is a call: it keeps running when its page is    *)
(* left, and whatever it does after an await it does to the tab as it is   *)
(* then.  localStorage and IndexedDB belong to the browser, sessionStorage *)
(* and the caches of the modules to a tab.  A key stands for a key pair,   *)
(* for its PEM and for the blob wrapped under its owner's passphrase.      *)
(***************************************************************************)
EXTENDS Browser

CONSTANTS Servers, Users, Keys,
          Calls,        \* handlers that may be under way at the same time
          OldKey        \* the key a version before IndexedDB left behind

ASSUME AccountAssumption ==
    /\ OldKey \in Keys
    /\ None \notin Tabs \cup Servers \cup Users \cup Keys \cup Calls

VARIABLES
    serverUrl,  \* localStorage: the server connected to
    legacy,     \* localStorage: the wrapped key of the former version
    idb,        \* IndexedDB: the wrapped key
    tab,        \* per tab: page, caches of the modules, sessionStorage
    call,       \* handlers under way
    pub,        \* server: public key of each account
    blob,       \* server: key blob of each account
    passkeys,   \* server and authenticator: passkeys with the PEM they wrap
    kept        \* history: keys the keystore was given

vars == <<serverUrl, legacy, idb, tab, call, pub, blob, passkeys, kept>>
browser == <<serverUrl, legacy, idb>>
server == <<pub, blob, passkeys>>

AuthPages == {"connect", "signup", "login"}   \* /recover only has links
InnerPages == {"dashboard", "settings"}
Pages == AuthPages \cup InnerPages
Accounts == Servers \X Users
Token == [srv : Servers, user : Users]
Perhaps(S) == S \cup {None}

ASSUME NoneAssumption == None \notin Pages /\ None \notin Token

\* What a tab holds: the page, the cache of keystore.ts, the token and the
\* cached user of sessionStorage, the unwrapped PEM, and what the signed-in
\* page memoised when it was mounted (srv, tok; remote is hasRemoteBlob).
Tab == [page : Perhaps(Pages), cache : Perhaps(Keys), tok : Perhaps(Token),
        who : Perhaps(Users), pem : Perhaps(Keys),
        srv : Perhaps(Servers), mtok : Perhaps(Token), remote : BOOLEAN]

Closed == [page |-> None, cache |-> None, tok |-> None, who |-> None,
           pem |-> None, srv |-> None, mtok |-> None, remote |-> FALSE]

Kinds == {"connect", "signup", "login", "passkey", "logout",
          "push", "pull", "delete", "enroll", "unenroll"}

\* A handler under way: where it was started and whether that page is still
\* mounted, what it waits for, and what it holds across its awaits.  An error
\* only shows a message, so a request that fails ends its call.
Call == [kind : Kinds, tab : Tabs, mounted : BOOLEAN,
         at : {"begin", "fetch", "sent", "answered"},
         srv : Servers, tok : Perhaps(Token), user : Perhaps(Users), key : Perhaps(Keys)]

TypeOK ==
    /\ serverUrl \in Perhaps(Servers)
    /\ legacy \in Perhaps(Keys) /\ idb \in Perhaps(Keys)
    /\ tab \in [Tabs -> Tab]
    /\ call \in [Calls -> Perhaps(Call)]
    /\ pub \in [Accounts -> Perhaps(Keys)]
    /\ blob \in [Accounts -> Perhaps(Keys)]
    /\ passkeys \subseteq [srv : Servers, user : Users, key : Keys]
    /\ kept \subseteq Keys

\* Either a new browser, or one in which an account was made before the key
\* moved to IndexedDB.
Init ==
    /\ serverUrl = None /\ idb = None
    /\ tab = [t \in Tabs |-> Closed]
    /\ call = [c \in Calls |-> None]
    /\ blob = [a \in Accounts |-> None]
    /\ passkeys = {}
    /\ \/ legacy = None /\ kept = {} /\ pub = [a \in Accounts |-> None]
       \/ /\ legacy = OldKey /\ kept = {OldKey}
          /\ \E owner \in Accounts :
                pub = [a \in Accounts |-> IF a = owner THEN OldKey ELSE None]

-----------------------------------------------------------------------------
\* state/

\* setWrappedKey: the cache at once (cache' is the caller's), IndexedDB later
\* and without a word if that fails.  Only loadKeystore reads IndexedDB, and
\* IndexedDB serves it after the writes that wait: the write can be one step.
SetWrappedKey(k) ==
    /\ idb' \in {k, idb}
    /\ kept' = kept \cup {k}
    /\ UNCHANGED <<serverUrl, legacy>>

\* The copy in memory and the one in sessionStorage change together.
WithPem(r, k) == [r EXCEPT !.pem = k]

WithSession(r, token) ==
    [r EXCEPT !.tok = token, !.who = IF token = None THEN None ELSE token.user]

\* Mutant: an unwrapped key that is there already is kept.
SignedInKeepsPem(r, token, k) ==
    WithPem(WithSession(r, token), IF r.pem = None THEN k ELSE r.pem)

\* setToken, setCachedUser and setUnwrappedPem run in one turn of the event loop.
SignedIn(r, token, k) == WithPem(WithSession(r, token), k)

ClearSessionAndKey(r) == WithPem(WithSession(r, None), None)

\* setServerUrl and clearServerUrl.
ServerUrlIs(url) == serverUrl' = url /\ UNCHANGED legacy

\* The guard of the signed-in pages: without a server or a session the tab
\* goes to /connect, with a session but no unwrapped key to /login.
Admitted(r, page, url) ==
    CASE url = None \/ r.tok = None -> "connect"
      [] url # None /\ r.tok # None /\ r.pem = None -> "login"
      [] OTHER -> page

\* What a page reads when it mounts; /signup and /login need a server too.
Mount(r, page, url) ==
    LET to == CASE page \in InnerPages -> Admitted(r, page, url)
                [] page \in {"signup", "login"} /\ url = None -> "connect"
                [] OTHER -> page
    IN  [r EXCEPT !.page = to, !.remote = FALSE,
                  !.srv = IF to \in InnerPages THEN url ELSE None,
                  !.mtok = IF to \in InnerPages THEN r.tok ELSE None]

\* The page a tab leaves is unmounted, unless it is navigated to itself.
Unmount(t, page) ==
    [c \in Calls |-> IF call[c] # None /\ call[c].tab = t /\ page # tab[t].page
                     THEN [call[c] EXCEPT !.mounted = FALSE] ELSE call[c]]

\* navigate(page), at the end of a handler c or by a link (c = None).
Go(t, r, page, url, c) ==
    /\ tab' = [tab EXCEPT ![t] = IF page = r.page THEN r ELSE Mount(r, page, url)]
    /\ call' = [Unmount(t, page) EXCEPT ![c] = None]

\* No handler of these kinds that this mounted page started is under way: the
\* flags busy, passkeyBusy, keyBlobBusy of the pages.
Idle(t, kinds) ==
    \A c \in Calls : call[c] # None =>
        ~ (call[c].tab = t /\ call[c].mounted /\ call[c].kind \in kinds)

\* A handler starts; its client is for one server and one token.
Begin(c, t, kind, at, srv, token, user, k) ==
    /\ call[c] = None
    /\ call' = [call EXCEPT ![c] =
                  [kind |-> kind, tab |-> t, mounted |-> TRUE, at |-> at, srv |-> srv,
                   tok |-> token, user |-> user, key |-> k]]
    /\ UNCHANGED <<browser, tab, server, kept>>

-----------------------------------------------------------------------------
\* Tabs

\* The cache gets the key of the former version, which moves to IndexedDB, or
\* what IndexedDB holds; a failure of either is swallowed.
LoadKeystore(k) ==
    \/ legacy # None /\ k = legacy /\ idb' = legacy /\ legacy' = None
    \/ k \in {idb, None} /\ UNCHANGED <<idb, legacy>>

\* The keystore is loaded before React mounts a page.
Load(t, r, page) ==
    /\ \E k \in Perhaps(Keys) :
          /\ LoadKeystore(k)
          /\ tab' = [tab EXCEPT ![t] = Mount([r EXCEPT !.cache = k], page, serverUrl)]
    /\ UNCHANGED <<serverUrl, server, kept>>

\* A new tab, or a duplicate of another one with a copy of its sessionStorage.
OpenTab(t) ==
    /\ tab[t].page = None
    /\ \E from \in Tabs, page \in Pages :
          Load(t, WithPem(WithSession(Closed, tab[from].tok), tab[from].pem), page)
    /\ UNCHANGED call

DropCalls(t) == [c \in Calls |-> IF call[c] # None /\ call[c].tab = t THEN None ELSE call[c]]

\* A reload ends the handlers of the tab; sessionStorage survives it.
Reload(t) ==
    /\ tab[t].page # None
    /\ Load(t, tab[t], tab[t].page)
    /\ call' = DropCalls(t)

CloseTab(t) ==
    /\ tab[t].page # None
    /\ tab' = [tab EXCEPT ![t] = Closed]
    /\ call' = DropCalls(t)
    /\ UNCHANGED <<browser, server, kept>>

\* Links, buttons that only navigate, and the back button.
Navigate(t, page) ==
    /\ tab[t].page # None /\ page # tab[t].page
    /\ tab' = [tab EXCEPT ![t] = Mount(tab[t], page, serverUrl)]
    /\ call' = Unmount(t, page)
    /\ UNCHANGED <<browser, server, kept>>

\* The pill at the top of a page that is given a server and a way to leave it.
DisconnectPill(t) == tab[t].page \in {"signup", "login"}

\* disconnect of /signup and /login; disconnectServer of /settings ends the
\* session of this tab too.
Disconnect(t) ==
    /\ DisconnectPill(t)
    /\ ServerUrlIs(None)
    /\ tab' = [tab EXCEPT ![t] = Mount(tab[t], "connect", None)]
    /\ call' = Unmount(t, "connect")
    /\ UNCHANGED <<idb, server, kept>>

DisconnectServer(t) ==
    /\ tab[t].page = "settings"
    /\ ServerUrlIs(None)
    /\ tab' = [tab EXCEPT ![t] = Mount(ClearSessionAndKey(tab[t]), "connect", None)]
    /\ call' = Unmount(t, "connect")
    /\ UNCHANGED <<idb, server, kept>>

-----------------------------------------------------------------------------
\* Handlers, up to their request

\* What the pages let the user press.
ConnectForm(t) == tab[t].page = "connect" /\ Idle(t, {"connect"})
SignupForm(t) == tab[t].page = "signup" /\ serverUrl # None /\ Idle(t, {"signup"})
\* While a passkey is used the passphrase form still submits, not the reverse.
LoginForm(t, passkey) ==
    /\ tab[t].page = "login" /\ serverUrl # None
    /\ Idle(t, IF passkey THEN {"login", "passkey"} ELSE {"login"})
PasskeySection(t) == tab[t].page = "settings" /\ Idle(t, {"enroll", "unenroll"})
\* Pull and delete need a blob on the server, as far as the page knows.
KeySection(t, kind) ==
    /\ tab[t].page = "settings" /\ Idle(t, {"push", "pull", "delete"})
    /\ kind = "push" \/ tab[t].remote

ConnectSubmit(c, t, s) ==
    /\ ConnectForm(t)
    /\ Begin(c, t, "connect", "sent", s, None, None, None)

SignupSubmit(c, t, u) ==
    /\ SignupForm(t)
    /\ Begin(c, t, "signup", "begin", serverUrl, None, u, None)

\* Mutant: the keystore is given the key only after the server has answered.
SignupStoreLater(c, k) ==
    /\ call[c] # None /\ call[c].kind = "signup" /\ call[c].at = "begin"
    /\ k \notin kept /\ k # OldKey
    /\ call' = [call EXCEPT ![c].at = "sent", ![c].key = k]
    /\ UNCHANGED <<browser, tab, server, kept>>

\* The key pair is made and wrapped, the keystore has it, the request leaves.
SignupStore(c, k) ==
    /\ call[c] # None /\ call[c].kind = "signup" /\ call[c].at = "begin"
    /\ k \notin kept /\ k # OldKey
    /\ SetWrappedKey(k)
    /\ tab' = [tab EXCEPT ![call[c].tab].cache = k]
    /\ call' = [call EXCEPT ![c].at = "sent", ![c].key = k]
    /\ UNCHANGED server

LoginSubmit(c, t, u) ==
    /\ LoginForm(t, FALSE)
    /\ Begin(c, t, "login", IF tab[t].cache = None THEN "fetch" ELSE "sent",
             serverUrl, None, u, tab[t].cache)

\* pullKeyblobByUsername on a device without a key: the blob goes to the
\* keystore before anything shows that the passphrase opens it.
LoginFetch(c) ==
    /\ call[c] # None /\ call[c].kind = "login" /\ call[c].at = "fetch"
    /\ LET k == blob[<<call[c].srv, call[c].user>>]
       IN  /\ k # None
           /\ SetWrappedKey(k)
           /\ tab' = [tab EXCEPT ![call[c].tab].cache = k]
           /\ call' = [call EXCEPT ![c].at = "sent", ![c].key = k]
    /\ UNCHANGED server

PasskeySubmit(c, t) ==
    /\ LoginForm(t, TRUE)
    /\ Begin(c, t, "passkey", "sent", serverUrl, None, None, None)

LogoutClick(c, t) ==
    /\ tab[t].page \in InnerPages
    /\ Begin(c, t, "logout", "sent", tab[t].srv, tab[t].mtok, None, None)

\* pushBlob, pullBlob, deleteRemoteBlob: the client is the one of the mounted
\* page, the blob to push is read when the button is pressed.
KeyBlobClick(c, t, kind) ==
    /\ KeySection(t, kind)
    /\ kind = "push" => tab[t].cache # None
    /\ Begin(c, t, kind, "sent", tab[t].srv, tab[t].mtok, None,
             IF kind = "push" THEN tab[t].cache ELSE None)

\* addPasskey reads the PEM before the first await and hands it to
\* enrollPasskey; removePasskey names one of the account's passkeys.
PasskeyClick(c, t, kind) ==
    /\ PasskeySection(t)
    /\ kind = "enroll" => tab[t].pem # None
    /\ Begin(c, t, kind, "sent", tab[t].srv, tab[t].mtok, None,
             IF kind = "enroll" THEN tab[t].pem ELSE None)

ProbeBlob(t) ==
    /\ tab[t].page = "settings" /\ ~ tab[t].remote
    /\ tab[t].mtok.srv = tab[t].srv
    /\ blob[<<tab[t].srv, tab[t].mtok.user>>] # None
    /\ tab' = [tab EXCEPT ![t].remote = TRUE]
    /\ UNCHANGED <<browser, call, server, kept>>

-----------------------------------------------------------------------------
\* Requests, answers and what the handlers do with them

At(c, kinds, at) == call[c] # None /\ call[c].kind \in kinds /\ call[c].at = at

\* A refusal, a lost request or a dismissed prompt: the handler shows a message.
\* logout goes on whatever happens.
Fail(c) ==
    /\ call[c] # None /\ call[c].kind # "logout" /\ call[c].at # "begin"
    /\ call' = [call EXCEPT ![c] = None]
    /\ UNCHANGED <<browser, tab, server, kept>>

Connected(c) ==
    /\ At(c, {"connect"}, "sent")
    /\ ServerUrlIs(call[c].srv)
    /\ LET t == call[c].tab
       IN  Go(t, tab[t], IF tab[t].cache = None THEN "signup" ELSE "login", call[c].srv, c)
    /\ UNCHANGED <<idb, server, kept>>

\* POST /users: a name that is taken is refused.
CreateUser(a, k) == pub[a] = None /\ pub' = [pub EXCEPT ![a] = k]

\* POST /auth/challenge and /auth/verify: a signature that the account's public
\* key verifies.
Verifies(a, k) == pub[a] # None /\ pub[a] = k

\* The account is made; the page goes on to /login, or the answer is lost.
SignupCreates(c) ==
    LET a == <<call[c].srv, call[c].user>>
        t == call[c].tab
    IN  /\ At(c, {"signup"}, "sent")
        /\ CreateUser(a, call[c].key)
        /\ \/ Go(t, tab[t], "login", serverUrl, c)
           \/ call' = [call EXCEPT ![c] = None] /\ UNCHANGED tab
        /\ UNCHANGED <<browser, blob, passkeys, kept>>

\* onSubmit and signInWithPasskey end alike: session, PEM, /dashboard.
EnterAs(c, u, k) ==
    LET t == call[c].tab
    IN  /\ Go(t, SignedIn(tab[t], [srv |-> call[c].srv, user |-> u], k), "dashboard", serverUrl, c)
        /\ UNCHANGED <<browser, server, kept>>

\* A challenge, the passphrase that opens the key, a signature.
LoginVerified(c) ==
    /\ At(c, {"login"}, "sent")
    /\ Verifies(<<call[c].srv, call[c].user>>, call[c].key)
    /\ EnterAs(c, call[c].user, call[c].key)

\* The passkeys the browser offers for a server.
Usable(s) == {p \in passkeys : p.srv = s}

\* The user picks a passkey of this server, which answers with the wrapped PEM.
PasskeyServed(c) ==
    /\ At(c, {"passkey"}, "sent")
    /\ \E p \in Usable(call[c].srv) :
          /\ call' = [call EXCEPT ![c].at = "answered", ![c].user = p.user, ![c].key = p.key]
    /\ UNCHANGED <<browser, tab, server, kept>>

PasskeyEntered(c) ==
    At(c, {"passkey"}, "answered") /\ EnterAs(c, call[c].user, call[c].key)

\* logout clears whatever the tab holds now, whether the server answered or not.
LoggedOut(c) ==
    /\ At(c, {"logout"}, "sent")
    /\ ServerUrlIs(None)
    /\ LET t == call[c].tab IN Go(t, ClearSessionAndKey(tab[t]), "connect", None, c)
    /\ UNCHANGED <<idb, server, kept>>

\* A server knows only the tokens it issued.
Accepted(c) == call[c].tok.srv = call[c].srv
Caller(c) == <<call[c].srv, call[c].tok.user>>

\* PUT and DELETE of /key-blobs/me; the page learns of it unless the answer is lost.
KeyBlobStored(c) ==
    LET t == call[c].tab
    IN  /\ At(c, {"push", "delete"}, "sent") /\ Accepted(c)
        /\ call[c].kind = "delete" => blob[Caller(c)] # None
        /\ blob' = [blob EXCEPT ![Caller(c)] = call[c].key]
        /\ \/ call[c].mounted /\ tab' = [tab EXCEPT ![t].remote = call[c].kind = "push"]
           \/ UNCHANGED tab
        /\ call' = [call EXCEPT ![c] = None]
        /\ UNCHANGED <<browser, pub, passkeys, kept>>

KeyBlobServed(c) ==
    /\ At(c, {"pull"}, "sent") /\ Accepted(c)
    /\ blob[Caller(c)] # None
    /\ call' = [call EXCEPT ![c].at = "answered", ![c].key = blob[Caller(c)]]
    /\ UNCHANGED <<browser, tab, server, kept>>

\* pullBlob replaces the local key.
KeyBlobPulled(c) ==
    /\ At(c, {"pull"}, "answered")
    /\ SetWrappedKey(call[c].key)
    /\ tab' = [tab EXCEPT ![call[c].tab].cache = call[c].key]
    /\ call' = [call EXCEPT ![c] = None]
    /\ UNCHANGED server

\* Mutant: the unwrapped key is read when the ceremony is over.
PasskeyFiledLate(c) ==
    LET t == call[c].tab
        mine == [srv |-> call[c].srv, user |-> call[c].tok.user, key |-> tab[t].pem]
    IN  /\ At(c, {"enroll"}, "sent") /\ Accepted(c) /\ tab[t].pem # None
        /\ passkeys' = passkeys \cup {mine}
        /\ call' = [call EXCEPT ![c] = None]
        /\ UNCHANGED <<browser, tab, pub, blob, kept>>

PasskeyFiled(c) ==
    LET mine == [srv |-> call[c].srv, user |-> call[c].tok.user, key |-> call[c].key]
    IN  /\ At(c, {"enroll", "unenroll"}, "sent") /\ Accepted(c)
        /\ IF call[c].kind = "enroll" THEN passkeys' = passkeys \cup {mine}
           ELSE \E p \in Usable(call[c].srv) : /\ p.user = call[c].tok.user
                                                /\ passkeys' = passkeys \ {p}
        /\ call' = [call EXCEPT ![c] = None]
        /\ UNCHANGED <<browser, tab, pub, blob, kept>>

-----------------------------------------------------------------------------
Next ==
    \/ \E t \in Tabs : \/ OpenTab(t) \/ Reload(t) \/ CloseTab(t)
                       \/ Disconnect(t) \/ DisconnectServer(t) \/ ProbeBlob(t)
                       \/ \E page \in Pages : Navigate(t, page)
    \/ \E c \in Calls, t \in Tabs :
          \/ \E s \in Servers : ConnectSubmit(c, t, s)
          \/ \E u \in Users : SignupSubmit(c, t, u) \/ LoginSubmit(c, t, u)
          \/ PasskeySubmit(c, t) \/ LogoutClick(c, t)
          \/ \E kind \in {"push", "pull", "delete"} : KeyBlobClick(c, t, kind)
          \/ \E kind \in {"enroll", "unenroll"} : PasskeyClick(c, t, kind)
    \/ \E c \in Calls :
          \/ \E k \in Keys : SignupStore(c, k)
          \/ LoginFetch(c) \/ Fail(c)
          \/ Connected(c) \/ SignupCreates(c) \/ LoginVerified(c)
          \/ PasskeyServed(c) \/ PasskeyEntered(c) \/ LoggedOut(c)
          \/ KeyBlobStored(c) \/ KeyBlobServed(c) \/ KeyBlobPulled(c) \/ PasskeyFiled(c)

Spec == Init /\ [][Next]_vars

-----------------------------------------------------------------------------
\* A tab is signed in as one person: the token, the cached user and the
\* unwrapped key belong to the same account of the server that issued the
\* token, whatever handlers of former pages still finish (login.tsx,
\* _dashboard-layout.tsx, settings.tsx, key-cache.ts).  The types with it.
SessionIsOnePerson ==
    /\ TypeOK
    /\ \A t \in Tabs :
          IF tab[t].tok = None
          THEN tab[t].pem = None /\ tab[t].who = None
          ELSE /\ tab[t].who = tab[t].tok.user
               /\ tab[t].pem = pub[<<tab[t].tok.srv, tab[t].tok.user>>]

\* A passkey opens to the key of the account it is filed under: the PEM that
\* addPasskey wraps and the token that finishes the registration are of one
\* account although the ceremony takes minutes (settings.tsx, passkey.ts).
PasskeyOpensOwnKey ==
    \A p \in passkeys : p.key = pub[<<p.srv, p.user>>]

\* The server never learns of an account whose key no keystore was given:
\* signup.tsx stores the wrapped key before it asks for the account, so a tab
\* closed at any moment, or an answer lost, strands no account.
AccountKeyWasKept ==
    \A a \in Accounts : pub[a] # None => pub[a] \in kept
=============================================================================
