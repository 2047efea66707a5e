---------------------------- MODULE BrowserReads ----------------------------
(***************************************************************************)
(* What the signed-in pages read and show: the list of the dashboard       *)
(* (routes/dashboard.tsx), the page of a document with its download, share, *)
(* revoke and delete (routes/doc-detail.tsx), logout, and the read caches  *)
(* the service worker keeps per URL (sw/push-handler.ts), with the grants  *)
(* the server holds.                                                       *)
(*                                                                         *)
(* One tab, in which several people sign in one after the other; by        *)
(* BrowserAccount its token and its unwrapped key are of one account, here  *)
(* "session".  A handler is a call that goes on when its page is left.  A  *)
(* document stands for its name, its plaintext and its DEK, a user for the *)
(* account, its token and its key pair.                                    *)
(***************************************************************************)
EXTENDS Naturals, Sequences, FiniteSets, SequencesExt

CONSTANTS Users, Docs, Calls,
          Owner,        \* the owner of each document
          MaxPuts,      \* bound on the responses the caches are given
          MaxClicks,    \* bound on what the person does
          None

ASSUME ReadsAssumption ==
    /\ Owner \in [Docs -> Users] /\ {MaxPuts, MaxClicks} \subseteq Nat
    /\ None \notin Users \cup Docs \cup Calls
    /\ IsFiniteSet(Docs)

VARIABLES
    session,    \* whose token and key the tab holds
    page,       \* what the tab shows
    call,       \* handlers under way
    cache,      \* the worker's caches: the last good response per URL
    late,       \* a response that is not in its cache yet
    clearing,   \* CLEAR_VELLARIS_CACHES is posted and not handled
    puts,       \* how many responses the caches were given
    clicks,     \* how many things the person did
    grants,     \* server: access rows with the wrapped DEK
    ever        \* history: who could ever read which document

vars == <<session, page, call, cache, late, clearing, puts, clicks, grants, ever>>
worker == <<cache, late, clearing, puts>>
server == <<grants, ever>>

Scopes == {"mine", "shared"}
Urls == Scopes \cup Docs
Perhaps(S) == S \cup {None}

ASSUME UrlsAssumption == Docs \cap Scopes = {}

\* A row of document_access: the DEK of dek, wrapped for the key of wrappedFor.
Grant == [doc : Docs, user : Users, dek : Docs, wrappedFor : Users]

\* The answers to GET /documents?scope= and GET /documents/{id}; only the owner
\* is told who has access.
Listing == [user : Users, docs : Seq(Docs)]
Bundle == [doc : Docs, user : Users, dek : Docs, wrappedFor : Users,
           access : Perhaps(SUBSET Users)]

Row == [doc : Docs, owned : BOOLEAN, name : Perhaps(Docs), failed : BOOLEAN]

\* user is whom the page was mounted for: its client has that user's token.
\* readers (history): who was signed in while the page was mounted.
Page == [at : {"out", "dashboard", "doc"}, user : Perhaps(Users), readers : SUBSET Users,
         loading : BOOLEAN,
         scope : Scopes, rows : Seq(Row),
         id : Perhaps(Docs), download : Perhaps(Bundle), name : Perhaps(Docs)]

Out == [at |-> "out", user |-> None, readers |-> {}, loading |-> FALSE, scope |-> "shared",
        rows |-> <<>>, id |-> None, download |-> None, name |-> None]

\* live: the effect is not cancelled, or the page of the handler still mounted.
Outcomes == {"todo", "name", "error", "done"}
Loads == [kind : {"load"}, live : BOOLEAN, user : Users, key : Users, scope : Scopes,
          at : {"list", "rows"}, docs : Seq(Docs), got : Seq(Outcomes)]
Opens == [kind : {"doc"}, live : BOOLEAN, user : Users, doc : Docs,
          at : {"get", "decrypt"}, bundle : Perhaps(Bundle)]
Edits == [kind : {"share", "revoke", "delete"}, live : BOOLEAN, user : Users,
          at : {"lookup", "post", "refresh"}, bundle : Bundle, to : Perhaps(Users)]
Logouts == [kind : {"logout"}, live : BOOLEAN, user : Users]

ASSUME NoneAssumption == None \notin Loads \cup Opens \cup Edits \cup Logouts \cup Bundle

TypeOK ==
    /\ session \in Perhaps(Users)
    /\ page \in Page
    /\ \A c \in Calls : \/ call[c] = None
                        \/ call[c].kind = "load" /\ call[c] \in Loads
                        \/ call[c].kind = "doc" /\ call[c] \in Opens
                        \/ call[c].kind = "logout" /\ call[c] \in Logouts
                        \/ call[c].kind \notin {"load", "doc", "logout"} /\ call[c] \in Edits
    /\ DOMAIN cache = Urls
    /\ \A u \in Urls : cache[u] = None \/ cache[u] \in (IF u \in Scopes THEN Listing ELSE Bundle)
    /\ clearing \in BOOLEAN /\ puts \in 0..MaxPuts /\ clicks \in 0..MaxClicks
    /\ grants \subseteq Grant /\ ever \subseteq Docs \X Users

HasRow(d, u) == \E g \in grants : g.doc = d /\ g.user = u

\* Uploaded by their owners, each shared with the others or not.
Init ==
    /\ session = None /\ page = Out /\ call = [c \in Calls |-> None]
    /\ cache = [u \in Urls |-> None] /\ late = None /\ clearing = FALSE
    /\ puts = 0 /\ clicks = 0
    /\ \E shared \in SUBSET (Docs \X Users) :
          /\ ever = shared \cup {<<d, Owner[d]>> : d \in Docs}
          /\ grants = {[doc |-> a[1], user |-> a[2], dek |-> a[1], wrappedFor |-> a[2]] : a \in ever}

-----------------------------------------------------------------------------
(* The server's answers, and the worker between it and the pages.          *)

\* In some order, as a sequence; an order of the documents is not modelled.
ListingFor(u, scope) ==
    LET mine == {d \in Docs : HasRow(d, u) /\ (Owner[d] = u <=> scope = "mine")}
    IN  {[user |-> u, docs |-> s] : s \in SetToSeqs(mine)}

BundleFor(u, d) ==
    {[doc |-> d, user |-> u, dek |-> g.dek, wrappedFor |-> g.wrappedFor,
      access |-> IF Owner[d] = u THEN {h.user : h \in {x \in grants : x.doc = d}} ELSE None] :
     g \in {x \in grants : x.doc = d /\ x.user = u}}

Replies(u, url) == IF url \in Scopes THEN ListingFor(u, url) ELSE BundleFor(u, url)

\* The caches are keyed by URL: whose token the request carried is not in it.
Stores(url, r) ==
    /\ puts < MaxPuts /\ puts' = puts + 1
    /\ \/ cache' = [cache EXCEPT ![url] = r] /\ UNCHANGED late
       \/ late = None /\ late' = [url |-> url, reply |-> r] /\ UNCHANGED cache

Offered(u, url) == Replies(u, url) \cup ({cache[url]} \ {None})

\* NetworkFirst: the answer, which goes to the cache beside the page; or, when
\* it takes more than 3 s or fails, what the cache has.  A cache can refuse.
Get(u, url, r) ==
    /\ \/ r \in Replies(u, url) /\ (Stores(url, r) \/ UNCHANGED <<cache, late, puts>>)
       \/ /\ cache[url] # None /\ r = cache[url]
          /\ \/ \E slow \in Replies(u, url) :
                   /\ puts < MaxPuts /\ late = None
                   /\ puts' = puts + 1 /\ late' = [url |-> url, reply |-> slow]
                   /\ UNCHANGED cache
             \/ UNCHANGED <<cache, late, puts>>
    /\ UNCHANGED clearing

LatePut ==
    /\ late # None
    /\ cache' = [cache EXCEPT ![late.url] = late.reply] /\ late' = None
    /\ UNCHANGED <<session, page, call, clearing, puts, server>>

\* Every cache there is when the message is handled.
CachesCleared ==
    /\ clearing /\ clearing' = FALSE
    /\ cache' = [u \in Urls |-> None]
    /\ UNCHANGED <<session, page, call, late, puts, server>>

-----------------------------------------------------------------------------
(* The tab.                                                                *)

\* Mutant: a bundle opens for whoever asks.
OpensUnwrapped(bundle, key) == bundle.dek = bundle.doc

\* decryptBundle: the DEK is wrapped for one key and seals one document.
OpensFor(bundle, key) == bundle.wrappedFor = key /\ bundle.dek = bundle.doc

\* The cleanup of effects and the unmount of a page, at the end of a handler.
Cancel(kinds, ended) ==
    [c \in Calls |-> IF c = ended THEN None
                     ELSE IF call[c] # None /\ call[c].kind \in kinds
                     THEN [call[c] EXCEPT !.live = FALSE] ELSE call[c]]
AllKinds == {"load", "doc", "share", "revoke", "delete", "logout"}

NewLoad(u, key, scope) ==
    [kind |-> "load", live |-> TRUE, user |-> u, key |-> key, scope |-> scope,
     at |-> "list", docs |-> <<>>, got |-> <<>>]

\* The dashboard is mounted and its effect starts a load.
ShowDashboard(u, scope, calls) ==
    /\ page' = [Out EXCEPT !.at = "dashboard", !.user = u, !.readers = {u},
                           !.scope = scope, !.loading = TRUE]
    /\ \E c \in Calls : /\ calls[c] = None
                        /\ call' = [calls EXCEPT ![c] = NewLoad(u, u, scope)]

\* A login ends: on the way in, or late and on top of someone's dashboard,
\* which is not mounted again and keeps its client.
SignIn(u) ==
    /\ session' = u
    /\ \/ page.at # "dashboard" /\ ShowDashboard(u, "shared", Cancel(AllKinds, None))
       \/ /\ page.at = "dashboard" /\ page.scope = "shared"
          /\ page' = [page EXCEPT !.readers = @ \cup {u}] /\ UNCHANGED call
       \/ /\ page.at = "dashboard" /\ page.scope # "shared"
          /\ page' = [page EXCEPT !.readers = @ \cup {u}, !.scope = "shared", !.loading = TRUE]
          /\ \E c \in Calls :
                /\ call[c] = None
                /\ call' = [Cancel({"load"}, None) EXCEPT ![c] = NewLoad(page.user, u, "shared")]
    /\ UNCHANGED <<worker, server>>

\* Another scope, or a sync-done message: the effect runs again.
Reload(scope) ==
    /\ page.at = "dashboard"
    /\ page' = [page EXCEPT !.scope = scope, !.loading = TRUE]
    /\ \E c \in Calls :
          /\ call[c] = None
          /\ call' = [Cancel({"load"}, None) EXCEPT ![c] = NewLoad(page.user, session, scope)]
    /\ UNCHANGED <<session, worker, server>>

ToDashboard ==
    /\ page.at = "doc"
    /\ ShowDashboard(session, "shared", Cancel(AllKinds, None))
    /\ UNCHANGED <<session, worker, server>>

NewOpen(u, d) ==
    [kind |-> "doc", live |-> TRUE, user |-> u, doc |-> d, at |-> "get", bundle |-> None]

\* The list, once it is there.
RowsShown == page.at = "dashboard" /\ ~ page.loading

\* A row of the list opens its document.
OpenDoc(i) ==
    /\ RowsShown /\ i \in DOMAIN page.rows
    /\ page' = [Out EXCEPT !.at = "doc", !.user = session, !.readers = {session},
                           !.loading = TRUE, !.id = page.rows[i].doc]
    /\ \E c \in Calls :
          /\ call[c] = None
          /\ call' = [Cancel(AllKinds, None) EXCEPT ![c] = NewOpen(session, page.rows[i].doc)]
    /\ UNCHANGED <<session, worker, server>>

\* The browser's history goes from one document to another: the route stays
\* mounted, with what it has downloaded.
JumpToDoc(d) ==
    /\ page.at = "doc" /\ page.id # d
    /\ page' = [page EXCEPT !.id = d, !.loading = TRUE]
    /\ \E c \in Calls :
          /\ call[c] = None
          /\ call' = [Cancel({"doc"}, None) EXCEPT ![c] = NewOpen(page.user, d)]
    /\ UNCHANGED <<session, worker, server>>

\* disconnectServer of the settings, or the tab is closed: nothing is cleared
\* but the session.
Disconnect ==
    /\ session # None /\ session' = None
    /\ page' = Out /\ call' = Cancel(AllKinds, None)
    /\ UNCHANGED <<worker, server>>

LogoutClick(c) ==
    /\ page.at # "out" /\ call[c] = None
    /\ call' = [call EXCEPT ![c] = [kind |-> "logout", live |-> TRUE, user |-> page.user]]
    /\ UNCHANGED <<session, page, worker, server>>

\* Whether the server answered or not.
LoggedOut(c) ==
    /\ call[c] # None /\ call[c].kind = "logout"
    /\ session' = None /\ clearing' = TRUE
    /\ page' = Out /\ call' = Cancel(AllKinds, c)
    /\ UNCHANGED <<cache, late, puts, server>>

-----------------------------------------------------------------------------
(* The load of the dashboard.                                              *)

\* A download of a row has been dealt with; the last one ends the load.
RowIs(c, i, outcome) ==
    call' = [call EXCEPT ![c] =
        IF outcome = "done" /\ \A j \in DOMAIN @.got : j = i \/ @.got[j] = "done" THEN None
        ELSE [@ EXCEPT !.got[i] = outcome]]

Is(c, kind, at) == call[c] # None /\ call[c].kind = kind /\ call[c].at = at
End(c) == call' = [call EXCEPT ![c] = None]

\* Skeleton rows at once, then one download per row.
ListServed(c) ==
    /\ Is(c, "load", "list")
    /\ \E list \in Offered(call[c].user, call[c].scope) :
          /\ Get(call[c].user, call[c].scope, list)
          /\ IF call[c].live
             THEN page' = [page EXCEPT !.loading = FALSE,
                     !.rows = [i \in DOMAIN list.docs |->
                        [doc |-> list.docs[i], owned |-> Owner[list.docs[i]] = page.user,
                         name |-> None, failed |-> FALSE]]]
             ELSE UNCHANGED page
          /\ IF call[c].live /\ list.docs # <<>>
             THEN call' = [call EXCEPT ![c].at = "rows", ![c].docs = list.docs,
                                       ![c].got = [i \in DOMAIN list.docs |-> "todo"]]
             ELSE End(c)
    /\ UNCHANGED <<session, server>>

\* Mutant: a failed list leaves the page loading.
ListFailedLoading(c) ==
    Is(c, "load", "list") /\ End(c) /\ UNCHANGED <<session, page, worker, server>>

ListFailed(c) ==
    /\ Is(c, "load", "list") /\ End(c)
    /\ page' = IF call[c].live THEN [page EXCEPT !.loading = FALSE] ELSE page
    /\ UNCHANGED <<session, worker, server>>

\* The bundle of a row is served and opened with the key the load began with,
\* or is not.
RowServed(c, i) ==
    /\ Is(c, "load", "rows") /\ i \in DOMAIN call[c].got /\ call[c].got[i] = "todo"
    /\ \/ \E b \in Offered(call[c].user, call[c].docs[i]) :
                 /\ Get(call[c].user, call[c].docs[i], b)
                 /\ RowIs(c, i, CASE ~ call[c].live -> "done"
                                  [] call[c].live /\ OpensFor(b, call[c].key) -> "name"
                                  [] OTHER -> "error")
       \/ RowIs(c, i, IF call[c].live THEN "error" ELSE "done") /\ UNCHANGED worker
    /\ UNCHANGED <<session, page, server>>

Shown(c, i) ==
    [page EXCEPT !.rows[i] = IF call[c].got[i] = "name" THEN [@ EXCEPT !.name = call[c].docs[i]]
                             ELSE [@ EXCEPT !.failed = TRUE]]

\* Mutant: setRows of a cancelled load still lands.
RowShownAnyway(c, i) ==
    /\ Is(c, "load", "rows") /\ i \in DOMAIN call[c].got /\ call[c].got[i] \in {"name", "error"}
    /\ page' = IF i \in DOMAIN page.rows THEN Shown(c, i) ELSE page
    /\ RowIs(c, i, "done")
    /\ UNCHANGED <<session, worker, server>>

\* setRows by index, into the rows there are then.
RowShown(c, i) ==
    /\ Is(c, "load", "rows") /\ i \in DOMAIN call[c].got /\ call[c].got[i] \in {"name", "error"}
    /\ page' = IF call[c].live /\ i \in DOMAIN page.rows THEN Shown(c, i) ELSE page
    /\ RowIs(c, i, "done")
    /\ UNCHANGED <<session, worker, server>>

-----------------------------------------------------------------------------
(* The page of a document.                                                 *)

DocServed(c) ==
    /\ Is(c, "doc", "get")
    /\ \E b \in Offered(call[c].user, call[c].doc) :
          /\ Get(call[c].user, call[c].doc, b)
          /\ IF call[c].live
             THEN /\ page' = [page EXCEPT !.download = b]
                  /\ call' = [call EXCEPT ![c].at = "decrypt", ![c].bundle = b]
             ELSE End(c) /\ UNCHANGED page
    /\ UNCHANGED <<session, server>>

\* The key is the one the tab holds once the bundle is there.
DocDecrypted(c) ==
    /\ Is(c, "doc", "decrypt") /\ End(c)
    /\ page' = IF call[c].live
               THEN [page EXCEPT !.loading = FALSE,
                        !.name = IF OpensFor(call[c].bundle, session)
                                 THEN call[c].bundle.doc ELSE @]
               ELSE page
    /\ UNCHANGED <<session, worker, server>>

DocFailed(c) ==
    /\ Is(c, "doc", "get") /\ End(c)
    /\ page' = IF call[c].live THEN [page EXCEPT !.loading = FALSE] ELSE page
    /\ UNCHANGED <<session, worker, server>>

\* What was downloaded, whichever document the address names now.
DocShown == page.at = "doc" /\ ~ page.loading /\ page.download # None

\* The owner's controls; a handler keeps the download it was pressed for.
Controls(kind) ==
    /\ DocShown /\ Owner[page.download.doc] = page.user
    /\ kind \in {"share", "delete"} =>
          \A c \in Calls : call[c] # None => ~ (call[c].kind = kind /\ call[c].live)

EditClick(c, kind, to) ==
    /\ Controls(kind) /\ call[c] = None
    /\ kind = "revoke" => /\ page.download.access # None
                          /\ to \in page.download.access \ {page.user}
    /\ kind = "share" <=> to \in Users /\ kind # "revoke"
    /\ call' = [call EXCEPT ![c] =
                  [kind |-> kind, live |-> TRUE, user |-> page.user,
                   at |-> IF kind = "share" THEN "lookup" ELSE "post",
                   bundle |-> page.download, to |-> to]]
    /\ UNCHANGED <<session, page, worker, server>>

\* onShare: the recipient is found, the DEK unwrapped with the key the tab holds
\* now and wrapped for the recipient.
ShareWrapped(c) ==
    /\ Is(c, "share", "lookup")
    /\ session # None /\ call[c].bundle.wrappedFor = session
    /\ call' = [call EXCEPT ![c].at = "post"]
    /\ UNCHANGED <<session, page, worker, server>>

Owns(u, d) == Owner[d] = u /\ HasRow(d, u)

\* Mutant: the DEK is that of the download the page shows by then.
GrantOfShown(c) ==
    [doc |-> call[c].bundle.doc, user |-> call[c].to,
     dek |-> IF page.download = None THEN call[c].bundle.dek ELSE page.download.dek,
     wrappedFor |-> call[c].to]

\* The DEK that onShare unwrapped, for the recipient that the lookup found.
GrantOf(c) ==
    [doc |-> call[c].bundle.doc, user |-> call[c].to,
     dek |-> call[c].bundle.dek, wrappedFor |-> call[c].to]

\* POST .../access: a row there is is replaced.
SharePosts(c) ==
    /\ Is(c, "share", "post") /\ Owns(call[c].user, call[c].bundle.doc)
    /\ grants' = {g \in grants : ~ (g.doc = call[c].bundle.doc /\ g.user = call[c].to)}
                    \cup {GrantOf(c)}
    /\ ever' = ever \cup {<<call[c].bundle.doc, call[c].to>>}
    /\ call' = [call EXCEPT ![c].at = "refresh"]
    /\ UNCHANGED <<session, page, worker>>

Revoked(c) ==
    /\ Is(c, "revoke", "post") /\ Owns(call[c].user, call[c].bundle.doc)
    /\ HasRow(call[c].bundle.doc, call[c].to)
    /\ grants' = {g \in grants : ~ (g.doc = call[c].bundle.doc /\ g.user = call[c].to)}
    /\ call' = [call EXCEPT ![c].at = "refresh"]
    /\ UNCHANGED <<session, page, worker, ever>>

\* refreshAccessList: whatever is served is shown, if the page is still mounted.
Refreshed(c) ==
    /\ Is(c, "share", "refresh") \/ Is(c, "revoke", "refresh")
    /\ \E b \in Offered(call[c].user, call[c].bundle.doc) :
          /\ Get(call[c].user, b.doc, b)
          /\ page' = IF call[c].live THEN [page EXCEPT !.download = b] ELSE page
    /\ End(c) /\ UNCHANGED <<session, server>>

\* The handler goes to the dashboard, from wherever the tab is by then.
Deleted(c) ==
    /\ Is(c, "delete", "post") /\ Owns(call[c].user, call[c].bundle.doc)
    /\ grants' = {g \in grants : g.doc # call[c].bundle.doc}
    /\ \/ session = None /\ page' = Out /\ call' = Cancel(AllKinds, c)
       \/ /\ session # None /\ page.at # "dashboard"
          /\ ShowDashboard(session, "mine", Cancel(AllKinds, c))
       \/ /\ session # None /\ page.at = "dashboard"
          /\ page' = [page EXCEPT !.scope = "mine", !.loading = (page.scope # "mine") \/ @]
          /\ IF page.scope = "mine" THEN End(c) ELSE
             call' = [Cancel({"load"}, None) EXCEPT ![c] = NewLoad(page.user, session, "mine")]
    /\ UNCHANGED <<session, worker, ever>>

\* An error or a lost answer of share, revoke, delete or of the refresh: a
\* message.  A lost answer may have changed the server first.
EditFailed(c) ==
    /\ call[c] # None /\ call[c].kind \in {"share", "revoke", "delete"}
    /\ End(c)
    /\ UNCHANGED <<session, page, worker, server>>

-----------------------------------------------------------------------------
\* What the person does, and the messages of a sync.
Person ==
    /\ clicks < MaxClicks /\ clicks' = clicks + 1
    /\ \/ \E u \in Users : SignIn(u)
       \/ \E scope \in Scopes : Reload(scope)
       \/ ToDashboard
       \/ \E i \in 1..Cardinality(Docs) : OpenDoc(i)
       \/ \E d \in Docs : JumpToDoc(d)
       \/ Disconnect
       \/ \E c \in Calls : LogoutClick(c)
       \/ \E c \in Calls, kind \in {"share", "revoke", "delete"}, to \in Perhaps(Users) :
             EditClick(c, kind, to)

Program ==
    /\ UNCHANGED clicks
    /\ \/ LatePut
       \/ CachesCleared
       \/ \E c \in Calls :
             \/ LoggedOut(c)
             \/ ListServed(c) \/ ListFailed(c)
             \/ \E i \in 1..Cardinality(Docs) : RowServed(c, i) \/ RowShown(c, i)
             \/ DocServed(c) \/ DocDecrypted(c) \/ DocFailed(c)
             \/ ShareWrapped(c) \/ SharePosts(c) \/ Revoked(c) \/ Refreshed(c)
             \/ Deleted(c) \/ EditFailed(c)

Next == Person \/ Program

Spec == Init /\ [][Next]_vars

-----------------------------------------------------------------------------
\* setRows writes by index: the name under a row is the name of the document of
\* that row, although loads of two scopes may both be under way and end in any
\* order (dashboard.tsx:183).
RowNamesAreTheirs ==
    \A i \in DOMAIN page.rows : page.rows[i].name \in {None, page.rows[i].doc}

\* The caches serve one person's responses to another (push-handler.ts:56), but
\* a name that is shown was once wrapped for somebody who was signed in while
\* the page was mounted: the response of anyone else stays sealed.
NamesWereWrappedForReader ==
    \A d \in {page.rows[i].name : i \in DOMAIN page.rows} \cup {page.name} :
        d # None => \E u \in page.readers : <<d, u>> \in ever

\* Every access row opens its own document for its own user, although share
\* awaits two answers and may end on another document, for another session
\* or after the page is gone (doc-detail.tsx:172).
GrantsOpen ==
    \A g \in grants : g.dek = g.doc /\ g.wrappedFor = g.user

\* The variables keep their types, and a page that says it is loading has a load
\* under way that will say otherwise.
LoadingIsServed ==
    /\ TypeOK
    /\ page.loading =>
        \E c \in Calls : /\ call[c] # None /\ call[c].kind \in {"load", "doc"} /\ call[c].live
                         /\ call[c].at # "rows"
=============================================================================
