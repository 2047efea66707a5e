------------------------- MODULE BrowserReadsProofs -------------------------
(* Theorems about BrowserReads, for every set of people, documents and     *)
(* handlers, and every bound on answers and clicks.                        *)
EXTENDS BrowserReads, FiniteSetTheorems, SequenceTheorems, TLAPS

-----------------------------------------------------------------------------
(* The inductive invariant, as predicates on a page p, a call x, the       *)
(* history e and the cached and late responses.                            *)

AnyCall == Loads \cup Opens \cup Edits \cup Logouts
Responses == Listing \cup Bundle

\* What a URL answers with is of that URL; a bundle is a row that once was.
BundleFine(b, e) == b \in Bundle /\ b.dek = b.doc /\ <<b.doc, b.wrappedFor>> \in e
ReplyFine(url, r, e) == IF url \in Scopes THEN r \in Listing
                        ELSE BundleFine(r, e) /\ r.doc = url

WorkerFine(C, l, e) ==
    /\ C \in [Urls -> Perhaps(Responses)]
    /\ \A url \in Urls : C[url] # None => ReplyFine(url, C[url], e)
    /\ l # None => /\ l \in [url : Urls, reply : Responses]
                   /\ ReplyFine(l.url, l.reply, e)

\* A load that is not cancelled is the dashboard's, its rows are those the
\* dashboard shows, and it opens them with the key of somebody who was there.
LoadFine(x, p, e) ==
    /\ x \in Loads
    /\ x.live => p.at = "dashboard" /\ x.key \in p.readers
    /\ x.at = "rows" => /\ DOMAIN x.got = DOMAIN x.docs
                        /\ \A i \in DOMAIN x.got :
                              x.got[i] = "name" => <<x.docs[i], x.key>> \in e
    /\ x.live /\ x.at = "rows" =>
          /\ DOMAIN p.rows = DOMAIN x.docs
          /\ \A i \in DOMAIN p.rows : p.rows[i].doc = x.docs[i]

OpenFine(x, p, e) ==
    /\ x \in Opens
    /\ x.live => p.at = "doc"
    /\ x.at = "decrypt" => x.bundle # None /\ BundleFine(x.bundle, e)

EditFine(x, e) ==
    /\ x \in Edits /\ BundleFine(x.bundle, e)
    /\ x.kind \in {"share", "revoke"} => x.to # None

CallFine(x, p, e) ==
    x = None \/ LoadFine(x, p, e) \/ OpenFine(x, p, e) \/ EditFine(x, e) \/ x \in Logouts

LiveLoad(x) == x # None /\ x.kind = "load" /\ x.live
CallsFine(C, p, e) ==
    /\ C \in [Calls -> Perhaps(AnyCall)]
    /\ \A c \in Calls : CallFine(C[c], p, e)
    /\ \A c, d \in Calls : LiveLoad(C[c]) /\ LiveLoad(C[d]) => c = d

WasWrapped(d, readers, e) == d # None => \E u \in readers : <<d, u>> \in e

\* Names and the download that the page shows.
PageFine(p, s, e) ==
    /\ p \in Page
    /\ p.at # "out" => p.user \in Users /\ s \in p.readers
    /\ p.download # None => BundleFine(p.download, e)
    /\ \A i \in DOMAIN p.rows : /\ p.rows[i].name \in {None, p.rows[i].doc}
                                /\ WasWrapped(p.rows[i].name, p.readers, e)
    /\ WasWrapped(p.name, p.readers, e)

Serves(x) == x # None /\ x.kind \in {"load", "doc"} /\ x.live /\ x.at # "rows"
Serving(C) == \E c \in Calls : Serves(C[c])

GrantsFine(G, e) ==
    /\ G \subseteq Grant
    /\ \A g \in G : g.dek = g.doc /\ g.wrappedFor = g.user /\ <<g.doc, g.user>> \in e

ReadsCore ==
    /\ session \in Perhaps(Users) /\ clearing \in BOOLEAN
    /\ puts \in 0..MaxPuts /\ ever \subseteq Docs \X Users
    /\ PageFine(page, session, ever)
    /\ CallsFine(call, page, ever)
    /\ page.loading => Serving(call)
    /\ WorkerFine(cache, late, ever)
    /\ GrantsFine(grants, ever)

ReadsInv == ReadsCore /\ clicks \in 0..MaxClicks

-----------------------------------------------------------------------------
(* Lemmas: what the answers are.                                           *)

LEMMA UserType ==
    ASSUME NEW u \in Users PROVE u # None
  BY ReadsAssumption

\* An order of finitely many documents is a sequence of them.
LEMMA OrdersAreSeqs ==
    ASSUME NEW S \in SUBSET Docs, NEW s \in SetToSeqs(S)
    PROVE  s \in Seq(Docs)
  <1>1. Cardinality(S) \in Nat
    BY ReadsAssumption, FS_Subset, FS_CardinalityType
  <1>2. s \in [1..Cardinality(S) -> S]
    BY DEF SetToSeqs
  <1>3. s \in [1..Cardinality(S) -> Docs]
    BY <1>2
  <1> QED BY <1>1, <1>3

LEMMA ListingForFine ==
    ASSUME NEW u \in Users, NEW scope \in Scopes, NEW r \in ListingFor(u, scope)
    PROVE  r \in Listing
  <1> DEFINE mine == {d \in Docs : HasRow(d, u) /\ (Owner[d] = u <=> scope = "mine")}
  <1>1. PICK s \in SetToSeqs(mine) : r = [user |-> u, docs |-> s]
    BY DEF ListingFor
  <1>2. s \in Seq(Docs)
    BY OrdersAreSeqs
  <1> QED BY <1>1, <1>2 DEF Listing

LEMMA BundleForFine ==
    ASSUME GrantsFine(grants, ever), NEW u \in Users, NEW d \in Docs, NEW r \in BundleFor(u, d)
    PROVE  BundleFine(r, ever) /\ r.doc = d
  <1> DEFINE acc == IF Owner[d] = u THEN {h.user : h \in {x \in grants : x.doc = d}} ELSE None
  <1>1. PICK g \in grants : /\ g.doc = d /\ g.user = u
                            /\ r = [doc |-> d, user |-> u, dek |-> g.dek,
                                    wrappedFor |-> g.wrappedFor, access |-> acc]
    BY DEF BundleFor
  <1>2. acc \in Perhaps(SUBSET Users)
    BY DEF GrantsFine, Grant, Perhaps
  <1> HIDE DEF acc
  <1>3. /\ g \in Grant /\ g.dek = g.doc /\ g.wrappedFor = g.user
        /\ <<g.doc, g.user>> \in ever
    BY DEF GrantsFine
  <1> QED BY <1>1, <1>2, <1>3 DEF BundleFine, Bundle, Grant

LEMMA RepliesFine ==
    ASSUME GrantsFine(grants, ever), NEW u \in Users, NEW url \in Urls, NEW r \in Replies(u, url)
    PROVE  ReplyFine(url, r, ever)
  BY ListingForFine, BundleForFine DEF Replies, ReplyFine, Urls

LEMMA ReplyIsResponse ==
    ASSUME NEW url, NEW r, NEW e, ReplyFine(url, r, e)
    PROVE  r \in Responses
  BY DEF ReplyFine, BundleFine, Responses

\* What a request is served, from the network or from the caches, is of its URL,
\* and what it leaves in the caches too.
LEMMA GetFine ==
    ASSUME GrantsFine(grants, ever), WorkerFine(cache, late, ever), puts \in 0..MaxPuts,
           NEW u \in Users, NEW url \in Urls, NEW r \in Offered(u, url), Get(u, url, r)
    PROVE  /\ ReplyFine(url, r, ever)
           /\ WorkerFine(cache', late', ever)
           /\ puts' \in 0..MaxPuts /\ clearing' = clearing
  <1>0. MaxPuts \in Nat
    BY ReadsAssumption
  <1>1. ReplyFine(url, r, ever)
    BY RepliesFine DEF Offered, WorkerFine
  <1>2. CASE UNCHANGED <<cache, late, puts>>
    BY <1>1, <1>2 DEF Get
  <1>3. ASSUME NEW v, ReplyFine(url, v, ever),
               puts < MaxPuts, puts' = puts + 1,
               \/ cache' = [cache EXCEPT ![url] = v] /\ late' = late
               \/ late' = [url |-> url, reply |-> v] /\ cache' = cache
        PROVE  WorkerFine(cache', late', ever) /\ puts' \in 0..MaxPuts
    <2>1. v \in Responses
      BY <1>3, ReplyIsResponse
    <2>2. ASSUME cache' = [cache EXCEPT ![url] = v], late' = late
          PROVE  WorkerFine(cache', late', ever)
      <3>1. cache' \in [Urls -> Perhaps(Responses)]
        BY <2>1, <2>2 DEF WorkerFine, Perhaps
      <3>2. \A a \in Urls : cache'[a] # None => ReplyFine(a, cache'[a], ever)
        BY <1>3, <2>2 DEF WorkerFine
      <3> QED BY <2>2, <3>1, <3>2 DEF WorkerFine
    <2>3. ASSUME late' = [url |-> url, reply |-> v], cache' = cache
          PROVE  WorkerFine(cache', late', ever)
      <3>1. late' \in [url : Urls, reply : Responses] /\ late'.url = url /\ late'.reply = v
        BY <2>1, <2>3
      <3> QED BY <1>3, <2>3, <3>1 DEF WorkerFine
    <2>4. puts' \in 0..MaxPuts
      BY <1>0, <1>3
    <2> QED BY <1>3, <2>2, <2>3, <2>4
  <1>4. CASE r \in Replies(u, url) /\ Stores(url, r)
    BY <1>1, <1>3, <1>4 DEF Stores, Get
  <1>5. CASE \E slow \in Replies(u, url) :
                /\ puts < MaxPuts /\ late = None
                /\ puts' = puts + 1 /\ late' = [url |-> url, reply |-> slow]
                /\ UNCHANGED cache
    BY <1>1, <1>3, <1>5, RepliesFine DEF Get
  <1> QED BY <1>1, <1>2, <1>4, <1>5 DEF Get

-----------------------------------------------------------------------------
(* Lemmas: handlers.                                                       *)

LEMMA CallType ==
    ASSUME NEW x, NEW p, NEW e, CallFine(x, p, e)
    PROVE  x \in Perhaps(AnyCall)
  BY DEF CallFine, LoadFine, OpenFine, EditFine, AnyCall, Perhaps

LEMMA KindOf ==
    ASSUME NEW x, NEW p, NEW e, CallFine(x, p, e), x # None
    PROVE  /\ x.kind = "load" => LoadFine(x, p, e)
           /\ x.kind = "doc" => OpenFine(x, p, e)
           /\ x.kind \in {"share", "revoke", "delete"} => EditFine(x, e)
           /\ x.kind \in AllKinds
  BY DEF CallFine, LoadFine, OpenFine, EditFine, Loads, Opens, Edits, Logouts, AllKinds

\* A handler that is cancelled asks nothing of the page.
LEMMA CancelledFine ==
    ASSUME NEW x, NEW p, NEW q, NEW e, CallFine(x, p, e), x # None
    PROVE  /\ CallFine([x EXCEPT !.live = FALSE], q, e)
           /\ [x EXCEPT !.live = FALSE] # None => ~ LiveLoad([x EXCEPT !.live = FALSE])
  <1> DEFINE y == [x EXCEPT !.live = FALSE]
  <1>1. CASE LoadFine(x, p, e)
    <2>1. /\ y \in Loads /\ y.live = FALSE /\ y.at = x.at /\ y.got = x.got
          /\ y.docs = x.docs /\ y.key = x.key
      BY <1>1 DEF LoadFine, Loads
    <2> QED BY <1>1, <2>1 DEF LoadFine, CallFine, LiveLoad
  <1>2. CASE OpenFine(x, p, e)
    <2>1. y \in Opens /\ y.live = FALSE /\ y.at = x.at /\ y.bundle = x.bundle
      BY <1>2 DEF OpenFine, Opens
    <2> QED BY <1>2, <2>1 DEF OpenFine, CallFine, LiveLoad
  <1>3. CASE EditFine(x, e)
    <2>1. y \in Edits /\ y.live = FALSE /\ y.kind = x.kind /\ y.bundle = x.bundle /\ y.to = x.to
      BY <1>3 DEF EditFine, Edits
    <2> QED BY <1>3, <2>1 DEF EditFine, CallFine, LiveLoad
  <1>4. CASE x \in Logouts
    <2>1. y \in Logouts /\ y.live = FALSE
      BY <1>4 DEF Logouts
    <2> QED BY <2>1 DEF CallFine, LiveLoad
  <1> QED BY <1>1, <1>2, <1>3, <1>4 DEF CallFine

\* One that is not live, or is neither a load nor an open, holds for any page.
LEMMA DetachedFine ==
    ASSUME NEW x, NEW p, NEW q, NEW e, CallFine(x, p, e),
           x # None => x.kind \notin {"load", "doc"} \/ ~ x.live
    PROVE  CallFine(x, q, e)
  <1>1. CASE LoadFine(x, p, e)
    BY <1>1 DEF LoadFine, CallFine, Loads
  <1>2. CASE OpenFine(x, p, e)
    BY <1>2 DEF OpenFine, CallFine, Opens
  <1> QED BY <1>1, <1>2 DEF CallFine

\* What handlers ask of a page.
Alike(p, q) == q.at = p.at /\ p.readers \subseteq q.readers /\ q.rows = p.rows

LEMMA AlikeFine ==
    ASSUME NEW x, NEW p, NEW q, NEW e, CallFine(x, p, e), Alike(p, q)
    PROVE  CallFine(x, q, e)
  BY DEF CallFine, LoadFine, OpenFine, Alike

LEMMA EverGrows ==
    ASSUME NEW x, NEW p, NEW e, NEW f, e \subseteq f, CallFine(x, p, e)
    PROVE  CallFine(x, p, f)
  BY DEF CallFine, LoadFine, OpenFine, EditFine, BundleFine

LEMMA CallsAlike ==
    ASSUME NEW C, NEW p, NEW q, NEW e, CallsFine(C, p, e), Alike(p, q)
    PROVE  CallsFine(C, q, e)
  BY AlikeFine DEF CallsFine

\* A handler starts, goes on or ends.
LEMMA SlotFine ==
    ASSUME NEW C, NEW p, NEW e, CallsFine(C, p, e), NEW c \in Calls, NEW x, CallFine(x, p, e),
           LiveLoad(x) => LiveLoad(C[c]) \/ \A d \in Calls : ~ LiveLoad(C[d])
    PROVE  CallsFine([C EXCEPT ![c] = x], p, e)
  <1>1. x \in Perhaps(AnyCall)
    BY CallType
  <1> QED BY <1>1 DEF CallsFine

LEMMA EndFine ==
    ASSUME NEW C, NEW p, NEW e, CallsFine(C, p, e), NEW c \in Calls
    PROVE  CallsFine([C EXCEPT ![c] = None], p, e)
  BY SlotFine DEF CallFine, LiveLoad

\* The cleanup of a page that is left, or of an effect that runs again.
LEMMA CancelFine ==
    ASSUME CallsFine(call, page, ever), NEW kinds, NEW ended, NEW q,
           \A c \in Calls : call[c] # None /\ call[c].kind \notin kinds => CallFine(call[c], q, ever)
    PROVE  /\ CallsFine(Cancel(kinds, ended), q, ever)
           /\ "load" \in kinds => \A c \in Calls : ~ LiveLoad(Cancel(kinds, ended)[c])
  <1> DEFINE C == Cancel(kinds, ended)
  <1>1. ASSUME NEW c \in Calls
        PROVE  /\ CallFine(C[c], q, ever)
               /\ LiveLoad(C[c]) => LiveLoad(call[c]) /\ call[c].kind \notin kinds
    <2>1. CallFine(call[c], page, ever)
      BY DEF CallsFine
    <2>2. CASE c = ended
      BY <2>2 DEF Cancel, CallFine, LiveLoad
    <2>3. CASE c # ended /\ call[c] # None /\ call[c].kind \in kinds
      <3>1. C[c] = [call[c] EXCEPT !.live = FALSE]
        BY <2>3 DEF Cancel
      <3>2. CallFine(C[c], q, ever) /\ ~ LiveLoad(C[c])
        BY <2>1, <2>3, <3>1, CancelledFine DEF LiveLoad
      <3> QED BY <3>2
    <2>4. CASE c # ended /\ ~ (call[c] # None /\ call[c].kind \in kinds)
      <3>1. C[c] = call[c]
        BY <2>4 DEF Cancel
      <3> QED BY <2>4, <3>1 DEF CallFine, LiveLoad
    <2> QED BY <2>2, <2>3, <2>4
  <1> QED BY <1>1, CallType DEF CallsFine, Cancel, LiveLoad

-----------------------------------------------------------------------------
(* Lemmas: pages.                                                          *)

LEMMA OutFine ==
    ASSUME NEW t, NEW e
    PROVE  PageFine(Out, t, e) /\ Out \in Page /\ Out.loading = FALSE
  <1>1. Out \in Page
    BY DEF Out, Page, Perhaps, Scopes
  <1> QED BY <1>1 DEF Out, PageFine, WasWrapped

\* A page that is mounted has nothing to show yet.
LEMMA FreshFine ==
    ASSUME NEW q \in Page, q.at # "out", NEW u \in Users, q.user = u, q.readers = {u},
           q.rows = <<>>, q.download = None, q.name = None, NEW e
    PROVE  PageFine(q, u, e)
  BY DEF PageFine, WasWrapped

\* A page that stays keeps what it shows, whoever signs in.
LEMMA StaysFine ==
    ASSUME NEW p, NEW t, NEW e, PageFine(p, t, e), NEW q \in Page, Alike(p, q),
           q.user = p.user, q.download = p.download, q.name = p.name,
           NEW v, q.at # "out" => v \in q.readers
    PROVE  PageFine(q, v, e)
  BY DEF PageFine, Alike, WasWrapped

LEMMA NewLoadFine ==
    ASSUME NEW u \in Users, NEW key \in Users, NEW scope \in Scopes, NEW q, NEW e,
           q.at = "dashboard", key \in q.readers
    PROVE  /\ CallFine(NewLoad(u, key, scope), q, e)
           /\ Serves(NewLoad(u, key, scope))
  <1> DEFINE x == NewLoad(u, key, scope)
  <1>1. <<>> \in Seq(Docs) /\ <<>> \in Seq(Outcomes)
    OBVIOUS
  <1>2. x \in Loads
    BY <1>1 DEF NewLoad, Loads
  <1>3. x.kind = "load" /\ x.live /\ x.at = "list" /\ x.key = key
    BY DEF NewLoad
  <1>4. LoadFine(x, q, e)
    BY <1>2, <1>3 DEF LoadFine
  <1>5. x # None
    BY <1>2, NoneAssumption
  <1> QED BY <1>3, <1>4, <1>5 DEF CallFine, Serves

LEMMA NewOpenFine ==
    ASSUME NEW u \in Users, NEW d \in Docs, NEW q, NEW e, q.at = "doc"
    PROVE  CallFine(NewOpen(u, d), q, e) /\ Serves(NewOpen(u, d)) /\ ~ LiveLoad(NewOpen(u, d))
  <1> DEFINE x == NewOpen(u, d)
  <1>1. x \in Opens
    BY DEF NewOpen, Opens, Perhaps
  <1>2. x.kind = "doc" /\ x.live /\ x.at = "get"
    BY DEF NewOpen
  <1>3. OpenFine(x, q, e)
    BY <1>1, <1>2 DEF OpenFine
  <1>4. x # None
    BY <1>1, NoneAssumption
  <1> QED BY <1>2, <1>3, <1>4 DEF CallFine, Serves, LiveLoad

-----------------------------------------------------------------------------
(* What a step has to show.                                                *)

LEMMA Facts ==
    ASSUME ReadsCore
    PROVE  /\ session \in Perhaps(Users) /\ page \in Page
           /\ page.at # "out" => page.user \in Users /\ session \in Users /\ session \in page.readers
           /\ PageFine(page, session, ever) /\ CallsFine(call, page, ever)
           /\ WorkerFine(cache, late, ever) /\ GrantsFine(grants, ever)
           /\ puts \in 0..MaxPuts /\ Alike(page, page)
           /\ \A c \in Calls : CallFine(call[c], page, ever)
  BY DEF ReadsCore, PageFine, CallsFine, Alike, Page

\* Most steps leave the worker and the server alone.
LEMMA TabStep ==
    ASSUME ReadsCore, UNCHANGED <<worker, server>>, session' \in Perhaps(Users),
           PageFine(page', session', ever), CallsFine(call', page', ever),
           page'.loading => Serving(call')
    PROVE  ReadsCore'
  <1>1. UNCHANGED <<cache, late, clearing, puts, grants, ever>>
    BY DEF worker, server
  <1> QED BY <1>1 DEF ReadsCore

\* A handler moves in its slot, while the page it stands on stays alike.
LEMMA SlotStep ==
    ASSUME ReadsCore, NEW q, Alike(page, q), NEW c \in Calls, NEW x, CallFine(x, q, ever),
           LiveLoad(x) => LiveLoad(call[c]),
           call' = [call EXCEPT ![c] = x]
    PROVE  /\ CallsFine(call', q, ever)
           /\ Serving(call) /\ (Serves(call[c]) => Serves(x)) => Serving(call')
  <1>1. CallsFine(call, q, ever)
    BY Facts, CallsAlike
  <1>2. CallsFine(call', q, ever)
    BY <1>1, SlotFine
  <1>3. ASSUME Serving(call), Serves(call[c]) => Serves(x)
        PROVE  Serving(call')
    <2>1. PICK d \in Calls : Serves(call[d])
      BY <1>3 DEF Serving
    <2>2. Serves(call'[d])
      BY <1>3, <2>1, Facts DEF CallsFine
    <2> QED BY <2>2 DEF Serving
  <1> QED BY <1>2, <1>3

LEMMA NoCall == ASSUME NEW q, NEW e
    PROVE  CallFine(None, q, e) /\ ~ LiveLoad(None) /\ ~ Serves(None)
  BY DEF CallFine, LiveLoad, Serves

-----------------------------------------------------------------------------
(* The tab.                                                                *)

\* All handlers of the page that is left are cancelled, those of the next start.
LEMMA LeaveFine ==
    ASSUME ReadsCore, NEW ended, NEW q, NEW c \in Calls, NEW x,
           CallFine(x, q, ever), Serves(x),
           call' = [Cancel(AllKinds, ended) EXCEPT ![c] = x]
    PROVE  CallsFine(call', q, ever) /\ Serving(call')
  <1>1. \A d \in Calls : call[d] # None => call[d].kind \in AllKinds
    BY Facts, KindOf
  <1>2. /\ CallsFine(Cancel(AllKinds, ended), q, ever)
        /\ \A d \in Calls : ~ LiveLoad(Cancel(AllKinds, ended)[d])
    BY <1>1, Facts, CancelFine DEF AllKinds
  <1>3. CallsFine(call', q, ever)
    BY <1>2, SlotFine
  <1>4. call'[c] = x
    BY <1>2 DEF CallsFine
  <1> QED BY <1>3, <1>4 DEF Serving

LEMMA ShowDashboardFine ==
    ASSUME ReadsCore, NEW ended, NEW u \in Users, NEW scope \in Scopes,
           ShowDashboard(u, scope, Cancel(AllKinds, ended))
    PROVE  PageFine(page', u, ever) /\ CallsFine(call', page', ever) /\ Serving(call')
  <1> DEFINE q == [Out EXCEPT !.at = "dashboard", !.user = u, !.readers = {u},
                              !.scope = scope, !.loading = TRUE]
  <1>1. page' = q
    BY DEF ShowDashboard
  <1>2. q \in Page
    BY OutFine DEF Page, Perhaps
  <1>3. /\ q.at = "dashboard" /\ q.user = u /\ q.readers = {u} /\ q.rows = <<>>
        /\ q.download = None /\ q.name = None
    BY DEF Out
  <1> HIDE DEF q
  <1>4. PageFine(q, u, ever)
    BY <1>2, <1>3, FreshFine
  <1>5. PICK c \in Calls : call' = [Cancel(AllKinds, ended) EXCEPT ![c] = NewLoad(u, u, scope)]
    BY DEF ShowDashboard
  <1>6. CallFine(NewLoad(u, u, scope), q, ever) /\ Serves(NewLoad(u, u, scope))
    BY <1>3, NewLoadFine
  <1> QED BY <1>1, <1>4, <1>5, <1>6, LeaveFine

\* The effect of the dashboard runs again.
LEMMA RerunFine ==
    ASSUME ReadsCore, page.at = "dashboard", NEW q \in Page, Alike(page, q),
           q.user = page.user, q.download = page.download, q.name = page.name,
           NEW key \in Users, key \in q.readers, NEW scope \in Scopes, NEW c \in Calls,
           call' = [Cancel({"load"}, None) EXCEPT ![c] = NewLoad(page.user, key, scope)]
    PROVE  PageFine(q, key, ever) /\ CallsFine(call', q, ever) /\ Serving(call')
  <1>1. PageFine(q, key, ever)
    BY Facts, StaysFine
  <1>2. /\ CallsFine(Cancel({"load"}, None), q, ever)
        /\ \A d \in Calls : ~ LiveLoad(Cancel({"load"}, None)[d])
    BY Facts, AlikeFine, CancelFine
  <1>3. CallFine(NewLoad(page.user, key, scope), q, ever) /\ Serves(NewLoad(page.user, key, scope))
    BY Facts, NewLoadFine DEF Alike
  <1>4. CallsFine(call', q, ever)
    BY <1>2, <1>3, SlotFine
  <1>5. call'[c] = NewLoad(page.user, key, scope)
    BY <1>2 DEF CallsFine
  <1> QED BY <1>1, <1>3, <1>4, <1>5 DEF Serving

LEMMA SignInKeeps ==
    ASSUME ReadsCore, NEW u \in Users, SignIn(u)
    PROVE  ReadsCore'
  <1>0. /\ session' = u /\ u \in Perhaps(Users) /\ "shared" \in Scopes /\ page \in Page
        /\ UNCHANGED <<worker, server>>
    BY Facts DEF SignIn, Perhaps, Scopes
  <1>1. CASE page.at # "dashboard" /\ ShowDashboard(u, "shared", Cancel(AllKinds, None))
    BY <1>0, <1>1, ShowDashboardFine, TabStep
  <1>2. CASE /\ page.at = "dashboard" /\ page.scope = "shared"
             /\ page' = [page EXCEPT !.readers = @ \cup {u}] /\ UNCHANGED call
    <2> DEFINE q == [page EXCEPT !.readers = @ \cup {u}]
    <2>1. /\ q \in Page /\ Alike(page, q) /\ q.user = page.user /\ q.loading = page.loading
          /\ q.download = page.download /\ q.name = page.name /\ u \in q.readers
      BY <1>0 DEF Page, Alike
    <2> HIDE DEF q
    <2>2. page' = q
      BY <1>2 DEF q
    <2>3. PageFine(q, u, ever) /\ CallsFine(call, q, ever)
      BY <2>1, Facts, StaysFine, CallsAlike
    <2>4. q.loading => Serving(call)
      BY <2>1 DEF ReadsCore
    <2> QED BY <1>0, <1>2, <2>2, <2>3, <2>4, TabStep
  <1>3. CASE /\ page.at = "dashboard"
             /\ page' = [page EXCEPT !.readers = @ \cup {u}, !.scope = "shared", !.loading = TRUE]
             /\ \E c \in Calls :
                  /\ call[c] = None
                  /\ call' = [Cancel({"load"}, None) EXCEPT ![c] = NewLoad(page.user, u, "shared")]
    <2> DEFINE q == [page EXCEPT !.readers = @ \cup {u}, !.scope = "shared", !.loading = TRUE]
    <2>1. /\ q \in Page /\ Alike(page, q) /\ q.user = page.user
          /\ q.download = page.download /\ q.name = page.name /\ u \in q.readers
      BY <1>0 DEF Page, Alike
    <2>2. page' = q
      BY <1>3
    <2> HIDE DEF q
    <2>3. PageFine(q, u, ever) /\ CallsFine(call', q, ever) /\ Serving(call')
      <3>1. PICK c \in Calls :
               call' = [Cancel({"load"}, None) EXCEPT ![c] = NewLoad(page.user, u, "shared")]
        BY <1>3
      <3>2. page.at = "dashboard"
        BY <1>3
      <3> QED BY <1>0, <2>1, <3>1, <3>2, RerunFine
    <2> QED BY <1>0, <2>2, <2>3, TabStep
  <1> QED BY <1>1, <1>2, <1>3 DEF SignIn

LEMMA ReloadKeeps ==
    ASSUME ReadsCore, NEW scope \in Scopes, Reload(scope)
    PROVE  ReadsCore'
  <1> DEFINE q == [page EXCEPT !.scope = scope, !.loading = TRUE]
  <1>1. page.at = "dashboard" /\ page' = q /\ session' = session /\ UNCHANGED <<worker, server>>
    BY DEF Reload
  <1>2. /\ q \in Page /\ Alike(page, q) /\ q.user = page.user
        /\ q.download = page.download /\ q.name = page.name /\ q.readers = page.readers
    BY Facts DEF Page, Alike
  <1> HIDE DEF q
  <1>3. session \in Users /\ session \in q.readers
    BY <1>1, <1>2, Facts
  <1>4. PageFine(q, session, ever) /\ CallsFine(call', q, ever) /\ Serving(call')
    <2>1. PICK c \in Calls :
             call' = [Cancel({"load"}, None) EXCEPT ![c] = NewLoad(page.user, session, scope)]
      BY DEF Reload
    <2> QED BY <1>1, <1>2, <1>3, <2>1, RerunFine
  <1> QED BY <1>1, <1>4, Facts, TabStep

LEMMA ToDashboardKeeps ==
    ASSUME ReadsCore, ToDashboard
    PROVE  ReadsCore'
  <1>1. session \in Users /\ "shared" \in Scopes
    BY Facts DEF ToDashboard, Scopes
  <1>2. PageFine(page', session, ever) /\ CallsFine(call', page', ever) /\ Serving(call')
    BY <1>1, ShowDashboardFine DEF ToDashboard
  <1> QED BY <1>2, Facts, TabStep DEF ToDashboard

LEMMA OpenDocKeeps ==
    ASSUME ReadsCore, NEW i, OpenDoc(i)
    PROVE  ReadsCore'
  <1> DEFINE d == page.rows[i].doc
             q == [Out EXCEPT !.at = "doc", !.user = session, !.readers = {session},
                              !.loading = TRUE, !.id = d]
  <1>1. session \in Users /\ d \in Docs
    <2>1. page.rows \in Seq(Row) /\ i \in DOMAIN page.rows
      BY Facts DEF OpenDoc, Page
    <2>2. page.rows[i] \in Row
      BY <2>1, ElementOfSeq, LenProperties
    <2> QED BY <2>2, Facts DEF OpenDoc, RowsShown, Row
  <1>2. page' = q /\ session' = session /\ UNCHANGED <<worker, server>>
    BY DEF OpenDoc
  <1>3. PICK c \in Calls : call' = [Cancel(AllKinds, None) EXCEPT ![c] = NewOpen(session, d)]
    BY DEF OpenDoc
  <1> HIDE DEF d
  <1>4. q \in Page
    BY <1>1, OutFine DEF Page, Perhaps
  <1>5. /\ q.at = "doc" /\ q.user = session /\ q.readers = {session} /\ q.rows = <<>>
        /\ q.download = None /\ q.name = None
    BY DEF Out
  <1> HIDE DEF q
  <1>6. PageFine(q, session, ever)
    BY <1>1, <1>4, <1>5, FreshFine
  <1>7. CallFine(NewOpen(session, d), q, ever) /\ Serves(NewOpen(session, d))
    BY <1>1, <1>5, NewOpenFine
  <1> QED BY <1>2, <1>3, <1>6, <1>7, Facts, LeaveFine, TabStep

LEMMA JumpToDocKeeps ==
    ASSUME ReadsCore, NEW d \in Docs, JumpToDoc(d)
    PROVE  ReadsCore'
  <1> DEFINE q == [page EXCEPT !.id = d, !.loading = TRUE]
             x == NewOpen(page.user, d)
             C == Cancel({"doc"}, None)
  <1>1. page.at = "doc" /\ page' = q /\ session' = session /\ UNCHANGED <<worker, server>>
    BY DEF JumpToDoc
  <1>2. /\ q \in Page /\ Alike(page, q) /\ q.user = page.user /\ q.at = "doc"
        /\ q.download = page.download /\ q.name = page.name
    BY <1>1, Facts DEF Page, Perhaps, Alike
  <1>3. PICK c \in Calls : call' = [C EXCEPT ![c] = x]
    BY DEF JumpToDoc
  <1> HIDE DEF q
  <1>4. page.user \in Users /\ session \in q.readers
    BY <1>1, <1>2, Facts DEF Alike
  <1>5. PageFine(q, session, ever)
    BY <1>2, <1>4, Facts, StaysFine
  <1>6. CallsFine(C, q, ever)
    BY <1>2, Facts, AlikeFine, CancelFine
  <1>7. CallFine(x, q, ever) /\ Serves(x) /\ ~ LiveLoad(x)
    BY <1>2, <1>4, NewOpenFine
  <1> HIDE DEF x, C
  <1>8. CallsFine(call', q, ever)
    BY <1>3, <1>6, <1>7, SlotFine
  <1>9. Serving(call')
    BY <1>3, <1>6, <1>7 DEF CallsFine, Serving
  <1> QED BY <1>1, <1>5, <1>8, <1>9, Facts, TabStep

LEMMA OutKeeps ==
    ASSUME ReadsCore, NEW ended, page' = Out, call' = Cancel(AllKinds, ended)
    PROVE  /\ PageFine(page', session', ever) /\ CallsFine(call', page', ever)
           /\ page'.loading = FALSE
  <1>1. \A d \in Calls : call[d] # None => call[d].kind \in AllKinds
    BY Facts, KindOf
  <1>2. CallsFine(call', Out, ever)
    BY <1>1, Facts, CancelFine
  <1> QED BY <1>2, OutFine

LEMMA LeavingKeeps ==
    ASSUME ReadsCore, Disconnect \/ \E c \in Calls : LoggedOut(c)
    PROVE  ReadsCore'
  <1>1. PICK ended : page' = Out /\ call' = Cancel(AllKinds, ended)
    BY DEF Disconnect, LoggedOut
  <1>2. /\ PageFine(page', session', ever) /\ CallsFine(call', page', ever)
        /\ page'.loading = FALSE
    BY <1>1, OutKeeps
  <1>3. /\ session' \in Perhaps(Users) /\ clearing' \in BOOLEAN
        /\ UNCHANGED <<cache, late, puts, grants, ever>>
    BY DEF ReadsCore, Disconnect, LoggedOut, worker, server, Perhaps
  <1> QED BY <1>2, <1>3 DEF ReadsCore

LEMMA LogoutClickKeeps ==
    ASSUME ReadsCore, NEW c \in Calls, LogoutClick(c)
    PROVE  ReadsCore'
  <1> DEFINE x == [kind |-> "logout", live |-> TRUE, user |-> page.user]
  <1>1. page.user \in Users
    BY Facts DEF LogoutClick
  <1>2. x \in Logouts /\ x.kind = "logout"
    BY <1>1 DEF Logouts
  <1>3. CallFine(x, page, ever) /\ ~ LiveLoad(x)
    BY <1>2 DEF CallFine, LiveLoad
  <1>4. call' = [call EXCEPT ![c] = x] /\ page' = page /\ session' = session
        /\ UNCHANGED <<worker, server>> /\ call[c] = None
    BY DEF LogoutClick
  <1> HIDE DEF x
  <1>5. /\ CallsFine(call', page, ever)
        /\ Serving(call) => Serving(call')
    BY <1>3, <1>4, Facts, SlotStep, NoCall
  <1> QED BY <1>4, <1>5, Facts, TabStep DEF ReadsCore

LEMMA WorkerKeeps ==
    ASSUME ReadsCore, LatePut \/ CachesCleared
    PROVE  ReadsCore'
  <1>0. UNCHANGED <<session, page, call, puts, grants, ever>>
    BY DEF LatePut, CachesCleared, server
  <1>1. CASE LatePut
    <2>1. /\ late.url \in Urls /\ late.reply \in Responses /\ ReplyFine(late.url, late.reply, ever)
      BY <1>1, Facts DEF LatePut, WorkerFine
    <2>2. /\ cache' = [cache EXCEPT ![late.url] = late.reply] /\ late' = None
          /\ clearing' = clearing
      BY <1>1 DEF LatePut
    <2>3. cache' \in [Urls -> Perhaps(Responses)]
      BY <2>1, <2>2, Facts DEF WorkerFine, Perhaps
    <2>4. \A a \in Urls : cache'[a] # None => ReplyFine(a, cache'[a], ever)
      BY <2>1, <2>2, Facts DEF WorkerFine
    <2>5. WorkerFine(cache', late', ever)
      BY <2>2, <2>3, <2>4 DEF WorkerFine
    <2> QED BY <1>0, <2>2, <2>5 DEF ReadsCore
  <1>2. CASE CachesCleared
    <2>1. /\ cache' = [a \in Urls |-> None] /\ clearing' = FALSE /\ late' = late
      BY <1>2 DEF CachesCleared
    <2>2. WorkerFine(cache', late', ever)
      BY <2>1, Facts DEF WorkerFine, Perhaps
    <2> QED BY <1>0, <2>1, <2>2 DEF ReadsCore
  <1> QED BY <1>1, <1>2

-----------------------------------------------------------------------------
(* The load of the dashboard.                                              *)

\* A step that asks the server through the worker.
LEMMA AskStep ==
    ASSUME ReadsCore, NEW u \in Users, NEW url \in Urls, NEW r \in Offered(u, url),
           Get(u, url, r), UNCHANGED <<session, server>>,
           PageFine(page', session, ever), CallsFine(call', page', ever),
           page'.loading => Serving(call')
    PROVE  ReadsCore'
  <1>1. /\ WorkerFine(cache', late', ever)
        /\ puts' \in 0..MaxPuts /\ clearing' = clearing
    BY Facts, GetFine
  <1>2. session' = session /\ grants' = grants /\ ever' = ever
    BY DEF server
  <1> QED BY <1>1, <1>2 DEF ReadsCore

LEMMA TheLoad ==
    ASSUME ReadsCore, NEW c \in Calls, NEW at, Is(c, "load", at)
    PROVE  /\ call[c] # None /\ LoadFine(call[c], page, ever) /\ call[c] \in Loads
           /\ call[c].at = at /\ call[c].kind = "load"
  BY Facts, KindOf DEF Is, LoadFine

\* The list has come: the other handlers stand on no dashboard.
LEMMA OthersStay ==
    ASSUME ReadsCore, NEW c \in Calls, Is(c, "load", "list"), call[c].live, NEW q, NEW x,
           CallFine(x, q, ever),
           call' = [call EXCEPT ![c] = x]
    PROVE  CallsFine(call', q, ever)
  <1>1. page.at = "dashboard" /\ LiveLoad(call[c])
    BY TheLoad DEF LoadFine, LiveLoad
  <1>2. ASSUME NEW d \in Calls, d # c
        PROVE  CallFine(call[d], q, ever) /\ ~ LiveLoad(call[d])
    <2>1. CallFine(call[d], page, ever) /\ ~ LiveLoad(call[d])
      BY <1>1, <1>2, Facts DEF CallsFine
    <2>2. call[d] # None => call[d].kind \notin {"load", "doc"} \/ ~ call[d].live
      BY <1>1, <2>1, KindOf DEF LiveLoad, OpenFine
    <2> QED BY <2>1, <2>2, DetachedFine
  <1>3. x \in Perhaps(AnyCall)
    BY CallType
  <1>4. call \in [Calls -> Perhaps(AnyCall)]
    BY Facts DEF CallsFine
  <1>5. call' \in [Calls -> Perhaps(AnyCall)]
    BY <1>3, <1>4
  <1>6. \A d \in Calls : call'[d] = IF d = c THEN x ELSE call[d]
    BY <1>4
  <1> QED BY <1>2, <1>5, <1>6 DEF CallsFine

LEMMA SkeletonRows ==
    ASSUME ReadsCore, page.at = "dashboard", NEW list \in Listing,
           NEW q, q = [page EXCEPT !.loading = FALSE,
                     !.rows = [i \in DOMAIN list.docs |->
                        [doc |-> list.docs[i], owned |-> Owner[list.docs[i]] = page.user,
                         name |-> None, failed |-> FALSE]]]
    PROVE  /\ PageFine(q, session, ever) /\ q.loading = FALSE
           /\ q.at = page.at /\ q.readers = page.readers
           /\ DOMAIN q.rows = DOMAIN list.docs
           /\ \A i \in DOMAIN q.rows : q.rows[i].doc = list.docs[i]
  <1> DEFINE docs == list.docs
             rows == [i \in DOMAIN docs |->
                        [doc |-> docs[i], owned |-> Owner[docs[i]] = page.user,
                         name |-> None, failed |-> FALSE]]
  <1>1. docs \in Seq(Docs)
    BY DEF Listing
  <1>2. Len(docs) \in Nat /\ DOMAIN docs = 1..Len(docs)
    BY <1>1
  <1>3. ASSUME NEW i \in DOMAIN docs
        PROVE  rows[i] \in Row /\ rows[i].doc = docs[i] /\ rows[i].name = None
    <2>1. docs[i] \in Docs
      BY <1>1
    <2>2. (Owner[docs[i]] = page.user) \in BOOLEAN
      OBVIOUS
    <2> QED BY Zenon, <2>1, <2>2 DEF Row, Perhaps
  <1> DEFINE r == rows
  <1>4. DOMAIN r = DOMAIN docs
    OBVIOUS
  <1>5. r \in [1..Len(docs) -> Row]
    BY <1>2, <1>3
  <1>6. r \in Seq(Row)
    BY <1>2, <1>5
  <1>7. q = [page EXCEPT !.loading = FALSE, !.rows = r]
    OBVIOUS
  <1>8. \A i \in DOMAIN r : r[i].doc = docs[i] /\ r[i].name = None
    BY <1>3
  <1> HIDE DEF r, rows
  <1>9. /\ q \in Page /\ q.at = page.at /\ q.readers = page.readers /\ q.user = page.user
        /\ q.download = page.download /\ q.name = page.name /\ q.rows = r /\ q.loading = FALSE
    BY <1>6, <1>7, Facts DEF Page
  <1>10. PageFine(q, session, ever)
    BY <1>8, <1>9, Facts DEF PageFine, WasWrapped
  <1> QED BY <1>4, <1>8, <1>9, <1>10

LEMMA ListServedKeeps ==
    ASSUME ReadsCore, NEW c \in Calls, ListServed(c)
    PROVE  ReadsCore'
  <1> DEFINE x == call[c]
  <1>0. Is(c, "load", "list") /\ UNCHANGED <<session, server>>
    BY DEF ListServed
  <1>1. PICK list \in Offered(x.user, x.scope) :
          /\ Get(x.user, x.scope, list)
          /\ IF x.live
             THEN page' = [page EXCEPT !.loading = FALSE,
                     !.rows = [i \in DOMAIN list.docs |->
                        [doc |-> list.docs[i], owned |-> Owner[list.docs[i]] = page.user,
                         name |-> None, failed |-> FALSE]]]
             ELSE UNCHANGED page
          /\ IF x.live /\ list.docs # <<>>
             THEN call' = [call EXCEPT ![c].at = "rows", ![c].docs = list.docs,
                                       ![c].got = [i \in DOMAIN list.docs |-> "todo"]]
             ELSE End(c)
    BY DEF ListServed
  <1>2. /\ x # None /\ LoadFine(x, page, ever) /\ x \in Loads /\ x.at = "list" /\ x.kind = "load"
        /\ x.user \in Users /\ x.scope \in Scopes /\ x.scope \in Urls
    BY <1>0, TheLoad DEF Loads, Urls
  <1>3. list \in Listing
    <2>1. ReplyFine(x.scope, list, ever)
      BY <1>1, <1>2, Facts, GetFine
    <2> QED BY <1>2, <2>1 DEF ReplyFine
  <1>4. list.docs \in Seq(Docs)
    BY <1>3 DEF Listing
  <1>5. SUFFICES /\ PageFine(page', session, ever) /\ CallsFine(call', page', ever)
                 /\ page'.loading => Serving(call')
    BY <1>0, <1>1, <1>2, AskStep
  <1>6. CASE ~ x.live
    <2>1. page' = page /\ call' = [call EXCEPT ![c] = None] /\ ~ Serves(x)
      BY <1>1, <1>6 DEF End, Serves
    <2>2. CallsFine(call', page, ever) /\ (Serving(call) => Serving(call'))
      BY <2>1, Facts, SlotStep, NoCall
    <2> QED BY <2>1, <2>2, Facts DEF ReadsCore
  <1>7. CASE x.live
    <2>1. page.at = "dashboard" /\ x.key \in page.readers
      BY <1>2, <1>7 DEF LoadFine
    <2>2. /\ PageFine(page', session, ever) /\ page'.loading = FALSE
          /\ page'.at = page.at /\ page'.readers = page.readers
          /\ DOMAIN page'.rows = DOMAIN list.docs
          /\ \A i \in DOMAIN page'.rows : page'.rows[i].doc = list.docs[i]
      BY <1>1, <1>3, <1>7, <2>1, SkeletonRows
    <2>3. CASE list.docs = <<>>
      <3>1. call' = [call EXCEPT ![c] = None]
        BY <1>1, <2>3 DEF End
      <3> QED BY <1>0, <1>7, <2>2, <3>1, NoCall, OthersStay
    <2>4. CASE list.docs # <<>>
      <3> DEFINE got == [i \in DOMAIN list.docs |-> "todo"]
                 y == [x EXCEPT !.at = "rows", !.docs = list.docs, !.got = got]
      <3>1. got \in Seq(Outcomes) /\ DOMAIN got = DOMAIN list.docs
            /\ \A i \in DOMAIN got : got[i] = "todo"
        BY <1>4 DEF Outcomes
      <3>2. call' = [call EXCEPT ![c] = y]
        BY <1>1, <1>7, <2>4
      <3> HIDE DEF got
      <3>3. /\ y \in Loads /\ y.live = x.live /\ y.key = x.key /\ y.at = "rows"
            /\ y.docs = list.docs /\ y.got = got
        BY <1>2, <1>4, <3>1 DEF Loads
      <3>4. LoadFine(y, page', ever)
        BY <2>1, <2>2, <3>1, <3>3 DEF LoadFine
      <3> HIDE DEF y
      <3> QED BY <1>0, <1>7, <2>2, <3>2, <3>4, OthersStay DEF CallFine
    <2> QED BY <2>3, <2>4
  <1> QED BY <1>6, <1>7

\* The flag of a page that stays otherwise the same.
LEMMA LoadedFine ==
    ASSUME ReadsCore, NEW q, q = [page EXCEPT !.loading = FALSE]
    PROVE  PageFine(q, session, ever) /\ Alike(page, q) /\ q.loading = FALSE
  <1>1. /\ q \in Page /\ Alike(page, q) /\ q.user = page.user /\ q.at = page.at
        /\ q.download = page.download /\ q.name = page.name /\ q.loading = FALSE
        /\ q.readers = page.readers
    BY Facts DEF Page, Alike
  <1> QED BY <1>1, Facts, StaysFine

LEMMA FailedKeeps ==
    ASSUME ReadsCore, NEW c \in Calls, ListFailed(c) \/ DocFailed(c)
    PROVE  ReadsCore'
  <1>1. /\ call' = [call EXCEPT ![c] = None]
        /\ page' = IF call[c].live THEN [page EXCEPT !.loading = FALSE] ELSE page
        /\ UNCHANGED <<session, worker, server>>
    BY DEF ListFailed, DocFailed, End
  <1>2. CASE call[c].live
    BY <1>1, <1>2, Facts, LoadedFine, SlotStep, NoCall, TabStep
  <1>3. CASE ~ call[c].live
    <2>1. page' = page /\ ~ Serves(call[c])
      BY <1>1, <1>3 DEF Serves
    <2>2. CallsFine(call', page, ever) /\ (Serving(call) => Serving(call'))
      BY <1>1, <2>1, Facts, SlotStep, NoCall
    <2> QED BY <1>1, <2>1, <2>2, Facts, TabStep DEF ReadsCore
  <1> QED BY <1>2, <1>3

\* A download of a row has been dealt with.
LEMMA RowIsFine ==
    ASSUME ReadsCore, NEW c \in Calls, Is(c, "load", "rows"), NEW i \in DOMAIN call[c].got,
           NEW outcome \in Outcomes,
           outcome = "name" => <<call[c].docs[i], call[c].key>> \in ever,
           RowIs(c, i, outcome),
           NEW q, q.at = page.at, page.readers \subseteq q.readers,
           call[c].live => /\ DOMAIN q.rows = DOMAIN page.rows
                           /\ \A j \in DOMAIN q.rows : q.rows[j].doc = page.rows[j].doc,
           \A d \in Calls : d # c => CallFine(call[d], q, ever)
    PROVE  CallsFine(call', q, ever) /\ (Serving(call) => Serving(call'))
  <1> DEFINE x == call[c]
             y == [x EXCEPT !.got[i] = outcome]
             z == IF outcome = "done" /\ \A j \in DOMAIN x.got : j = i \/ x.got[j] = "done"
                  THEN None ELSE y
  <1>1. x # None /\ LoadFine(x, page, ever) /\ x \in Loads /\ x.at = "rows" /\ x.kind = "load"
    BY TheLoad
  <1>2. x.got \in Seq(Outcomes) /\ DOMAIN x.got = DOMAIN x.docs /\ i \in 1..Len(x.got)
    BY <1>1 DEF LoadFine, Loads
  <1>3. /\ [x.got EXCEPT ![i] = outcome] \in Seq(Outcomes)
        /\ DOMAIN [x.got EXCEPT ![i] = outcome] = DOMAIN x.got
    BY <1>2, ExceptSeq
  <1>4. /\ y \in Loads /\ y.live = x.live /\ y.key = x.key /\ y.at = "rows"
        /\ y.docs = x.docs /\ y.got = [x.got EXCEPT ![i] = outcome] /\ y.kind = "load"
    BY <1>1, <1>3 DEF Loads
  <1> HIDE DEF y
  <1>5. LoadFine(y, q, ever)
    <2>1. y.live => q.at = "dashboard" /\ y.key \in q.readers
      BY <1>1, <1>4 DEF LoadFine
    <2>2. \A j \in DOMAIN y.got : y.got[j] = IF j = i THEN outcome ELSE x.got[j]
      BY <1>2, <1>4
    <2>3. /\ DOMAIN y.got = DOMAIN y.docs
          /\ \A j \in DOMAIN y.got : y.got[j] = "name" => <<y.docs[j], y.key>> \in ever
      <3>1. \A j \in DOMAIN x.got : x.got[j] = "name" => <<x.docs[j], x.key>> \in ever
        BY <1>1 DEF LoadFine
      <3> QED BY <1>2, <1>3, <1>4, <2>2, <3>1
    <2>4. y.live => /\ DOMAIN q.rows = DOMAIN y.docs
                    /\ \A j \in DOMAIN q.rows : q.rows[j].doc = y.docs[j]
      BY <1>1, <1>4 DEF LoadFine
    <2> QED BY <1>4, <2>1, <2>3, <2>4 DEF LoadFine
  <1>6. call' = [call EXCEPT ![c] = z]
    BY DEF RowIs, y
  <1>7. CallFine(z, q, ever) /\ (LiveLoad(z) => LiveLoad(x))
    BY <1>1, <1>4, <1>5, NoCall DEF CallFine, LiveLoad
  <1> HIDE DEF z
  <1>8. CallsFine(call', q, ever)
    <2>1. call \in [Calls -> Perhaps(AnyCall)] /\ z \in Perhaps(AnyCall)
      BY <1>7, Facts, CallType DEF CallsFine
    <2>2. call' \in [Calls -> Perhaps(AnyCall)]
      BY <1>6, <2>1
    <2>3. \A d \in Calls : call'[d] = IF d = c THEN z ELSE call[d]
      BY <1>6, <2>1
    <2>4. \A d \in Calls : CallFine(call'[d], q, ever)
      BY <1>7, <2>3
    <2>5. \A d, e \in Calls : LiveLoad(call[d]) /\ LiveLoad(call[e]) => d = e
      BY Facts DEF CallsFine
    <2> QED BY <1>7, <2>2, <2>3, <2>4, <2>5 DEF CallsFine
  <1>9. ASSUME Serving(call) PROVE Serving(call')
    <2>1. PICK d \in Calls : Serves(call[d])
      BY <1>9 DEF Serving
    <2>2. d # c
      BY <1>1, <2>1 DEF Serves
    <2>3. call'[d] = call[d]
      BY <1>6, <2>2, Facts DEF CallsFine
    <2> QED BY <2>1, <2>3 DEF Serving
  <1> QED BY <1>8, <1>9

LEMMA RowServedKeeps ==
    ASSUME ReadsCore, NEW c \in Calls, NEW i, RowServed(c, i)
    PROVE  ReadsCore'
  <1> DEFINE x == call[c]
  <1>1. /\ Is(c, "load", "rows") /\ i \in DOMAIN x.got
        /\ UNCHANGED <<session, page, server>>
    BY DEF RowServed
  <1>2. x # None /\ LoadFine(x, page, ever) /\ x \in Loads
    BY <1>1, TheLoad
  <1>3. x.user \in Users /\ x.docs[i] \in Docs /\ x.docs[i] \in Urls /\ x.docs[i] \notin Scopes
    <2>1. x.docs \in Seq(Docs) /\ DOMAIN x.got = DOMAIN x.docs /\ x.user \in Users
      BY <1>1, <1>2 DEF LoadFine, Loads, Is
    <2>2. x.docs[i] \in Docs
      BY <1>1, <2>1
    <2> QED BY <2>1, <2>2, UrlsAssumption DEF Urls
  <1>4. ASSUME NEW o \in Outcomes, RowIs(c, i, o), o = "name" => <<x.docs[i], x.key>> \in ever
        PROVE  /\ CallsFine(call', page, ever)
               /\ page.loading => Serving(call')
    BY <1>1, <1>4, Facts, RowIsFine DEF ReadsCore
  <1>5. ASSUME NEW b \in Offered(x.user, x.docs[i]),
               Get(x.user, x.docs[i], b),
               RowIs(c, i, CASE ~ x.live -> "done"
                             [] x.live /\ OpensFor(b, x.key) -> "name"
                             [] OTHER -> "error")
        PROVE  ReadsCore'
    <2> DEFINE o == CASE ~ x.live -> "done"
                      [] x.live /\ OpensFor(b, x.key) -> "name"
                      [] OTHER -> "error"
    <2>1. ReplyFine(x.docs[i], b, ever)
      BY <1>3, <1>5, Facts, GetFine
    <2>2. BundleFine(b, ever) /\ b.doc = x.docs[i]
      BY <1>3, <2>1 DEF ReplyFine
    <2>3. o \in Outcomes /\ (o = "name" => OpensFor(b, x.key))
      BY DEF Outcomes
    <2>4. RowIs(c, i, o)
      BY <1>5
    <2> HIDE DEF o
    <2>5. o = "name" => <<x.docs[i], x.key>> \in ever
      BY <2>2, <2>3 DEF BundleFine, OpensFor
    <2>6. CallsFine(call', page, ever) /\ (page.loading => Serving(call'))
      BY <1>4, <2>3, <2>4, <2>5
    <2> QED BY <1>1, <1>3, <1>5, <2>6, Facts, AskStep
  <1>6. CASE RowIs(c, i, IF x.live THEN "error" ELSE "done") /\ UNCHANGED worker
    <2> DEFINE o == IF x.live THEN "error" ELSE "done"
    <2>1. o \in Outcomes /\ o # "name" /\ RowIs(c, i, o)
      BY <1>6 DEF Outcomes
    <2> HIDE DEF o
    <2>2. CallsFine(call', page, ever) /\ (page.loading => Serving(call'))
      BY <1>4, <2>1
    <2> QED BY <1>1, <1>6, <2>2, Facts, TabStep
  <1> QED BY <1>5, <1>6 DEF RowServed

\* The row that a load of this dashboard has opened, or could not open.
LEMMA ShownFine ==
    ASSUME ReadsCore, NEW c \in Calls, Is(c, "load", "rows"), call[c].live,
           NEW i \in DOMAIN page.rows, i \in DOMAIN call[c].got
    PROVE  /\ PageFine(Shown(c, i), session, ever) /\ Shown(c, i).loading = page.loading
           /\ Shown(c, i).at = page.at /\ Shown(c, i).readers = page.readers
           /\ DOMAIN Shown(c, i).rows = DOMAIN page.rows
           /\ \A j \in DOMAIN page.rows : Shown(c, i).rows[j].doc = page.rows[j].doc
  <1> DEFINE x == call[c]
             r == page.rows[i]
             y == IF x.got[i] = "name" THEN [r EXCEPT !.name = x.docs[i]]
                                       ELSE [r EXCEPT !.failed = TRUE]
             rows == [page.rows EXCEPT ![i] = y]
             q == [page EXCEPT !.rows = rows]
  <1>1. LoadFine(x, page, ever) /\ x \in Loads /\ x.at = "rows"
    BY TheLoad
  <1>2. /\ page.rows \in Seq(Row) /\ i \in 1..Len(page.rows) /\ r \in Row
        /\ r.doc = x.docs[i] /\ x.key \in page.readers
        /\ x.got[i] = "name" => <<r.doc, x.key>> \in ever
        /\ r.name \in {None, r.doc} /\ WasWrapped(r.name, page.readers, ever)
    <2>1. page.rows \in Seq(Row)
      BY Facts DEF Page
    <2>2. i \in 1..Len(page.rows) /\ r \in Row
      BY <2>1
    <2>3. r.name \in {None, r.doc} /\ WasWrapped(r.name, page.readers, ever)
      BY Facts DEF PageFine
    <2>4. r.doc = x.docs[i] /\ x.key \in page.readers
      BY <1>1 DEF LoadFine
    <2>5. x.got[i] = "name" => <<x.docs[i], x.key>> \in ever
      BY <1>1 DEF LoadFine
    <2> QED BY <2>1, <2>2, <2>3, <2>4, <2>5
  <1>3. /\ y \in Row /\ y.doc = r.doc /\ y.name \in {None, y.doc}
        /\ WasWrapped(y.name, page.readers, ever)
    <2>1. CASE x.got[i] = "name"
      <3>1. y = [r EXCEPT !.name = x.docs[i]] /\ x.docs[i] \in Docs
        BY <1>2, <2>1 DEF Row
      <3>2. y \in Row /\ y.doc = r.doc /\ y.name = r.doc
        BY <1>2, <3>1 DEF Row, Perhaps
      <3> QED BY <1>2, <2>1, <3>2 DEF WasWrapped
    <2>2. CASE x.got[i] # "name"
      <3>1. y = [r EXCEPT !.failed = TRUE]
        BY <2>2
      <3>2. y \in Row /\ y.doc = r.doc /\ y.name = r.name
        BY <1>2, <3>1 DEF Row
      <3> QED BY <1>2, <3>2
    <2> QED BY <2>1, <2>2
  <1>4. Shown(c, i) = q
    BY DEF Shown
  <1> HIDE DEF y
  <1>5. /\ rows \in Seq(Row) /\ DOMAIN rows = DOMAIN page.rows
        /\ rows[i] = y /\ \A j \in DOMAIN page.rows : j # i => rows[j] = page.rows[j]
    BY <1>2, <1>3, ExceptSeq
  <1> HIDE DEF rows
  <1>6. /\ q \in Page /\ q.at = page.at /\ q.readers = page.readers /\ q.user = page.user
        /\ q.download = page.download /\ q.name = page.name /\ q.rows = rows
        /\ q.loading = page.loading
    BY <1>5, Facts DEF Page
  <1> HIDE DEF q
  <1>7. \A j \in DOMAIN rows : /\ rows[j].doc = page.rows[j].doc
                               /\ rows[j].name \in {None, rows[j].doc}
                               /\ WasWrapped(rows[j].name, page.readers, ever)
    BY <1>3, <1>5, Facts DEF PageFine
  <1>8. PageFine(q, session, ever)
    BY <1>6, <1>7, Facts DEF PageFine
  <1> QED BY <1>4, <1>5, <1>6, <1>7, <1>8

LEMMA RowShownKeeps ==
    ASSUME ReadsCore, NEW c \in Calls, NEW i, RowShown(c, i)
    PROVE  ReadsCore'
  <1> DEFINE x == call[c]
  <1>1. /\ Is(c, "load", "rows") /\ i \in DOMAIN x.got /\ RowIs(c, i, "done")
        /\ UNCHANGED <<session, worker, server>> /\ "done" \in Outcomes
    BY DEF RowShown, Outcomes
  <1>2. CASE x.live /\ i \in DOMAIN page.rows
    <2>1. page' = Shown(c, i)
      BY <1>2 DEF RowShown
    <2>2. /\ PageFine(page', session, ever) /\ page'.loading = page.loading
          /\ page'.at = page.at /\ page'.readers = page.readers
          /\ DOMAIN page'.rows = DOMAIN page.rows
          /\ \A j \in DOMAIN page.rows : page'.rows[j].doc = page.rows[j].doc
      BY <1>1, <1>2, <2>1, ShownFine
    <2>3. page.at = "dashboard" /\ LiveLoad(x)
      BY <1>1, <1>2, TheLoad DEF LoadFine, LiveLoad
    <2>4. ASSUME NEW d \in Calls, d # c
          PROVE  CallFine(call[d], page', ever)
      <3>1. CallFine(call[d], page, ever) /\ ~ LiveLoad(call[d])
        BY <2>3, <2>4, Facts DEF CallsFine
      <3>2. call[d] # None => call[d].kind \notin {"load", "doc"} \/ ~ call[d].live
        BY <2>3, <3>1, KindOf DEF LiveLoad, OpenFine
      <3> QED BY <3>1, <3>2, DetachedFine
    <2>5. CallsFine(call', page', ever) /\ (Serving(call) => Serving(call'))
      BY <1>1, <2>2, <2>4, RowIsFine
    <2> QED BY <1>1, <2>2, <2>5, Facts, TabStep DEF ReadsCore
  <1>3. CASE ~ (x.live /\ i \in DOMAIN page.rows)
    <2>1. page' = page
      BY <1>3 DEF RowShown
    <2>2. CallsFine(call', page, ever) /\ (Serving(call) => Serving(call'))
      BY <1>1, Facts, RowIsFine
    <2> QED BY <1>1, <2>1, <2>2, Facts, TabStep DEF ReadsCore
  <1> QED BY <1>2, <1>3

-----------------------------------------------------------------------------
(* The page of a document.                                                 *)

LEMMA DownloadFine ==
    ASSUME ReadsCore, NEW b, BundleFine(b, ever), NEW q, q = [page EXCEPT !.download = b]
    PROVE  PageFine(q, session, ever) /\ Alike(page, q) /\ q.loading = page.loading
  <1>1. /\ q \in Page /\ Alike(page, q) /\ q.user = page.user /\ q.at = page.at
        /\ q.download = b /\ q.name = page.name /\ q.loading = page.loading
        /\ q.readers = page.readers /\ q.rows = page.rows
    BY Facts DEF Page, Alike, BundleFine, Perhaps
  <1> QED BY <1>1, Facts DEF PageFine

LEMMA DocUrl ==
    ASSUME NEW d \in Docs PROVE d \in Urls /\ d \notin Scopes
  BY UrlsAssumption DEF Urls

LEMMA DocServedKeeps ==
    ASSUME ReadsCore, NEW c \in Calls, DocServed(c)
    PROVE  ReadsCore'
  <1> DEFINE x == call[c]
  <1>0. Is(c, "doc", "get") /\ UNCHANGED <<session, server>>
    BY DEF DocServed
  <1>1. /\ x # None /\ OpenFine(x, page, ever) /\ x \in Opens /\ x.kind = "doc"
        /\ x.user \in Users /\ x.doc \in Docs /\ x.at = "get"
    BY <1>0, Facts, KindOf DEF Is, OpenFine, Opens
  <1>2. PICK b \in Offered(x.user, x.doc) :
          /\ Get(x.user, x.doc, b)
          /\ IF x.live
             THEN /\ page' = [page EXCEPT !.download = b]
                  /\ call' = [call EXCEPT ![c].at = "decrypt", ![c].bundle = b]
             ELSE End(c) /\ UNCHANGED page
    BY DEF DocServed
  <1>3. BundleFine(b, ever)
    BY <1>1, <1>2, Facts, GetFine, DocUrl DEF ReplyFine
  <1>4. SUFFICES /\ PageFine(page', session, ever) /\ CallsFine(call', page', ever)
                 /\ page'.loading => Serving(call')
    BY <1>0, <1>1, <1>2, AskStep, DocUrl
  <1>5. CASE ~ x.live
    <2>1. page' = page /\ call' = [call EXCEPT ![c] = None] /\ ~ Serves(x)
      BY <1>2, <1>5 DEF End, Serves
    <2>2. CallsFine(call', page, ever) /\ (Serving(call) => Serving(call'))
      BY <2>1, Facts, SlotStep, NoCall
    <2> QED BY <2>1, <2>2, Facts DEF ReadsCore
  <1>6. CASE x.live
    <2> DEFINE y == [x EXCEPT !.at = "decrypt", !.bundle = b]
    <2>1. PageFine(page', session, ever) /\ Alike(page, page') /\ page'.loading = page.loading
      BY <1>2, <1>3, <1>6, DownloadFine
    <2>2. call' = [call EXCEPT ![c] = y]
      BY <1>2, <1>6
    <2>3. /\ y \in Opens /\ y.live = x.live /\ y.at = "decrypt" /\ y.bundle = b /\ y.kind = "doc"
      BY <1>1, <1>3 DEF Opens, BundleFine, Perhaps
    <2> HIDE DEF y
    <2>4. b # None
      BY <1>3, NoneAssumption DEF BundleFine
    <2>5. page'.at = "doc"
      BY <1>1, <1>6, <2>1 DEF OpenFine, Alike
    <2>6. OpenFine(y, page', ever) /\ y # None
      BY <1>3, <2>3, <2>4, <2>5, NoneAssumption DEF OpenFine
    <2>7. CallsFine(call', page', ever) /\ (Serving(call) => Serving(call'))
      BY <1>1, <1>6, <2>1, <2>2, <2>3, <2>6, SlotStep DEF CallFine, LiveLoad, Serves
    <2> QED BY <2>1, <2>7 DEF ReadsCore
  <1> QED BY <1>5, <1>6

LEMMA DocDecryptedKeeps ==
    ASSUME ReadsCore, NEW c \in Calls, DocDecrypted(c)
    PROVE  ReadsCore'
  <1> DEFINE x == call[c]
  <1>0. Is(c, "doc", "decrypt") /\ UNCHANGED <<session, worker, server>>
        /\ call' = [call EXCEPT ![c] = None]
    BY DEF DocDecrypted, End
  <1>1. /\ x # None /\ OpenFine(x, page, ever) /\ x \in Opens /\ BundleFine(x.bundle, ever)
        /\ x.bundle.doc \in Docs
    BY <1>0, Facts, KindOf DEF Is, OpenFine, BundleFine, Bundle
  <1>2. CASE ~ x.live
    <2>1. page' = page /\ ~ Serves(x)
      BY <1>2 DEF DocDecrypted, Serves
    <2>2. CallsFine(call', page, ever) /\ (Serving(call) => Serving(call'))
      BY <1>0, <2>1, Facts, SlotStep, NoCall
    <2> QED BY <1>0, <2>1, <2>2, Facts, TabStep DEF ReadsCore
  <1>3. CASE x.live
    <2> DEFINE n == IF OpensFor(x.bundle, session) THEN x.bundle.doc ELSE page.name
               q == [page EXCEPT !.loading = FALSE, !.name = n]
    <2>1. page' = q
      BY <1>3 DEF DocDecrypted
    <2>2. page.at = "doc" /\ session \in page.readers
      BY <1>1, <1>3, Facts DEF OpenFine
    <2>3. n \in Perhaps(Docs) /\ WasWrapped(n, page.readers, ever)
      BY <1>1, <2>2, Facts DEF OpensFor, BundleFine, WasWrapped, PageFine, Page, Perhaps
    <2> HIDE DEF n
    <2>4. /\ q \in Page /\ Alike(page, q) /\ q.user = page.user /\ q.at = page.at
          /\ q.download = page.download /\ q.name = n /\ q.loading = FALSE
          /\ q.readers = page.readers /\ q.rows = page.rows
      BY <2>3, Facts DEF Page, Alike
    <2> HIDE DEF q
    <2>5. PageFine(q, session, ever)
      BY <2>3, <2>4, Facts DEF PageFine
    <2>6. CallsFine(call', q, ever)
      BY <1>0, <2>4, SlotStep, NoCall
    <2> QED BY <1>0, <2>1, <2>4, <2>5, <2>6, Facts, TabStep
  <1> QED BY <1>2, <1>3

LEMMA TheEdit ==
    ASSUME ReadsCore, NEW c \in Calls, call[c] # None,
           call[c].kind \in {"share", "revoke", "delete"}
    PROVE  /\ EditFine(call[c], ever) /\ call[c] \in Edits
           /\ ~ LiveLoad(call[c]) /\ ~ Serves(call[c])
           /\ call[c].user \in Users /\ call[c].bundle.doc \in Docs
  BY Facts, KindOf DEF EditFine, Edits, LiveLoad, Serves, BundleFine, Bundle

\* A handler of the document page goes on, or ends.
LEMMA EditStep ==
    ASSUME ReadsCore, NEW c \in Calls, call[c] # None,
           call[c].kind \in {"share", "revoke", "delete"},
           NEW x, x = None \/ (EditFine(x, ever) /\ x \in Edits),
           call' = [call EXCEPT ![c] = x], NEW q, Alike(page, q)
    PROVE  CallsFine(call', q, ever) /\ (Serving(call) => Serving(call'))
  <1>1. CallFine(x, q, ever) /\ ~ LiveLoad(x)
    BY NoCall DEF CallFine, LiveLoad, Edits
  <1> QED BY <1>1, TheEdit, SlotStep

LEMMA EditClickKeeps ==
    ASSUME ReadsCore, NEW c \in Calls, NEW kind \in {"share", "revoke", "delete"},
           NEW to \in Perhaps(Users), EditClick(c, kind, to)
    PROVE  ReadsCore'
  <1> DEFINE x == [kind |-> kind, live |-> TRUE, user |-> page.user,
                   at |-> IF kind = "share" THEN "lookup" ELSE "post",
                   bundle |-> page.download, to |-> to]
  <1>1. /\ call' = [call EXCEPT ![c] = x] /\ call[c] = None
        /\ UNCHANGED <<session, page, worker, server>>
    BY DEF EditClick
  <1>2. page.user \in Users /\ BundleFine(page.download, ever)
    BY Facts DEF EditClick, Controls, DocShown, PageFine
  <1>3. kind \in {"share", "revoke"} => to # None
    <2>1. CASE kind = "share"
      BY <2>1, UserType DEF EditClick
    <2>2. CASE kind = "revoke"
      <3>1. to \in page.download.access /\ page.download.access # None
        BY <2>2 DEF EditClick
      <3>2. page.download.access \subseteq Users
        BY <1>2, <3>1 DEF BundleFine, Bundle, Perhaps
      <3> QED BY <3>1, <3>2, UserType
    <2> QED BY <2>1, <2>2
  <1>4. /\ x \in Edits /\ x.kind = kind /\ x.bundle = page.download /\ x.to = to
    BY <1>2 DEF Edits, BundleFine
  <1> HIDE DEF x
  <1>5. EditFine(x, ever) /\ ~ LiveLoad(x)
    BY <1>2, <1>3, <1>4 DEF EditFine, LiveLoad
  <1>6. CallsFine(call', page, ever) /\ (Serving(call) => Serving(call'))
    BY <1>1, <1>5, Facts, SlotStep, NoCall DEF CallFine
  <1> QED BY <1>1, <1>6, Facts, TabStep DEF ReadsCore

LEMMA EditMovesKeep ==
    ASSUME ReadsCore, NEW c \in Calls, ShareWrapped(c) \/ EditFailed(c)
    PROVE  ReadsCore'
  <1> DEFINE y == [call[c] EXCEPT !.at = "post"]
  <1>1. /\ call[c] # None /\ call[c].kind \in {"share", "revoke", "delete"}
        /\ UNCHANGED <<session, page, worker, server>>
        /\ call' = [call EXCEPT ![c] = y] \/ call' = [call EXCEPT ![c] = None]
    BY DEF ShareWrapped, EditFailed, Is, End
  <1>2. y \in Edits /\ y.kind = call[c].kind /\ y.bundle = call[c].bundle /\ y.to = call[c].to
    BY <1>1, TheEdit DEF Edits
  <1> HIDE DEF y
  <1>3. EditFine(y, ever)
    BY <1>1, <1>2, TheEdit DEF EditFine
  <1>4. CallsFine(call', page, ever) /\ (Serving(call) => Serving(call'))
    BY <1>1, <1>2, <1>3, Facts, EditStep
  <1> QED BY <1>1, <1>4, Facts, TabStep DEF ReadsCore

LEMMA SharePostsKeeps ==
    ASSUME ReadsCore, NEW c \in Calls, SharePosts(c)
    PROVE  ReadsCore'
  <1> DEFINE x == call[c]
             y == [x EXCEPT !.at = "refresh"]
             e == ever \cup {<<x.bundle.doc, x.to>>}
  <1>1. /\ x # None /\ x.kind = "share"
        /\ UNCHANGED <<session, page, cache, late, clearing, puts>>
        /\ call' = [call EXCEPT ![c] = y] /\ ever' = e
    BY DEF SharePosts, Is, worker
  <1>2. /\ EditFine(x, ever) /\ x \in Edits /\ x.to \in Users /\ x.bundle.doc \in Docs
        /\ x.bundle.dek = x.bundle.doc /\ x.bundle.dek \in Docs
    BY <1>1, TheEdit DEF EditFine, Edits, Perhaps, BundleFine, Bundle
  <1>3. y \in Edits /\ y.kind = x.kind /\ y.bundle = x.bundle /\ y.to = x.to
    BY <1>2 DEF Edits
  <1>4. EditFine(y, ever)
    BY <1>2, <1>3 DEF EditFine
  <1> HIDE DEF y
  <1>5. CallsFine(call', page, ever) /\ (Serving(call) => Serving(call'))
    BY <1>1, <1>3, <1>4, Facts, EditStep
  <1>6. e \subseteq Docs \X Users /\ ever \subseteq e
    BY <1>2 DEF ReadsCore
  <1>7. CallsFine(call', page, e)
    BY <1>5, <1>6, EverGrows DEF CallsFine
  <1>8. PageFine(page, session, e)
    BY <1>6, Facts DEF PageFine, BundleFine, WasWrapped
  <1>9. WorkerFine(cache, late, e)
    <2>1. \A url, r : ReplyFine(url, r, ever) => ReplyFine(url, r, e)
      BY <1>6 DEF ReplyFine, BundleFine
    <2> QED BY <2>1, Facts DEF WorkerFine
  <1>10. GrantsFine(grants', e)
    <2>1. /\ GrantOf(c) \in Grant /\ GrantOf(c).dek = GrantOf(c).doc
          /\ GrantOf(c).wrappedFor = GrantOf(c).user
          /\ <<GrantOf(c).doc, GrantOf(c).user>> \in e
      BY <1>2 DEF GrantOf, Grant
    <2>2. \A g \in grants' : g \in grants \/ g = GrantOf(c)
      BY DEF SharePosts
    <2> HIDE DEF e
    <2> QED BY <1>6, <2>1, <2>2, Facts DEF GrantsFine
  <1> HIDE DEF e
  <1> QED BY <1>1, <1>5, <1>6, <1>7, <1>8, <1>9, <1>10 DEF ReadsCore

LEMMA RevokedKeeps ==
    ASSUME ReadsCore, NEW c \in Calls, Revoked(c)
    PROVE  ReadsCore'
  <1> DEFINE x == call[c]
             y == [x EXCEPT !.at = "refresh"]
  <1>1. /\ x # None /\ x.kind = "revoke"
        /\ UNCHANGED <<session, page, cache, late, clearing, puts, ever>>
        /\ call' = [call EXCEPT ![c] = y] /\ grants' \subseteq grants
    BY DEF Revoked, Is, worker
  <1>2. y \in Edits /\ y.kind = x.kind /\ y.bundle = x.bundle /\ y.to = x.to
    BY <1>1, TheEdit DEF Edits
  <1>3. EditFine(y, ever)
    BY <1>1, <1>2, TheEdit DEF EditFine
  <1> HIDE DEF y
  <1>4. CallsFine(call', page, ever) /\ (Serving(call) => Serving(call'))
    BY <1>1, <1>2, <1>3, Facts, EditStep
  <1>5. GrantsFine(grants', ever)
    BY <1>1, Facts DEF GrantsFine
  <1> QED BY <1>1, <1>4, <1>5 DEF ReadsCore

LEMMA RefreshedKeeps ==
    ASSUME ReadsCore, NEW c \in Calls, Refreshed(c)
    PROVE  ReadsCore'
  <1> DEFINE x == call[c]
  <1>1. /\ x # None /\ x.kind \in {"share", "revoke", "delete"} /\ UNCHANGED <<session, server>>
        /\ call' = [call EXCEPT ![c] = None]
    BY DEF Refreshed, Is, End
  <1>2. x.user \in Users /\ x.bundle.doc \in Docs
    BY <1>1, TheEdit
  <1>3. PICK b \in Offered(x.user, x.bundle.doc) :
          /\ Get(x.user, b.doc, b)
          /\ page' = IF x.live THEN [page EXCEPT !.download = b] ELSE page
    BY DEF Refreshed
  <1>4. BundleFine(b, ever) /\ b.doc = x.bundle.doc
    BY <1>2, Facts, RepliesFine, DocUrl DEF Offered, WorkerFine, ReplyFine
  <1>5. /\ PageFine(page', session, ever) /\ Alike(page, page') /\ page'.loading = page.loading
    BY <1>3, <1>4, Facts, DownloadFine
  <1>6. CallsFine(call', page', ever) /\ (Serving(call) => Serving(call'))
    BY <1>1, <1>5, EditStep
  <1>7. page'.loading => Serving(call')
    BY <1>5, <1>6 DEF ReadsCore
  <1>8. b.doc \in Urls /\ b \in Offered(x.user, b.doc) /\ Get(x.user, b.doc, b)
    BY <1>2, <1>3, <1>4, DocUrl
  <1> QED BY <1>1, <1>2, <1>5, <1>6, <1>7, <1>8, AskStep

LEMMA DeletedKeeps ==
    ASSUME ReadsCore, NEW c \in Calls, Deleted(c)
    PROVE  ReadsCore'
  <1>1. /\ UNCHANGED <<session, cache, late, clearing, puts, ever>> /\ grants' \subseteq grants
        /\ call[c] # None /\ call[c].kind = "delete" /\ "mine" \in Scopes
    BY DEF Deleted, worker, Is, Scopes
  <1>2. GrantsFine(grants', ever)
    BY <1>1, Facts DEF GrantsFine
  <1>3. SUFFICES /\ PageFine(page', session, ever) /\ CallsFine(call', page', ever)
                 /\ page'.loading => Serving(call')
    BY <1>1, <1>2 DEF ReadsCore
  <1>4. CASE session = None /\ page' = Out /\ call' = Cancel(AllKinds, c)
    BY <1>1, <1>4, OutKeeps
  <1>5. CASE session # None /\ ShowDashboard(session, "mine", Cancel(AllKinds, c))
    BY <1>1, <1>5, Facts, ShowDashboardFine DEF Perhaps
  <1>6. CASE /\ session # None /\ page.at = "dashboard"
             /\ page' = [page EXCEPT !.scope = "mine", !.loading = (page.scope # "mine") \/ @]
             /\ IF page.scope = "mine" THEN End(c) ELSE
                call' = [Cancel({"load"}, None) EXCEPT ![c] = NewLoad(page.user, session, "mine")]
    <2> DEFINE b == (page.scope # "mine") \/ page.loading
               q == [page EXCEPT !.scope = "mine", !.loading = b]
    <2>1. page' = q /\ b \in BOOLEAN
      BY <1>6
    <2>2. b = (page.scope # "mine" \/ page.loading)
      OBVIOUS
    <2> HIDE DEF b
    <2>3. /\ q \in Page /\ Alike(page, q) /\ q.user = page.user /\ q.at = page.at
          /\ q.download = page.download /\ q.name = page.name /\ q.loading = b
          /\ q.readers = page.readers
      BY <1>1, <2>1, Facts DEF Page, Alike
    <2>4. session \in Users /\ session \in q.readers
      BY <1>6, <2>3, Facts
    <2> HIDE DEF q
    <2>5. CASE page.scope = "mine"
      <3>1. call' = [call EXCEPT ![c] = None]
        BY <1>6, <2>5 DEF End
      <3>2. CallsFine(call', q, ever) /\ (Serving(call) => Serving(call'))
        BY <1>1, <2>3, <3>1, EditStep
      <3>3. PageFine(q, session, ever)
        BY <2>3, <2>4, Facts, StaysFine
      <3> QED BY <2>1, <2>2, <2>3, <2>5, <3>2, <3>3 DEF ReadsCore
    <2>6. CASE page.scope # "mine"
      <3>1. call' = [Cancel({"load"}, None) EXCEPT ![c] = NewLoad(page.user, session, "mine")]
        BY <1>6, <2>6
      <3>2. PageFine(q, session, ever) /\ CallsFine(call', q, ever) /\ Serving(call')
        BY <1>1, <1>6, <2>3, <2>4, <3>1, RerunFine
      <3> QED BY <2>1, <3>2
    <2> QED BY <2>5, <2>6
  <1> QED BY <1>4, <1>5, <1>6 DEF Deleted

-----------------------------------------------------------------------------
(* The theorems.                                                           *)

LEMMA InitInv == Init => ReadsInv
  <1> SUFFICES ASSUME Init PROVE ReadsInv
    OBVIOUS
  <1>1. PICK shared \in SUBSET (Docs \X Users) :
          /\ ever = shared \cup {<<d, Owner[d]>> : d \in Docs}
          /\ grants = {[doc |-> a[1], user |-> a[2], dek |-> a[1], wrappedFor |-> a[2]] : a \in ever}
    BY DEF Init
  <1>2. \A d \in Docs : <<d, Owner[d]>> \in Docs \X Users
    BY ReadsAssumption
  <1>3. ever \subseteq Docs \X Users
    BY <1>1, <1>2
  <1>4. ASSUME NEW g \in grants
        PROVE  g \in Grant /\ g.dek = g.doc /\ g.wrappedFor = g.user /\ <<g.doc, g.user>> \in ever
    <2>1. PICK a \in ever : g = [doc |-> a[1], user |-> a[2], dek |-> a[1], wrappedFor |-> a[2]]
      BY <1>1, <1>4
    <2>2. a[1] \in Docs /\ a[2] \in Users /\ a = <<a[1], a[2]>>
      BY <1>3
    <2> QED BY <2>1, <2>2 DEF Grant
  <1>5. GrantsFine(grants, ever)
    BY <1>4 DEF GrantsFine
  <1>6. PageFine(page, session, ever) /\ page.loading = FALSE
    BY OutFine DEF Init
  <1>7. CallsFine(call, page, ever)
    BY NoCall DEF Init, CallsFine, Perhaps
  <1>8. WorkerFine(cache, late, ever)
    BY DEF Init, WorkerFine, Perhaps
  <1>9. /\ session \in Perhaps(Users) /\ clearing \in BOOLEAN
        /\ puts \in 0..MaxPuts /\ clicks \in 0..MaxClicks
    <2>1. MaxPuts \in Nat /\ MaxClicks \in Nat
      BY ReadsAssumption
    <2>2. puts = 0 /\ clicks = 0 /\ session = None /\ clearing = FALSE
      BY DEF Init
    <2>3. puts \in 0..MaxPuts /\ clicks \in 0..MaxClicks
      BY <2>1, <2>2
    <2> QED BY <2>2, <2>3 DEF Perhaps
  <1> QED BY <1>3, <1>5, <1>6, <1>7, <1>8, <1>9 DEF ReadsInv, ReadsCore

LEMMA PersonKeeps == ReadsInv /\ Person => ReadsInv'
  <1> SUFFICES ASSUME ReadsInv, Person PROVE ReadsInv'
    OBVIOUS
  <1>0. ReadsCore /\ clicks' \in 0..MaxClicks
    BY ReadsAssumption DEF ReadsInv, Person
  <1>1. ReadsCore'
    <2>1. \/ \E u \in Users : SignIn(u)
          \/ \E scope \in Scopes : Reload(scope)
          \/ ToDashboard
          \/ \E i \in 1..Cardinality(Docs) : OpenDoc(i)
          \/ \E d \in Docs : JumpToDoc(d)
          \/ Disconnect
          \/ \E c \in Calls : LogoutClick(c)
          \/ \E c \in Calls, kind \in {"share", "revoke", "delete"}, to \in Perhaps(Users) :
                EditClick(c, kind, to)
      BY DEF Person
    <2> QED BY <1>0, <2>1, SignInKeeps, ReloadKeeps, ToDashboardKeeps, OpenDocKeeps, JumpToDocKeeps,
               LeavingKeeps, LogoutClickKeeps, EditClickKeeps
  <1> QED BY <1>0, <1>1 DEF ReadsInv

LEMMA ProgramKeeps == ReadsInv /\ Program => ReadsInv'
  <1> SUFFICES ASSUME ReadsInv, Program PROVE ReadsInv'
    OBVIOUS
  <1>0. ReadsCore /\ clicks' \in 0..MaxClicks
    BY DEF ReadsInv, Program
  <1>1. ASSUME NEW c \in Calls, NEW i, RowServed(c, i) \/ RowShown(c, i)
        PROVE  ReadsCore'
    BY <1>0, <1>1, RowServedKeeps, RowShownKeeps
  <1>2. ASSUME NEW c \in Calls,
               \/ LoggedOut(c) \/ ListServed(c) \/ ListFailed(c)
               \/ DocServed(c) \/ DocDecrypted(c) \/ DocFailed(c)
               \/ ShareWrapped(c) \/ SharePosts(c) \/ Revoked(c) \/ Refreshed(c)
               \/ Deleted(c) \/ EditFailed(c)
        PROVE  ReadsCore'
    BY <1>0, <1>2, LeavingKeeps, ListServedKeeps, FailedKeeps, DocServedKeeps, DocDecryptedKeeps,
       EditMovesKeep, SharePostsKeeps, RevokedKeeps, RefreshedKeeps, DeletedKeeps
  <1>3. ASSUME LatePut \/ CachesCleared
        PROVE  ReadsCore'
    BY <1>0, <1>3, WorkerKeeps
  <1>4. ReadsCore'
    BY <1>1, <1>2, <1>3 DEF Program
  <1> QED BY <1>0, <1>4 DEF ReadsInv

LEMMA NextKeeps == ReadsInv /\ [Next]_vars => ReadsInv'
  <1> SUFFICES ASSUME ReadsInv, [Next]_vars PROVE ReadsInv'
    OBVIOUS
  <1>1. CASE UNCHANGED vars
    BY <1>1 DEF vars, ReadsInv, ReadsCore
  <1>2. CASE Next
    BY <1>2, PersonKeeps, ProgramKeeps DEF Next
  <1> QED BY <1>1, <1>2

\* The invariant holds in every behaviour: whoever signs in on whatever page,
\* and in whatever order the caches, the loads and the handlers come to an end.
THEOREM Invariance == Spec => []ReadsInv
  BY InitInv, NextKeeps, PTL DEF Spec

\* A name is shown under its own document (dashboard.tsx, setRows by index).
THEOREM RowNamesAlways == Spec => []RowNamesAreTheirs
  <1>1. ReadsInv => RowNamesAreTheirs
    BY DEF ReadsInv, ReadsCore, PageFine, RowNamesAreTheirs
  <1> QED BY <1>1, Invariance, PTL

\* No name is shown that was never wrapped for somebody who was signed in while
\* the page was mounted, although the caches mix people (push-handler.ts).
THEOREM NamesAlways == Spec => []NamesWereWrappedForReader
  <1>1. ASSUME ReadsInv PROVE NamesWereWrappedForReader
    <2>1. /\ \A i \in DOMAIN page.rows : WasWrapped(page.rows[i].name, page.readers, ever)
          /\ WasWrapped(page.name, page.readers, ever)
      BY <1>1 DEF ReadsInv, ReadsCore, PageFine
    <2>2. ASSUME NEW d \in {page.rows[i].name : i \in DOMAIN page.rows} \cup {page.name}
          PROVE  WasWrapped(d, page.readers, ever)
      BY <2>1, <2>2
    <2> QED BY <2>2 DEF WasWrapped, NamesWereWrappedForReader
  <1> QED BY <1>1, Invariance, PTL

\* An access row opens its document for its user (doc-detail.tsx, onShare).
THEOREM GrantsOpenAlways == Spec => []GrantsOpen
  <1>1. ReadsInv => GrantsOpen
    BY DEF ReadsInv, ReadsCore, GrantsFine, GrantsOpen
  <1> QED BY <1>1, Invariance, PTL

\* A page that says it is loading has a load under way (dashboard.tsx,
\* doc-detail.tsx); with it the types.
THEOREM LoadingIsServedAlways == Spec => []LoadingIsServed
  <1>1. ASSUME ReadsInv PROVE TypeOK
    <2>0. ReadsCore
      BY <1>1 DEF ReadsInv
    <2>1. ASSUME NEW c \in Calls
          PROVE  \/ call[c] = None
                 \/ call[c].kind = "load" /\ call[c] \in Loads
                 \/ call[c].kind = "doc" /\ call[c] \in Opens
                 \/ call[c].kind = "logout" /\ call[c] \in Logouts
                 \/ call[c].kind \notin {"load", "doc", "logout"} /\ call[c] \in Edits
      <3>1. CallFine(call[c], page, ever)
        BY <2>0, Facts
      <3> QED BY <3>1 DEF CallFine, LoadFine, OpenFine, EditFine, Loads, Opens, Edits, Logouts
    <2>2. /\ DOMAIN cache = Urls
          /\ \A u \in Urls : cache[u] = None
                             \/ cache[u] \in (IF u \in Scopes THEN Listing ELSE Bundle)
      BY <2>0, Facts DEF WorkerFine, ReplyFine, BundleFine
    <2> QED BY <1>1, <2>0, <2>1, <2>2, Facts DEF TypeOK, ReadsInv, ReadsCore, GrantsFine
  <1>2. ASSUME ReadsInv, page.loading
        PROVE  \E c \in Calls : /\ call[c] # None /\ call[c].kind \in {"load", "doc"}
                                /\ call[c].live /\ call[c].at # "rows"
    BY <1>2 DEF ReadsInv, ReadsCore, Serving, Serves
  <1>3. ReadsInv => LoadingIsServed
    BY <1>1, <1>2 DEF LoadingIsServed
  <1> QED BY <1>3, Invariance, PTL
=============================================================================
