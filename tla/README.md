# Vellaris in TLA+

Vellaris is an end-to-end encrypted document service: a FastAPI server that
stores ciphertext and access rows, a Python SDK and CLI, and a single-page web
application with a service worker and a crypto worker. This directory holds TLA+
specifications of its stateful parts, the TLC configurations that check them on
small instances, and TLAPS proofs of the most important results for every
instance.

## 1. Inventory

### Server (`src/src/vellaris/server`)

| Component | State | Operations | What is hard | Correct when |
|---|---|---|---|---|
| Document routes (`routes/documents.py`) | `documents`, `document_access`, `audit_log` rows; blobs | upload, list, download, share, revoke, delete | every handler is a coroutine whose reads are stale by the time it commits; blob calls are outside the transaction; crash and storage errors between the two | owner always keeps a row, readers change only by committed owner requests, blobs follow rows, audit log agrees with rows |
| Challenge login and sessions (`routes/auth.py`, `sessions.py`, `security.py`) | `auth_challenges`, `sessions`, `users` | challenge, verify, logout, authenticated request | two verifications of one challenge; touch of a session another request revokes | no service after logout; an answer spends its challenge |
| Passkeys (`routes/webauthn.py`) | `webauthn_challenges`, `webauthn_credentials` | register and authenticate begin/finish, list, delete | challenge consumption is undone by every error that rolls back; the sign counter is read before it is written | a passkey is filed under who asked for it; an assertion is not used twice, and a challenge found by nobody after its first use |
| Notification subscriptions and push (`routes/notifications.py`, `push.py`) | `push_subscriptions` | subscribe, unsubscribe, list, send_push | network call per row between the read and one commit at the end | outcomes of one endpoint do not depend on another row |
| Key blobs and users (`routes/keyblobs.py`, `routes/users.py`) | `key_blobs`, `users` | push, pull, delete, pull by name; signup, lookups | upsert from a stale read; unique names | last write wins; one account per name |
| Rate limiter (`limits.py`) | token buckets in memory | take a token per request | boundary of refill and capacity | never more than capacity plus refill |
| Audit (`audit.py`) | signing key cache | record, verify | caller commits | entry and change in one commit |
| Blob store (`storage*.py`) | files | put, get, delete, exists | crash during a write | a key holds a complete blob or none |

### Clients

| Component | State | Operations | What is hard | Correct when |
|---|---|---|---|---|
| Session and keys of a tab (`state/session.ts`, `keystore.ts`, `key-cache.ts`; connect, signup, login, recover, layout, settings) | sessionStorage, memory, localStorage, IndexedDB, a legacy key | connect, sign up, log in (passphrase, passkey), push/pull/delete of the key blob, enroll a passkey, log out, reload | handlers outlive their pages; several tabs share the stores; writes nobody awaits; migration with failing stores | a tab is one person's; the key an account was made with is kept |
| Read caches (`sw-cache.ts`, `dashboard-cache.ts`, the worker's routes; dashboard and document page) | per-URL caches, decrypted names, the page | load, open, share, revoke, delete, sign out | cached answers of a former person or of before a change; late puts; loads of former pages | rows show their own names; grants open their document |
| Service worker queue (`sw/push-handler.ts`, `pending-uploads.ts`, upload) | the Workbox background-sync queue; a list in localStorage | queue, replay, broadcast | worker and page stop independently; replay after success; two copies of one list | order kept, nothing repeated without a lost answer, the queue drains |
| Push in the browser (`push-subscription.ts`, `notifications.ts`, settings, prompts and banners) | browser subscription, stored id, dismissal counters, deferred install event | subscribe, unsubscribe, disable, remove, dismiss, install, update | two owners of one fact; handshakes that outlive a sign-out | the live row is of who asked; a refusal lasts as long as the code lets it |
| Crypto worker client (`crypto/worker-client.ts`, `worker.ts`) | pending calls by number | call, reply, error, fallback in-thread | replies out of order; a dead worker | each call gets its own answer |
| Web cryptography (`crypto/*.ts`) | none | wrap, unwrap, encrypt, decrypt, (de)serialize | layouts, lengths, versions and associated data that must agree across operations | what one side makes the other opens; what was changed or cut, or is not of one document, is an error |
| Deployment builder (`docs/pages/deployment.tsx`, `install/`) | fields, URL, localStorage (configuration, credentials) | edit, follow a link, export, forget, reset | effects that write the URL and the stores later; two tabs; nine generators that must agree on variables | no credential in a link or an unmarked box; a link reopens what was shown |
| Python SDK and CLI (`client/`, `cli/`) | keystore files, config | signup, login, documents | crash between the server call and the local write | a signed-up user can log in |

The components interact through HTTP requests (pages, service worker and SDK to
routes), database rows (routes to routes, each request in a transaction of its
own), asyncio tasks (a share or revocation creates `send_push`), messages
(worker to tabs, crypto worker to page), and browser stores that several tabs
and the service worker share.

The hazards of this code, each with the line where it bites and the properties
that watch it, are listed under `hazards` in `PROJECT.json`.

## 2. Plan

The order follows what the system promises its users: who may read a document,
then who is logged in, then the two pieces with the most interleavings around
them, then the clients.

| | Module | Contents | State |
|---|---|---|---|
| 1 | `AccessControl` | abstract: who may read which document, atomically | done |
| 2 | `Documents`, `DocumentsProofs` | the document routes; implements `AccessControl` | done |
| 3 | `AuthSessions`, `AuthSessionsProofs` | challenge login, sessions, `current_user` | done |
| 4 | `Passkeys`, `PasskeysProofs` | passkey registration and login | done |
| 5 | `Accounts`, `Push`, `PushProofs` | subscriptions and `send_push`; its proofs also hold those of 9 | done |
| 6 | `Outbox`, `OfflineQueue`, `OfflineQueueProofs` | abstract: mutations sent later, in order; the service worker's queue and the pages around it, which implement it | done |
| 7 | `Browser`, `BrowserAccount`, `BrowserProofs` | session, keystore with its migration, signup, logins, key blob and passkey pages; its proofs also hold those of 11 | done |
| 8 | `BrowserReads`, `BrowserReadsProofs` | read caches, dashboard, document page | done |
| 9 | `Banners`, `BrowserPush` | prompts and banners; push subscription of the browser, which extends it | done |
| 10 | `Envelopes`, `CryptoWorker`, `CryptoWorkerProofs` | the cryptographic operations as an algebra; calls to the worker, which extends it | done |
| 11 | `InstallBuilder` | the deployment command builder | done |
| 12 | `TokenBucket` | rate limiter | not done: a synchronous function of floats and a clock; nothing interleaves |
| 13 | `SdkLogin` | the SDK's loop over local keys | not done: sequential, one process, one file |

`Accounts` and `Browser` only hold constants: the accounts that the two ends of a
subscription share, and the tabs that share the browser's storage, so that one
module of proofs can extend two components at once. What such a pair defines has
different names: `WebInit`, `WebNext`, `WebSpec` in `BrowserPush`, `BuilderInit`,
`BuilderNext`, `BuilderSpec` in `InstallBuilder`.

What is left: the races inside `PUT /key-blobs/me`.

## 3. How the models correspond to the code

Names of operators, operations and program points are those of the source, and
`map` in `PROJECT.json` gives the lines of each definition.

**Server modules** (`Documents`, `AuthSessions`, `Passkeys`, `Push`). Every
request is a coroutine with a database session. One step is what a handler does
between two points that others can observe: a SELECT, a blob or push-service
call, or the COMMIT with the flush before it. `req[r]` is the handler's program
counter and its locals; a handler identifier is used again once it has answered. What
a session has added and not committed is in the request, not in the tables.
Assumptions about the database and the ORM:

- reads are read-committed: a SELECT sees what was committed when it runs, and
  nothing read is locked. A database in repeatable-read (MySQL's default) is not
  modelled;
- an ORM UPDATE that matches no row raises `StaleDataError`; an ORM DELETE that
  matches none is a warning; a duplicate INSERT raises `IntegrityError`. Each
  exception that reaches `get_session` rolls back all the session had pending;
- a flush before the commit locks its row until the transaction ends. It matters
  at two places: the placeholder row of an upload, and the DELETE that
  autoflush emits in `auth_finish`.

A crash ends every handler and loses what it had not committed; rows and blobs
survive.

- `Documents`: `UploadBegin/Insert/Blob`, `ShareLookup/Commit/Notify`,
  `Revoke...`, `Delete...`, `Download...` are the awaits of the five routes.
  `access` holds the `document_access` rows, `trail` the last committed audit
  entry of a document and user, `notices` the push tasks not yet started. List is the
  operator `Listing`: one SELECT that changes nothing.
- `AuthSessions`: `auth_challenges` and `sessions` are functions from ids to
  rows; time is the action `Expire`; whether a signature verifies is a choice of
  the client. `current_user` is `Call...`, because every authenticated route
  starts with it.
- `Passkeys`: authenticators and browsers are actions of their own (`Sign...`),
  with a counter for each authenticator that counts. An assertion or attestation
  is identified by the challenge it answers. `gen` tells a credential row from
  an earlier one with the same id.
- `Push`: the sender's session-wide sets `touch`, `drop` and `report` are what
  the unit of work holds until the one commit at the end.

**Browser modules**. One step is one turn of the event loop: what a handler does
between two awaits, an effect, a message, an answer of the server. `call[c]` (or
`page[g]`, `tab[t]`) holds the locals of a handler under way; a handler goes on
after its page is left, because React drops its state and not the promise. The
server is atomic there (its own interleavings are the server modules') and keeps
the rows these pages can see. What a person does is an action that the page in
view enables.

- `OfflineQueue`: the network is up, unreachable (the browser says it is online)
  or offline. A mutation is submitted once by one tab; the worker passes it on or
  queues it; `Caught` is the page's catch block. `replay` is the running `onSync`
  and the entry it holds, which is in no store while its request runs. `applied`,
  `lost` and `queued` are history. `queue`, `registered` and `late` are Workbox's
  and the browser's, modelled from the way the worker uses them.
- `BrowserAccount`: `tab[t]` is what a tab holds (`tok` and `who` in
  sessionStorage, `pem` in the key cache); `serverUrl`, the keystore in memory,
  IndexedDB and the key of the former version are shared by tabs. A key is its
  identity: whether a wrapped key opens is whether the passphrase of the same
  person is typed. Boot with its migration, failing `idbSet`, reload and a lost
  answer are actions.
- `BrowserReads`: `page` is the mounted page with the names it has decrypted;
  `worker` is the cache by URL (stale-while-revalidate for the list, network
  first for documents); `grants` are the access rows with the key that was
  wrapped and the key it was wrapped for. A name opens only with a grant for the
  reader (`OpensFor`). The history field `readers` of a page is everybody in whose
  session it was mounted: a page that is not left keeps its names when the session
  of the tab changes under it.
- `Banners` has what the dashboard shows and when (`PromptShown`, the passkey
  nudge, the install and update banners, the highlighted row); `BrowserPush`
  extends it with the subscription of the browser, its rows on the server, the id
  kept in localStorage, and the handshakes. The `token` of a handler is that of its
  client: the tab's session, one that was left without the server's knowledge, or
  one that has ended, whose calls the server refuses. `asker` and `refused` are
  history.
- `Envelopes`: bytes are sequences of fields, a ciphertext is a term with its
  key, nonce, associated data and plaintext, and every operation answers
  `Ok(value)` or `Fail(error)` as the code throws. `Garbled` stands for bytes
  that a change, a cut or a wrong key produces. `CryptoWorker` puts these
  operations behind `callWorker`: numbers, `pending`, the inbox, concurrent
  `onmessage` handlers, replies, the error event and the in-thread fallback.
- `InstallBuilder`: a field is its value, a number in tenths, for the fields take
  fractions (1.5 is 15); a snippet is a set of lines, each the
  variable it sets, the one it refers to and the secret it shows. The effects that
  write URL and stores run later than the edit (`due`), and a tab may be closed in
  between. `live` (credentials held by a tab or typed since) is history. `Spread` is
  the spread of object literals, `Links` the links somebody may have: a query string
  names fields of the page and its numbers may be anything (`LinksAssumption`).

## 4. Runs

| Run | Question | Distinct states |
|---|---|---|
| `documents_faults` | three handlers on one document with crashes, failing commits and failing storage: the safety invariants, and the refinement of `AccessControl` | 586 k |
| `documents_calm` | two handlers, two documents, a user who has no account, nothing fails: blobs match rows, the invariant of the proofs holds, every request is answered | 23 k |
| `auth_faults` | two handlers, two users, crashes and failing commits: logout is final, no route after logout, answers spend challenges | 109 k |
| `passkeys_faults` | registration, login and deletion of a passkey that counts and one that does not, with failures: no replay but a concurrent one, filed under who asked, refusals that commit spend the challenge | 440 k |
| `push_faults` | two browsers, two accounts, a sender between its calls | 1.35 M |
| `queue_faults` | upload, key push and deletion with lost answers, refusals, expiry and a stopped worker: the refinement of `Outbox`, no repetition without a lost answer, the queue drains | 245 k |
| `browser_account` | two people, a browser with or without an old key, two handlers that outlive their pages, lost requests | 1.59 M |
| `browser_reads` | two people one after the other, the worker's caches, shares, revocations and deletions | 682 k |
| `browser_push` | two people at one browser, four kinds of device, handshakes that outlive sign-outs, prompts and banners | 2.75 M |
| `crypto_worker` | two pages through one worker that may fail or die, blobs that were changed or cut, and a document read back with parts in each other's place or of another document | 450 k |
| `crypto_message` | does a wrong passphrase show "Incorrect passphrase."? Not with a real worker (section 6) | |
| `builder` | two tabs, links, effects, stored credentials, every generator | 533 k |

Every state variable's type is a `TypeOK`: of `Documents` it is part of `IndInv` in
`documents_calm`, of `AuthSessions`, `Passkeys` and `Push` a theorem, of the other
modules the first conjunct of one invariant of their run.

Bounds. Two handlers are needed for every race listed as a hazard. The third in
`documents_faults` lets a share, a revocation and a deletion of one document
overlap, which the audit property needs. One document suffices there because no
handler of one document reads rows of another, except the uploads that wait for the
unique `blob_key`; those meet in `documents_calm`, with two documents. Ids are
drawn once each, so the number of ids bounds the creations. In `Passkeys` two
challenges give a registration, a login and its replay, with either kind of
passkey; a second login with a third handler needs more, and the theorems cover it. In `Push` two
rows are needed for one stale row to affect the other; ids are used once, so a
browser can be subscribed twice over. In `OfflineQueue` the three kinds of
mutation meet in one queue and one lost answer is allowed (`MaxLost`). The
browser modules have two handlers under way, two people, and bounds on what
people do where a page can be clicked for ever: `MaxClicks` (gestures),
`MaxPuts` (late writes of the cache), `MaxEndpoints` (subscriptions the browser
hands out), `SoftDismissLimit` (a constant of the code, made small). Six clicks
are enough to sign in, open, leave, sign out, and sign in again. In
`CryptoWorker` (three) and `InstallBuilder` (four) answers, effects, toggle events
and closing a tab are free, and only gestures count. `browser_account` needs no
such bound; it has one tab, as a second one multiplies its states
past what a run can hold: what two tabs do to the shared keystore is left to the
theorems, which hold for any set `Tabs`.
Symmetry is declared only where a run checks no liveness and the cfg singles out
no member of the set. Deadlock is not checked where these bounds, or a person
who does nothing more, may end a behaviour.

Fairness. `Documents!FairSpec` makes each handler weakly fair: the event loop
resumes a coroutine whose await is over, and nobody has to send a request.
The INSERT of an upload is strongly fair: it waits for the lock on its
`blob_key`, which others may take and release in between, and the lock queue of
the unique index lets each in its turn. `OfflineQueue!FairSpec` makes the worker's sync weakly fair: the
browser fires a registered sync and retries one that threw, which Background
Sync does while the worker is registered. It says nothing of the network:
`QueueDrains` assumes that the network stays up from some time on. A browser
that gives up after its last retry is not modelled; the queue then waits for
the next request that fails. The other modules assume no fairness: a `fetch` may
hang and a person may leave. `LoadingIsServed` and `NoCallIsLost` say as
invariants what would otherwise need it: whoever waits is waited on by a step
that can still be taken.

Each property of a passing run has a mutant in `PROJECT.json`: a definition next
to the real one (its comment begins with "Mutant") that changes it the way a
plausible bug would and makes TLC find the property violated.

## 5. Proofs

`tlapm` checks every obligation of the eight proof modules. The theorems hold for
any number of users, documents, challenges, tokens, passkeys, endpoints, tabs, pages
and handlers, any set of faults and any bound on gestures, from the assumptions
named in the modules alone: `None` is no member of the sets it stands beside,
`Faults` is a subset of the named faults, bounds are numbers; accounts are users,
the authenticators that do not count are authenticators, the handlers of `Passkeys`
at one time are finitely many, the former key is a key; `Garbage`, what does not
parse, is no number and a link names fields of the page; the documents of
`BrowserReads` are finitely many and none is called like the URL of a list; the
amounts a number field takes are integers (of tenths); `File` is a sequence of
strings, and bytes that were changed are neither a key nor what was written; a
device with iOS has push only when installed.

`DocumentsProofs`. `OwnerKeepsAccess` is not inductive: `RevokeCommit` deletes
the row the handler read before, so one must know that it is never the owner's.
`IndInv` adds `HandlerInv`, what a handler may rely on although it holds no lock:
its document exists and keeps its owner, a revocation is never of its caller,
a deletion at its commit has removed the blob, a download past its second read
saw a live document. `UploadsApart` (two uploads in flight have drawn
different ids) is what makes the commit of an upload safe. One lemma for each
conjunct (`TypeStep`, `OwnerStep`, `BlobStep`, `FreshStep`, `AuditStep`,
`HandlerStep`, `ApartStep`) goes through the actions that can disturb it;
`Invariance` combines them. The listings (`AllScopeIsBoth`, which follows from
`OwnerKeepsAccess` and has no run of its own), the blobs, the audit log and
`ServedWhileEntitled` follow. `Refinement` maps every commit to one action of
`AccessControl` and everything else to a stutter. The same invariant knows that a
handler that is about to notify has committed its audit entry (`NotifyInv`:
`NoticeSafe`), and, where nothing fails, that every blob is a live document's or
awaits the commit of its upload (`CalmInv`). `LiveBlobSafe` and `QuietSafe` carry
the hypothesis `Faults = {}`, as their run does: with failing storage they are false.

`AuthSessionsProofs`. `LogoutIsFinal` needs that a session row a handler has
read was once there (a logged-out token is gone, and a gone row never returns)
and that the token drawn by a verification in flight belongs to no other.
`NoStaleSession` and `ChallengeSpent` are action properties proved from the
same invariant.

`PushProofs`. The invariant adds `Apart` for each sender: a device has at most
one outcome in its sets, and none before its SELECT, which is what keeps its
commit all or nothing and within the account it read. Under "The browser's side" it
proves the two properties of `BrowserPush`.
`LiveRow`, the property without the tab's own session, is inductive with what a
handler relies on across its awaits (`HandlerFits`): its client speaks for who is
signed in; the endpoint it is about to register was made for that account; and
between dropping one subscription and making the next, the row of whatever
subscription the browser has then belongs to its own account or to one with a
session. An endpoint that was not made yet is registered nowhere (`FreshRows`). The
attempt found the model wrong: with ten clicks, a handler of a session that had
ended could register once the same person had signed in again, which the server
refuses because the token is dead; hence `token`. `OfferInv` is what makes
`RefusalLasts` inductive: a refusal is both remembered and on the page (that of the
prompt for notifications on the page alone), and where there is no push no soft
dismissal is counted without its moment.

`PasskeysProofs`. `CounterStopsReplay` needs a chain of facts about two moments
of one handler. `Apart`: at most one handler is past the flushed DELETE of a
challenge. `RowsOK`: the stored counter of a passkey that was enrolled once is
that of a login that has committed. Hence `ReadOK`: a handler whose challenge
has opened a session before has read the counter of some committed login; its
assertion counts further (`HandlerOK`), so either it is refused or the login
whose counter it read is older, which is `Overtaken`. `ProofsOK` (an
authenticator registers once, and counts from one) gives `FiledForRequester`
and starts the chain. The model checker found the case of the older login only
with three handlers: with two, the simpler statement "one assertion, one
session" holds. An authenticator whose counter stays zero (a synced passkey) is no
part of it: what is left is `ReplayIsConcurrent`, a bound that `OneUse` proves by
counting the handlers that had found the challenge (`GoneStays`, `NobodyJoins`).

`OfflineQueueProofs`. `WaitsInOrder` says that what waits is the end of what was
queued; it needs that an entry is queued once (`Once(queued)`), or the end would
not say which copy is meant, and hence that a mutation a page can still hand over
is neither queued nor executed (`UntriedIsNowhere`). `RepeatNeedsLostAnswer` needs
`WaitingHasRoom`: what waits was executed at most as often as answers to it got
lost. `Shape` reduces every step to one of five things that can happen to the
queue and the server, which the proof then goes through. Each of them is a step of
`Outbox` or none, with `Waiting` for its outbox: what a page still tries to hand over
is new there (`TriedIsNew`), which gives `Refinement`. It says
more than `WaitsInOrder`, a lemma on the way: also what the server gets, that nothing
enters twice or out of nowhere, and that only the first is ever sent.

`BrowserProofs`. `TabOK` says what a tab shows and holds: its key is the one
of the account of its token, and what a page memoised is of the session it was
mounted in. `CallOK` says what each handler holds across its awaits; a passkey
login that was answered has the key its account was made with. Accounts are made
once, so all of this survives what other tabs do (`TabKeeps`, `CallKeeps`).
`AccountKeyWasKept` is inductive with them because a sign-up has put its key into
the keystore before the account exists.
Under "InstallBuilder" it proves the four properties of the builder. `BuilderInv`
types every field of every page (`Whole`), says that a tab whose effect has run
shows its state in its URL and that a URL names no credential (`Query`), and that
a credential which a page or the stored entry holds is live; the last is what
`ForgottenIsGone` lacks, because any page may save what it holds. `LinkReopens` is
then `RoundTrip`, a fact about the codec that needs no more than typed fields, with
`ParsesToNearest`, by which a number comes back as the positive integer nearest to it, and
the two properties of the snippets are `BoxesSound`: a set of lines is `Sound` for a
state when each line with a credential is one of inline mode and each variable it
refers to is exported, and every generator is a union of sound sets, one lemma
for each. The proof found two `CASE`s of the model whose guards overlapped, in
`Aws` and in `DockerEnvFlags`, where TLA+ leaves the choice open and TLC takes the first
as the code does; they are exclusive now. That a query string has fields of the
page only, which `Links` had by its values, became `LinksAssumption`.

`BrowserReadsProofs`. An answer, cached, late or in a handler, is of its URL, and a
document's answer is a grant that once was (`BundleFine`); a load that is not
cancelled is the dashboard's and its rows are those shown (`LoadFine`), with at most
one such load. `NamesWereWrappedForReader` was first stated for the reader of the
moment and is then false with three people, which a run with two does not show: a
page that stays mounted keeps the names of the one before. It now speaks of
`readers`. `LoadingIsServed` is the invariant that whoever waits is waited on.

`CryptoWorkerProofs`. A number is used once, by one entry of `pending` and by one
message, wherever it is (`Numbered`); a request is the one its caller awaits and an
answer one to it (`RequestFits`, `AnswerFits`), which gives that answers do not
change hands when they overtake each other; while the worker is not dead every call
has a message under way (`OnItsWay`), which is `NoCallIsLost`. What the answers are
worth comes from lemmas about the algebra of `Envelopes`: `WrappedOpens` (a wrapped key
opens with its passphrase), `ReadsWhole` (a file is read whole wherever the stream
cuts it), `ChangedOpensToSame` (an envelope that was changed opens under the key it
was made with, to what was encrypted, or not at all), `RecipientOpens`. From the
third follows `BundleIsOfOne`: whichever envelopes of two documents are read, the name
and the bytes that open together are of one key. That is what the code gives, and less than
that the page shows the file (section 6). A page is a record of eleven fields, several
of them set at once, for which `Shape` stands.

The inductive invariants were tried with TLC before they were proved. Every
invariant that a run checks is the subject of a theorem. Only model-checked is
liveness (`EveryRequestIsAnswered`, `QueueDrains`), which is out of the prover's reach.

## 6. Disagreements between the code and its words

With a run and an entry under `findings`:

- **A wrong passphrase is not named.** `worker-client.ts:57-59` rebuilds a failure
  as a plain `Error` that only has the name of its class, so `instanceof
  DecryptError` (`login.tsx:192`) is false with a real worker and the page shows
  its general message. The in-thread fallback behaves as documented (run
  `crypto_message`).

Met while modelling and not kept as runs. Server:

- `delete_document`: the comment says a failing blob delete still soft-deletes;
  only a missing blob is tolerated, any other error rolls back. It also promises
  to delete all access rows (`:340`); a share that commits after the rows were read
  leaves one, of a document nobody can read. A crash or a failing commit after the
  blob was removed leaves a live document without its blob, one after the blob of an
  upload was written a blob that no row names.
- `verify_challenge`: two verifications in flight both create a session with one
  "single-use" challenge.
- `_consume_challenge`: "always single-use", but every refusal of `auth_finish`
  after it rolls the deletion back, and so does a registration credential whose JSON
  is none (`webauthn.py:257` does not catch what the library raises then: a 500).
  Concurrent finishes of one challenge wait for each other on the flushed DELETE,
  and with a passkey that does not count each of them opens a session
  (`ReplayIsConcurrent` bounds them).
- The sign counter (`webauthn.py:476`, `:485`) is compared when read and written
  at the commit. A later-committing login with an older assertion puts it back,
  and so does the passkey enrolled again by a second finish of its registration;
  an assertion in flight then opens a second session. `CounterStopsReplay` states
  exactly this.
- `send_push`: a dead endpoint's deletion is lost with the commit when another
  row of the same user went stale; a device reassigned after the SELECT still gets
  the former account's notification.
- `share` (`routes/documents.py:237`) calls itself idempotent; two shares with
  one user in flight together both INSERT and one ends in a 500.
- `WebAuthnChallenge` (`models.py:237`) is "cleaned up on expiry too"; only a
  finish that names it removes an expired challenge.
- `unsubscribe` (`routes/notifications.py:159`) is "ownership-checked" by an
  earlier SELECT; a subscribe that reassigns the row in between loses it.
  `subscribe` (`:85`) promises an update in place "rather than rejecting"; two
  first subscribes in flight together reject one.

Offline queue:

- An older queued `PUT /key-blobs/me` is replayed over a newer direct one; the
  list of placeholders and the queue do not keep the same order.
- An upload that failed while `navigator.onLine` was true is reported as an
  error although it is queued; trying again makes two documents. `sync-failed` is
  sent and the dashboard ignores it.
- A worker stopped between `shiftRequest` and `unshiftRequest` loses the entry.

Account and reads:

- Pushing the key from the settings (`settings.tsx:389-411`, `:777`) sends the local
  keystore's blob, which may be another account's (a second sign-up or sign-in
  in another tab).
- A late answer re-creates a cache after CLEAR (`push-handler.ts:56-59`,
  `sw-cache.ts:1-9`); closing the tab or disconnecting clears none. Going from one
  `/doc/a` to `/doc/b` keeps the component mounted, so Delete acts on the
  `download` that is still shown. The server URL is shared by tabs while the token
  is per tab. "Last refreshed" is stamped also when the list came from the cache
  (`dashboard.tsx:153-158`, `dashboard-cache.ts:2-7`).

Push and banners:

- "Not now" on the prompt for notifications does not keep it "out of the way for the
  rest of the session" (`notification-prompt.tsx:8-10`): the next dashboard that is
  mounted shows it again. Nor do three of them start a "7-day cooldown"
  (`notifications.ts:84-87`): only the hint of iOS calls `recordHardDismissal`
  (`notification-prompt.tsx:110`), and without the moment in localStorage the prompt
  is due past the limit as well. `RefusalLasts` therefore says of this prompt only
  that the dashboard it was turned down on does not show it again.
- The cooldown of `notifications.ts:84-86` and the count of `:100-101` are combined
  in `notification-prompt.tsx:202-205` so that the notice for `denied` and the
  silent re-subscription cannot be reached. The count survives a sign-in although
  `notifications.ts:11-12` says a fresh sign-in resets it.
- `pushsubscriptionchange` posts a message nobody listens to. A notification click
  that opens a tab lands on `/connect`, and a tab at `/` drops the highlight.
  `serviceWorker.ready` never settles if the registration failed. Logging out
  leaves the subscription; disabling without a stored id deletes the only row of
  the account even if it is another device's.

Crypto:

- Nothing ties a blob to its document or to its part: the two encryptions of a document
  have no associated data (`document.ts:62-63`, `156-157`), and its `contentHash`, which the
  pages print, is not compared with what was decrypted. The ciphertext and the name in
  each other's place open, and so does another document that was made for the readers'
  public keys and put in its place. `ReadIsOneDocument` says what is left: what
  is shown together was encrypted together.
- `wrap.ts:17-19` says that altered versions or parameters end in `DecryptError`;
  the code ends in `WireFormatError`, `KdfError` or a `TypeError`.
- After the error event (`worker-client.ts:63-69`) the dead worker is kept: the
  calls under way are rejected, later ones never answered. `NoCallIsLost` is
  stated for a worker that is alive.

Deployment builder:

- The default configuration has no link (`deployment.tsx:36`, against
  "bookmarkable" at `:75`): its URL opens whatever localStorage has. An emptied
  text changes on reload, and so does a number that is no positive integer: the
  fields take 1.5 (`AdvancedPanel.tsx:32`), the page and its link show 1.5, and the link
  opens with 2 (`state.ts:177-181`); what rounds to less than one opens with 1.
- The server never expands `${DB_PASSWORD}`: in single quotes (docker) and in
  helm and systemd files it is passed on literally, and the pip `.env` defines it
  after the URL that names it. Compose mounts no volume for SQLite and hands over
  no GCS or Azure credential and no S3 endpoint; inline mode drops the same ones.
  A custom image wins even in pip mode, where its picker is hidden; compose with
  MySQL keeps the default host `postgres`.
- The advanced panel is a controlled `<details>` whose toggle event flips the
  state (`AdvancedPanel.tsx:9-13`): opening it by a link or resetting while it is
  open makes event and state chase each other. "Forget everything" in one tab does
  not reach another, which saves its credentials again.

## 7. Not modelled

- Core cryptography and wire formats of the Python side, schema validation, engine
  and application start-up, blob store backends: pure functions, configuration or
  a library's work.
- The rate limiter: one synchronous function of floats and a clock. The order of
  local writes in the Python SDK and CLI: one sequential process; a crash after the
  signup and before the keystore is written strands the account.
- Key blob and user routes inside the server: each is one upsert or insert, atomic
  in `BrowserAccount` and `OfflineQueue`; the race of two upserts is not modelled.
- The signature of audit entries and the VAPID key file: data the properties do not
  tell apart.
- The download button of the document page, rendering, marketing and
  documentation pages. The CLI and SDK builders keep their fields in the URL alone,
  with a codec like the one of `InstallBuilder`; the API explorer sends one request
  per click. What a notification looks like, asset precaching.
- In a replay, `broadcastToClients` throwing inside the `try` of
  `push-handler.ts:158`: it posts a plain object to window clients, which does not throw.
  Numbers of the deployment builder that are not finite, or finer than a tenth.
- Tabs that close while one of their requests runs, in `OfflineQueue`; two servers
  at a time in `browser_account` (one server, so that two people and two handlers
  fit).

`components` in `PROJECT.json` lists all of them.
