---------------------------- MODULE CryptoWorker ----------------------------
(***************************************************************************)
(* The crypto worker and its callers.  worker-client.ts numbers the calls, *)
(* posts them to one Web Worker and settles each with the answer of its    *)
(* number; without a Worker it runs them in the page.  signup.tsx makes    *)
(* and wraps a key through it, login.tsx unwraps one; a signed-in page     *)
(* then enrolls a passkey, encrypts and decrypts with that key.            *)
(*                                                                         *)
(* The worker's listener is asynchronous: it takes the next message while  *)
(* it still computes the one before, and answers in the order in which the *)
(* computations end.                                                       *)
(***************************************************************************)
EXTENDS Envelopes, FiniteSets

CONSTANTS Pages,        \* pages whose handlers use the client at the same time
          Users, Passphrases, Keys, File,
          MaxClicks,    \* bound: gestures of the user
          None

ASSUME CryptoAssumption ==
    /\ MaxClicks \in Nat /\ File \in Seq(STRING)
    /\ None \notin Pages \cup Users \cup Passphrases \cup Keys \cup {"page", "worker"}

\* Bytes that were changed are not what was written.
ASSUME GarbledAssumption ==
    /\ Garbled \notin Keys \cup {DefaultParams}
    /\ \A k \in Keys : Garbled # [oaep |-> [from |-> "random", size |-> KeySize], under |-> k]

VARIABLES
    worker,     \* "unprobed", "none", "loading", "up", "dead"
    seq,        \* _seq
    pending,    \* _pending: the number and the page of each call
    inbox,      \* messages to the worker
    busy,       \* requests the worker computes
    outbox,     \* messages from the worker
    page,       \* the handler of each page
    made,       \* the keys drawn so far
    keystore,   \* the wrapped key of this browser
    accounts,   \* the server: public keys, with the history of each
    passkey,    \* the server: a passkey and the key it wraps
    doc,        \* the server: a document
    clicks

vars == <<worker, seq, pending, inbox, busy, outbox, page, made, keystore, accounts,
          passkey, doc, clicks>>
stored == <<keystore, accounts, passkey, doc>>

Perhaps(S) == S \cup {None}
Waits == {"generating", "deriving", "unwrapping"}      \* awaits of the client

\* A page: where its handler is, what the user typed, the thread that computes
\* what it awaits (and the request, if that is the page itself), the PEM and the
\* blob it holds, the message it shows and the error behind it, what it last
\* decrypted; the session is the tab's.
IdlePage == [at |-> "idle", user |-> None, pass |-> None, thread |-> None,
             request |-> None, pem |-> None, blob |-> None, says |-> None,
             why |-> None, session |-> None, read |-> None]

Messages == {"incorrect passphrase", "signature rejected", "already taken", "no reply",
             "went wrong", "passkey failed"}
Outcomes == {"unsupported", "cancelled", "no prf", "prf"}
Types == {"generateOaepKeypair", "wrapPrivateKey", "unwrapPrivateKey"}
Request(type, pem, blob, pass) == [type |-> type, pem |-> pem, blob |-> blob, pass |-> pass]

TypeOK ==
    /\ worker \in {"unprobed", "none", "loading", "up", "dead"}
    /\ seq \in Nat
    /\ pending \subseteq [id : 1..seq, page : Pages]
    /\ \A m \in busy \cup Range(inbox) : m.id \in 1..seq /\ m.request.type \in Types
    /\ \A m \in Range(outbox) : m.id \in 1..seq /\ m.type \in Types
    /\ \A g \in Pages :
          /\ page[g].at \in Waits \cup {"idle", "submitting", "verifying", "error"}
          /\ page[g].user \in Perhaps(Users) /\ page[g].pass \in Perhaps(Passphrases)
          /\ page[g].why \in Perhaps(ErrorClasses \cup Outcomes)
          /\ page[g].says \in Perhaps(Messages)
          /\ page[g].at \in Waits <=> page[g].thread \in {"page", "worker"}
    /\ made \subseteq Keys
    /\ \A u \in Users : accounts[u] # None =>
          accounts[u].pem \in {SerializePublicKey(k) : k \in made}

Wrapped(k, p) == WrapPrivateKey(SerializePrivateKey(k), p).value

\* A browser that never signed up, or one whose user has an account.
Init ==
    /\ worker = "unprobed" /\ seq = 0 /\ pending = {}
    /\ inbox = <<>> /\ busy = {} /\ outbox = <<>>
    /\ page = [g \in Pages |-> IdlePage]
    /\ \/ made = {} /\ keystore = None /\ accounts = [u \in Users |-> None]
       \/ \E u \in Users, k \in Keys, p \in Passphrases :
            /\ made = {k} /\ keystore = Wrapped(k, p)
            /\ accounts = [v \in Users |-> IF v # u THEN None ELSE
                    [pem |-> SerializePublicKey(k), blob |-> Wrapped(k, p), pass |-> p]]
    /\ passkey = None /\ doc = None /\ clicks = 0

-----------------------------------------------------------------------------
\* worker.ts

\* The answer to a request; a generation draws the key.  A failure crosses the
\* boundary as the name of its error.
HandleWorkerRequest(request, key) ==
    CASE request.type = "generateOaepKeypair" ->
            Ok([privatePem |-> SerializePrivateKey(key), publicPem |-> SerializePublicKey(key)])
      [] request.type = "wrapPrivateKey" -> WrapPrivateKey(request.pem, request.pass)
      [] request.type = "unwrapPrivateKey" -> UnwrapPrivateKey(request.blob, request.pass)

Draws(request) == IF request.type = "generateOaepKeypair" THEN Keys \ made ELSE {None}
Drew(key) == made' = made \cup ({key} \ {None})

\* The module has loaded and listens.
WorkerStarts ==
    /\ worker = "loading" /\ worker' = "up"
    /\ UNCHANGED <<seq, pending, inbox, busy, outbox, page, made, stored, clicks>>

WorkerTakes ==
    /\ worker = "up" /\ inbox # <<>>
    /\ busy' = busy \cup {Head(inbox)} /\ inbox' = Tail(inbox)
    /\ UNCHANGED <<worker, seq, pending, outbox, page, made, stored, clicks>>

\* Mutant: a request that fails rejects in the listener and posts nothing.
PostedUnlessFailed(m, key) ==
    IF HandleWorkerRequest(m.request, key).ok
    THEN <<[id |-> m.id, type |-> m.request.type,
            reply |-> HandleWorkerRequest(m.request, key)]>>
    ELSE <<>>

\* What the worker posts when the request of message m is done.
Posted(m, key) == <<[id |-> m.id, type |-> m.request.type,
                     reply |-> HandleWorkerRequest(m.request, key)]>>

WorkerAnswers(m) ==
    \E key \in Draws(m.request) :
        /\ busy' = busy \ {m} /\ Drew(key)
        /\ outbox' = outbox \o Posted(m, key)
        /\ UNCHANGED <<worker, seq, pending, inbox, page, stored, clicks>>

-----------------------------------------------------------------------------
\* worker-client.ts

\* ensureWorker: the first call probes, and the outcome is kept.
Probe == IF worker = "unprobed" THEN {"none", "loading"} ELSE {worker}

\* A call of the client by page g, whose handler goes on to r and awaits.
\* left: the entries of the calls before.  send takes a number, an entry and a
\* message, which a dead worker does not get.
Ask(g, r, request, left) ==
    \E w \in Probe :
        /\ worker' = w
        /\ page' = [page EXCEPT ![g] =
                IF w = "none" THEN [r EXCEPT !.thread = "page", !.request = request]
                ELSE [r EXCEPT !.thread = "worker"]]
        /\ IF w = "none" THEN pending' = left /\ UNCHANGED <<seq, inbox>>
           ELSE /\ seq' = seq + 1
                /\ pending' = left \cup {[id |-> seq', page |-> g]}
                /\ inbox' = IF w = "dead" THEN inbox
                            ELSE Append(inbox, [id |-> seq', request |-> request])

\* A step of page g that calls nothing.
GoOn(g, r, left) ==
    /\ page' = [page EXCEPT ![g] = r] /\ pending' = left
    /\ UNCHANGED <<worker, seq, inbox>>

\* The handler ends and shows a message.
Says(r, what, why) == [IdlePage EXCEPT !.at = "error", !.says = what, !.why = why,
                                       !.session = r.session]

\* signup.tsx, login.tsx: the handler goes on with what the client answered.
\* instance: whether a failure is an object of its own class.
Answered(g, answer, instance, left) ==
    LET r == page[g]
        then == [r EXCEPT !.thread = None, !.request = None]
    IN  \/ /\ ~answer.ok /\ UNCHANGED stored
           /\ GoOn(g, Says(r, IF answer.error = "DecryptError" /\ instance
                              THEN "incorrect passphrase" ELSE "went wrong", answer.error), left)
        \/ /\ answer.ok /\ r.at = "generating" /\ UNCHANGED stored
           /\ Ask(g, [then EXCEPT !.at = "deriving", !.pem = answer.value],
                  Request("wrapPrivateKey", answer.value.privatePem, None, r.pass), left)
        \/ /\ answer.ok /\ r.at = "deriving"
           /\ keystore' = answer.value /\ UNCHANGED <<accounts, passkey, doc>>
           /\ GoOn(g, [then EXCEPT !.at = "submitting", !.blob = answer.value], left)
        \/ /\ answer.ok /\ r.at = "unwrapping" /\ UNCHANGED stored
           /\ LET signed == Then(DeserializePrivateKeyForPss(answer.value),
                                 LAMBDA key : PssSign(r.user, key))
              IN  GoOn(g, IF signed.ok
                          THEN [then EXCEPT !.at = "verifying", !.pem = answer.value]
                          ELSE Says(r, "went wrong", signed.error), left)

\* Mutant: an answer settles a call of its kind, whichever number it has.
EntriesOfKind(m) ==
    {e \in pending : m.type = CASE page[e.page].at = "generating" -> "generateOaepKeypair"
                                [] page[e.page].at = "deriving" -> "wrapPrivateKey"
                                [] page[e.page].at = "unwrapping" -> "unwrapPrivateKey"}

\* The worker's message: the entry of its number is deleted and settled; a
\* failure is rebuilt as an Error that only has the name.
Entries(m) == {e \in pending : e.id = m.id}

Receive ==
    /\ outbox # <<>>
    /\ outbox' = Tail(outbox)
    /\ IF Entries(Head(outbox)) = {} THEN UNCHANGED <<worker, seq, pending, inbox, page, stored>>
       ELSE \E e \in Entries(Head(outbox)) :
              Answered(e.page, Head(outbox).reply, FALSE, pending \ {e})
    /\ UNCHANGED <<busy, made, clicks>>

\* Without a worker the operation runs in the page, and its error is thrown.
InPage(g) ==
    /\ page[g].at \in Waits /\ page[g].thread = "page"
    /\ \E key \in Draws(page[g].request) :
          /\ Drew(key)
          /\ Answered(g, HandleWorkerRequest(page[g].request, key), TRUE, pending)
    /\ UNCHANGED <<busy, outbox, clicks>>

\* The error event: the script could not be loaded or the worker was ended.
\* Every call under way is rejected; the client keeps the worker.
WorkerDies ==
    /\ worker \in {"loading", "up"} /\ worker' = "dead"
    /\ pending' = {} /\ inbox' = <<>> /\ busy' = {}
    /\ page' = [g \in Pages |-> IF \E e \in pending : e.page = g
                                THEN Says(page[g], "went wrong", "Error") ELSE page[g]]
    /\ UNCHANGED <<seq, outbox, made, stored, clicks>>

-----------------------------------------------------------------------------
\* What is read back of a stored blob may not be what was written: some bytes
\* have changed, or the end is missing.

ChangedEnvelopes(envelope) ==
    {[envelope EXCEPT !.version = 7], [envelope EXCEPT !.nonce = Garbled],
     [envelope EXCEPT !.tag = Garbled], [envelope EXCEPT !.ciphertext.text = <<Garbled, Garbled>>],
     [envelope EXCEPT !.len = EnvelopeHeader - 1], [envelope EXCEPT !.len = EnvelopeHeader]}

ParamsEnd == HeaderFixed + ParamsLength
Changed(blob) ==
    {[blob EXCEPT !.len = n] : n \in {0, HeaderFixed - 1, HeaderFixed, ParamsEnd - 1, ParamsEnd,
                                      ParamsEnd + EnvelopeHeader - 1, blob.len - 1}}
    \cup {[blob EXCEPT !.version = WrappedV2Prf], [blob EXCEPT !.salt = Garbled],
          [blob EXCEPT !.params_len = ParamsLength - 1]}
    \cup {[blob EXCEPT !.params = p] : p \in
             {Garbled, [DefaultParams EXCEPT !.t = 0], [DefaultParams EXCEPT !.t = 2],
              [DefaultParams EXCEPT !.l = 22], [DefaultParams EXCEPT !.p = 9]}}
    \cup {[blob EXCEPT !.inner = e] : e \in ChangedEnvelopes(blob.inner)}

ReadBack(blob) == {blob} \cup Changed(blob)

-----------------------------------------------------------------------------
\* The handlers of the pages

Click == clicks < MaxClicks /\ clicks' = clicks + 1

\* A page takes a gesture when none of its handlers is under way.
Free(g) == page[g].at \in {"idle", "error"}
Fresh(g) == [IdlePage EXCEPT !.session = page[g].session]

Signup(g, u, p) ==
    /\ Click /\ Free(g)
    /\ Cardinality(made) + Cardinality({h \in Pages : page[h].at = "generating"})
          < Cardinality(Keys)           \* bound: keys
    /\ Ask(g, [Fresh(g) EXCEPT !.at = "generating", !.user = u, !.pass = p],
           Request("generateOaepKeypair", None, None, None), pending)
    /\ UNCHANGED <<busy, outbox, made, stored>>

\* POST /users, answered: created, taken, or no reply.
Submitted(g) ==
    /\ page[g].at = "submitting"
    /\ LET u == page[g].user
       IN  \/ /\ accounts[u] = None
              /\ accounts' = [accounts EXCEPT ![u] =
                    [pem |-> page[g].pem.publicPem, blob |-> page[g].blob, pass |-> page[g].pass]]
              /\ page' = [page EXCEPT ![g] = Fresh(g)]
           \/ /\ accounts[u] # None /\ UNCHANGED accounts
              /\ page' = [page EXCEPT ![g] = Says(@, "already taken", None)]
           \/ /\ UNCHANGED accounts
              /\ page' = [page EXCEPT ![g] = Says(@, "no reply", None)]
    /\ UNCHANGED <<worker, seq, pending, inbox, busy, outbox, made, keystore, passkey, doc, clicks>>

\* Login with the wrapped key of this browser, of an account that exists.
Login(g, u, p) ==
    /\ Click /\ Free(g) /\ keystore # None /\ accounts[u] # None
    /\ \E blob \in ReadBack(keystore) :
          Ask(g, [Fresh(g) EXCEPT !.at = "unwrapping", !.user = u, !.pass = p],
              Request("unwrapPrivateKey", None, blob, p), pending)
    /\ UNCHANGED <<busy, outbox, made, stored>>

\* The server verifies the signature with the public key of the account.
Verified(g) ==
    /\ page[g].at = "verifying"
    /\ LET u == page[g].user
           signature == Then(DeserializePrivateKeyForPss(page[g].pem), LAMBDA k : PssSign(u, k))
           verdict == Then(DeserializePublicKeyForPss(accounts[u].pem),
                           LAMBDA k : PssVerify(u, signature.value, k))
       IN  page' = [page EXCEPT ![g] =
                IF verdict.ok THEN [IdlePage EXCEPT !.session = [user |-> u, pem |-> page[g].pem]]
                ELSE Says(@, "signature rejected", None)]
    /\ UNCHANGED <<worker, seq, pending, inbox, busy, outbox, made, stored, clicks>>

\* What a signed-in page does in the page itself; idle: nothing else changes.
SignedIn(g) == Click /\ Free(g) /\ page[g].session # None
Quiet == UNCHANGED <<worker, seq, pending, inbox, busy, outbox, made>>

\* The options the server makes, and the authenticator's answer to them once
\* they are decoded; or there is none, or the user dismissed the prompt.
PasskeyOptions == [challenge |-> BytesToBase64url("challenge"),
                   credentials |-> {BytesToBase64url("credential")},
                   prf |-> {BytesToBase64url("salt")}]
Ceremony(outcome) ==
    LET options == DecodeOptions(PasskeyOptions)
    IN  IF outcome \in {"unsupported", "cancelled"} THEN Fail(outcome)
        ELSE Ok([id |-> "credential", challenge |-> options.challenge,
                 prf |-> IF outcome = "prf" THEN options.prf ELSE {}])

\* enrollPasskey
Enroll(g, outcome) ==
    /\ SignedIn(g)
    /\ LET credential == Ceremony(outcome)
           wrapped == Then(Then(credential, ExtractPrfFirst),
                           LAMBDA key : WrapPrivateKeyWithPrf(page[g].session.pem, key))
       IN  IF wrapped.ok
           THEN /\ passkey' = [user |-> page[g].session.user, wrappedKey |-> wrapped.value,
                               credential |-> EncodeResponse(credential.value).id]
                /\ page' = [page EXCEPT ![g] = Fresh(g)]
           ELSE /\ page' = [page EXCEPT ![g] = Says(@, "passkey failed", wrapped.error)]
                /\ UNCHANGED passkey
    /\ Quiet /\ UNCHANGED <<keystore, accounts, doc>>

\* loginWithPasskey: the server checks the response before it serves the blob.
PasskeyLogin(g, outcome) ==
    /\ Click /\ Free(g) /\ passkey # None
    /\ LET credential == Ceremony(outcome)
           response == EncodeResponse(credential.value)
           served == IF response.challenge = PasskeyOptions.challenge
                        /\ response.id = passkey.credential
                     THEN Ok(passkey.wrappedKey) ELSE Fail("Error")
           pem == Then(Then(credential, ExtractPrfFirst), LAMBDA key :
                  Then(served, LAMBDA blob : UnwrapPrivateKeyWithPrf(blob, key)))
       IN  page' = [page EXCEPT ![g] =
                IF pem.ok
                THEN [IdlePage EXCEPT !.session = [user |-> passkey.user, pem |-> pem.value]]
                ELSE Says(@, "passkey failed", pem.error)]
    /\ Quiet /\ UNCHANGED stored

\* The file as file.stream() hands it over: cut at i, with an empty chunk.
Chunks(i) == <<SubSeq(File, 1, i), <<>>, SubSeq(File, i + 1, Len(File))>>

\* The keys drawn for two documents.
Dek == [from |-> "random", size |-> KeySize]
OtherDek == [from |-> "another", size |-> KeySize]

\* upload.tsx: the recipients' keys are fetched, the uploader's own among them.
Upload(g, others, i) ==
    /\ SignedIn(g) /\ doc = None
    /\ LET recipients == {[userId |-> u, publicKey |->
                              DeserializePublicKeyForOaep(accounts[u].pem).value] :
                          u \in others \cup {page[g].session.user}}
           bundle == EncryptForRecipients(ReadStreamToBytes(Chunks(i)), <<"name">>, recipients, Dek)
       IN  doc' = bundle.value
    /\ page' = [page EXCEPT ![g] = Fresh(g)]
    /\ Quiet /\ UNCHANGED <<keystore, accounts, passkey>>

\* dashboard.tsx, doc-detail.tsx: the copy of the DEK that is the reader's.
Opened(d, user, pem) ==
    Then(DeserializePrivateKeyForOaep(pem), LAMBDA key :
        DecryptBundle(d.ciphertext, d.encryptedFilename,
                      (CHOOSE a \in d.access : a.userId = user).encryptedDek, key))

\* Another document for the same readers: whoever has their public keys makes one.
Another ==
    LET readers == {[userId |-> a.userId, publicKey |->
                        DeserializePublicKeyForOaep(accounts[a.userId].pem).value] : a \in doc.access}
    IN  EncryptForRecipients(<<"other">>, <<"title">>, readers, OtherDek).value

\* The envelopes that may be read back: of either document, whole or damaged.
EnvelopesReadBack ==
    UNION {{e} \cup ChangedEnvelopes(e) :
              e \in {doc.ciphertext, doc.encryptedFilename,
                     Another.ciphertext, Another.encryptedFilename}}

\* Each of the three parts may be read in another's place, or of the other document.
Open(g) ==
    /\ SignedIn(g) /\ doc # None
    /\ \E a \in doc.access : a.userId = page[g].session.user
    /\ \E c, f \in EnvelopesReadBack, a \in {doc.access, Another.access} :
          page' = [page EXCEPT ![g] = [Fresh(g) EXCEPT !.read =
                        Opened([ciphertext |-> c, encryptedFilename |-> f, access |-> a],
                               page[g].session.user, page[g].session.pem)]]
    /\ Quiet /\ UNCHANGED stored

-----------------------------------------------------------------------------
Client ==
    \/ WorkerStarts \/ WorkerTakes \/ (\E m \in busy : WorkerAnswers(m)) \/ Receive
    \/ \E g \in Pages : InPage(g) \/ Submitted(g) \/ Verified(g)

Person ==
    \E g \in Pages :
        \/ \E u \in Users, p \in Passphrases : Signup(g, u, p) \/ Login(g, u, p)
        \/ \E outcome \in Outcomes : Enroll(g, outcome) \/ PasskeyLogin(g, outcome)
        \/ \E others \in SUBSET {u \in Users : accounts[u] # None}, i \in 0..Len(File) :
              Upload(g, others, i)
        \/ Open(g)

Next == Client \/ Person \/ WorkerDies

Spec == Init /\ [][Next]_vars

-----------------------------------------------------------------------------
\* Properties

\* The wrapped key that a signup left in the browser opens, with the passphrase
\* typed in that form, to the private half of the key it registered: answers
\* that overtake each other do not change hands.
AccountOpens ==
    \A u \in Users : accounts[u] # None =>
        LET opened == UnwrapPrivateKey(accounts[u].blob, accounts[u].pass)
        IN  /\ opened.ok
            /\ opened.value[2] = accounts[u].pem[2]

\* Every recipient of a document opens it, from the blob and the passphrase of
\* that person's signup to the name and the bytes of the file, as long as the
\* server keeps what it was given.
RecipientsOpen ==
    [][doc = None /\ doc' # None =>
        \A a \in doc'.access :
            LET pem == UnwrapPrivateKey(accounts[a.userId].blob, accounts[a.userId].pass)
                key == Then(pem, DeserializePrivateKeyForOaep)
                opened == Then(key, LAMBDA k : DecryptBundle(doc'.ciphertext,
                                        doc'.encryptedFilename, a.encryptedDek, k))
            IN  opened = Ok([filename |-> <<"name">>, plaintext |-> File])]_vars

\* The name and the bytes that a page shows without an error were encrypted as
\* parts of one document: bytes that were changed or cut never show, and two
\* documents never mix.  No more than that, for neither blob has associated data
\* (document.ts:62-63, 156-157): the two blobs of a document in each other's place
\* open, and so does another document that is put in its place whole.
ReadIsOneDocument ==
    \A g \in Pages : page[g].read # None /\ page[g].read.ok =>
        \E document \in {{<<"name">>, File}, {<<"title">>, <<"other">>}} :
            {page[g].read.value.filename, page[g].read.value.plaintext} \subseteq document

\* While the worker is alive, a handler that awaits the client is waiting for
\* something: its call is on its way to the worker, in it, or on its way back,
\* once, and has the number under which the handler will be found.  The types
\* with it.
NoCallIsLost ==
    /\ TypeOK
    /\ worker # "dead" => \A g \in Pages : page[g].at \in Waits /\ page[g].thread = "worker" =>
        \E e \in pending :
            /\ e.page = g /\ \A f \in pending : f.page = g \/ f.id = e.id => f = e
            /\ Cardinality({m \in busy : m.id = e.id})
               + Cardinality({i \in DOMAIN inbox : inbox[i].id = e.id})
               + Cardinality({i \in DOMAIN outbox : outbox[i].id = e.id}) = 1

\* login.tsx shows "Incorrect passphrase." when the wrapped key does not open
\* under what was typed.
WrongPassphraseIsSaid ==
    \A g \in Pages : page[g].why = "DecryptError" =>
        page[g].says \in {"incorrect passphrase", "passkey failed"}
=============================================================================
