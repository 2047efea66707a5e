------------------------- MODULE CryptoWorkerProofs -------------------------
(* Theorems about CryptoWorker, for every set of pages, users, passphrases *)
(* and keys, every file and any number of gestures.                        *)
EXTENDS CryptoWorker, FiniteSetTheorems, SequenceTheorems, TLAPS

-----------------------------------------------------------------------------
(* The inductive invariant, as predicates on a page r, the accounts A, the *)
(* keys M drawn so far and the messages in flight: what is proved of them  *)
(* then holds before a step and after it.                                  *)

Pair(k) == [privatePem |-> SerializePrivateKey(k), publicPem |-> SerializePublicKey(k)]

IsAnswer(a) == a.ok \in BOOLEAN /\ (~a.ok => a.error \in ErrorClasses)

\* The request is the one that the handler of page r awaits.
RequestFits(q, r) ==
    /\ q.type \in Types
    /\ r.at = "generating" => q.type = "generateOaepKeypair"
    /\ r.at = "deriving" => q = Request("wrapPrivateKey", r.pem.privatePem, None, r.pass)
    /\ r.at = "unwrapping" => q.type = "unwrapPrivateKey"

\* The answer is one to what it awaits.
AnswerFits(a, r, M) ==
    /\ IsAnswer(a)
    /\ r.at = "generating" => \E k \in M : a = Ok(Pair(k))
    /\ r.at = "deriving" => \E k \in M : /\ r.pem = Pair(k)
                                         /\ a = WrapPrivateKey(SerializePrivateKey(k), r.pass)

Shape(r) ==
    r = [at |-> r.at, user |-> r.user, pass |-> r.pass, thread |-> r.thread,
         request |-> r.request, pem |-> r.pem, blob |-> r.blob, says |-> r.says,
         why |-> r.why, session |-> r.session, read |-> r.read]

Original == [filename |-> <<"name">>, plaintext |-> File]

\* What is shown was encrypted under one key.
TextsUnder(dek) == IF dek = Dek THEN {<<"name">>, File} ELSE {<<"title">>, <<"other">>}
OfOneDocument(shown) ==
    \E dek \in {Dek, OtherDek} : {shown.filename, shown.plaintext} \subseteq TextsUnder(dek)

HasAccount(u, A) == u \in Users /\ A[u] # None

PageTyped(r) ==
    /\ Shape(r)
    /\ r.at \in Waits \cup {"idle", "submitting", "verifying", "error"}
    /\ r.user \in Perhaps(Users) /\ r.pass \in Perhaps(Passphrases)
    /\ r.why \in Perhaps(ErrorClasses \cup Outcomes)
    /\ r.says \in Perhaps(Messages)
    /\ r.at \in Waits <=> r.thread \in {"page", "worker"}

\* What the handler of a page holds at each point is of one key.
PageHolds(r, A, M) ==
    /\ r.at \in {"generating", "deriving", "submitting"} => r.user \in Users
    /\ r.at \in {"deriving", "submitting"} =>
          \E k \in M : /\ r.pem = Pair(k)
                       /\ r.at = "submitting" => r.blob = Wrapped(k, r.pass)
    /\ r.at \in {"unwrapping", "verifying"} => HasAccount(r.user, A)
    /\ r.session # None => HasAccount(r.session.user, A)
    /\ r.read # None /\ r.read.ok => OfOneDocument(r.read.value)
    /\ r.thread = "page" => RequestFits(r.request, r)

PageOK(r, A, M) == PageTyped(r) /\ PageHolds(r, A, M)

AccountsOK(A, M) ==
    /\ A = [u \in Users |-> A[u]]
    /\ \A u \in Users : A[u] # None =>
          \E k \in M : /\ A[u].pem = SerializePublicKey(k)
                       /\ A[u].blob = Wrapped(k, A[u].pass)

\* What the key of a document encrypts.
Sealed(text, dek) ==
    [nonce |-> Drawn, ciphertext |-> [key |-> dek, text |-> text],
     tag |-> GcmTag(<<>>, Drawn, text)]

DocOK(d) ==
    d # None => /\ d = [encryptedFilename |-> d.encryptedFilename,
                        contentHash |-> d.contentHash,
                        ciphertext |-> d.ciphertext, access |-> d.access]
                /\ d.ciphertext = Pack(Sealed(File, Dek))
                /\ d.encryptedFilename = Pack(Sealed(<<"name">>, Dek))
                /\ \A a \in d.access : \E k \in Keys : a.encryptedDek = [oaep |-> Dek, under |-> k]

\* The ids of a set and of a sequence of messages.
IdsIn(B) == {m.id : m \in B}
IdsOf(s) == {s[i].id : i \in DOMAIN s}
OncePerId(s) == \A i, j \in DOMAIN s : s[i].id = s[j].id => i = j

\* Every number is used once: by one entry, and by one message, wherever it is.
Numbered(P, B, I, O, n) ==
    /\ P \subseteq [id : 1..n, page : Pages]
    /\ \A e, f \in P : e.id = f.id \/ e.page = f.page => e = f
    /\ I \in Seq(Range(I)) /\ O \in Seq(Range(O))
    /\ IdsIn(B) \cup IdsOf(I) \cup IdsOf(O) \subseteq 1..n
    /\ \A m, k \in B : m.id = k.id => m = k
    /\ OncePerId(I) /\ OncePerId(O)
    /\ IdsIn(B) \cap IdsOf(I) = {}
    /\ IdsIn(B) \cap IdsOf(O) = {}
    /\ IdsOf(I) \cap IdsOf(O) = {}

\* A message in flight is of the call that its number names.
Matched(P, B, I, O, pg, M) ==
    /\ \A m \in B : /\ m.request.type \in Types
                    /\ \A e \in P : e.id = m.id => RequestFits(m.request, pg[e.page])
    /\ \A i \in DOMAIN I :
          /\ I[i].request.type \in Types
          /\ \A e \in P : e.id = I[i].id => RequestFits(I[i].request, pg[e.page])
    /\ \A i \in DOMAIN O :
          /\ O[i].type \in Types /\ IsAnswer(O[i].reply)
          /\ \A e \in P : e.id = O[i].id => AnswerFits(O[i].reply, pg[e.page], M)
    /\ \A e \in P : pg[e.page].at \in Waits /\ pg[e.page].thread = "worker"

\* A live worker has a message for every call.
OnItsWay(w, P, B, I, O) ==
    w # "dead" => \A e \in P : e.id \in IdsIn(B) \cup IdsOf(I) \cup IdsOf(O)

Net(w, n, P, B, I, O, pg, M) ==
    Numbered(P, B, I, O, n) /\ Matched(P, B, I, O, pg, M) /\ OnItsWay(w, P, B, I, O)

Entered(g, P) == \E e \in P : e.page = g

CryptoInv ==
    /\ worker \in {"unprobed", "none", "loading", "up", "dead"} /\ seq \in Nat
    /\ made \subseteq Keys
    /\ AccountsOK(accounts, made)
    /\ passkey # None => HasAccount(passkey.user, accounts)
    /\ DocOK(doc)
    /\ page = [g \in Pages |-> page[g]]
    /\ \A g \in Pages : PageOK(page[g], accounts, made)
    /\ Net(worker, seq, pending, busy, inbox, outbox, page, made)
    /\ \A g \in Pages : page[g].at \in Waits /\ page[g].thread = "worker" => Entered(g, pending)
-----------------------------------------------------------------------------
(* The algebra: what was encrypted opens, and nothing else does.           *)

\* Whatever the blob, unwrapping answers with a value or a class of error.
LEMMA DecryptAnswers ==
    ASSUME NEW sealed, NEW key, NEW aad
    PROVE  IsAnswer(Decrypt(sealed, key, aad))
  BY DEF Decrypt, Ok, Fail, IsAnswer, ErrorClasses

LEMMA UnpackAnswers ==
    ASSUME NEW blob
    PROVE  IsAnswer(Unpack(blob))
  BY DEF Unpack, Ok, Fail, IsAnswer, ErrorClasses

LEMMA DeriveAnswers ==
    ASSUME NEW pass, NEW salt, NEW params
    PROVE  IsAnswer(DeriveKey(pass, salt, params))
  BY DEF DeriveKey, Ok, Fail, IsAnswer, ErrorClasses

LEMMA ParamsReadAnswers ==
    ASSUME NEW blob
    PROVE  IsAnswer(ParamsRead(blob))
  BY DEF ParamsRead, ParamsFromDict, Ok, Fail, IsAnswer, ErrorClasses

LEMMA UnwrapAnswers ==
    ASSUME NEW blob, NEW pass
    PROVE  IsAnswer(UnwrapPrivateKey(blob, pass))
  <1> DEFINE paramsEnd == HeaderFixed + blob.params_len
             inner == [blob.inner EXCEPT !.len = blob.len - paramsEnd]
             OpenWith(params) ==
                 Then(Unpack(inner), LAMBDA sealed :
                     Then(DeriveKey(pass, blob.salt, params), LAMBDA key :
                         Decrypt(sealed, key, AssociatedData(blob.version, blob.salt, blob.params))))
  <1>1. ASSUME NEW params
        PROVE  IsAnswer(OpenWith(params))
    BY DecryptAnswers, UnpackAnswers, DeriveAnswers DEF Then
  <1>2. IsAnswer(Then(ParamsRead(blob), OpenWith))
    BY <1>1, ParamsReadAnswers DEF Then
  <1>3. IsAnswer(Fail("WireFormatError"))
    BY DEF IsAnswer, Fail, ErrorClasses
  <1> QED BY <1>2, <1>3 DEF UnwrapPrivateKey

\* The blob that a signup makes, spelt out.
SealedKey(k, p) ==
    [nonce |-> Drawn,
     ciphertext |-> [key |-> [from |-> <<p, "salt", DefaultParams>>, size |-> 32],
                     text |-> SerializePrivateKey(k)],
     tag |-> GcmTag(AssociatedData(WrappedV1, "salt", DefaultParams), Drawn,
                    SerializePrivateKey(k))]

Blob(k, p) ==
    [version |-> WrappedV1, salt |-> "salt", params_len |-> ParamsLength,
     params |-> DefaultParams, inner |-> Pack(SealedKey(k, p)),
     len |-> HeaderFixed + ParamsLength + Pack(SealedKey(k, p)).len]

LEMMA WrapMakes ==
    ASSUME NEW k, NEW p
    PROVE  /\ WrapPrivateKey(SerializePrivateKey(k), p) = Ok(Blob(k, p))
           /\ Wrapped(k, p) = Blob(k, p)
  <1>1. ValidParams(DefaultParams) /\ DefaultParams.l = 32
    BY DEF ValidParams, DefaultParams
  <1>2. DeriveKey(p, "salt", DefaultParams)
           = Ok([from |-> <<p, "salt", DefaultParams>>, size |-> 32])
    BY <1>1 DEF DeriveKey
  <1>3. Encrypt(SerializePrivateKey(k), [from |-> <<p, "salt", DefaultParams>>, size |-> 32],
                AssociatedData(WrappedV1, "salt", DefaultParams)) = Ok(SealedKey(k, p))
    BY DEF Encrypt, SealedKey, KeySize
  <1> DEFINE SealUnder(key) == Encrypt(SerializePrivateKey(k), key,
                                      AssociatedData(WrappedV1, "salt", DefaultParams))
             Laid(sealed) ==
                 Ok([version |-> WrappedV1, salt |-> "salt", params_len |-> ParamsLength,
                     params |-> DefaultParams, inner |-> Pack(sealed),
                     len |-> HeaderFixed + ParamsLength + Pack(sealed).len])
  <1>4. Then(DeriveKey(p, "salt", DefaultParams), SealUnder) = Ok(SealedKey(k, p))
    BY <1>2, <1>3 DEF Then, Ok
  <1>5. Then(Ok(SealedKey(k, p)), Laid) = Ok(Blob(k, p))
    BY DEF Then, Ok, Blob
  <1>6. WrapPrivateKey(SerializePrivateKey(k), p) = Ok(Blob(k, p))
    BY <1>4, <1>5 DEF WrapPrivateKey
  <1> QED BY <1>6 DEF Wrapped, Ok

LEMMA PemIsText ==
    ASSUME NEW k
    PROVE  /\ Len(SerializePrivateKey(k)) = 2
           /\ SubSeq(SerializePrivateKey(k), 1, 2) = SerializePrivateKey(k)
  <1>1. SerializePrivateKey(k) \in Seq({"PRIVATE KEY", k})
    BY DEF SerializePrivateKey
  <1>2. Len(SerializePrivateKey(k)) = 2
    BY DEF SerializePrivateKey
  <1> QED BY <1>1, <1>2, SubSeqFull

\* The blob of a key opens with its passphrase.
LEMMA WrappedOpens ==
    ASSUME NEW k, NEW p
    PROVE  UnwrapPrivateKey(Wrapped(k, p), p) = Ok(SerializePrivateKey(k))
  <1> DEFINE b == Blob(k, p)
             pem == SerializePrivateKey(k)
             key == [from |-> <<p, "salt", DefaultParams>>, size |-> 32]
             inner == [b.inner EXCEPT !.len = b.len - (HeaderFixed + b.params_len)]
  <1>1. Pack(SealedKey(k, p)) =
           [version |-> CiphertextV1, nonce |-> Drawn, tag |-> SealedKey(k, p).tag,
            ciphertext |-> [key |-> key, text |-> pem], len |-> EnvelopeHeader + 2]
    BY PemIsText DEF Pack, SealedKey
  <1>2. /\ b.len = HeaderFixed + ParamsLength + EnvelopeHeader + 2
        /\ b.version = WrappedV1 /\ b.salt = "salt" /\ b.params_len = ParamsLength
        /\ b.params = DefaultParams /\ b.inner = Pack(SealedKey(k, p))
    BY <1>1 DEF Blob, HeaderFixed, SaltSize, ParamsLength, EnvelopeHeader, NonceSize, TagSize
  <1>3. inner = Pack(SealedKey(k, p))
    BY <1>1, <1>2 DEF HeaderFixed, SaltSize, ParamsLength, EnvelopeHeader, NonceSize, TagSize
  <1>4. Unpack(inner) = Ok(SealedKey(k, p))
    <2>1. /\ inner.len = 31 /\ inner.version = CiphertextV1 /\ EnvelopeHeader = 29
          /\ inner.nonce = Drawn /\ inner.tag = SealedKey(k, p).tag
          /\ inner.ciphertext = [key |-> key, text |-> pem]
      BY <1>1, <1>3 DEF EnvelopeHeader, NonceSize, TagSize
    <2>2. SubSeq(inner.ciphertext.text, 1, inner.len - EnvelopeHeader) = pem
      <3>1. inner.len - EnvelopeHeader = 2 /\ inner.ciphertext.text = SerializePrivateKey(k)
        BY <2>1
      <3> HIDE DEF inner
      <3> QED BY <3>1, PemIsText
    <2>3. [inner.ciphertext EXCEPT !.text = pem] = [key |-> key, text |-> pem]
      BY <2>1
    <2> HIDE DEF inner, pem, key
    <2>4. Unpack(inner) = Ok([nonce |-> Drawn, tag |-> SealedKey(k, p).tag,
                              ciphertext |-> [key |-> key, text |-> pem]])
      BY <2>1, <2>2, <2>3 DEF Unpack
    <2> QED BY <2>4 DEF SealedKey, key, pem
  <1>5. ParamsRead(b) = Ok(DefaultParams)
    BY <1>2, GarbledAssumption DEF ParamsRead, ParamsFromDict, ValidParams, DefaultParams
  <1>6. DeriveKey(p, "salt", DefaultParams) = Ok(key)
    BY DEF DeriveKey, ValidParams, DefaultParams
  <1>7. Decrypt(SealedKey(k, p), key, AssociatedData(WrappedV1, "salt", DefaultParams)) = Ok(pem)
    BY DEF Decrypt, SealedKey, KeySize
  <1>8. /\ ~ b.len < HeaderFixed
        /\ ~ HeaderFixed + b.params_len > b.len
    BY <1>2 DEF HeaderFixed, SaltSize, ParamsLength, EnvelopeHeader, NonceSize, TagSize
  <1> HIDE DEF b, inner, key, pem
  <1> DEFINE OpenWith(params) ==
                 Then(Unpack(inner), LAMBDA sealed :
                     Then(DeriveKey(p, b.salt, params), LAMBDA opener :
                         Decrypt(sealed, opener, AssociatedData(b.version, b.salt, b.params))))
  <1> DEFINE Opener(sealed) ==
                 Then(DeriveKey(p, b.salt, DefaultParams), LAMBDA opener :
                     Decrypt(sealed, opener, AssociatedData(b.version, b.salt, b.params)))
  <1>9. OpenWith(DefaultParams) = Ok(pem)
    <2>1. Opener(SealedKey(k, p)) = Ok(pem)
      <3> DEFINE With(opener) == Decrypt(SealedKey(k, p), opener,
                                     AssociatedData(b.version, b.salt, b.params))
      <3>1. DeriveKey(p, b.salt, DefaultParams) = Ok(key)
        BY <1>2, <1>6
      <3>2. With(key) = Ok(pem)
        BY <1>2, <1>7
      <3> HIDE DEF With
      <3>3. Then(Ok(key), With) = With(key)
        BY DEF Then, Ok
      <3>4. Then(Ok(key), With) = Ok(pem)
        BY <3>2, <3>3
      <3> QED BY <3>1, <3>4 DEF With
    <2>2. Then(Ok(SealedKey(k, p)), Opener) = Opener(SealedKey(k, p))
      BY DEF Then, Ok
    <2> QED BY <1>4, <2>1, <2>2
  <1>10. Then(ParamsRead(b), OpenWith) = Ok(pem)
    BY <1>5, <1>9 DEF Then, Ok
  <1>11. UnwrapPrivateKey(b, p) = Ok(pem)
    BY <1>2, <1>8, <1>10 DEF UnwrapPrivateKey, inner
  <1> QED BY <1>11, WrapMakes DEF b, pem

-----------------------------------------------------------------------------
(* Documents.                                                              *)

\* The file is read whole, wherever the stream cuts it.
LEMMA ReadsWhole ==
    ASSUME NEW i \in 0..Len(File)
    PROVE  ReadStreamToBytes(Chunks(i)) = File
  <1> DEFINE a == SubSeq(File, 1, i)
             b == SubSeq(File, i + 1, Len(File))
             c == Chunks(i)
             read == [n \in 0..3 |-> CASE n = 0 -> <<>> [] n = 1 -> a [] n = 2 -> a [] n = 3 -> File]
  <1>1. File \in Seq(STRING) /\ Len(File) \in Nat
    BY CryptoAssumption
  <1>2. a \in Seq(STRING) /\ b \in Seq(STRING) /\ Len(a) = i /\ Len(b) = Len(File) - i
    BY <1>1
  <1>3. a \o b = File /\ <<>> \o a = a /\ (Len(a) = 0 => a = <<>>) /\ (Len(b) = 0 => a = File)
    <2>1. a \o b = SubSeq(File, 1, Len(File))
      <3>1. 1 \in 1..Len(File) + 1 /\ i \in 1 - 1..Len(File) /\ Len(File) \in i..Len(File)
        BY <1>1
      <3> QED BY <1>1, <3>1, ConcatAdjacentSubSeq
    <2>2. a \o b = File
      BY <1>1, <2>1, SubSeqFull
    <2> HIDE DEF a, b
    <2>3. Len(b) = 0 => b = <<>>
      BY <1>2, EmptySeq
    <2>4. Len(a) = 0 => a = <<>>
      BY <1>2, EmptySeq
    <2> QED BY <1>2, <2>2, <2>3, <2>4, ConcatEmptySeq
  <1>4. Len(c) = 3 /\ c[1] = a /\ c[2] = <<>> /\ c[3] = b
    BY DEF Chunks
  <1> HIDE DEF a, b, c
  \* One more chunk, which may be empty.
  <1> DEFINE More(text, chunk) == IF Len(chunk) > 0 THEN text \o chunk ELSE text
             Reads(f) == f = [n \in 0..Len(c) |->
                                IF n = 0 THEN <<>> ELSE More(f[n - 1], c[n])]
  <1>5. More(<<>>, c[1]) = a /\ More(a, c[2]) = a /\ More(a, c[3]) = File
    <2>1. Len(a) \in Nat /\ Len(b) \in Nat
      BY <1>2
    <2> QED BY <1>3, <1>4, <2>1, EmptySeq
  <1>6. ReadStreamToBytes(c) = (CHOOSE f : Reads(f))[3]
    BY <1>4 DEF ReadStreamToBytes
  <1> HIDE DEF More
  <1>7. Reads(read)
    <2>1. /\ read[0] = <<>> /\ read[1] = a /\ read[2] = a /\ read[3] = File
          /\ 0..Len(c) = 0..3
      BY <1>4
    <2>2. ASSUME NEW n \in 0..3
          PROVE  read[n] = IF n = 0 THEN <<>> ELSE More(read[n - 1], c[n])
      <3> HIDE DEF read
      <3>1. n = 0 \/ (n = 1 /\ n - 1 = 0) \/ (n = 2 /\ n - 1 = 1) \/ (n = 3 /\ n - 1 = 2)
        OBVIOUS
      <3> QED BY <1>5, <2>1, <3>1
    <2>3. read = [n \in 0..3 |-> read[n]]
      OBVIOUS
    <2> HIDE DEF read
    <2> QED BY <2>1, <2>2, <2>3
  <1>8. ASSUME NEW f, Reads(f)
        PROVE  f[3] = File
    <2>1. f[0] = <<>>
      BY <1>4, <1>8
    <2>2. f[1] = More(f[0], c[1]) /\ f[2] = More(f[1], c[2]) /\ f[3] = More(f[2], c[3])
      <3>1. ASSUME NEW n \in 1..3
            PROVE  f[n] = More(f[n - 1], c[n])
        BY <1>4, <1>8, <3>1
      <3>2. 1 - 1 = 0 /\ 2 - 1 = 1 /\ 3 - 1 = 2
        OBVIOUS
      <3> QED BY <3>1, <3>2
    <2> QED BY <1>5, <2>1, <2>2
  <1>9. Reads(CHOOSE f : Reads(f))
    <2> HIDE DEF Reads
    <2> QED BY <1>7
  <1>10. (CHOOSE f : Reads(f))[3] = File
    BY <1>8, <1>9
  <1> QED BY <1>6, <1>10 DEF c

LEMMA SealedBy ==
    ASSUME NEW text, NEW dek \in {Dek, OtherDek}
    PROVE  Encrypt(text, dek, <<>>) = Ok(Sealed(text, dek))
  BY DEF Encrypt, Sealed, Dek, OtherDek, KeySize

LEMMA BundleMakes ==
    ASSUME NEW text, NEW name, NEW dek \in {Dek, OtherDek}, NEW recipients, recipients # {}
    PROVE  EncryptForRecipients(text, name, recipients, dek)
             = Ok([encryptedFilename |-> Pack(Sealed(name, dek)),
                   contentHash |-> ContentHash(text),
                   ciphertext |-> Pack(Sealed(text, dek)),
                   access |-> {[userId |-> r.userId,
                                encryptedDek |-> OaepEncrypt(dek, r.publicKey)] : r \in recipients}])
  <1> DEFINE Named(sealed, sealedFilename) ==
                 Ok([encryptedFilename |-> Pack(sealedFilename),
                     contentHash |-> ContentHash(text),
                     ciphertext |-> Pack(sealed),
                     access |-> {[userId |-> r.userId,
                                  encryptedDek |-> OaepEncrypt(dek, r.publicKey)] : r \in recipients}])
  <1>1. Then(Encrypt(text, dek, <<>>), LAMBDA sealed :
          Then(Encrypt(name, dek, <<>>), LAMBDA sealedFilename : Named(sealed, sealedFilename)))
          = Named(Sealed(text, dek), Sealed(name, dek))
    <2> HIDE DEF Named
    <2>1. Then(Encrypt(name, dek, <<>>),
               LAMBDA sealedFilename : Named(Sealed(text, dek), sealedFilename))
            = Named(Sealed(text, dek), Sealed(name, dek))
      BY SealedBy DEF Then, Ok
    <2> QED BY <2>1, SealedBy DEF Then, Ok
  <1>2. EncryptForRecipients(text, name, recipients, dek)
          = Then(Encrypt(text, dek, <<>>), LAMBDA sealed :
              Then(Encrypt(name, dek, <<>>), LAMBDA sealedFilename :
                Named(sealed, sealedFilename)))
    BY DEF EncryptForRecipients
  <1> QED BY <1>1, <1>2

OpenEnvelope(envelope, dek) ==
    Then(Unpack(envelope), LAMBDA sealed : Decrypt(sealed, dek, <<>>))

LEMMA SealedOpens ==
    ASSUME NEW S, NEW text \in Seq(S)
    PROVE  OpenEnvelope(Pack(Sealed(text, Dek)), Dek) = Ok(text)
  <1> DEFINE e == Pack(Sealed(text, Dek))
  <1>1. /\ e.len - EnvelopeHeader = Len(text) /\ ~(e.len < EnvelopeHeader)
        /\ e.version = CiphertextV1 /\ e.nonce = Drawn /\ e.tag = GcmTag(<<>>, Drawn, text)
        /\ e.ciphertext = [key |-> Dek, text |-> text]
    BY DEF Pack, Sealed, EnvelopeHeader, NonceSize, TagSize
  <1>2. /\ SubSeq(e.ciphertext.text, 1, e.len - EnvelopeHeader) = text
        /\ [e.ciphertext EXCEPT !.text = text] = [key |-> Dek, text |-> text]
    <2> HIDE DEF e
    <2> QED BY <1>1, SubSeqFull
  <1> HIDE DEF e
  <1>3. Unpack(e) = Ok(Sealed(text, Dek))
    BY <1>1, <1>2 DEF Unpack, Sealed
  <1>4. Decrypt(Sealed(text, Dek), Dek, <<>>) = Ok(text)
    BY DEF Decrypt, Sealed, Dek, KeySize
  <1> QED BY <1>3, <1>4 DEF OpenEnvelope, Then, Ok, e

EnvelopesOf(text, own) ==
    {Pack(Sealed(text, own))} \cup ChangedEnvelopes(Pack(Sealed(text, own)))

\* The tag holds what was encrypted: a changed envelope opens under the key that
\* it was made with, to that text, or not at all.
LEMMA ChangedOpensToSame ==
    ASSUME NEW S, NEW text \in Seq(S), NEW own, NEW dek, NEW e \in EnvelopesOf(text, own),
           OpenEnvelope(e, dek).ok
    PROVE  OpenEnvelope(e, dek).value = text /\ dek = own
  <1> DEFINE p == Pack(Sealed(text, own))
             there == SubSeq(e.ciphertext.text, 1, e.len - EnvelopeHeader)
             opened == [e.ciphertext EXCEPT !.text = there]
  <1>1. p = [version |-> CiphertextV1, nonce |-> Drawn, tag |-> GcmTag(<<>>, Drawn, text),
             ciphertext |-> [key |-> own, text |-> text], len |-> EnvelopeHeader + Len(text)]
    BY DEF Pack, Sealed
  <1>2. \/ e.tag = GcmTag(<<>>, Drawn, text)
        \/ e.ciphertext = [key |-> own, text |-> text] /\ e.len = EnvelopeHeader + Len(text)
    BY <1>1 DEF EnvelopesOf, ChangedEnvelopes
  <1>3. \/ e.ciphertext = [key |-> own, text |-> text]
        \/ e.ciphertext = [key |-> own, text |-> <<Garbled, Garbled>>]
    BY <1>1 DEF EnvelopesOf, ChangedEnvelopes
  <1>4. opened.text = there /\ opened.key = own
    <2>1. ASSUME NEW t, e.ciphertext = [key |-> own, text |-> t]
          PROVE  opened.text = there /\ opened.key = own
      <3> HIDE DEF there
      <3> QED BY <2>1
    <2> HIDE DEF opened
    <2> QED BY <1>3, <2>1
  <1>5. Unpack(e).ok => Unpack(e).value = [nonce |-> e.nonce, tag |-> e.tag, ciphertext |-> opened]
    BY DEF Unpack, Ok, Fail
  <1> HIDE DEF opened, there, p
  <1>6. Unpack(e).ok
    BY DEF OpenEnvelope, Then
  <1>7. OpenEnvelope(e, dek) = Decrypt([nonce |-> e.nonce, tag |-> e.tag, ciphertext |-> opened],
                                       dek, <<>>)
    BY <1>5, <1>6 DEF OpenEnvelope, Then
  <1>8. e.tag = GcmTag(<<>>, e.nonce, there) /\ OpenEnvelope(e, dek).value = there /\ dek = own
    BY <1>4, <1>7 DEF Decrypt, Ok, Fail
  <1>9. CASE e.tag = GcmTag(<<>>, Drawn, text)
    BY <1>8, <1>9 DEF GcmTag
  <1>10. CASE e.ciphertext = [key |-> own, text |-> text] /\ e.len = EnvelopeHeader + Len(text)
    <2>1. e.len - EnvelopeHeader = Len(text)
      BY <1>10 DEF EnvelopeHeader, NonceSize, TagSize
    <2>2. there = text
      BY <1>10, <2>1, SubSeqFull DEF there
    <2> QED BY <1>8, <2>2
  <1> QED BY <1>2, <1>9, <1>10

LEMMA TextsAreTexts ==
    /\ File \in Seq(STRING) /\ <<"name">> \in Seq({"name"})
    /\ <<"title">> \in Seq({"title"}) /\ <<"other">> \in Seq({"other"})
  <1>1. /\ <<"name">> \in Seq({"name"}) /\ <<"title">> \in Seq({"title"})
        /\ <<"other">> \in Seq({"other"})
    OBVIOUS
  <1> QED BY <1>1, CryptoAssumption

\* A bundle opens in three steps, the first of which fails without its key.
LEMMA BundleSteps ==
    ASSUME NEW c, NEW f, NEW sealed, NEW key
    PROVE  /\ DecryptBundle(c, f, sealed, key).ok =>
                 /\ OaepDecrypt(sealed, key).ok
                 /\ OpenEnvelope(c, OaepDecrypt(sealed, key).value).ok
                 /\ OpenEnvelope(f, OaepDecrypt(sealed, key).value).ok
           /\ /\ OaepDecrypt(sealed, key).ok
              /\ OpenEnvelope(c, OaepDecrypt(sealed, key).value).ok
              /\ OpenEnvelope(f, OaepDecrypt(sealed, key).value).ok
              => DecryptBundle(c, f, sealed, key)
                   = Ok([filename |-> OpenEnvelope(f, OaepDecrypt(sealed, key).value).value,
                         plaintext |-> OpenEnvelope(c, OaepDecrypt(sealed, key).value).value])
  <1> DEFINE Named(plaintext, filename) == Ok([filename |-> filename, plaintext |-> plaintext])
             Inner(plaintext, dek) ==
                 Then(OpenEnvelope(f, dek), LAMBDA filename : Named(plaintext, filename))
             Outer(dek) == Then(OpenEnvelope(c, dek), LAMBDA plaintext : Inner(plaintext, dek))
  <1>1. DecryptBundle(c, f, sealed, key) = Then(OaepDecrypt(sealed, key), Outer)
    BY DEF DecryptBundle, OpenEnvelope
  <1>2. ASSUME NEW dek, NEW plaintext
        PROVE  Inner(plaintext, dek) = IF OpenEnvelope(f, dek).ok
                                       THEN Named(plaintext, OpenEnvelope(f, dek).value)
                                       ELSE OpenEnvelope(f, dek)
    BY DEF Then
  <1> HIDE DEF Inner
  <1>3. ASSUME NEW dek
        PROVE  Outer(dek) = IF OpenEnvelope(c, dek).ok
                            THEN Inner(OpenEnvelope(c, dek).value, dek)
                            ELSE OpenEnvelope(c, dek)
    BY DEF Then
  <1> HIDE DEF Outer
  <1>4. DecryptBundle(c, f, sealed, key) = IF OaepDecrypt(sealed, key).ok
                                           THEN Outer(OaepDecrypt(sealed, key).value)
                                           ELSE OaepDecrypt(sealed, key)
    BY <1>1 DEF Then
  <1> QED BY <1>2, <1>3, <1>4

\* An envelope of one of the two documents, in whichever place it is read.
OfADocument(e) == \E own \in {Dek, OtherDek} : \E text \in TextsUnder(own) :
                      e \in EnvelopesOf(text, own)

LEMMA OpensUnderItsOwn ==
    ASSUME NEW e, OfADocument(e), NEW dek, OpenEnvelope(e, dek).ok
    PROVE  dek \in {Dek, OtherDek} /\ OpenEnvelope(e, dek).value \in TextsUnder(dek)
  <1>1. PICK own \in {Dek, OtherDek} : \E text \in TextsUnder(own) : e \in EnvelopesOf(text, own)
    BY DEF OfADocument
  <1>2. PICK text \in TextsUnder(own) : e \in EnvelopesOf(text, own)
    BY <1>1
  <1>3. text \in Seq(STRING) \/ text \in Seq({"name"}) \/ text \in Seq({"title"})
        \/ text \in Seq({"other"})
    BY TextsAreTexts DEF TextsUnder
  <1>4. OpenEnvelope(e, dek).value = text /\ dek = own
    BY <1>2, <1>3, ChangedOpensToSame
  <1> QED BY <1>4

LEMMA BundleIsOfOne ==
    ASSUME NEW c, OfADocument(c), NEW f, OfADocument(f), NEW sealed, NEW key,
           DecryptBundle(c, f, sealed, key).ok
    PROVE  OfOneDocument(DecryptBundle(c, f, sealed, key).value)
  <1> DEFINE dek == OaepDecrypt(sealed, key).value
  <1>1. OaepDecrypt(sealed, key).ok /\ OpenEnvelope(c, dek).ok /\ OpenEnvelope(f, dek).ok
    BY BundleSteps
  <1>2. DecryptBundle(c, f, sealed, key) = Ok([filename |-> OpenEnvelope(f, dek).value,
                                               plaintext |-> OpenEnvelope(c, dek).value])
    BY <1>1, BundleSteps
  <1> HIDE DEF dek
  <1>3. /\ dek \in {Dek, OtherDek}
        /\ {OpenEnvelope(f, dek).value, OpenEnvelope(c, dek).value} \subseteq TextsUnder(dek)
    BY <1>1, OpensUnderItsOwn
  <1> QED BY <1>2, <1>3 DEF Ok, OfOneDocument

\* The blobs that may be read back are envelopes of the two documents.
LEMMA ReadBackAreEnvelopes ==
    ASSUME doc # None, DocOK(doc), doc.access # {}, NEW e \in EnvelopesReadBack
    PROVE  OfADocument(e)
  <1> DEFINE readers == {[userId |-> a.userId, publicKey |->
                             DeserializePublicKeyForOaep(accounts[a.userId].pem).value] :
                         a \in doc.access}
  <1>1. /\ Another.ciphertext = Pack(Sealed(<<"other">>, OtherDek))
        /\ Another.encryptedFilename = Pack(Sealed(<<"title">>, OtherDek))
    <2>1. readers # {}
      OBVIOUS
    <2>2. Another = EncryptForRecipients(<<"other">>, <<"title">>, readers, OtherDek).value
      BY DEF Another
    <2> HIDE DEF readers
    <2>3. EncryptForRecipients(<<"other">>, <<"title">>, readers, OtherDek)
            = Ok([encryptedFilename |-> Pack(Sealed(<<"title">>, OtherDek)),
                  contentHash |-> ContentHash(<<"other">>),
                  ciphertext |-> Pack(Sealed(<<"other">>, OtherDek)),
                  access |-> {[userId |-> r.userId, encryptedDek |->
                                  OaepEncrypt(OtherDek, r.publicKey)] : r \in readers}])
      BY <2>1, BundleMakes
    <2> QED BY <2>2, <2>3 DEF Ok
  <1>2. /\ doc.ciphertext = Pack(Sealed(File, Dek))
        /\ doc.encryptedFilename = Pack(Sealed(<<"name">>, Dek))
    BY DEF DocOK
  <1>3. Dek # OtherDek
    BY DEF Dek, OtherDek
  <1>4. PICK whole \in {doc.ciphertext, doc.encryptedFilename, Another.ciphertext,
                      Another.encryptedFilename} : e \in {whole} \cup ChangedEnvelopes(whole)
    BY DEF EnvelopesReadBack
  <1>5. \E own \in {Dek, OtherDek} : \E text \in TextsUnder(own) : whole = Pack(Sealed(text, own))
    BY <1>1, <1>2, <1>3, <1>4 DEF TextsUnder
  <1> QED BY <1>4, <1>5 DEF OfADocument, EnvelopesOf

\* What a page shows of a document: parts of one document, or an error.
LEMMA OpenedIsOfOne ==
    ASSUME NEW d, OfADocument(d.ciphertext), OfADocument(d.encryptedFilename),
           NEW user, NEW pem, Opened(d, user, pem).ok
    PROVE  OfOneDocument(Opened(d, user, pem).value)
  <1> DEFINE one == CHOOSE a \in d.access : a.userId = user
             read == DeserializePrivateKeyForOaep(pem)
  <1> HIDE DEF one, read
  <1>1. Opened(d, user, pem) = IF read.ok
            THEN DecryptBundle(d.ciphertext, d.encryptedFilename, one.encryptedDek, read.value)
            ELSE read
    BY DEF Opened, Then, one, read
  <1> QED BY <1>1, BundleIsOfOne

\* The two halves of a key, imported for OAEP.
LEMMA HalvesImport ==
    ASSUME NEW k \in Keys
    PROVE  /\ DeserializePrivateKeyForOaep(SerializePrivateKey(k)) = Ok([key |-> k, alg |-> "RSA-OAEP"])
           /\ DeserializePublicKeyForOaep(SerializePublicKey(k)) = Ok([key |-> k, alg |-> "RSA-OAEP"])
  <1>1. k # Garbled
    BY GarbledAssumption
  <1>2. PemDecode(SerializePrivateKey(k), "PRIVATE KEY") = Ok(k)
    BY <1>1 DEF PemDecode, SerializePrivateKey
  <1>3. PemDecode(SerializePublicKey(k), "PUBLIC KEY") = Ok(k)
    BY <1>1 DEF PemDecode, SerializePublicKey
  <1> DEFINE Handle(key) == Ok([key |-> key, alg |-> "RSA-OAEP"])
  <1>4. Then(Ok(k), Handle) = Handle(k)
    BY DEF Then, Ok
  <1>5. DeserializePrivateKeyForOaep(SerializePrivateKey(k)) = Handle(k)
    BY <1>2, <1>4 DEF DeserializePrivateKeyForOaep, ImportFor
  <1>6. DeserializePublicKeyForOaep(SerializePublicKey(k)) = Handle(k)
    BY <1>3, <1>4 DEF DeserializePublicKeyForOaep, ImportFor
  <1> QED BY <1>5, <1>6

\* The copy of the document's key that is wrapped for k.
CopyFor(k) == [oaep |-> Dek, under |-> k]

LEMMA CopyIsMade ==
    ASSUME NEW k \in Keys
    PROVE  OaepEncrypt(Dek, DeserializePublicKeyForOaep(SerializePublicKey(k)).value) = CopyFor(k)
  BY HalvesImport DEF OaepEncrypt, Ok, CopyFor

\* A recipient opens the document, from the blob and the passphrase on.
OpensTo(blob, pass, c, f, copy) ==
    Then(Then(UnwrapPrivateKey(blob, pass), DeserializePrivateKeyForOaep),
         LAMBDA k : DecryptBundle(c, f, copy, k))

LEMMA RecipientOpens ==
    ASSUME NEW k \in Keys, NEW p
    PROVE  OpensTo(Wrapped(k, p), p, Pack(Sealed(File, Dek)), Pack(Sealed(<<"name">>, Dek)), CopyFor(k))
             = Ok(Original)
  <1> DEFINE h == [key |-> k, alg |-> "RSA-OAEP"]
             key == Then(UnwrapPrivateKey(Wrapped(k, p), p), DeserializePrivateKeyForOaep)
             Opens(x) == DecryptBundle(Pack(Sealed(File, Dek)), Pack(Sealed(<<"name">>, Dek)), CopyFor(k), x)
  <1>1. key = Ok(h)
    <2>1. Then(Ok(SerializePrivateKey(k)), DeserializePrivateKeyForOaep)
            = DeserializePrivateKeyForOaep(SerializePrivateKey(k))
      BY DEF Then, Ok
    <2>2. key = DeserializePrivateKeyForOaep(SerializePrivateKey(k))
      BY <2>1, WrappedOpens
    <2> QED BY <2>2, HalvesImport
  <1>2. OaepDecrypt(CopyFor(k), h) = Ok(Dek)
    <2>1. Garbled # CopyFor(k)
      BY GarbledAssumption DEF CopyFor, Dek
    <2> QED BY <2>1 DEF OaepDecrypt, CopyFor
  <1>3. /\ OpenEnvelope(Pack(Sealed(File, Dek)), Dek) = Ok(File)
        /\ OpenEnvelope(Pack(Sealed(<<"name">>, Dek)), Dek) = Ok(<<"name">>)
    BY TextsAreTexts, SealedOpens
  <1> HIDE DEF h
  <1>4. Opens(h) = Ok(Original)
    <2>1. Ok(Dek).ok /\ Ok(Dek).value = Dek
      BY DEF Ok
    <2>2. Ok(File).ok /\ Ok(File).value = File
      BY DEF Ok
    <2>3. Ok(<<"name">>).ok /\ Ok(<<"name">>).value = <<"name">>
      BY DEF Ok
    <2>4. DecryptBundle(Pack(Sealed(File, Dek)), Pack(Sealed(<<"name">>, Dek)), CopyFor(k), h)
            = Ok([filename |-> <<"name">>, plaintext |-> File])
      BY <1>2, <1>3, <2>1, <2>2, <2>3, BundleSteps
    <2> QED BY <2>4 DEF Original
  <1> HIDE DEF Opens
  <1>5. Then(Ok(h), Opens) = Opens(h)
    BY DEF Then, Ok
  <1> HIDE DEF key
  <1>6. Then(key, Opens) = Ok(Original)
    BY <1>1, <1>4, <1>5
  <1> QED BY <1>6 DEF Opens, key, OpensTo

-----------------------------------------------------------------------------
(* Sequences of messages.                                                  *)

LEMMA TakesFirst ==
    ASSUME NEW s, s \in Seq(Range(s)), s # <<>>, OncePerId(s)
    PROVE  /\ Tail(s) \in Seq(Range(Tail(s)))
           /\ 1 \in DOMAIN s /\ Head(s) = s[1]
           /\ \A i \in DOMAIN Tail(s) : i + 1 \in DOMAIN s /\ Tail(s)[i] = s[i + 1]
           /\ IdsOf(s) = IdsOf(Tail(s)) \cup {Head(s).id}
           /\ Head(s).id \notin IdsOf(Tail(s))
           /\ OncePerId(Tail(s))
  <1> DEFINE t == Tail(s)
  <1>1. /\ DOMAIN s = 1..Len(s) /\ Len(s) \in Nat \ {0} /\ Head(s) = s[1]
        /\ t \in Seq(Range(s)) /\ Len(t) = Len(s) - 1 /\ DOMAIN t = 1..Len(s) - 1
        /\ \A i \in 1..Len(s) - 1 : t[i] = s[i + 1]
    BY HeadTailProperties, LenProperties, EmptySeq
  <1> HIDE DEF t
  <1>2. t \in Seq(Range(t))
    <2>1. \A i \in 1..Len(t) : t[i] \in Range(t)
      BY <1>1 DEF Range
    <2>2. t = [i \in 1..Len(t) |-> t[i]] /\ Len(t) \in Nat
      BY <1>1
    <2> QED BY <2>1, <2>2, SeqDef
  <1>3. \A i \in DOMAIN t : i + 1 \in DOMAIN s /\ t[i] = s[i + 1]
    BY <1>1
  <1>4. 1 \in DOMAIN s
    BY <1>1
  <1>5. IdsOf(s) = IdsOf(t) \cup {Head(s).id}
    <2>1. ASSUME NEW i \in DOMAIN s
          PROVE  s[i] = Head(s) \/ \E j \in DOMAIN t : s[i] = t[j]
      <3>1. CASE i = 1
        BY <1>1, <3>1
      <3>2. CASE i # 1
        <4>1. i - 1 \in DOMAIN t /\ t[i - 1] = s[i]
          BY <1>1, <3>2
        <4> QED BY <4>1
      <3> QED BY <3>1, <3>2
    <2> QED BY <1>1, <1>3, <1>4, <2>1 DEF IdsOf
  <1>6. Head(s).id \notin IdsOf(t)
    <2>1. ASSUME NEW i \in DOMAIN t, t[i].id = Head(s).id
          PROVE  FALSE
      <3>1. i + 1 \in DOMAIN s /\ s[i + 1].id = s[1].id
        BY <1>1, <1>3, <2>1
      <3>2. i + 1 = 1
        BY <1>4, <3>1 DEF OncePerId
      <3> QED BY <1>1, <2>1, <3>2
    <2> QED BY <2>1 DEF IdsOf
  <1>7. OncePerId(t)
    <2> SUFFICES ASSUME NEW i \in DOMAIN t, NEW j \in DOMAIN t, t[i].id = t[j].id
                 PROVE  i = j
      BY DEF OncePerId
    <2>1. i + 1 = j + 1
      BY <1>3 DEF OncePerId
    <2> QED BY <1>1, <2>1
  <1> QED BY <1>1, <1>2, <1>3, <1>4, <1>5, <1>6, <1>7 DEF t

LEMMA AddsLast ==
    ASSUME NEW s, s \in Seq(Range(s)), OncePerId(s), NEW x, x.id \notin IdsOf(s)
    PROVE  /\ Append(s, x) \in Seq(Range(Append(s, x)))
           /\ \A i \in DOMAIN Append(s, x) :
                 (i \in DOMAIN s /\ Append(s, x)[i] = s[i]) \/ Append(s, x)[i] = x
           /\ IdsOf(Append(s, x)) = IdsOf(s) \cup {x.id}
           /\ OncePerId(Append(s, x))
  <1> DEFINE t == Append(s, x)
  <1>0. s \in Seq(Range(s) \cup {x}) /\ x \in Range(s) \cup {x}
    BY SeqMonotonic
  <1>1. /\ DOMAIN s = 1..Len(s) /\ Len(s) \in Nat
        /\ t \in Seq(Range(s) \cup {x}) /\ Len(t) = Len(s) + 1 /\ DOMAIN t = 1..Len(s) + 1
        /\ \A i \in 1..Len(s) : t[i] = s[i]
        /\ t[Len(s) + 1] = x
    BY <1>0
  <1> HIDE DEF t
  <1>2. t \in Seq(Range(t))
    <2>1. \A i \in 1..Len(t) : t[i] \in Range(t)
      BY <1>1 DEF Range
    <2>2. t = [i \in 1..Len(t) |-> t[i]] /\ Len(t) \in Nat
      BY <1>1
    <2> QED BY <2>1, <2>2, SeqDef
  <1>3. \A i \in DOMAIN t : (i \in DOMAIN s /\ t[i] = s[i]) \/ (i = Len(s) + 1 /\ t[i] = x)
    BY <1>1
  <1>4. IdsOf(t) = IdsOf(s) \cup {x.id}
    <2>1. Len(s) + 1 \in DOMAIN t /\ \A i \in DOMAIN s : i \in DOMAIN t /\ t[i] = s[i]
      BY <1>1
    <2> QED BY <1>1, <1>3, <2>1 DEF IdsOf
  <1>5. OncePerId(t)
    BY <1>3 DEF OncePerId, IdsOf
  <1> QED BY <1>2, <1>3, <1>4, <1>5 DEF t

-----------------------------------------------------------------------------
(* The calls of the client: what each step does to the messages in flight. *)

\* A page without a call, keys drawn, a worker that dies: nothing to it.
LEMMA NetKeeps ==
    ASSUME NEW w, NEW n, NEW P, NEW B, NEW I, NEW O, NEW pg, NEW M,
           Net(w, n, P, B, I, O, pg, M),
           NEW v, v = "dead" \/ w # "dead",
           NEW qg, \A e \in P : qg[e.page] = pg[e.page], NEW N, M \subseteq N
    PROVE  Net(v, n, P, B, I, O, qg, N)
  <1>1. \A a, r : AnswerFits(a, r, M) => AnswerFits(a, r, N)
    BY DEF AnswerFits
  <1>2. Matched(P, B, I, O, qg, N)
    BY <1>1 DEF Net, Matched
  <1> QED BY <1>2 DEF Net, OnItsWay

LEMMA NetDies ==
    ASSUME NEW w, NEW n, NEW P, NEW B, NEW I, NEW O, NEW pg, NEW M,
           Net(w, n, P, B, I, O, pg, M), NEW qg
    PROVE  Net("dead", n, {}, {}, <<>>, O, qg, M)
  <1>1. <<>> \in Seq(Range(<<>>)) /\ DOMAIN <<>> = {}
    OBVIOUS
  <1>2. Numbered({}, {}, <<>>, O, n)
    BY <1>1 DEF Net, Numbered, IdsIn, IdsOf, OncePerId
  <1>3. Matched({}, {}, <<>>, O, qg, M)
    BY <1>1 DEF Net, Matched
  <1> QED BY <1>2, <1>3 DEF Net, OnItsWay

LEMMA NetTakes ==
    ASSUME NEW w, NEW n, NEW P, NEW B, NEW I, NEW O, NEW pg, NEW M,
           Net(w, n, P, B, I, O, pg, M), I # <<>>
    PROVE  Net(w, n, P, B \cup {Head(I)}, Tail(I), O, pg, M)
  <1> DEFINE h == Head(I)
             t == Tail(I)
             C == B \cup {h}
  <1>1. /\ t \in Seq(Range(t)) /\ 1 \in DOMAIN I /\ h = I[1]
        /\ \A i \in DOMAIN t : i + 1 \in DOMAIN I /\ t[i] = I[i + 1]
        /\ IdsOf(I) = IdsOf(t) \cup {h.id} /\ h.id \notin IdsOf(t) /\ OncePerId(t)
    BY TakesFirst DEF Net, Numbered
  <1> HIDE DEF h, t
  <1>2. IdsIn(C) = IdsIn(B) \cup {h.id}
    BY DEF IdsIn
  <1>3. \A m, k \in C : m.id = k.id => m = k
    BY <1>1 DEF Net, Numbered, IdsIn
  <1> HIDE DEF C
  <1>4. Numbered(P, C, t, O, n)
    BY <1>1, <1>2, <1>3 DEF Net, Numbered
  <1>5. Matched(P, C, t, O, pg, M)
    <2>1. \A m \in C : m \in B \/ m = I[1]
      BY <1>1 DEF C
    <2> QED BY <1>1, <2>1 DEF Net, Matched
  <1>6. OnItsWay(w, P, C, t, O)
    BY <1>1, <1>2 DEF Net, OnItsWay
  <1> QED BY <1>4, <1>5, <1>6 DEF Net, C, h, t

LEMMA NetAnswers ==
    ASSUME NEW w, NEW n, NEW P, NEW B, NEW I, NEW O, NEW pg, NEW M,
           Net(w, n, P, B, I, O, pg, M), NEW m \in B, NEW a, IsAnswer(a),
           \A e \in P : e.id = m.id => AnswerFits(a, pg[e.page], M)
    PROVE  Net(w, n, P, B \ {m}, I,
               Append(O, [id |-> m.id, type |-> m.request.type, reply |-> a]), pg, M)
  <1> DEFINE x == [id |-> m.id, type |-> m.request.type, reply |-> a]
             t == Append(O, x)
             C == B \ {m}
  <1>0. x.id = m.id /\ x.type = m.request.type /\ x.reply = a
    OBVIOUS
  <1>1. m.id \in IdsIn(B) /\ m.id \notin IdsOf(O) /\ m.id \notin IdsOf(I)
    BY DEF Net, Numbered, IdsIn
  <1>2. /\ t \in Seq(Range(t))
        /\ \A i \in DOMAIN t : (i \in DOMAIN O /\ t[i] = O[i]) \/ t[i] = x
        /\ IdsOf(t) = IdsOf(O) \cup {m.id} /\ OncePerId(t)
    BY <1>0, <1>1, AddsLast DEF Net, Numbered
  <1>3. IdsIn(C) = IdsIn(B) \ {m.id}
    BY DEF Net, Numbered, IdsIn
  <1>4. \A j, k \in C : j.id = k.id => j = k
    BY DEF Net, Numbered
  <1>5. C \subseteq B
    OBVIOUS
  <1>6. m.request.type \in Types
    BY DEF Net, Matched
  <1> HIDE DEF t, x, C
  <1>7. Numbered(P, C, I, t, n)
    BY <1>1, <1>2, <1>3, <1>4 DEF Net, Numbered
  <1>8. Matched(P, C, I, t, pg, M)
    BY <1>0, <1>2, <1>5, <1>6 DEF Net, Matched
  <1>9. OnItsWay(w, P, C, I, t)
    BY <1>2, <1>3 DEF Net, OnItsWay
  <1> QED BY <1>7, <1>8, <1>9 DEF Net, t, x, C

LEMMA NetReceives ==
    ASSUME NEW w, NEW n, NEW P, NEW B, NEW I, NEW O, NEW pg, NEW M,
           Net(w, n, P, B, I, O, pg, M), O # <<>>
    PROVE  /\ Net(w, n, {e \in P : e.id # Head(O).id}, B, I, Tail(O), pg, M)
           /\ \A e \in P : e.id = Head(O).id => AnswerFits(Head(O).reply, pg[e.page], M)
  <1> DEFINE h == Head(O)
             t == Tail(O)
             L == {e \in P : e.id # h.id}
  <1>1. /\ t \in Seq(Range(t)) /\ 1 \in DOMAIN O /\ h = O[1]
        /\ \A i \in DOMAIN t : i + 1 \in DOMAIN O /\ t[i] = O[i + 1]
        /\ IdsOf(O) = IdsOf(t) \cup {h.id} /\ OncePerId(t)
    BY TakesFirst DEF Net, Numbered
  <1>2. L \subseteq P /\ \A e \in L : e.id # h.id
    OBVIOUS
  <1> HIDE DEF h, t, L
  <1>3. Numbered(L, B, I, t, n)
    BY <1>1, <1>2 DEF Net, Numbered
  <1>4. Matched(L, B, I, t, pg, M)
    BY <1>1, <1>2 DEF Net, Matched
  <1>5. OnItsWay(w, L, B, I, t)
    BY <1>1, <1>2 DEF Net, OnItsWay
  <1>6. \A e \in P : e.id = h.id => AnswerFits(h.reply, pg[e.page], M)
    BY <1>1 DEF Net, Matched
  <1> QED BY <1>3, <1>4, <1>5, <1>6 DEF Net, h, t, L

\* A call takes a number that no message has.
LEMMA NetAsks ==
    ASSUME NEW w, NEW n \in Nat, NEW P, NEW B, NEW I, NEW O, NEW pg, NEW M,
           Net(w, n, P, B, I, O, pg, M), NEW g \in Pages, ~Entered(g, P),
           NEW q, RequestFits(q, pg[g]), pg[g].at \in Waits, pg[g].thread = "worker",
           NEW v, v = "dead" \/ w # "dead"
    PROVE  Net(v, n + 1, P \cup {[id |-> n + 1, page |-> g]}, B,
               IF v = "dead" THEN I ELSE Append(I, [id |-> n + 1, request |-> q]), O, pg, M)
  <1> DEFINE x == [id |-> n + 1, request |-> q]
             f == [id |-> n + 1, page |-> g]
             Q == P \cup {f}
             J == IF v = "dead" THEN I ELSE Append(I, x)
  <1>0. x.id = n + 1 /\ x.request = q /\ f.id = n + 1 /\ f.page = g
    OBVIOUS
  <1>1. /\ IdsIn(B) \cup IdsOf(I) \cup IdsOf(O) \subseteq 1..n
        /\ n + 1 \notin 1..n /\ 1..n \subseteq 1..n + 1 /\ n + 1 \in 1..n + 1
        /\ \A e \in P : e.id \in 1..n /\ e.page \in Pages /\ e.page # g
    BY DEF Net, Numbered, Entered
  <1>2. /\ J \in Seq(Range(J)) /\ OncePerId(J)
        /\ \A i \in DOMAIN J : (i \in DOMAIN I /\ J[i] = I[i]) \/ J[i] = x
        /\ IdsOf(I) \subseteq IdsOf(J) /\ IdsOf(J) \subseteq IdsOf(I) \cup {n + 1}
        /\ v # "dead" => n + 1 \in IdsOf(J)
    <2>1. CASE v = "dead"
      BY <2>1 DEF Net, Numbered
    <2>2. CASE v # "dead"
      BY <1>0, <1>1, <2>2, AddsLast DEF Net, Numbered
    <2> QED BY <2>1, <2>2
  <1>3. Q \subseteq [id : 1..n + 1, page : Pages]
    <2>1. P \subseteq [id : 1..n, page : Pages]
      BY DEF Net, Numbered
    <2> QED BY <1>1, <2>1
  <1>4. \A e, k \in Q : e.id = k.id \/ e.page = k.page => e = k
    <2>1. \A e, k \in P : e.id = k.id \/ e.page = k.page => e = k
      BY DEF Net, Numbered
    <2>2. \A e \in P : e.id # n + 1
      BY <1>1
    <2> QED BY <1>0, <1>1, <2>1, <2>2
  <1>5. \A e \in Q : e \in P \/ e = f
    OBVIOUS
  <1> HIDE DEF x, f, Q, J
  <1>6. Numbered(Q, B, J, O, n + 1)
    BY <1>1, <1>2, <1>3, <1>4 DEF Net, Numbered
  <1>7. Matched(Q, B, J, O, pg, M)
    <2>1. \A m \in B : /\ m.request.type \in Types /\ m.id # f.id
                       /\ \A e \in P : e.id = m.id => RequestFits(m.request, pg[e.page])
      BY <1>0, <1>1 DEF Net, Matched, IdsIn
    <2>2. \A i \in DOMAIN O :
             /\ O[i].type \in Types /\ IsAnswer(O[i].reply) /\ O[i].id # f.id
             /\ \A e \in P : e.id = O[i].id => AnswerFits(O[i].reply, pg[e.page], M)
      BY <1>0, <1>1 DEF Net, Matched, IdsOf
    <2>3. \A i \in DOMAIN I :
             /\ I[i].request.type \in Types /\ I[i].id # f.id
             /\ \A e \in P : e.id = I[i].id => RequestFits(I[i].request, pg[e.page])
      BY <1>0, <1>1 DEF Net, Matched, IdsOf
    <2>4. \A e \in P : e.id # x.id
      BY <1>0, <1>1
    <2>5. q.type \in Types
      BY DEF RequestFits
    <2>6. \A i \in DOMAIN J :
             /\ J[i].request.type \in Types
             /\ \A e \in Q : e.id = J[i].id => RequestFits(J[i].request, pg[e.page])
      BY <1>0, <1>2, <1>5, <2>3, <2>4, <2>5
    <2>7. \A e \in P : pg[e.page].at \in Waits /\ pg[e.page].thread = "worker"
      BY DEF Net, Matched
    <2> QED BY <1>0, <1>5, <2>1, <2>2, <2>6, <2>7 DEF Matched
  <1>8. OnItsWay(v, Q, B, J, O)
    BY <1>0, <1>2, <1>5 DEF Net, OnItsWay
  <1> QED BY <1>6, <1>7, <1>8 DEF Net, x, f, Q, J

-----------------------------------------------------------------------------
(* The pages: what a step of a handler does to them.                       *)

\* More keys, and more accounts, take nothing from a page.
Grown(A, B) == \A u \in Users : A[u] # None => B[u] # None

LEMMA PageGrows ==
    ASSUME NEW r, NEW A, NEW M, NEW B, NEW N, PageOK(r, A, M), Grown(A, B), M \subseteq N
    PROVE  PageOK(r, B, N)
  <1>1. \A u : HasAccount(u, A) => HasAccount(u, B)
    BY DEF HasAccount, Grown
  <1>2. PageHolds(r, B, N)
    BY <1>1 DEF PageOK, PageHolds
  <1> QED BY <1>2 DEF PageOK

\* What page g may count on when its handler goes on: the entry of its call is
\* gone from left; O and M are the messages and the keys after the step.
Ready(g, left, O, M) ==
    /\ worker \in {"unprobed", "none", "loading", "up", "dead"} /\ seq \in Nat
    /\ page = [h \in Pages |-> page[h]]
    /\ \A h \in Pages : PageOK(page[h], accounts, M)
    /\ Net(worker, seq, left, busy, inbox, O, page, M)
    /\ ~Entered(g, left)
    /\ \A h \in Pages \ {g} : page[h].at \in Waits /\ page[h].thread = "worker" => Entered(h, left)

\* What it leaves.
Moved(O, M) ==
    /\ worker' \in {"unprobed", "none", "loading", "up", "dead"} /\ seq' \in Nat
    /\ page' = [h \in Pages |-> page'[h]]
    /\ \A h \in Pages : PageOK(page'[h], accounts, M)
    /\ Net(worker', seq', pending', busy, inbox', O, page', M)
    /\ \A h \in Pages : page'[h].at \in Waits /\ page'[h].thread = "worker" => Entered(h, pending')

\* The page after a call, in either thread.
LEMMA AskingIsOK ==
    ASSUME NEW r, NEW q, NEW A, NEW M, PageOK([r EXCEPT !.thread = "worker"], A, M), Shape(r),
           r.at \in Waits, RequestFits(q, r)
    PROVE  /\ PageOK([r EXCEPT !.thread = "page", !.request = q], A, M)
           /\ [r EXCEPT !.thread = "worker"].at = r.at
           /\ [r EXCEPT !.thread = "worker"].thread = "worker"
           /\ RequestFits(q, [r EXCEPT !.thread = "worker"])
           /\ [r EXCEPT !.thread = "page", !.request = q].thread = "page"
  <1> DEFINE s == [r EXCEPT !.thread = "worker"]
             t == [r EXCEPT !.thread = "page", !.request = q]
  <1>1. /\ s.at = r.at /\ s.user = r.user /\ s.pass = r.pass /\ s.thread = "worker"
        /\ s.pem = r.pem /\ s.blob = r.blob /\ s.says = r.says /\ s.why = r.why
        /\ s.session = r.session /\ s.read = r.read
    BY DEF Shape
  <1>2. /\ t.at = r.at /\ t.user = r.user /\ t.pass = r.pass /\ t.thread = "page"
        /\ t.request = q
        /\ t.pem = r.pem /\ t.blob = r.blob /\ t.says = r.says /\ t.why = r.why
        /\ t.session = r.session /\ t.read = r.read
    BY DEF Shape
  <1>3. Shape(t)
    <2> DEFINE p == [r EXCEPT !.thread = "page"]
    <2>1. Shape(p)
      BY DEF Shape
    <2>2. t = [p EXCEPT !.request = q]
      BY DEF Shape
    <2> HIDE DEF p, t
    <2>3. Shape([p EXCEPT !.request = q])
      BY <2>1 DEF Shape
    <2> QED BY <2>2, <2>3
  <1> HIDE DEF s, t
  <1>4. PageTyped(t)
    BY <1>1, <1>2, <1>3 DEF PageOK, PageTyped
  <1>5. RequestFits(q, s) /\ RequestFits(q, t)
    BY <1>1, <1>2 DEF RequestFits
  <1>6. PageHolds(t, A, M)
    BY <1>1, <1>2, <1>5 DEF PageOK, PageHolds
  <1> QED BY <1>1, <1>2, <1>4, <1>5, <1>6 DEF PageOK, s, t

LEMMA GoesOn ==
    ASSUME NEW g \in Pages, NEW r, NEW left, NEW O, NEW M,
           Ready(g, left, O, M), GoOn(g, r, left), PageOK(r, accounts, M), r.at \notin Waits
    PROVE  Moved(O, M)
  <1>1. /\ page' = [page EXCEPT ![g] = r] /\ pending' = left
        /\ worker' = worker /\ seq' = seq /\ inbox' = inbox
    BY DEF GoOn
  <1>2. /\ page' = [h \in Pages |-> page'[h]] /\ page'[g] = r
        /\ \A h \in Pages \ {g} : page'[h] = page[h]
    BY <1>1 DEF Ready
  <1>3. \A e \in left : e.page \in Pages /\ e.page # g
    BY DEF Ready, Entered, Net, Numbered
  <1>4. Net(worker', seq', pending', busy, inbox', O, page', M)
    BY <1>1, <1>2, <1>3, NetKeeps DEF Ready
  <1>5. \A h \in Pages : PageOK(page'[h], accounts, M)
    BY <1>2 DEF Ready
  <1>6. ASSUME NEW h \in Pages, page'[h].at \in Waits, page'[h].thread = "worker"
        PROVE  Entered(h, pending')
    BY <1>1, <1>2, <1>6 DEF Ready
  <1> QED BY <1>1, <1>2, <1>4, <1>5, <1>6 DEF Ready, Moved

LEMMA Asks ==
    ASSUME NEW g \in Pages, NEW r, NEW q, NEW left, NEW O, NEW M,
           Ready(g, left, O, M), Ask(g, r, q, left), Shape(r), r.at \in Waits, RequestFits(q, r),
           PageOK([r EXCEPT !.thread = "worker"], accounts, M)
    PROVE  Moved(O, M)
  <1> DEFINE s == [r EXCEPT !.thread = "worker"]
             t == [r EXCEPT !.thread = "page", !.request = q]
  <1>1. PICK w \in Probe :
            /\ worker' = w
            /\ page' = [page EXCEPT ![g] = IF w = "none" THEN t ELSE s]
            /\ IF w = "none" THEN pending' = left /\ UNCHANGED <<seq, inbox>>
               ELSE /\ seq' = seq + 1
                    /\ pending' = left \cup {[id |-> seq', page |-> g]}
                    /\ inbox' = IF w = "dead" THEN inbox
                                ELSE Append(inbox, [id |-> seq', request |-> q])
    BY DEF Ask
  <1>2. /\ w \in {"unprobed", "none", "loading", "up", "dead"}
        /\ w = "dead" \/ worker # "dead"
    BY DEF Probe, Ready
  <1>3. /\ PageOK(s, accounts, M) /\ PageOK(t, accounts, M)
        /\ s.at \in Waits /\ s.thread = "worker" /\ t.thread = "page" /\ RequestFits(q, s)
    BY AskingIsOK
  <1> HIDE DEF s, t
  <1>4. /\ page' = [h \in Pages |-> page'[h]] /\ page'[g] = IF w = "none" THEN t ELSE s
        /\ \A h \in Pages \ {g} : page'[h] = page[h]
    BY <1>1 DEF Ready
  <1>5. \A e \in left : e.page \in Pages /\ e.page # g
    BY DEF Ready, Entered, Net, Numbered
  <1>6. \A h \in Pages : PageOK(page'[h], accounts, M)
    BY <1>3, <1>4 DEF Ready
  <1>7. seq' \in Nat
    BY <1>1 DEF Ready
  <1>8. Net(worker', seq', pending', busy, inbox', O, page', M)
    <2>1. CASE w = "none"
      <3>1. worker # "dead" \/ worker' = "dead"
        BY <1>1, <1>2
      <3> QED BY <1>1, <1>4, <1>5, <2>1, <3>1, NetKeeps DEF Ready
    <2>2. CASE w # "none"
      <3>1. Net(worker, seq, left, busy, inbox, O, page', M)
        BY <1>4, <1>5, NetKeeps DEF Ready
      <3>2. page'[g] = s
        BY <1>4, <2>2
      <3>3. ~Entered(g, left) /\ seq \in Nat
        BY DEF Ready
      <3>4. Net(w, seq + 1, left \cup {[id |-> seq + 1, page |-> g]}, busy,
                IF w = "dead" THEN inbox ELSE Append(inbox, [id |-> seq + 1, request |-> q]),
                O, page', M)
        BY <1>2, <1>3, <3>1, <3>2, <3>3, NetAsks
      <3> QED BY <1>1, <2>2, <3>4
    <2> QED BY <2>1, <2>2
  <1>9. ASSUME NEW h \in Pages, page'[h].at \in Waits, page'[h].thread = "worker"
        PROVE  Entered(h, pending')
    <2>1. CASE h = g
      <3>1. w # "none"
        BY <1>3, <1>4, <1>9, <2>1
      <3>2. [id |-> seq', page |-> g] \in pending' /\ [id |-> seq', page |-> g].page = g
        BY <1>1, <3>1
      <3> QED BY <2>1, <3>2 DEF Entered
    <2>2. CASE h # g
      <3>1. Entered(h, left) /\ left \subseteq pending'
        BY <1>1, <1>4, <1>9, <2>2 DEF Ready
      <3> QED BY <3>1 DEF Entered
    <2> QED BY <2>1, <2>2
  <1> QED BY <1>1, <1>2, <1>4, <1>6, <1>7, <1>8, <1>9 DEF Moved

LEMMA ShapeStays ==
    ASSUME NEW r, Shape(r), NEW v
    PROVE  /\ Shape([r EXCEPT !.at = v]) /\ Shape([r EXCEPT !.user = v])
           /\ Shape([r EXCEPT !.pass = v]) /\ Shape([r EXCEPT !.thread = v])
           /\ Shape([r EXCEPT !.request = v]) /\ Shape([r EXCEPT !.pem = v])
           /\ Shape([r EXCEPT !.blob = v]) /\ Shape([r EXCEPT !.says = v])
           /\ Shape([r EXCEPT !.why = v]) /\ Shape([r EXCEPT !.session = v])
           /\ Shape([r EXCEPT !.read = v])
  <1>1. Shape([r EXCEPT !.at = v]) BY DEF Shape
  <1>2. Shape([r EXCEPT !.user = v]) BY DEF Shape
  <1>3. Shape([r EXCEPT !.pass = v]) BY DEF Shape
  <1>4. Shape([r EXCEPT !.thread = v]) BY DEF Shape
  <1>5. Shape([r EXCEPT !.request = v]) BY DEF Shape
  <1>6. Shape([r EXCEPT !.pem = v]) BY DEF Shape
  <1>7. Shape([r EXCEPT !.blob = v]) BY DEF Shape
  <1>8. Shape([r EXCEPT !.says = v]) BY DEF Shape
  <1>9. Shape([r EXCEPT !.why = v]) BY DEF Shape
  <1>10. Shape([r EXCEPT !.session = v]) BY DEF Shape
  <1>11. Shape([r EXCEPT !.read = v]) BY DEF Shape
  <1> QED BY <1>1, <1>2, <1>3, <1>4, <1>5, <1>6, <1>7, <1>8, <1>9, <1>10, <1>11

LEMMA IdleShape == Shape(IdlePage)
  BY DEF Shape, IdlePage

LEMMA NoneIsNoThread == None \notin {"page", "worker"}
  BY CryptoAssumption

\* A handler that ended with a message.
LEMMA SaysIsOK ==
    ASSUME NEW r, NEW A, NEW M, r.session # None => HasAccount(r.session.user, A),
           NEW what \in Messages, NEW why \in Perhaps(ErrorClasses \cup Outcomes)
    PROVE  PageOK(Says(r, what, why), A, M) /\ Says(r, what, why).at = "error"
  <1> DEFINE s == Says(r, what, why)
             s1 == [IdlePage EXCEPT !.at = "error"]
             s2 == [s1 EXCEPT !.says = what]
             s3 == [s2 EXCEPT !.why = why]
  <1>1. Shape(s1)
    BY IdleShape, ShapeStays
  <1>2. Shape(s2)
    <2> HIDE DEF s1
    <2> QED BY <1>1, ShapeStays
  <1>3. Shape(s3)
    <2> HIDE DEF s2
    <2> QED BY <1>2, ShapeStays
  <1>4. s = [s3 EXCEPT !.session = r.session]
    BY DEF Says, IdlePage
  <1>5. Shape(s)
    <2> HIDE DEF s3, s
    <2> QED BY <1>3, <1>4, ShapeStays
  <1>6. /\ s.at = "error" /\ s.user = None /\ s.pass = None /\ s.thread = None
        /\ s.says = what /\ s.why = why /\ s.session = r.session /\ s.read = None
    BY DEF Says, IdlePage
  <1> HIDE DEF s
  <1>7. PageTyped(s)
    BY <1>5, <1>6, NoneIsNoThread DEF PageTyped, Perhaps, Waits
  <1>8. PageHolds(s, A, M)
    BY <1>6, NoneIsNoThread DEF PageHolds
  <1> QED BY <1>6, <1>7, <1>8 DEF PageOK, s

\* A page after its session was kept and the rest forgotten.
LEMMA FreshIsOK ==
    ASSUME NEW s, NEW A, NEW M, s # None => HasAccount(s.user, A)
    PROVE  /\ PageOK([IdlePage EXCEPT !.session = s], A, M)
           /\ [IdlePage EXCEPT !.session = s].at = "idle"
           /\ [IdlePage EXCEPT !.session = s].session = s
  <1> DEFINE f == [IdlePage EXCEPT !.session = s]
  <1>1. Shape(f)
    BY IdleShape, ShapeStays
  <1>2. /\ f.at = "idle" /\ f.user = None /\ f.pass = None /\ f.thread = None
        /\ f.says = None /\ f.why = None /\ f.session = s /\ f.read = None
    BY DEF IdlePage
  <1> HIDE DEF f
  <1>3. PageTyped(f)
    BY <1>1, <1>2, NoneIsNoThread DEF PageTyped, Perhaps, Waits
  <1>4. PageHolds(f, A, M)
    BY <1>2, NoneIsNoThread DEF PageHolds
  <1> QED BY <1>2, <1>3, <1>4 DEF PageOK, f

LEMMA ThenShape ==
    ASSUME NEW r, Shape(r)
    PROVE  LET then == [r EXCEPT !.thread = None, !.request = None]
           IN  /\ Shape(then)
               /\ then.at = r.at /\ then.user = r.user /\ then.pass = r.pass
               /\ then.thread = None /\ then.request = None /\ then.pem = r.pem
               /\ then.blob = r.blob /\ then.says = r.says /\ then.why = r.why
               /\ then.session = r.session /\ then.read = r.read
  <1> DEFINE then == [r EXCEPT !.thread = None, !.request = None]
             one == [r EXCEPT !.thread = None]
  <1>1. Shape(one)
    BY ShapeStays
  <1>2. then = [one EXCEPT !.request = None]
    BY DEF Shape
  <1>3. Shape(then)
    <2> HIDE DEF one, then
    <2> QED BY <1>1, <1>2, ShapeStays
  <1>4. /\ then.at = r.at /\ then.user = r.user /\ then.pass = r.pass
        /\ then.thread = None /\ then.request = None /\ then.pem = r.pem
        /\ then.blob = r.blob /\ then.says = r.says /\ then.why = r.why
        /\ then.session = r.session /\ then.read = r.read
    BY DEF Shape
  <1> QED BY <1>3, <1>4

\* The request that follows a generation, and the page that awaits it.
LEMMA DerivesOK ==
    ASSUME NEW r, NEW A, NEW M, PageOK(r, A, M), r.at = "generating", NEW k \in M
    PROVE  LET x == [[r EXCEPT !.thread = None, !.request = None]
                        EXCEPT !.at = "deriving", !.pem = Pair(k)]
           IN  /\ Shape(x) /\ x.at \in Waits
               /\ RequestFits(Request("wrapPrivateKey", Pair(k).privatePem, None, r.pass), x)
               /\ PageOK([x EXCEPT !.thread = "worker"], A, M)
  <1> DEFINE then == [r EXCEPT !.thread = None, !.request = None]
             one == [then EXCEPT !.at = "deriving"]
             x == [then EXCEPT !.at = "deriving", !.pem = Pair(k)]
             s == [x EXCEPT !.thread = "worker"]
             q == Request("wrapPrivateKey", Pair(k).privatePem, None, r.pass)
  <1>1. /\ Shape(then) /\ then.user = r.user /\ then.pass = r.pass
        /\ then.blob = r.blob /\ then.says = r.says /\ then.why = r.why
        /\ then.session = r.session /\ then.read = r.read
    BY ThenShape DEF PageOK, PageTyped
  <1> HIDE DEF then
  <1>2. x = [one EXCEPT !.pem = Pair(k)]
    BY <1>1 DEF Shape
  <1>3. Shape(x)
    <2>1. Shape(one)
      BY <1>1, ShapeStays
    <2> HIDE DEF one, x
    <2> QED BY <1>2, <2>1, ShapeStays
  <1>4. /\ x.at = "deriving" /\ x.pem = Pair(k) /\ x.user = r.user /\ x.pass = r.pass
        /\ x.blob = r.blob /\ x.says = r.says /\ x.why = r.why
        /\ x.session = r.session /\ x.read = r.read
    BY <1>1 DEF Shape
  <1> HIDE DEF x
  <1>5. /\ Shape(s) /\ s.at = "deriving" /\ s.pem = Pair(k) /\ s.user = r.user /\ s.pass = r.pass
        /\ s.blob = r.blob /\ s.says = r.says /\ s.why = r.why /\ s.thread = "worker"
        /\ s.session = r.session /\ s.read = r.read
    <2>1. Shape(s)
      BY <1>3, ShapeStays
    <2> QED BY <1>3, <1>4, <2>1 DEF Shape
  <1> HIDE DEF s
  <1>6. PageTyped(s)
    BY <1>5 DEF PageOK, PageTyped, Waits
  <1>7. PageHolds(s, A, M)
    BY <1>5 DEF PageOK, PageHolds
  <1>8. RequestFits(q, x)
    <2>1. q.type = "wrapPrivateKey" /\ q.type \in Types
      BY DEF Request, Types
    <2> HIDE DEF q
    <2>2. q = Request("wrapPrivateKey", x.pem.privatePem, None, x.pass)
      BY <1>4 DEF q
    <2> QED BY <1>4, <2>1, <2>2 DEF RequestFits
  <1>9. x.at \in Waits
    BY <1>4 DEF Waits
  <1> QED BY <1>3, <1>6, <1>7, <1>8, <1>9 DEF PageOK, s, x, q, then

\* The page that submits, once its key is wrapped.
LEMMA SubmitsOK ==
    ASSUME NEW r, NEW A, NEW M, PageOK(r, A, M), r.at = "deriving",
           NEW k \in M, r.pem = Pair(k)
    PROVE  LET x == [[r EXCEPT !.thread = None, !.request = None]
                        EXCEPT !.at = "submitting", !.blob = Wrapped(k, r.pass)]
           IN  PageOK(x, A, M) /\ x.at = "submitting"
  <1> DEFINE then == [r EXCEPT !.thread = None, !.request = None]
             one == [then EXCEPT !.at = "submitting"]
             x == [then EXCEPT !.at = "submitting", !.blob = Wrapped(k, r.pass)]
  <1>1. /\ Shape(then) /\ then.user = r.user /\ then.pass = r.pass /\ then.thread = None
        /\ then.pem = r.pem /\ then.says = r.says /\ then.why = r.why
        /\ then.session = r.session /\ then.read = r.read
    BY ThenShape DEF PageOK, PageTyped
  <1> HIDE DEF then
  <1>2. x = [one EXCEPT !.blob = Wrapped(k, r.pass)]
    BY <1>1 DEF Shape
  <1>3. Shape(x)
    <2>1. Shape(one)
      BY <1>1, ShapeStays
    <2> HIDE DEF one, x
    <2> QED BY <1>2, <2>1, ShapeStays
  <1>4. /\ x.at = "submitting" /\ x.pem = r.pem /\ x.user = r.user /\ x.pass = r.pass
        /\ x.blob = Wrapped(k, r.pass) /\ x.says = r.says /\ x.why = r.why /\ x.thread = None
        /\ x.session = r.session /\ x.read = r.read
    BY <1>1 DEF Shape
  <1> HIDE DEF x
  <1>5. PageTyped(x)
    BY <1>3, <1>4, NoneIsNoThread DEF PageOK, PageTyped, Waits
  <1>6. PageHolds(x, A, M)
    BY <1>4, NoneIsNoThread DEF PageOK, PageHolds
  <1> QED BY <1>4, <1>5, <1>6 DEF PageOK, x, then

\* The page that has signed, with a key that its wrapped key opened to.
LEMMA SignsOK ==
    ASSUME NEW r, NEW A, NEW M, PageOK(r, A, M), r.at = "unwrapping", NEW pem
    PROVE  LET x == [[r EXCEPT !.thread = None, !.request = None]
                        EXCEPT !.at = "verifying", !.pem = pem]
           IN  PageOK(x, A, M) /\ x.at = "verifying"
  <1> DEFINE then == [r EXCEPT !.thread = None, !.request = None]
             one == [then EXCEPT !.at = "verifying"]
             x == [then EXCEPT !.at = "verifying", !.pem = pem]
  <1>1. /\ Shape(then) /\ then.user = r.user /\ then.pass = r.pass /\ then.thread = None
        /\ then.says = r.says /\ then.why = r.why
        /\ then.session = r.session /\ then.read = r.read
    BY ThenShape DEF PageOK, PageTyped
  <1> HIDE DEF then
  <1>2. x = [one EXCEPT !.pem = pem]
    BY <1>1 DEF Shape
  <1>3. Shape(x)
    <2>1. Shape(one)
      BY <1>1, ShapeStays
    <2> HIDE DEF one, x
    <2> QED BY <1>2, <2>1, ShapeStays
  <1>4. /\ x.at = "verifying" /\ x.user = r.user /\ x.pass = r.pass
        /\ x.says = r.says /\ x.why = r.why /\ x.thread = None
        /\ x.session = r.session /\ x.read = r.read
    BY <1>1 DEF Shape
  <1> HIDE DEF x
  <1>5. PageTyped(x)
    BY <1>3, <1>4, NoneIsNoThread DEF PageOK, PageTyped, Waits
  <1>6. PageHolds(x, A, M)
    BY <1>4, NoneIsNoThread DEF PageOK, PageHolds
  <1> QED BY <1>4, <1>5, <1>6 DEF PageOK, x, then

\* Importing a PEM and signing with it answers, with a value or an error.
Signing(pem, user) == Then(DeserializePrivateKeyForPss(pem), LAMBDA key : PssSign(user, key))

LEMMA SigningAnswers ==
    ASSUME NEW pem, NEW user
    PROVE  IsAnswer(Signing(pem, user))
  <1>1. IsAnswer(PemDecode(pem, "PRIVATE KEY"))
    BY DEF PemDecode, Ok, Fail, IsAnswer, ErrorClasses
  <1>2. ASSUME NEW key PROVE IsAnswer(Ok([key |-> key, alg |-> "RSA-PSS"]))
    BY DEF Ok, IsAnswer
  <1>3. IsAnswer(DeserializePrivateKeyForPss(pem))
    BY <1>1, <1>2 DEF DeserializePrivateKeyForPss, ImportFor, Then
  <1>4. ASSUME NEW key PROVE IsAnswer(PssSign(user, key))
    BY DEF PssSign, Ok, Fail, IsAnswer, ErrorClasses
  <1> QED BY <1>3, <1>4 DEF Then, Signing

\* A handler goes on with an answer that fits what it awaited.
LEMMA AnswerMoves ==
    ASSUME NEW g \in Pages, NEW a, NEW instance, NEW left, NEW O, NEW M,
           Ready(g, left, O, M), page[g].at \in Waits, AnswerFits(a, page[g], M),
           Answered(g, a, instance, left)
    PROVE  Moved(O, M) /\ accounts' = accounts /\ passkey' = passkey /\ doc' = doc
  <1> DEFINE r == page[g]
             then == [r EXCEPT !.thread = None, !.request = None]
             signed == Then(DeserializePrivateKeyForPss(a.value), LAMBDA key : PssSign(r.user, key))
  <1>1. PageOK(r, accounts, M) /\ (r.session # None => HasAccount(r.session.user, accounts))
    BY DEF Ready, PageOK, PageHolds
  <1>2. ASSUME ~a.ok, UNCHANGED stored, NEW what \in Messages,
               GoOn(g, Says(r, what, a.error), left)
        PROVE  Moved(O, M)
    <2>1. a.error \in Perhaps(ErrorClasses \cup Outcomes)
      BY <1>2 DEF AnswerFits, IsAnswer, Perhaps
    <2>2. PageOK(Says(r, what, a.error), accounts, M) /\ Says(r, what, a.error).at = "error"
      BY <1>1, <2>1, SaysIsOK
    <2> HIDE DEF r
    <2> QED BY <1>2, <2>2, GoesOn DEF Waits
  <1>3. ASSUME a.ok, r.at = "generating",
               Ask(g, [then EXCEPT !.at = "deriving", !.pem = a.value],
                   Request("wrapPrivateKey", a.value.privatePem, None, r.pass), left)
        PROVE  Moved(O, M)
    <2>1. PICK k \in M : a = Ok(Pair(k))
      BY <1>3 DEF AnswerFits
    <2>2. a.value = Pair(k)
      BY <2>1 DEF Ok
    <2> HIDE DEF r
    <2> DEFINE x == [then EXCEPT !.at = "deriving", !.pem = Pair(k)]
               q == Request("wrapPrivateKey", Pair(k).privatePem, None, r.pass)
    <2>3. /\ Shape(x) /\ x.at \in Waits /\ RequestFits(q, x)
          /\ PageOK([x EXCEPT !.thread = "worker"], accounts, M)
      BY <1>1, <1>3, DerivesOK
    <2>4. Ask(g, x, q, left)
      BY <1>3, <2>2
    <2> HIDE DEF x, q, then
    <2> QED BY <2>3, <2>4, Asks
  <1>4. ASSUME a.ok, r.at = "deriving",
               GoOn(g, [then EXCEPT !.at = "submitting", !.blob = a.value], left)
        PROVE  Moved(O, M)
    <2>1. PICK k \in M : r.pem = Pair(k) /\ a = WrapPrivateKey(SerializePrivateKey(k), r.pass)
      BY <1>4 DEF AnswerFits
    <2>2. a.value = Wrapped(k, r.pass)
      BY <2>1 DEF Wrapped
    <2> HIDE DEF r
    <2> DEFINE x == [then EXCEPT !.at = "submitting", !.blob = Wrapped(k, r.pass)]
    <2>3. PageOK(x, accounts, M) /\ x.at = "submitting"
      BY <1>1, <1>4, <2>1, SubmitsOK
    <2>4. GoOn(g, x, left)
      BY <1>4, <2>2
    <2> HIDE DEF x, then
    <2> QED BY <2>3, <2>4, GoesOn DEF Waits
  <1>5. ASSUME a.ok, r.at = "unwrapping",
               GoOn(g, IF signed.ok THEN [then EXCEPT !.at = "verifying", !.pem = a.value]
                       ELSE Says(r, "went wrong", signed.error), left)
        PROVE  Moved(O, M)
    <2>1. CASE signed.ok
      <3> HIDE DEF r, signed
      <3> DEFINE x == [then EXCEPT !.at = "verifying", !.pem = a.value]
      <3>1. PageOK(x, accounts, M) /\ x.at = "verifying"
        BY <1>1, <1>5, SignsOK
      <3>2. GoOn(g, x, left)
        BY <1>5, <2>1
      <3> HIDE DEF x, then
      <3> QED BY <3>1, <3>2, GoesOn DEF Waits
    <2>2. CASE ~signed.ok
      <3>1. IsAnswer(signed)
        <4>1. signed = Signing(a.value, r.user)
          BY DEF Signing
        <4> HIDE DEF signed
        <4> QED BY <4>1, SigningAnswers
      <3> HIDE DEF signed
      <3>2. signed.error \in Perhaps(ErrorClasses \cup Outcomes)
        BY <2>2, <3>1 DEF IsAnswer, Perhaps
      <3> DEFINE x == Says(r, "went wrong", signed.error)
      <3>3. PageOK(x, accounts, M) /\ x.at = "error"
        BY <1>1, <3>2, SaysIsOK DEF Messages
      <3>4. GoOn(g, x, left)
        BY <1>5, <2>2
      <3> HIDE DEF r, x
      <3> QED BY <3>3, <3>4, GoesOn DEF Waits
    <2> QED BY <2>1, <2>2
  <1>6. accounts' = accounts /\ passkey' = passkey /\ doc' = doc
    BY DEF Answered, stored
  <1> DEFINE what == IF a.error = "DecryptError" /\ instance
                     THEN "incorrect passphrase" ELSE "went wrong"
  <1>7. what \in Messages
    BY DEF Messages
  <1>8. \/ ~a.ok /\ UNCHANGED stored /\ GoOn(g, Says(r, what, a.error), left)
        \/ a.ok /\ r.at = "generating" /\ Ask(g, [then EXCEPT !.at = "deriving", !.pem = a.value],
                   Request("wrapPrivateKey", a.value.privatePem, None, r.pass), left)
        \/ a.ok /\ r.at = "deriving"
           /\ GoOn(g, [then EXCEPT !.at = "submitting", !.blob = a.value], left)
        \/ a.ok /\ r.at = "unwrapping"
           /\ GoOn(g, IF signed.ok THEN [then EXCEPT !.at = "verifying", !.pem = a.value]
                      ELSE Says(r, "went wrong", signed.error), left)
    BY DEF Answered
  <1> HIDE DEF r, then, signed, what
  <1> QED BY <1>2, <1>3, <1>4, <1>5, <1>6, <1>7, <1>8

-----------------------------------------------------------------------------
(* The steps.                                                              *)

\* A blob is an answer, whatever is wrapped.
LEMMA WrapAnswers ==
    ASSUME NEW pem, NEW pass
    PROVE  IsAnswer(WrapPrivateKey(pem, pass))
  <1> DEFINE SealUnder(key) == Encrypt(pem, key, AssociatedData(WrappedV1, "salt", DefaultParams))
             Laid(sealed) ==
                 Ok([version |-> WrappedV1, salt |-> "salt", params_len |-> ParamsLength,
                     params |-> DefaultParams, inner |-> Pack(sealed),
                     len |-> HeaderFixed + ParamsLength + Pack(sealed).len])
             derived == DeriveKey(pass, "salt", DefaultParams)
  <1>1. ASSUME NEW key PROVE IsAnswer(SealUnder(key))
    BY DEF Encrypt, Ok, Fail, IsAnswer, ErrorClasses
  <1>2. ASSUME NEW sealed PROVE IsAnswer(Laid(sealed))
    BY DEF Ok, IsAnswer
  <1>3. IsAnswer(derived)
    BY DeriveAnswers
  <1>4. WrapPrivateKey(pem, pass) = Then(Then(derived, SealUnder), Laid)
    BY DEF WrapPrivateKey
  <1> HIDE DEF SealUnder, Laid, derived
  <1>5. IsAnswer(Then(derived, SealUnder))
    BY <1>1, <1>3 DEF Then
  <1>6. IsAnswer(Then(Then(derived, SealUnder), Laid))
    BY <1>2, <1>5 DEF Then
  <1> QED BY <1>4, <1>6

\* What the worker, or the page itself, answers to a request.
LEMMA HandledFits ==
    ASSUME NEW q, q.type \in Types, NEW key, NEW M, NEW N, M \subseteq N,
           q.type = "generateOaepKeypair" => key \in N
    PROVE  /\ IsAnswer(HandleWorkerRequest(q, key))
           /\ \A r, A : PageOK(r, A, M) /\ RequestFits(q, r)
                 => AnswerFits(HandleWorkerRequest(q, key), r, N)
  <1> DEFINE a == HandleWorkerRequest(q, key)
  <1>1. q.type = "generateOaepKeypair" => a = Ok(Pair(key))
    BY DEF HandleWorkerRequest, Pair
  <1>2. q.type = "wrapPrivateKey" => a = WrapPrivateKey(q.pem, q.pass)
    BY DEF HandleWorkerRequest
  <1>3. q.type = "unwrapPrivateKey" => a = UnwrapPrivateKey(q.blob, q.pass)
    BY DEF HandleWorkerRequest
  <1> HIDE DEF a
  <1>4. IsAnswer(a)
    <2>1. IsAnswer(Ok(Pair(key)))
      BY DEF Ok, IsAnswer
    <2> QED BY <1>1, <1>2, <1>3, <2>1, WrapAnswers, UnwrapAnswers DEF Types
  <1>5. ASSUME NEW r, NEW A, PageOK(r, A, M), RequestFits(q, r)
        PROVE  AnswerFits(a, r, N)
    <2>1. r.at = "generating" => \E k \in N : a = Ok(Pair(k))
      BY <1>1, <1>5 DEF RequestFits
    <2>2. ASSUME r.at = "deriving"
          PROVE  \E k \in N : r.pem = Pair(k) /\ a = WrapPrivateKey(SerializePrivateKey(k), r.pass)
      <3>1. PICK k \in M : r.pem = Pair(k)
        BY <1>5, <2>2 DEF PageOK, PageHolds
      <3>2. q = Request("wrapPrivateKey", SerializePrivateKey(k), None, r.pass)
        BY <1>5, <2>2, <3>1 DEF RequestFits, Pair
      <3>3. /\ q.type = "wrapPrivateKey" /\ q.pem = SerializePrivateKey(k) /\ q.pass = r.pass
        BY <3>2 DEF Request
      <3>4. a = WrapPrivateKey(SerializePrivateKey(k), r.pass)
        BY <1>2, <3>3
      <3> QED BY <3>1, <3>4
    <2> QED BY <1>4, <2>1, <2>2 DEF AnswerFits
  <1> QED BY <1>4, <1>5 DEF a

LEMMA AccountsKeep ==
    ASSUME NEW A, NEW M, NEW N, AccountsOK(A, M), M \subseteq N
    PROVE  AccountsOK(A, N)
  BY DEF AccountsOK

\* A step that moves a page keeps the rest as it says.
LEMMA MovedKeeps ==
    ASSUME CryptoInv, Moved(outbox', made'), busy' = busy, made' \subseteq Keys,
           AccountsOK(accounts', made'), Grown(accounts, accounts'),
           passkey' # None => HasAccount(passkey'.user, accounts'), DocOK(doc')
    PROVE  CryptoInv'
  <1>1. \A g \in Pages : PageOK(page'[g], accounts', made')
    BY PageGrows DEF Moved
  <1>2. Net(worker', seq', pending', busy', inbox', outbox', page', made')
    BY DEF Moved
  <1> QED BY <1>1, <1>2 DEF CryptoInv, Moved

\* A page without a call may move.
LEMMA FreeIsReady ==
    ASSUME CryptoInv, NEW g \in Pages, page[g].at \notin Waits \/ page[g].thread = "page",
           NEW M, made \subseteq M
    PROVE  Ready(g, pending, outbox, M)
  <1>1. ~Entered(g, pending)
    BY DEF CryptoInv, Net, Matched, Entered
  <1>2. Net(worker, seq, pending, busy, inbox, outbox, page, M)
    BY NetKeeps DEF CryptoInv
  <1>3. \A h \in Pages : PageOK(page[h], accounts, M)
    BY PageGrows DEF CryptoInv, Grown
  <1> QED BY <1>1, <1>2, <1>3 DEF CryptoInv, Ready

\* A step of one page, which calls nothing and awaits nothing.
LEMMA QuietStep ==
    ASSUME CryptoInv, NEW g \in Pages, page[g].at \notin Waits, NEW r,
           page' = [page EXCEPT ![g] = r], PageOK(r, accounts, made), r.at \notin Waits,
           UNCHANGED <<worker, seq, pending, inbox, busy, outbox, made>>,
           AccountsOK(accounts', made), Grown(accounts, accounts'),
           passkey' # None => HasAccount(passkey'.user, accounts'), DocOK(doc')
    PROVE  CryptoInv'
  <1>1. Ready(g, pending, outbox, made)
    BY FreeIsReady
  <1>2. GoOn(g, r, pending)
    BY DEF GoOn
  <1>3. Moved(outbox', made')
    BY <1>1, <1>2, GoesOn
  <1>4. made' \subseteq Keys /\ AccountsOK(accounts', made') /\ busy' = busy
    BY DEF CryptoInv
  <1> QED BY <1>3, <1>4, MovedKeeps

LEMMA InitInv == Init => CryptoInv
  <1> SUFFICES ASSUME Init PROVE CryptoInv
    OBVIOUS
  <1>1. PageOK(IdlePage, accounts, made)
    <2>1. /\ IdlePage.at = "idle" /\ IdlePage.user = None /\ IdlePage.pass = None
          /\ IdlePage.thread = None /\ IdlePage.says = None /\ IdlePage.why = None
          /\ IdlePage.session = None /\ IdlePage.read = None
      BY DEF IdlePage
    <2>2. PageTyped(IdlePage)
      BY <2>1, IdleShape, NoneIsNoThread DEF PageTyped, Perhaps, Waits
    <2>3. PageHolds(IdlePage, accounts, made)
      BY <2>1, NoneIsNoThread DEF PageHolds
    <2> QED BY <2>2, <2>3 DEF PageOK
  <1>2. page = [g \in Pages |-> page[g]] /\ \A g \in Pages : page[g] = IdlePage
    BY DEF Init
  <1>3. AccountsOK(accounts, made) /\ made \subseteq Keys
    <2>1. CASE made = {} /\ keystore = None /\ accounts = [u \in Users |-> None]
      BY <2>1 DEF AccountsOK
    <2>2. ASSUME NEW u \in Users, NEW k \in Keys, NEW p \in Passphrases, made = {k},
                 accounts = [v \in Users |-> IF v # u THEN None ELSE
                    [pem |-> SerializePublicKey(k), blob |-> Wrapped(k, p), pass |-> p]]
          PROVE  AccountsOK(accounts, made) /\ made \subseteq Keys
      <3>1. /\ accounts = [v \in Users |-> accounts[v]] /\ k \in made
            /\ \A v \in Users : v # u => accounts[v] = None
            /\ accounts[u].pem = SerializePublicKey(k)
            /\ accounts[u].blob = Wrapped(k, accounts[u].pass)
        BY <2>2
      <3> QED BY <2>2, <3>1 DEF AccountsOK
    <2> QED BY <2>1, <2>2 DEF Init
  <1>4. Net(worker, seq, pending, busy, inbox, outbox, page, made)
    <2>1. <<>> \in Seq(Range(<<>>)) /\ DOMAIN <<>> = {}
      OBVIOUS
    <2>2. Numbered({}, {}, <<>>, <<>>, 0)
      BY <2>1 DEF Numbered, IdsIn, IdsOf, OncePerId
    <2>3. Matched({}, {}, <<>>, <<>>, page, made)
      BY <2>1 DEF Matched
    <2> QED BY <2>2, <2>3 DEF Net, OnItsWay, Init
  <1>5. IdlePage.at \notin Waits
    BY DEF IdlePage, Waits
  <1> QED BY <1>1, <1>2, <1>3, <1>4, <1>5 DEF Init, CryptoInv, DocOK

\* What the messages of the worker change: nothing of the pages.
LEMMA WorkerSteps ==
    ASSUME CryptoInv, WorkerStarts \/ WorkerTakes
    PROVE  CryptoInv'
  <1>1. /\ UNCHANGED <<seq, pending, outbox, page, made, stored>>
        /\ worker' \in {"unprobed", "none", "loading", "up", "dead"}
    BY DEF WorkerStarts, WorkerTakes, CryptoInv
  <1>2. Net(worker', seq, pending, busy', inbox', outbox, page, made)
    <2>1. CASE WorkerStarts
      <3>1. worker # "dead" /\ worker' = "up" /\ inbox' = inbox /\ busy' = busy
        BY <2>1 DEF WorkerStarts
      <3> QED BY <3>1, NetKeeps DEF CryptoInv
    <2>2. CASE WorkerTakes
      <3>1. /\ inbox # <<>> /\ worker' = worker
            /\ busy' = busy \cup {Head(inbox)} /\ inbox' = Tail(inbox)
        BY <2>2 DEF WorkerTakes
      <3> QED BY <3>1, NetTakes DEF CryptoInv
    <2> QED BY <2>1, <2>2
  <1> QED BY <1>1, <1>2 DEF CryptoInv, stored

LEMMA DrawnIsMade ==
    ASSUME NEW q, NEW key \in Draws(q), Drew(key), made \subseteq Keys
    PROVE  /\ made \subseteq made' /\ made' \subseteq Keys
           /\ q.type = "generateOaepKeypair" => key \in made'
  BY CryptoAssumption DEF Draws, Drew

LEMMA AnswersStep ==
    ASSUME CryptoInv, NEW m \in busy, WorkerAnswers(m)
    PROVE  CryptoInv'
  <1>1. PICK key \in Draws(m.request) :
            /\ busy' = busy \ {m} /\ Drew(key)
            /\ outbox' = outbox \o Posted(m, key)
            /\ UNCHANGED <<worker, seq, pending, inbox, page, stored, clicks>>
    BY DEF WorkerAnswers
  <1> DEFINE a == HandleWorkerRequest(m.request, key)
             x == [id |-> m.id, type |-> m.request.type, reply |-> a]
  <1>2. /\ made \subseteq made' /\ made' \subseteq Keys
        /\ m.request.type = "generateOaepKeypair" => key \in made'
    BY <1>1, DrawnIsMade DEF CryptoInv
  <1>3. m.request.type \in Types
    BY DEF CryptoInv, Net, Matched
  <1>4. /\ IsAnswer(a)
        /\ \A r, A : PageOK(r, A, made) /\ RequestFits(m.request, r) => AnswerFits(a, r, made')
    BY <1>2, <1>3, HandledFits
  <1>5. outbox' = Append(outbox, x)
    <2>1. outbox \in Seq(Range(outbox))
      BY DEF CryptoInv, Net, Numbered
    <2>2. outbox \in Seq(Range(outbox) \cup {x}) /\ x \in Range(outbox) \cup {x}
      BY <2>1, SeqMonotonic
    <2>3. outbox' = outbox \o <<x>>
      BY <1>1 DEF Posted
    <2> HIDE DEF x
    <2> QED BY <2>2, <2>3, AppendIsConcat
  <1> HIDE DEF a
  <1>6. \A e \in pending : e.id = m.id => AnswerFits(a, page[e.page], made')
    <2>1. \A e \in pending : e.page \in Pages
      BY DEF CryptoInv, Net, Numbered
    <2>2. \A e \in pending : e.id = m.id => RequestFits(m.request, page[e.page])
      BY DEF CryptoInv, Net, Matched
    <2> QED BY <1>4, <2>1, <2>2 DEF CryptoInv
  <1>7. Net(worker, seq, pending, busy, inbox, outbox, page, made')
    BY <1>2, NetKeeps DEF CryptoInv
  <1>8. Net(worker, seq, pending, busy', inbox, outbox', page, made')
    BY <1>1, <1>4, <1>5, <1>6, <1>7, NetAnswers
  <1>9. \A g \in Pages : PageOK(page[g], accounts, made')
    BY <1>2, PageGrows DEF CryptoInv, Grown
  <1>10. AccountsOK(accounts, made')
    BY <1>2, AccountsKeep DEF CryptoInv
  <1> QED BY <1>1, <1>2, <1>8, <1>9, <1>10 DEF CryptoInv, stored

LEMMA ReceiveStep ==
    ASSUME CryptoInv, Receive
    PROVE  CryptoInv'
  <1> DEFINE h == Head(outbox)
             left == {e \in pending : e.id # h.id}
  <1>1. /\ outbox # <<>> /\ outbox' = Tail(outbox) /\ busy' = busy /\ made' = made
        /\ IF Entries(h) = {} THEN UNCHANGED <<worker, seq, pending, inbox, page, stored>>
           ELSE \E e \in Entries(h) : Answered(e.page, h.reply, FALSE, pending \ {e})
    BY DEF Receive
  <1>2. /\ Net(worker, seq, left, busy, inbox, outbox', page, made)
        /\ \A e \in pending : e.id = h.id => AnswerFits(h.reply, page[e.page], made)
    BY <1>1, NetReceives DEF CryptoInv
  <1>3. CASE Entries(h) = {}
    <2>1. left = pending
      BY <1>3 DEF Entries
    <2> HIDE DEF h, left
    <2> QED BY <1>1, <1>2, <1>3, <2>1 DEF CryptoInv, stored
  <1>4. CASE Entries(h) # {}
    <2>1. PICK e \in Entries(h) : Answered(e.page, h.reply, FALSE, pending \ {e})
      BY <1>1, <1>4
    <2>2. e \in pending /\ e.id = h.id /\ e.page \in Pages
      BY DEF Entries, CryptoInv, Net, Numbered
    <2>3. \A f \in pending : e.id = f.id \/ e.page = f.page => e = f
      BY <2>2 DEF CryptoInv, Net, Numbered
    <2>4. left = pending \ {e}
      BY <2>2, <2>3
    <2> HIDE DEF h, left
    <2>5. ~Entered(e.page, left)
      BY <2>3, <2>4 DEF Entered
    <2>6. ASSUME NEW g \in Pages \ {e.page}, page[g].at \in Waits, page[g].thread = "worker"
          PROVE  Entered(g, left)
      <3>1. PICK f \in pending : f.page = g
        BY <2>6 DEF CryptoInv, Entered
      <3> QED BY <2>4, <2>6, <3>1 DEF Entered
    <2>7. Ready(e.page, left, outbox', made)
      BY <1>2, <2>5, <2>6 DEF CryptoInv, Ready
    <2>8. page[e.page].at \in Waits
      BY <2>2 DEF CryptoInv, Net, Matched
    <2>9. AnswerFits(h.reply, page[e.page], made)
      BY <1>2, <2>2
    <2>10. Moved(outbox', made) /\ accounts' = accounts /\ passkey' = passkey /\ doc' = doc
      BY <2>1, <2>2, <2>4, <2>7, <2>8, <2>9, AnswerMoves
    <2>11. Moved(outbox', made') /\ AccountsOK(accounts', made') /\ Grown(accounts, accounts')
           /\ made' \subseteq Keys
      BY <1>1, <2>10 DEF CryptoInv, Grown
    <2>12. DocOK(doc') /\ (passkey' # None => HasAccount(passkey'.user, accounts'))
      BY <2>10 DEF CryptoInv
    <2> QED BY <1>1, <2>11, <2>12, MovedKeeps
  <1> QED BY <1>3, <1>4

LEMMA InPageStep ==
    ASSUME CryptoInv, NEW g \in Pages, InPage(g)
    PROVE  CryptoInv'
  <1>1. /\ page[g].at \in Waits /\ page[g].thread = "page" /\ busy' = busy /\ outbox' = outbox
    BY DEF InPage
  <1>2. PICK key \in Draws(page[g].request) :
            Drew(key) /\ Answered(g, HandleWorkerRequest(page[g].request, key), TRUE, pending)
    BY DEF InPage
  <1> DEFINE a == HandleWorkerRequest(page[g].request, key)
  <1>3. /\ made \subseteq made' /\ made' \subseteq Keys
        /\ page[g].request.type = "generateOaepKeypair" => key \in made'
    BY <1>2, DrawnIsMade DEF CryptoInv
  <1>4. PageOK(page[g], accounts, made) /\ RequestFits(page[g].request, page[g])
    BY <1>1 DEF CryptoInv, PageOK, PageHolds
  <1>5. page[g].request.type \in Types
    BY <1>4 DEF RequestFits
  <1>6. AnswerFits(a, page[g], made')
    BY <1>3, <1>4, <1>5, HandledFits
  <1> HIDE DEF a
  <1>7. Ready(g, pending, outbox', made')
    BY <1>1, <1>3, FreeIsReady
  <1>8. Moved(outbox', made') /\ accounts' = accounts /\ passkey' = passkey /\ doc' = doc
    BY <1>1, <1>2, <1>6, <1>7, AnswerMoves DEF a
  <1>9. AccountsOK(accounts', made') /\ Grown(accounts, accounts')
    BY <1>3, <1>8, AccountsKeep DEF CryptoInv, Grown
  <1>10. DocOK(doc') /\ (passkey' # None => HasAccount(passkey'.user, accounts'))
    BY <1>8 DEF CryptoInv
  <1> QED BY <1>1, <1>3, <1>8, <1>9, <1>10, MovedKeeps

LEMMA DiesStep ==
    ASSUME CryptoInv, WorkerDies
    PROVE  CryptoInv'
  <1>1. /\ worker' = "dead" /\ pending' = {} /\ inbox' = <<>> /\ busy' = {}
        /\ page' = [g \in Pages |-> IF Entered(g, pending)
                                    THEN Says(page[g], "went wrong", "Error") ELSE page[g]]
        /\ UNCHANGED <<seq, outbox, made, stored, clicks>>
    BY DEF WorkerDies, Entered
  <1>2. Net(worker', seq', pending', busy', inbox', outbox', page', made')
    BY <1>1, NetDies DEF CryptoInv
  <1>3. ASSUME NEW g \in Pages
        PROVE  /\ PageOK(page'[g], accounts, made)
               /\ ~(page'[g].at \in Waits /\ page'[g].thread = "worker")
    <2>1. PageOK(page[g], accounts, made)
      BY DEF CryptoInv
    <2>2. page[g].session # None => HasAccount(page[g].session.user, accounts)
      BY <2>1 DEF PageOK, PageHolds
    <2>3. "went wrong" \in Messages /\ "Error" \in Perhaps(ErrorClasses \cup Outcomes)
      BY DEF Messages, Perhaps, ErrorClasses
    <2>4. /\ PageOK(Says(page[g], "went wrong", "Error"), accounts, made)
          /\ Says(page[g], "went wrong", "Error").at = "error"
      BY <2>2, <2>3, SaysIsOK
    <2>5. CASE Entered(g, pending)
      <3>1. page'[g] = Says(page[g], "went wrong", "Error")
        BY <1>1, <2>5
      <3> QED BY <2>4, <3>1 DEF Waits
    <2>6. CASE ~Entered(g, pending)
      <3>1. page'[g] = page[g]
        BY <1>1, <2>6
      <3> QED BY <2>1, <2>6, <3>1 DEF CryptoInv
    <2> QED BY <2>5, <2>6
  <1>4. page' = [g \in Pages |-> page'[g]]
    BY <1>1
  <1> QED BY <1>1, <1>2, <1>3, <1>4 DEF CryptoInv, stored

\* The page of a click that calls the client.
LEMMA StartsOK ==
    ASSUME NEW s, NEW A, NEW M, s # None => HasAccount(s.user, A),
           NEW at \in {"generating", "unwrapping"}, NEW u \in Users, NEW p \in Passphrases,
           at = "unwrapping" => HasAccount(u, A)
    PROVE  LET r == [[IdlePage EXCEPT !.session = s] EXCEPT !.at = at, !.user = u, !.pass = p]
           IN  /\ Shape(r) /\ r.at = at
               /\ PageOK([r EXCEPT !.thread = "worker"], A, M)
  <1> DEFINE f == [IdlePage EXCEPT !.session = s]
             f1 == [f EXCEPT !.at = at]
             f2 == [f1 EXCEPT !.user = u]
             r == [f EXCEPT !.at = at, !.user = u, !.pass = p]
             t == [r EXCEPT !.thread = "worker"]
  <1>1. Shape(f)
    BY IdleShape, ShapeStays
  <1>2. r = [f2 EXCEPT !.pass = p]
    BY DEF IdlePage
  <1>3. Shape(r)
    <2> HIDE DEF f
    <2>1. Shape(f1)
      BY <1>1, ShapeStays
    <2> HIDE DEF f1
    <2>2. Shape(f2)
      BY <2>1, ShapeStays
    <2> HIDE DEF f2, r
    <2> QED BY <1>2, <2>2, ShapeStays
  <1>4. /\ r.at = at /\ r.user = u /\ r.pass = p
        /\ r.says = None /\ r.why = None /\ r.session = s /\ r.read = None
    BY DEF IdlePage
  <1> HIDE DEF r
  <1>5. Shape(t)
    BY <1>3, ShapeStays
  <1>6. /\ t.at = at /\ t.user = u /\ t.pass = p /\ t.thread = "worker"
        /\ t.says = None /\ t.why = None /\ t.session = s /\ t.read = None
    BY <1>3, <1>4 DEF Shape
  <1> HIDE DEF t
  <1>7. PageTyped(t)
    BY <1>5, <1>6 DEF PageTyped, Perhaps, Waits
  <1>8. PageHolds(t, A, M)
    BY <1>6 DEF PageHolds
  <1> QED BY <1>3, <1>4, <1>7, <1>8 DEF PageOK, t, r

\* A free page awaits nothing; what it kept of a session is of an account.
LEMMA FreePage ==
    ASSUME CryptoInv, NEW g \in Pages
    PROVE  /\ Free(g) => page[g].at \notin Waits
           /\ page[g].session # None => HasAccount(page[g].session.user, accounts)
  <1>1. Free(g) => page[g].at \notin Waits
    BY DEF Free, Waits
  <1>2. page[g].session # None => HasAccount(page[g].session.user, accounts)
    BY DEF CryptoInv, PageOK, PageHolds
  <1> QED BY <1>1, <1>2

LEMMA SignupStep ==
    ASSUME CryptoInv, NEW g \in Pages, NEW u \in Users, NEW p \in Passphrases, Signup(g, u, p)
    PROVE  CryptoInv'
  <1> DEFINE r == [Fresh(g) EXCEPT !.at = "generating", !.user = u, !.pass = p]
             q == Request("generateOaepKeypair", None, None, None)
  <1>1. /\ Free(g) /\ Ask(g, r, q, pending)
        /\ UNCHANGED <<busy, outbox, made, keystore, accounts, passkey, doc>>
    BY DEF Signup, stored
  <1>2. /\ Shape(r) /\ r.at = "generating"
        /\ PageOK([r EXCEPT !.thread = "worker"], accounts, made)
    <2>1. page[g].session # None => HasAccount(page[g].session.user, accounts)
      BY FreePage
    <2> QED BY <2>1, StartsOK DEF Fresh
  <1> HIDE DEF r
  <1>3. RequestFits(q, r)
    BY <1>2 DEF RequestFits, Request, Types
  <1> HIDE DEF q
  <1>4. page[g].at \notin Waits
    BY <1>1, FreePage
  <1>5. Ready(g, pending, outbox, made)
    BY <1>4, FreeIsReady
  <1>6. Moved(outbox', made')
    <2>1. r.at \in Waits
      BY <1>2 DEF Waits
    <2>2. Moved(outbox, made)
      BY <1>1, <1>2, <1>3, <1>5, <2>1, Asks
    <2> QED BY <1>1, <2>2
  <1>7. /\ made' \subseteq Keys /\ AccountsOK(accounts', made') /\ Grown(accounts, accounts')
        /\ passkey' # None => HasAccount(passkey'.user, accounts')
        /\ DocOK(doc')
    BY <1>1 DEF CryptoInv, Grown
  <1> QED BY <1>1, <1>6, <1>7, MovedKeeps

LEMMA LoginStep ==
    ASSUME CryptoInv, NEW g \in Pages, NEW u \in Users, NEW p \in Passphrases, Login(g, u, p)
    PROVE  CryptoInv'
  <1> DEFINE r == [Fresh(g) EXCEPT !.at = "unwrapping", !.user = u, !.pass = p]
  <1>0. PICK blob \in ReadBack(keystore) :
            Ask(g, r, Request("unwrapPrivateKey", None, blob, p), pending)
    BY DEF Login
  <1> DEFINE q == Request("unwrapPrivateKey", None, blob, p)
  <1>1. /\ Free(g) /\ accounts[u] # None
        /\ UNCHANGED <<busy, outbox, made, keystore, accounts, passkey, doc>>
    BY DEF Login, stored
  <1>2. /\ Shape(r) /\ r.at = "unwrapping"
        /\ PageOK([r EXCEPT !.thread = "worker"], accounts, made)
    <2>1. page[g].session # None => HasAccount(page[g].session.user, accounts)
      BY FreePage
    <2>2. HasAccount(u, accounts)
      BY <1>1 DEF HasAccount
    <2> QED BY <2>1, <2>2, StartsOK DEF Fresh
  <1> HIDE DEF r
  <1>3. RequestFits(q, r)
    BY <1>2 DEF RequestFits, Request, Types
  <1> HIDE DEF q
  <1>4. page[g].at \notin Waits
    BY <1>1, FreePage
  <1>5. Ready(g, pending, outbox, made)
    BY <1>4, FreeIsReady
  <1>6. Moved(outbox', made')
    <2>1. r.at \in Waits
      BY <1>2 DEF Waits
    <2>2. Ask(g, r, q, pending)
      BY <1>0 DEF q
    <2>3. Moved(outbox, made)
      BY <1>2, <1>3, <1>5, <2>1, <2>2, Asks
    <2> QED BY <1>1, <2>3
  <1>7. /\ made' \subseteq Keys /\ AccountsOK(accounts', made') /\ Grown(accounts, accounts')
        /\ passkey' # None => HasAccount(passkey'.user, accounts')
        /\ DocOK(doc')
    BY <1>1 DEF CryptoInv, Grown
  <1> QED BY <1>1, <1>6, <1>7, MovedKeeps

\* A page that shows a message; nothing else of the page is looked at.
LEMMA SaysStep ==
    ASSUME CryptoInv, NEW g \in Pages, page[g].at \notin Waits,
           NEW what \in Messages, NEW why \in Perhaps(ErrorClasses \cup Outcomes),
           page' = [page EXCEPT ![g] = Says(page[g], what, why)],
           UNCHANGED <<worker, seq, pending, inbox, busy, outbox, made, accounts, passkey, doc>>
    PROVE  CryptoInv'
  <1> DEFINE s == Says(page[g], what, why)
  <1>1. PageOK(s, accounts, made) /\ s.at = "error"
    BY FreePage, SaysIsOK
  <1> HIDE DEF s
  <1>2. s.at \notin Waits /\ page' = [page EXCEPT ![g] = s]
    BY <1>1 DEF Waits, s
  <1>3. /\ AccountsOK(accounts', made) /\ Grown(accounts, accounts')
        /\ passkey' # None => HasAccount(passkey'.user, accounts')
        /\ DocOK(doc')
    BY DEF CryptoInv, Grown
  <1> QED BY <1>1, <1>2, <1>3, QuietStep

\* A page that keeps its session, or has a new one, of an account.
LEMMA FreshStep ==
    ASSUME CryptoInv, NEW g \in Pages, page[g].at \notin Waits,
           NEW s, s # None => HasAccount(s.user, accounts),
           page' = [page EXCEPT ![g] = [IdlePage EXCEPT !.session = s]],
           UNCHANGED <<worker, seq, pending, inbox, busy, outbox, made>>,
           AccountsOK(accounts', made), Grown(accounts, accounts'),
           passkey' # None => HasAccount(passkey'.user, accounts'), DocOK(doc')
    PROVE  CryptoInv'
  <1> DEFINE f == [IdlePage EXCEPT !.session = s]
  <1>1. PageOK(f, accounts, made) /\ f.at = "idle"
    BY FreshIsOK
  <1> HIDE DEF f
  <1>2. f.at \notin Waits /\ page' = [page EXCEPT ![g] = f]
    BY <1>1 DEF Waits, f
  <1> QED BY <1>1, <1>2, QuietStep

LEMMA SubmittedStep ==
    ASSUME CryptoInv, NEW g \in Pages, Submitted(g)
    PROVE  CryptoInv'
  <1> DEFINE u == page[g].user
             row == [pem |-> page[g].pem.publicPem, blob |-> page[g].blob, pass |-> page[g].pass]
  <1>1. /\ page[g].at = "submitting" /\ page[g].at \notin Waits
        /\ UNCHANGED <<worker, seq, pending, inbox, busy, outbox, made, passkey, doc>>
    BY DEF Submitted, Waits
  <1>2. /\ page[g].session # None => HasAccount(page[g].session.user, accounts)
        /\ u \in Users
        /\ \E k \in made : page[g].pem = Pair(k) /\ page[g].blob = Wrapped(k, page[g].pass)
    BY <1>1 DEF CryptoInv, PageOK, PageHolds
  <1>3. ASSUME accounts[u] = None, accounts' = [accounts EXCEPT ![u] = row],
               page' = [page EXCEPT ![g] = Fresh(g)]
        PROVE  CryptoInv'
    <2>1. PICK k \in made : page[g].pem = Pair(k) /\ page[g].blob = Wrapped(k, page[g].pass)
      BY <1>2
    <2>2. /\ row.pem = SerializePublicKey(k) /\ row.blob = Wrapped(k, row.pass)
      BY <2>1 DEF Pair
    <2> HIDE DEF row, u
    <2>4. /\ accounts' = [v \in Users |-> accounts'[v]] /\ accounts'[u] = row
          /\ \A v \in Users : v # u => accounts'[v] = accounts[v]
      BY <1>2, <1>3 DEF CryptoInv, AccountsOK
    <2>5. AccountsOK(accounts', made)
      BY <2>2, <2>4 DEF CryptoInv, AccountsOK
    <2>6. Grown(accounts, accounts')
      BY <1>3, <2>4 DEF Grown
    <2>7. passkey' # None => HasAccount(passkey'.user, accounts')
      BY <1>1, <2>6 DEF CryptoInv, HasAccount, Grown
    <2>8. DocOK(doc')
      BY <1>1 DEF CryptoInv
    <2>9. page' = [page EXCEPT ![g] = [IdlePage EXCEPT !.session = page[g].session]]
      BY <1>3 DEF Fresh
    <2> QED BY <1>1, <1>2, <2>5, <2>6, <2>7, <2>8, <2>9, FreshStep
  <1>4. ASSUME accounts' = accounts, NEW what \in Messages,
               page' = [page EXCEPT ![g] = Says(page[g], what, None)]
        PROVE  CryptoInv'
    <2>1. None \in Perhaps(ErrorClasses \cup Outcomes)
      BY DEF Perhaps
    <2> QED BY <1>1, <1>4, <2>1, SaysStep
  <1>5. "already taken" \in Messages /\ "no reply" \in Messages
    BY DEF Messages
  <1>6. \/ accounts[u] = None /\ accounts' = [accounts EXCEPT ![u] = row]
           /\ page' = [page EXCEPT ![g] = Fresh(g)]
        \/ accounts' = accounts /\ page' = [page EXCEPT ![g] = Says(page[g], "already taken", None)]
        \/ accounts' = accounts /\ page' = [page EXCEPT ![g] = Says(page[g], "no reply", None)]
    BY DEF Submitted
  <1> HIDE DEF u, row
  <1> QED BY <1>3, <1>4, <1>5, <1>6

LEMMA VerifiedStep ==
    ASSUME CryptoInv, NEW g \in Pages, Verified(g)
    PROVE  CryptoInv'
  <1> DEFINE s == [user |-> page[g].user, pem |-> page[g].pem]
  <1>1. /\ page[g].at = "verifying" /\ page[g].at \notin Waits
        /\ UNCHANGED <<worker, seq, pending, inbox, busy, outbox, made, accounts, passkey, doc>>
    BY DEF Verified, Waits, stored
  <1>2. \/ page' = [page EXCEPT ![g] = [IdlePage EXCEPT !.session = s]]
        \/ page' = [page EXCEPT ![g] = Says(page[g], "signature rejected", None)]
    BY DEF Verified
  <1>3. HasAccount(s.user, accounts)
    BY <1>1 DEF CryptoInv, PageOK, PageHolds
  <1> HIDE DEF s
  <1>4. CASE page' = [page EXCEPT ![g] = [IdlePage EXCEPT !.session = s]]
    <2>1. /\ AccountsOK(accounts', made) /\ Grown(accounts, accounts')
          /\ passkey' # None => HasAccount(passkey'.user, accounts')
          /\ DocOK(doc')
      BY <1>1 DEF CryptoInv, Grown
    <2> QED BY <1>1, <1>3, <1>4, <2>1, FreshStep
  <1>5. CASE page' = [page EXCEPT ![g] = Says(page[g], "signature rejected", None)]
    <2>1. "signature rejected" \in Messages /\ None \in Perhaps(ErrorClasses \cup Outcomes)
      BY DEF Messages, Perhaps
    <2> QED BY <1>1, <1>5, <2>1, SaysStep
  <1> QED BY <1>2, <1>4, <1>5

\* A passkey ceremony ends with a value, an outcome or an error.
Ends(a) == a.ok \in BOOLEAN /\ (~a.ok => a.error \in ErrorClasses \cup Outcomes)

LEMMA AnswerEnds ==
    ASSUME NEW a, IsAnswer(a)
    PROVE  Ends(a)
  BY DEF IsAnswer, Ends

LEMMA CeremonyEnds ==
    ASSUME NEW outcome \in Outcomes
    PROVE  Ends(Then(Ceremony(outcome), ExtractPrfFirst))
  <1>1. Ends(Ceremony(outcome))
    BY DEF Ceremony, Ends, Ok, Fail
  <1>2. ASSUME NEW credential PROVE IsAnswer(ExtractPrfFirst(credential))
    BY DEF ExtractPrfFirst, Ok, Fail, IsAnswer, ErrorClasses
  <1>3. ASSUME NEW credential PROVE Ends(ExtractPrfFirst(credential))
    BY <1>2, AnswerEnds
  <1> QED BY <1>1, <1>3 DEF Then

LEMMA PrfWrapAnswers ==
    ASSUME NEW pem, NEW key
    PROVE  IsAnswer(WrapPrivateKeyWithPrf(pem, key))
  <1> DEFINE Laid(sealed) == Ok([version |-> WrappedV2Prf, inner |-> Pack(sealed),
                                 len |-> 1 + Pack(sealed).len])
  <1>1. IsAnswer(Encrypt(pem, key, <<WrappedV2Prf>>))
    BY DEF Encrypt, Ok, Fail, IsAnswer, ErrorClasses
  <1>2. ASSUME NEW sealed PROVE IsAnswer(Laid(sealed))
    BY DEF Ok, IsAnswer
  <1> HIDE DEF Laid
  <1>3. IsAnswer(Then(Encrypt(pem, key, <<WrappedV2Prf>>), Laid))
    BY <1>1, <1>2 DEF Then
  <1>4. IsAnswer(Fail("WireFormatError"))
    BY DEF IsAnswer, Fail, ErrorClasses
  <1> QED BY <1>3, <1>4 DEF WrapPrivateKeyWithPrf, Laid

LEMMA PrfUnwrapAnswers ==
    ASSUME NEW blob, NEW key
    PROVE  IsAnswer(UnwrapPrivateKeyWithPrf(blob, key))
  <1> DEFINE inner == [blob.inner EXCEPT !.len = blob.len - 1]
             OpenWith(sealed) == Decrypt(sealed, key, <<blob.version>>)
  <1>1. IsAnswer(Unpack(inner))
    BY UnpackAnswers
  <1>2. ASSUME NEW sealed PROVE IsAnswer(OpenWith(sealed))
    BY DecryptAnswers
  <1> HIDE DEF OpenWith, inner
  <1>3. IsAnswer(Then(Unpack(inner), OpenWith))
    BY <1>1, <1>2 DEF Then
  <1>4. IsAnswer(Fail("WireFormatError"))
    BY DEF IsAnswer, Fail, ErrorClasses
  <1> QED BY <1>3, <1>4 DEF UnwrapPrivateKeyWithPrf, OpenWith, inner

LEMMA EnrollStep ==
    ASSUME CryptoInv, NEW g \in Pages, NEW outcome \in Outcomes, Enroll(g, outcome)
    PROVE  CryptoInv'
  <1> DEFINE credential == Ceremony(outcome)
             WrapUnder(key) == WrapPrivateKeyWithPrf(page[g].session.pem, key)
             wrapped == Then(Then(credential, ExtractPrfFirst), WrapUnder)
             row == [user |-> page[g].session.user, wrappedKey |-> wrapped.value,
                     credential |-> EncodeResponse(credential.value).id]
  <1>1. /\ Free(g) /\ page[g].session # None
        /\ UNCHANGED <<worker, seq, pending, inbox, busy, outbox, made, accounts, doc>>
    BY DEF Enroll, SignedIn, Quiet
  <1>2. IF wrapped.ok THEN passkey' = row /\ page' = [page EXCEPT ![g] = Fresh(g)]
        ELSE /\ page' = [page EXCEPT ![g] = Says(page[g], "passkey failed", wrapped.error)]
             /\ passkey' = passkey
    BY DEF Enroll
  <1>3. page[g].at \notin Waits /\ HasAccount(page[g].session.user, accounts)
    BY <1>1, FreePage
  <1>4. Ends(wrapped)
    <2>1. Ends(Then(credential, ExtractPrfFirst))
      BY CeremonyEnds
    <2>2. ASSUME NEW key PROVE Ends(WrapUnder(key))
      BY PrfWrapAnswers, AnswerEnds
    <2> HIDE DEF credential, WrapUnder
    <2> QED BY <2>1, <2>2 DEF Then
  <1>5. row.user = page[g].session.user
    OBVIOUS
  <1> HIDE DEF wrapped, row
  <1>6. CASE wrapped.ok
    <2>1. /\ AccountsOK(accounts', made) /\ Grown(accounts, accounts')
          /\ passkey' # None => HasAccount(passkey'.user, accounts')
          /\ DocOK(doc')
      BY <1>1, <1>2, <1>3, <1>5, <1>6 DEF CryptoInv, Grown
    <2>2. page' = [page EXCEPT ![g] = [IdlePage EXCEPT !.session = page[g].session]]
      BY <1>2, <1>6 DEF Fresh
    <2> QED BY <1>1, <1>3, <2>1, <2>2, FreshStep
  <1>7. CASE ~wrapped.ok
    <2>1. "passkey failed" \in Messages /\ wrapped.error \in Perhaps(ErrorClasses \cup Outcomes)
      BY <1>4, <1>7 DEF Messages, Perhaps, Ends
    <2> QED BY <1>1, <1>2, <1>3, <1>7, <2>1, SaysStep
  <1> QED BY <1>6, <1>7

LEMMA PasskeyLoginStep ==
    ASSUME CryptoInv, NEW g \in Pages, NEW outcome \in Outcomes, PasskeyLogin(g, outcome)
    PROVE  CryptoInv'
  <1> DEFINE credential == Ceremony(outcome)
             response == EncodeResponse(credential.value)
             served == IF response.challenge = PasskeyOptions.challenge
                          /\ response.id = passkey.credential
                       THEN Ok(passkey.wrappedKey) ELSE Fail("Error")
             OpenUnder(key) == Then(served, LAMBDA blob : UnwrapPrivateKeyWithPrf(blob, key))
             pem == Then(Then(credential, ExtractPrfFirst), OpenUnder)
             s == [user |-> passkey.user, pem |-> pem.value]
  <1>1. /\ Free(g) /\ passkey # None
        /\ UNCHANGED <<worker, seq, pending, inbox, busy, outbox, made, accounts, passkey, doc>>
    BY DEF PasskeyLogin, Quiet, stored
  <1>2. page' = [page EXCEPT ![g] = IF pem.ok THEN [IdlePage EXCEPT !.session = s]
                                    ELSE Says(page[g], "passkey failed", pem.error)]
    BY DEF PasskeyLogin
  <1>3. page[g].at \notin Waits /\ HasAccount(s.user, accounts)
    BY <1>1, FreePage DEF CryptoInv
  <1>4. Ends(pem)
    <2>1. Ends(Then(credential, ExtractPrfFirst))
      BY CeremonyEnds
    <2>2. IsAnswer(served)
      BY DEF Ok, Fail, IsAnswer, ErrorClasses
    <2> HIDE DEF served, credential
    <2>3. ASSUME NEW key PROVE Ends(OpenUnder(key))
      <3>1. IsAnswer(OpenUnder(key))
        BY <2>2, PrfUnwrapAnswers DEF Then
      <3> QED BY <3>1, AnswerEnds
    <2> HIDE DEF OpenUnder
    <2> QED BY <2>1, <2>3 DEF Then
  <1> HIDE DEF pem, s
  <1>5. CASE pem.ok
    <2>1. /\ AccountsOK(accounts', made) /\ Grown(accounts, accounts')
          /\ passkey' # None => HasAccount(passkey'.user, accounts')
          /\ DocOK(doc')
      BY <1>1 DEF CryptoInv, Grown
    <2>2. page' = [page EXCEPT ![g] = [IdlePage EXCEPT !.session = s]]
      BY <1>2, <1>5
    <2> QED BY <1>1, <1>3, <2>1, <2>2, FreshStep
  <1>6. CASE ~pem.ok
    <2>1. "passkey failed" \in Messages /\ pem.error \in Perhaps(ErrorClasses \cup Outcomes)
      BY <1>4, <1>6 DEF Messages, Perhaps, Ends
    <2> QED BY <1>1, <1>2, <1>3, <1>6, <2>1, SaysStep
  <1> QED BY <1>5, <1>6

\* The document that an upload makes.
LEMMA UploadMakes ==
    ASSUME CryptoInv, NEW g \in Pages, NEW others \in SUBSET {u \in Users : accounts[u] # None},
           NEW i \in 0..Len(File), Upload(g, others, i)
    PROVE  /\ DocOK(doc') /\ doc = None
           /\ \A a \in doc'.access : /\ HasAccount(a.userId, accounts)
                                     /\ \E k \in Keys :
                                           /\ accounts[a.userId].pem = SerializePublicKey(k)
                                           /\ a.encryptedDek = CopyFor(k)
                                           /\ accounts[a.userId].blob
                                                = Wrapped(k, accounts[a.userId].pass)
  <1> DEFINE readers == others \cup {page[g].session.user}
             publicKey(u) == DeserializePublicKeyForOaep(accounts[u].pem).value
             recipients == {[userId |-> u, publicKey |-> publicKey(u)] : u \in readers}
             access == {[userId |-> r.userId,
                         encryptedDek |-> OaepEncrypt(Dek, r.publicKey)] : r \in recipients}
             made0 == [encryptedFilename |-> Pack(Sealed(<<"name">>, Dek)),
                       contentHash |-> ContentHash(File),
                       ciphertext |-> Pack(Sealed(File, Dek)), access |-> access]
  <1>1. doc = None /\ page[g].session # None
    BY DEF Upload, SignedIn
  <1>2. HasAccount(page[g].session.user, accounts)
    BY <1>1, FreePage
  <1>3. \A u \in readers : HasAccount(u, accounts)
    BY <1>2 DEF HasAccount
  <1>4. recipients # {}
    OBVIOUS
  <1>5. doc' = EncryptForRecipients(ReadStreamToBytes(Chunks(i)), <<"name">>, recipients, Dek).value
    BY DEF Upload
  <1> HIDE DEF readers
  <1>6. doc' = made0
    <2>1. ReadStreamToBytes(Chunks(i)) = File
      BY ReadsWhole
    <2> HIDE DEF recipients
    <2>2. EncryptForRecipients(File, <<"name">>, recipients, Dek) = Ok(made0)
      BY <1>4, BundleMakes
    <2> HIDE DEF made0
    <2> QED BY <1>5, <2>1, <2>2 DEF Ok
  <1>7. ASSUME NEW a \in access
        PROVE  /\ HasAccount(a.userId, accounts)
               /\ \E k \in Keys : /\ accounts[a.userId].pem = SerializePublicKey(k)
                                  /\ a.encryptedDek = CopyFor(k)
                                  /\ accounts[a.userId].blob = Wrapped(k, accounts[a.userId].pass)
    <2>1. PICK u \in readers : a.userId = u /\ a.encryptedDek = OaepEncrypt(Dek, publicKey(u))
      OBVIOUS
    <2>2. u \in Users /\ accounts[u] # None
      BY <1>3 DEF HasAccount
    <2>3. PICK k \in made : accounts[u].pem = SerializePublicKey(k)
                            /\ accounts[u].blob = Wrapped(k, accounts[u].pass)
      BY <2>2 DEF CryptoInv, AccountsOK
    <2>4. k \in Keys
      BY DEF CryptoInv
    <2>5. OaepEncrypt(Dek, publicKey(u)) = CopyFor(k)
      BY <2>3, <2>4, CopyIsMade
    <2> QED BY <2>1, <2>2, <2>3, <2>4, <2>5 DEF HasAccount
  <1> HIDE DEF access
  <1>8. DocOK(doc') /\ doc'.access = access
    <2>1. doc'.access = access /\ doc'.ciphertext = Pack(Sealed(File, Dek))
          /\ doc'.encryptedFilename = Pack(Sealed(<<"name">>, Dek))
      BY <1>6
    <2>2. doc' = [encryptedFilename |-> doc'.encryptedFilename, contentHash |-> doc'.contentHash,
                  ciphertext |-> doc'.ciphertext, access |-> doc'.access]
      BY <1>6
    <2>3. \A a \in doc'.access : \E k \in Keys : a.encryptedDek = [oaep |-> Dek, under |-> k]
      BY <1>7, <2>1 DEF CopyFor
    <2> QED BY <2>1, <2>2, <2>3 DEF DocOK
  <1> QED BY <1>1, <1>7, <1>8

LEMMA UploadStep ==
    ASSUME CryptoInv, NEW g \in Pages, NEW others \in SUBSET {u \in Users : accounts[u] # None},
           NEW i \in 0..Len(File), Upload(g, others, i)
    PROVE  CryptoInv'
  <1>1. /\ Free(g) /\ page' = [page EXCEPT ![g] = [IdlePage EXCEPT !.session = page[g].session]]
        /\ UNCHANGED <<worker, seq, pending, inbox, busy, outbox, made, accounts, passkey>>
    BY DEF Upload, SignedIn, Quiet, Fresh
  <1>2. /\ page[g].at \notin Waits
        /\ page[g].session # None => HasAccount(page[g].session.user, accounts)
    BY <1>1, FreePage
  <1>3. DocOK(doc')
    BY UploadMakes
  <1>4. /\ AccountsOK(accounts', made) /\ Grown(accounts, accounts')
        /\ passkey' # None => HasAccount(passkey'.user, accounts')
    BY <1>1 DEF CryptoInv, Grown
  <1> QED BY <1>1, <1>2, <1>3, <1>4, FreshStep

LEMMA OpenStep ==
    ASSUME CryptoInv, NEW g \in Pages, Open(g)
    PROVE  CryptoInv'
  <1>1. /\ Free(g) /\ doc # None /\ \E a \in doc.access : a.userId = page[g].session.user
        /\ UNCHANGED <<worker, seq, pending, inbox, busy, outbox, made, accounts, passkey, doc>>
    BY DEF Open, SignedIn, Quiet, stored
  <1>2. PICK c \in EnvelopesReadBack, e \in EnvelopesReadBack, a \in {doc.access, Another.access} :
            page' = [page EXCEPT ![g] = [Fresh(g) EXCEPT !.read =
                        Opened([ciphertext |-> c, encryptedFilename |-> e, access |-> a],
                               page[g].session.user, page[g].session.pem)]]
    BY DEF Open
  <1> DEFINE d == [ciphertext |-> c, encryptedFilename |-> e, access |-> a]
             x == Opened(d, page[g].session.user, page[g].session.pem)
             s == page[g].session
             f == [IdlePage EXCEPT !.session = s]
             r == [f EXCEPT !.read = x]
  <1>3. x.ok => OfOneDocument(x.value)
    <2>1. DocOK(doc) /\ doc.access # {}
      BY <1>1 DEF CryptoInv
    <2>2. OfADocument(d.ciphertext) /\ OfADocument(d.encryptedFilename)
      BY <1>1, <2>1, ReadBackAreEnvelopes
    <2> HIDE DEF d
    <2> QED BY <2>2, OpenedIsOfOne
  <1> HIDE DEF x, s
  <1>4. page[g].at \notin Waits /\ (s # None => HasAccount(s.user, accounts))
    BY <1>1, FreePage DEF s
  <1>5. PageOK(r, accounts, made) /\ r.at = "idle"
    <2>1. PageOK(f, accounts, made) /\ f.at = "idle"
      BY <1>4, FreshIsOK
    <2> HIDE DEF f
    <2>2. Shape(f)
      BY <2>1 DEF PageOK, PageTyped
    <2>3. Shape(r)
      BY <2>2, ShapeStays
    <2>4. /\ r.at = f.at /\ r.user = f.user /\ r.pass = f.pass /\ r.thread = f.thread
          /\ r.request = f.request /\ r.pem = f.pem /\ r.blob = f.blob /\ r.says = f.says
          /\ r.why = f.why /\ r.session = f.session /\ r.read = x
      BY <2>2 DEF Shape
    <2> HIDE DEF r
    <2>5. PageTyped(r)
      BY <2>1, <2>3, <2>4 DEF PageOK, PageTyped
    <2>6. f.thread # "page"
      BY <2>1 DEF PageOK, PageTyped, Waits
    <2>7. PageHolds(r, accounts, made)
      BY <1>3, <2>1, <2>4, <2>6 DEF PageOK, PageHolds
    <2> QED BY <2>1, <2>4, <2>5, <2>7 DEF PageOK
  <1>6. page' = [page EXCEPT ![g] = r]
    BY <1>2 DEF Fresh, x, s
  <1> HIDE DEF r
  <1>7. /\ AccountsOK(accounts', made) /\ Grown(accounts, accounts')
        /\ passkey' # None => HasAccount(passkey'.user, accounts')
        /\ DocOK(doc')
    BY <1>1 DEF CryptoInv, Grown
  <1>8. r.at \notin Waits
    BY <1>5 DEF Waits
  <1> QED BY <1>1, <1>4, <1>5, <1>6, <1>7, <1>8, QuietStep

LEMMA NextInv == CryptoInv /\ [Next]_vars => CryptoInv'
  <1> SUFFICES ASSUME CryptoInv, [Next]_vars PROVE CryptoInv'
    OBVIOUS
  <1>1. CASE UNCHANGED vars
    BY <1>1 DEF vars, stored, CryptoInv
  <1>2. CASE WorkerStarts \/ WorkerTakes
    BY <1>2, WorkerSteps
  <1>3. ASSUME NEW m \in busy, WorkerAnswers(m) PROVE CryptoInv'
    BY <1>3, AnswersStep
  <1>4. CASE Receive
    BY <1>4, ReceiveStep
  <1>5. ASSUME NEW g \in Pages, InPage(g) PROVE CryptoInv'
    BY <1>5, InPageStep
  <1>6. ASSUME NEW g \in Pages, Submitted(g) PROVE CryptoInv'
    BY <1>6, SubmittedStep
  <1>7. ASSUME NEW g \in Pages, Verified(g) PROVE CryptoInv'
    BY <1>7, VerifiedStep
  <1>8. CASE WorkerDies
    BY <1>8, DiesStep
  <1>9. ASSUME NEW g \in Pages, NEW u \in Users, NEW p \in Passphrases,
               Signup(g, u, p) \/ Login(g, u, p)
        PROVE  CryptoInv'
    BY <1>9, SignupStep, LoginStep
  <1>10. ASSUME NEW g \in Pages, NEW outcome \in Outcomes,
                Enroll(g, outcome) \/ PasskeyLogin(g, outcome)
         PROVE  CryptoInv'
    BY <1>10, EnrollStep, PasskeyLoginStep
  <1>11. ASSUME NEW g \in Pages, NEW others \in SUBSET {u \in Users : accounts[u] # None},
                NEW i \in 0..Len(File), Upload(g, others, i)
         PROVE  CryptoInv'
    BY <1>11, UploadStep
  <1>12. ASSUME NEW g \in Pages, Open(g) PROVE CryptoInv'
    BY <1>12, OpenStep
  <1>13. CASE Client
    BY <1>2, <1>3, <1>4, <1>5, <1>6, <1>7, <1>13 DEF Client
  <1>14. CASE Person
    BY <1>9, <1>10, <1>11, <1>12, <1>14 DEF Person
  <1> QED BY <1>1, <1>8, <1>13, <1>14 DEF Next

\* One number, in one place: the messages that have it are one.
InOnePlace(B, I, O, x) ==
    Cardinality({m \in B : m.id = x})
      + Cardinality({i \in DOMAIN I : I[i].id = x})
      + Cardinality({i \in DOMAIN O : O[i].id = x}) = 1

LEMMA OneMessage ==
    ASSUME NEW n \in Nat, NEW P, NEW B, NEW I, NEW O, Numbered(P, B, I, O, n),
           NEW x \in IdsIn(B) \cup IdsOf(I) \cup IdsOf(O)
    PROVE  InOnePlace(B, I, O, x)
  <1> DEFINE b == {m \in B : m.id = x}
             j == {i \in DOMAIN I : I[i].id = x}
             o == {i \in DOMAIN O : O[i].id = x}
  <1>1. x \in IdsIn(B) => \E m : b = {m}
    <2> SUFFICES ASSUME x \in IdsIn(B) PROVE \E m : b = {m}
      OBVIOUS
    <2>1. PICK m \in B : m.id = x
      BY DEF IdsIn
    <2>2. b = {m}
      BY <2>1 DEF Numbered
    <2> QED BY <2>2
  <1>2. x \in IdsOf(I) => \E i : j = {i}
    <2> SUFFICES ASSUME x \in IdsOf(I) PROVE \E i : j = {i}
      OBVIOUS
    <2>1. PICK i \in DOMAIN I : I[i].id = x
      BY DEF IdsOf
    <2>2. j = {i}
      BY <2>1 DEF Numbered, OncePerId
    <2> QED BY <2>2
  <1>3. x \in IdsOf(O) => \E i : o = {i}
    <2> SUFFICES ASSUME x \in IdsOf(O) PROVE \E i : o = {i}
      OBVIOUS
    <2>1. PICK i \in DOMAIN O : O[i].id = x
      BY DEF IdsOf
    <2>2. o = {i}
      BY <2>1 DEF Numbered, OncePerId
    <2> QED BY <2>2
  <1>4. /\ x \notin IdsIn(B) => b = {}
        /\ x \notin IdsOf(I) => j = {}
        /\ x \notin IdsOf(O) => o = {}
    BY DEF IdsIn, IdsOf
  <1>5. Cardinality({}) = 0 /\ \A m : Cardinality({m}) = 1
    BY FS_EmptySet, FS_Singleton
  <1> HIDE DEF b, j, o
  <1>6. /\ Cardinality(b) = IF x \in IdsIn(B) THEN 1 ELSE 0
        /\ Cardinality(j) = IF x \in IdsOf(I) THEN 1 ELSE 0
        /\ Cardinality(o) = IF x \in IdsOf(O) THEN 1 ELSE 0
    BY <1>1, <1>2, <1>3, <1>4, <1>5
  <1>7. Cardinality(b) + Cardinality(j) + Cardinality(o) = 1
    BY <1>6 DEF Numbered
  <1> QED BY <1>7 DEF b, j, o, InOnePlace

-----------------------------------------------------------------------------
(* Theorems                                                                *)

\* The inductive invariant: in worker-client.ts every number of _seq is used by
\* one call and by one message, wherever the message is; a message in flight is
\* the request, or an answer to it, that the handler behind its entry awaits;
\* and while the worker lives every entry of _pending has its message.
THEOREM Invariance == Spec => []CryptoInv
  BY InitInv, NextInv, PTL DEF Spec

\* The wrapped key that signup.tsx leaves in the browser opens, with the
\* passphrase typed in that form, to the private half of the key that the form
\* registered, however the answers of the worker overtake each other.
THEOREM AccountSafe == Spec => []AccountOpens
  <1>1. ASSUME CryptoInv PROVE AccountOpens
    <2>1. ASSUME NEW u \in Users, accounts[u] # None
          PROVE  /\ UnwrapPrivateKey(accounts[u].blob, accounts[u].pass).ok
                 /\ UnwrapPrivateKey(accounts[u].blob, accounts[u].pass).value[2]
                      = accounts[u].pem[2]
      <3>1. PICK k \in made : /\ accounts[u].pem = SerializePublicKey(k)
                              /\ accounts[u].blob = Wrapped(k, accounts[u].pass)
        BY <1>1, <2>1 DEF CryptoInv, AccountsOK
      <3>2. UnwrapPrivateKey(accounts[u].blob, accounts[u].pass) = Ok(SerializePrivateKey(k))
        BY <3>1, WrappedOpens
      <3>3. SerializePrivateKey(k)[2] = k /\ SerializePublicKey(k)[2] = k
        BY DEF SerializePrivateKey, SerializePublicKey
      <3>4. Ok(SerializePrivateKey(k)).ok /\ Ok(SerializePrivateKey(k)).value = SerializePrivateKey(k)
        BY DEF Ok
      <3> QED BY <3>1, <3>2, <3>3, <3>4
    <2> QED BY <2>1 DEF AccountOpens
  <1> QED BY <1>1, Invariance, PTL

\* A page of dashboard.tsx or doc-detail.tsx that decrypts a document shows a name
\* and bytes that were encrypted as parts of one document, or an error, wherever the
\* blobs of two documents were put and however they were damaged.
THEOREM ReadSafe == Spec => []ReadIsOneDocument
  <1>1. ASSUME CryptoInv, NEW g \in Pages, page[g].read # None, page[g].read.ok
        PROVE  OfOneDocument(page[g].read.value)
    BY <1>1 DEF CryptoInv, PageOK, PageHolds
  <1>2. CryptoInv => ReadIsOneDocument
    BY <1>1 DEF ReadIsOneDocument, OfOneDocument, TextsUnder
  <1> QED BY <1>2, Invariance, PTL

\* Every recipient of an upload opens the document, from the blob and the
\* passphrase of that person's signup to the name and the bytes of the file.
THEOREM RecipientsSafe == Spec => RecipientsOpen
  <1> DEFINE Opens(a) ==
                 LET pem == UnwrapPrivateKey(accounts[a.userId].blob, accounts[a.userId].pass)
                     key == Then(pem, DeserializePrivateKeyForOaep)
                     opened == Then(key, LAMBDA k : DecryptBundle(doc'.ciphertext,
                                             doc'.encryptedFilename, a.encryptedDek, k))
                 IN  opened = Ok([filename |-> <<"name">>, plaintext |-> File])
  <1>1. ASSUME CryptoInv, Next, doc = None, doc' # None, NEW a \in doc'.access
        PROVE  Opens(a)
    <2>1. \E g \in Pages, others \in SUBSET {u \in Users : accounts[u] # None},
             i \in 0..Len(File) : Upload(g, others, i)
      <3>1. doc' # doc
        BY <1>1
      <3>2. CASE Client
        BY <3>1, <3>2 DEF Client, WorkerStarts, WorkerTakes, WorkerAnswers, Receive, Answered,
              InPage, Submitted, Verified, stored
      <3>3. CASE WorkerDies
        BY <3>1, <3>3 DEF WorkerDies, stored
      <3>4. CASE Person
        BY <3>1, <3>4 DEF Person, Signup, Login, Enroll, PasskeyLogin, Open, stored
      <3> QED BY <1>1, <3>2, <3>3, <3>4 DEF Next
    <2>2. PICK g \in Pages, others \in SUBSET {u \in Users : accounts[u] # None},
               i \in 0..Len(File) : Upload(g, others, i)
      BY <2>1
    <2>3. DocOK(doc') /\ \E k \in Keys : /\ a.encryptedDek = CopyFor(k)
                          /\ accounts[a.userId].blob = Wrapped(k, accounts[a.userId].pass)
      BY <1>1, <2>2, UploadMakes
    <2>4. PICK k \in Keys : /\ a.encryptedDek = CopyFor(k)
                            /\ accounts[a.userId].blob = Wrapped(k, accounts[a.userId].pass)
      BY <2>3
    <2>5. doc'.ciphertext = Pack(Sealed(File, Dek)) /\ doc'.encryptedFilename = Pack(Sealed(<<"name">>, Dek))
      BY <1>1, <2>3 DEF DocOK
    <2>6. OpensTo(accounts[a.userId].blob, accounts[a.userId].pass, doc'.ciphertext,
                  doc'.encryptedFilename, a.encryptedDek) = Ok(Original)
      BY <2>4, <2>5, RecipientOpens
    <2> QED BY <2>6 DEF OpensTo, Original
  <1>2. CryptoInv /\ [Next]_vars =>
           [doc = None /\ doc' # None => \A a \in doc'.access : Opens(a)]_vars
    BY <1>1
  <1> QED BY <1>2, Invariance, PTL DEF Spec, RecipientsOpen

\* The types of the pages, of the messages and of the calls, and while the worker
\* is alive a handler that awaits worker-client.ts has one entry in _pending and
\* one message, on its way to the worker, in it, or on its way back.
THEOREM NoCallLost == Spec => []NoCallIsLost
  <1>1. ASSUME CryptoInv PROVE TypeOK
    <2>1. pending \subseteq [id : 1..seq, page : Pages]
      BY <1>1 DEF CryptoInv, Net, Numbered
    <2>2. ASSUME NEW m \in busy \cup Range(inbox)
          PROVE  m.id \in 1..seq /\ m.request.type \in Types
      <3>1. CASE m \in busy
        BY <1>1, <3>1 DEF CryptoInv, Net, Numbered, Matched, IdsIn
      <3>2. CASE m \in Range(inbox)
        <4>1. PICK i \in DOMAIN inbox : m = inbox[i]
          BY <3>2 DEF Range
        <4> QED BY <1>1, <4>1 DEF CryptoInv, Net, Numbered, Matched, IdsOf
      <3> QED BY <3>1, <3>2
    <2>3. ASSUME NEW m \in Range(outbox)
          PROVE  m.id \in 1..seq /\ m.type \in Types
      <3>1. PICK i \in DOMAIN outbox : m = outbox[i]
        BY DEF Range
      <3> QED BY <1>1, <3>1 DEF CryptoInv, Net, Numbered, Matched, IdsOf
    <2>4. \A g \in Pages : PageTyped(page[g])
      BY <1>1 DEF CryptoInv, PageOK
    <2>5. \A u \in Users : accounts[u] # None =>
             accounts[u].pem \in {SerializePublicKey(k) : k \in made}
      BY <1>1 DEF CryptoInv, AccountsOK
    <2>6. worker \in {"unprobed", "none", "loading", "up", "dead"} /\ seq \in Nat
          /\ made \subseteq Keys
      BY <1>1 DEF CryptoInv
    <2> QED BY <2>1, <2>2, <2>3, <2>4, <2>5, <2>6 DEF TypeOK, PageTyped
  <1>2. ASSUME CryptoInv, worker # "dead", NEW g \in Pages, page[g].at \in Waits,
               page[g].thread = "worker"
        PROVE  \E e \in pending :
                  /\ e.page = g /\ \A f \in pending : f.page = g \/ f.id = e.id => f = e
                  /\ Cardinality({m \in busy : m.id = e.id})
                     + Cardinality({i \in DOMAIN inbox : inbox[i].id = e.id})
                     + Cardinality({i \in DOMAIN outbox : outbox[i].id = e.id}) = 1
    <2>1. PICK e \in pending : e.page = g
      BY <1>2 DEF CryptoInv, Entered
    <2>2. Numbered(pending, busy, inbox, outbox, seq) /\ seq \in Nat
      BY <1>2 DEF CryptoInv, Net
    <2>3. e.id \in IdsIn(busy) \cup IdsOf(inbox) \cup IdsOf(outbox)
      BY <1>2 DEF CryptoInv, Net, OnItsWay
    <2>4. \A f \in pending : f.page = g \/ f.id = e.id => f = e
      BY <2>1, <2>2 DEF Numbered
    <2>5. Cardinality({m \in busy : m.id = e.id})
            + Cardinality({i \in DOMAIN inbox : inbox[i].id = e.id})
            + Cardinality({i \in DOMAIN outbox : outbox[i].id = e.id}) = 1
      <3>1. InOnePlace(busy, inbox, outbox, e.id)
        BY <2>2, <2>3, OneMessage
      <3> QED BY <3>1 DEF InOnePlace
    <2> QED BY <2>1, <2>4, <2>5
  <1>3. CryptoInv => NoCallIsLost
    BY <1>1, <1>2 DEF NoCallIsLost
  <1> QED BY <1>3, Invariance, PTL
=============================================================================
