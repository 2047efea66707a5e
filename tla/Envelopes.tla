----------------------------- MODULE Envelopes -----------------------------
(***************************************************************************)
(* The web client's cryptography (src/web/src/crypto, api/webauthn.ts):    *)
(* what each operation answers and with which class of error it fails.     *)
(*                                                                         *)
(* Bytes are symbols.  A text is a sequence of symbols, one byte each; an  *)
(* encryption is a record of what went into it, so that it opens only with *)
(* the same key, nonce and associated data.  An envelope is its fields and *)
(* the number of bytes that are there: a blob that was cut has a smaller   *)
(* len, one that was changed has Garbled in a field.                       *)
(***************************************************************************)
EXTENDS Integers, Sequences, SequencesExt

CONSTANT Garbled        \* bytes that are no longer what was written

Ok(v) == [ok |-> TRUE, value |-> v]
Fail(e) == [ok |-> FALSE, error |-> e]

\* An awaited operation that throws ends the one that awaits it.
Then(r, Rest(_)) == IF r.ok THEN Rest(r.value) ELSE r

\* errors.ts, and the TypeError of validateKey.
ErrorClasses == {"DecryptError", "SignatureError", "KdfError", "WireFormatError",
                 "KeyFormatError", "TypeError", "Error"}

-----------------------------------------------------------------------------
\* symmetric.ts: AES-256-GCM

KeySize == 32
NonceSize == 12
TagSize == 16

\* The 96 bits drawn for one encryption, never equal in two of them.  They have one
\* symbol: where two encryptions share a key, their tags differ by the texts.
Drawn == "nonce"

\* The tag authenticates the text and the associated data under the key and the
\* nonce; the key is in the ciphertext record.
GcmTag(aad, nonce, text) == <<aad, nonce, text>>

Encrypt(text, key, aad) ==
    IF key.size # KeySize THEN Fail("TypeError")
    ELSE Ok([nonce |-> Drawn, ciphertext |-> [key |-> key, text |-> text],
             tag |-> GcmTag(aad, Drawn, text)])

\* Mutant: the bytes are deciphered and the tag is not verified.
DecryptUntagged(sealed, key, aad) ==
    IF key.size = KeySize /\ sealed.ciphertext.key = key THEN Ok(sealed.ciphertext.text)
    ELSE Fail("DecryptError")

Decrypt(sealed, key, aad) ==
    IF key.size # KeySize THEN Fail("TypeError")
    ELSE IF \/ sealed.ciphertext.key # key
            \/ sealed.tag # GcmTag(aad, sealed.nonce, sealed.ciphertext.text)
      THEN Fail("DecryptError")
    ELSE Ok(sealed.ciphertext.text)

-----------------------------------------------------------------------------
\* wire.ts: version, nonce, tag, ciphertext

CiphertextV1 == 1
EnvelopeHeader == 1 + NonceSize + TagSize

Pack(sealed) ==
    [version |-> CiphertextV1, nonce |-> sealed.nonce, tag |-> sealed.tag,
     ciphertext |-> sealed.ciphertext, len |-> EnvelopeHeader + Len(sealed.ciphertext.text)]

Unpack(blob) ==
    IF blob.len < EnvelopeHeader THEN Fail("WireFormatError")
    ELSE IF blob.version # CiphertextV1 THEN Fail("WireFormatError")
    ELSE LET there == SubSeq(blob.ciphertext.text, 1, blob.len - EnvelopeHeader)
         IN  Ok([nonce |-> blob.nonce, tag |-> blob.tag,
                 ciphertext |-> [blob.ciphertext EXCEPT !.text = there]])

-----------------------------------------------------------------------------
\* kdf.ts: Argon2id, with parameters that travel with the blob

SaltSize == 16
DefaultParams == [m |-> 256 * 1024, t |-> 3, p |-> 4, l |-> 32]

\* A value that is not an integer fails as one out of range does.
ValidParams(params) ==
    /\ params.m >= 8 /\ params.t >= 1 /\ params.p >= 1 /\ params.l >= 4
    /\ params.m >= 8 * params.p

ParamsFromDict(dict) == IF ValidParams(dict) THEN Ok(dict) ELSE Fail("KdfError")

DeriveKey(passphrase, salt, params) ==
    IF ~ValidParams(params) THEN Fail("KdfError")
    ELSE Ok([from |-> <<passphrase, salt, params>>, size |-> params.l])

-----------------------------------------------------------------------------
\* wrap.ts: the private key under the passphrase (V1) or a PRF output (V2)

WrappedV1 == 1
WrappedV2Prf == 2
HeaderFixed == 1 + SaltSize + 2
ParamsLength == 31          \* of {"l":32,"m":262144,"p":4,"t":3}

AssociatedData(version, salt, params) == <<version, salt, params>>

WrapPrivateKey(pem, passphrase) ==
    LET salt == "salt"      \* drawn for this blob
        SealUnder(key) == Encrypt(pem, key, AssociatedData(WrappedV1, salt, DefaultParams))
        Laid(sealed) ==
            Ok([version |-> WrappedV1, salt |-> salt, params_len |-> ParamsLength,
                params |-> DefaultParams, inner |-> Pack(sealed),
                len |-> HeaderFixed + ParamsLength + Pack(sealed).len])
    IN  Then(Then(DeriveKey(passphrase, salt, DefaultParams), SealUnder), Laid)

\* JSON.parse: a slice of another length than was written is no JSON.
ParamsRead(blob) ==
    IF blob.params_len # ParamsLength \/ blob.params = Garbled THEN Fail("WireFormatError")
    ELSE ParamsFromDict(blob.params)

\* The version decides which layout the bytes have: those of another version,
\* re-tagged, do not parse.
UnwrapPrivateKey(blob, passphrase) ==
    LET paramsEnd == HeaderFixed + blob.params_len
        inner == [blob.inner EXCEPT !.len = blob.len - paramsEnd]
        OpenWith(params) ==
            Then(Unpack(inner), LAMBDA sealed :
                Then(DeriveKey(passphrase, blob.salt, params), LAMBDA key :
                    Decrypt(sealed, key, AssociatedData(blob.version, blob.salt, blob.params))))
    IN  IF blob.len < HeaderFixed THEN Fail("WireFormatError")
        ELSE IF blob.version # WrappedV1 THEN Fail("WireFormatError")
        ELSE IF paramsEnd > blob.len THEN Fail("WireFormatError")
        ELSE Then(ParamsRead(blob), OpenWith)

WrapPrivateKeyWithPrf(pem, prfKey) ==
    IF prfKey.size # 32 THEN Fail("WireFormatError")
    ELSE Then(Encrypt(pem, prfKey, <<WrappedV2Prf>>), LAMBDA sealed :
            Ok([version |-> WrappedV2Prf, inner |-> Pack(sealed),
                len |-> 1 + Pack(sealed).len]))

UnwrapPrivateKeyWithPrf(blob, prfKey) ==
    IF blob.len < 1 THEN Fail("WireFormatError")
    ELSE IF blob.version # WrappedV2Prf THEN Fail("WireFormatError")
    ELSE IF prfKey.size # 32 THEN Fail("WireFormatError")
    ELSE Then(Unpack([blob.inner EXCEPT !.len = blob.len - 1]), LAMBDA sealed :
            Decrypt(sealed, prfKey, <<blob.version>>))

-----------------------------------------------------------------------------
\* asymmetric.ts: one RSA key per user, imported for OAEP or for PSS.  A key
\* stands for the pair; a PEM is its label and its body.

SerializePrivateKey(key) == <<"PRIVATE KEY", key>>
SerializePublicKey(key) == <<"PUBLIC KEY", key>>

PemDecode(pem, label) ==
    IF Len(pem) # 2 THEN Fail("KeyFormatError")
    ELSE IF pem[1] # label \/ pem[2] = Garbled THEN Fail("KeyFormatError")
    ELSE Ok(pem[2])

ImportFor(algorithm, pem, label) ==
    Then(PemDecode(pem, label), LAMBDA key : Ok([key |-> key, alg |-> algorithm]))

DeserializePrivateKeyForOaep(pem) == ImportFor("RSA-OAEP", pem, "PRIVATE KEY")
DeserializePrivateKeyForPss(pem) == ImportFor("RSA-PSS", pem, "PRIVATE KEY")
DeserializePublicKeyForOaep(pem) == ImportFor("RSA-OAEP", pem, "PUBLIC KEY")
DeserializePublicKeyForPss(pem) == ImportFor("RSA-PSS", pem, "PUBLIC KEY")

OaepEncrypt(text, publicKey) == [oaep |-> text, under |-> publicKey.key]

OaepDecrypt(sealed, privateKey) ==
    IF sealed = Garbled \/ privateKey.alg # "RSA-OAEP" THEN Fail("DecryptError")
    ELSE IF sealed.under # privateKey.key THEN Fail("DecryptError")
    ELSE Ok(sealed.oaep)

\* A handle imported for the other padding is refused by WebCrypto.
PssSign(message, privateKey) ==
    IF privateKey.alg # "RSA-PSS" THEN Fail("Error")
    ELSE Ok([message |-> message, by |-> privateKey.key])

PssVerify(message, signature, publicKey) ==
    IF signature = [message |-> message, by |-> publicKey.key] THEN Ok(message)
    ELSE Fail("SignatureError")

-----------------------------------------------------------------------------
\* document.ts

ContentHash(text) == <<"sha256", text>>

\* The chunks one after the other, the empty ones left out.
ReadStreamToBytes(chunks) ==
    LET read[n \in 0..Len(chunks)] ==
            IF n = 0 THEN <<>>
            ELSE IF Len(chunks[n]) > 0 THEN read[n - 1] \o chunks[n] ELSE read[n - 1]
    IN  read[Len(chunks)]

\* Mutant: the key of one recipient wraps the copy of every other.
EncryptForOne(plaintext, filename, recipients, dek) ==
    LET one == CHOOSE r \in recipients : TRUE
    IN  Then(Encrypt(plaintext, dek, <<>>), LAMBDA sealed :
        Then(Encrypt(filename, dek, <<>>), LAMBDA sealedFilename :
            Ok([encryptedFilename |-> Pack(sealedFilename),
                contentHash |-> ContentHash(plaintext),
                ciphertext |-> Pack(sealed),
                access |-> {[userId |-> r.userId,
                             encryptedDek |-> OaepEncrypt(dek, one.publicKey)] : r \in recipients}])))

\* recipients: [userId, publicKey]; dek: the key drawn for this document.
EncryptForRecipients(plaintext, filename, recipients, dek) ==
    IF recipients = {} THEN Fail("Error")
    ELSE Then(Encrypt(plaintext, dek, <<>>), LAMBDA sealed :
         Then(Encrypt(filename, dek, <<>>), LAMBDA sealedFilename :
            Ok([encryptedFilename |-> Pack(sealedFilename),
                contentHash |-> ContentHash(plaintext),
                ciphertext |-> Pack(sealed),
                access |-> {[userId |-> r.userId,
                             encryptedDek |-> OaepEncrypt(dek, r.publicKey)] : r \in recipients}])))

DecryptBundle(ciphertextBlob, encryptedFilenameBlob, encryptedDek, privateKey) ==
    LET Opened(blob, dek) == Then(Unpack(blob), LAMBDA sealed : Decrypt(sealed, dek, <<>>))
    IN  Then(OaepDecrypt(encryptedDek, privateKey), LAMBDA dek :
        Then(Opened(ciphertextBlob, dek), LAMBDA plaintext :
        Then(Opened(encryptedFilenameBlob, dek), LAMBDA filename :
            Ok([filename |-> filename, plaintext |-> plaintext]))))

-----------------------------------------------------------------------------
\* api/webauthn.ts: byte fields are base64url in JSON and buffers in the API

BytesToBase64url(bytes) == [b64url |-> bytes]
Base64urlToBytes(text) == text.b64url

\* prf: the eval inputs of the options, {} or {first} of base64url texts.
DecodeExtensions(prf) == {Base64urlToBytes(first) : first \in prf}

DecodeOptions(options) ==
    [challenge |-> Base64urlToBytes(options.challenge),
     credentials |-> {Base64urlToBytes(id) : id \in options.credentials},
     prf |-> DecodeExtensions(options.prf)]

EncodeResponse(credential) ==
    [id |-> BytesToBase64url(credential.id),
     challenge |-> BytesToBase64url(credential.challenge)]

\* The 32 bytes, or a failure: no support, or the evaluation was not made.
ExtractPrfFirst(credential) ==
    IF credential.prf = {} THEN Fail("Error")
    ELSE Ok([from |-> <<credential.id, CHOOSE first \in credential.prf : TRUE>>, size |-> 32])
=============================================================================
