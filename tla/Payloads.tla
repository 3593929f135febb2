------------------------------- MODULE Payloads -------------------------------
(***************************************************************************)
(* The payload formats of sdk/src/crypto: the single ECIES blob, the v1    *)
(* bundle of one blob for each recipient, the v2 hybrid envelope with one  *)
(* ciphertext and one wrapped key for each recipient, and the padding that *)
(* hides the length of what a hybrid envelope carries.                     *)
(*                                                                         *)
(* Bytes are abstracted to what can be told apart: a ciphertext is a box   *)
(* with the key that opens it, and the private half of a public key is     *)
(* written as the public key.  Lengths are the real ones.                  *)
(***************************************************************************)
EXTENDS Integers, Sequences

CONSTANT Failure            \* what a call that throws returns

ASSUME PayloadAssumption == Failure # "contentKey"

\* Lengths in bytes.
IV_LENGTH == 12
TAG_LENGTH == 16
UNCOMPRESSED_PUBKEY_LENGTH == 65
COMPRESSED_PUBKEY_LENGTH == 33
AES_KEY_LENGTH == 32
HYBRID_WRAP_LENGTH == IV_LENGTH + AES_KEY_LENGTH + TAG_LENGTH
PAD_HEADER_LENGTH == 8

BUNDLE_VERSION == 1
HYBRID_VERSION == 2
MAX_RECIPIENT_COUNT == 2^16 - 1
PAD_BUCKETS == {64, 128, 256, 512, 1024, 2048, 4096}

\* A message is a text of some length; hex says that it reads as an even
\* number of hexadecimal digits.  Such a text is taken for the bytes it
\* spells, whatever its author meant, and any other one is encoded as UTF-8.
coerceBytes(message) ==
    [ text   |-> message.text,
      parsed |-> message.hex,
      length |-> IF message.hex THEN message.length \div 2
                                ELSE message.length ]

\* A key is usable when it has one of the two lengths of a curve point.
coercible(publicKey) ==
    publicKey.length \in {COMPRESSED_PUBKEY_LENGTH, UNCOMPRESSED_PUBKEY_LENGTH}

\* Authenticated encryption: only the key a box was closed with opens it.
aesGcmEncrypt(key, plaintext) == [key |-> key, plaintext |-> plaintext]

aesGcmDecrypt(key, box) ==
    IF box.key = key THEN box.plaintext ELSE Failure

(* -------------------------------- padding ------------------------------ *)

\* Mutant of chooseBucket: the budget does not bound the bucket.
smallestBucket(framedLen, maxPadded) ==
    LET fitting == {b \in PAD_BUCKETS : framedLen <= b}
    IN  IF framedLen > maxPadded THEN framedLen
        ELSE CHOOSE b \in fitting : \A other \in fitting : b <= other

chooseBucket(framedLen, maxPadded) ==
    LET fitting == {b \in PAD_BUCKETS : framedLen <= b /\ b <= maxPadded}
    IN  IF framedLen > maxPadded THEN framedLen
        ELSE IF fitting = {} THEN maxPadded
        ELSE CHOOSE b \in fitting : \A other \in fitting : b <= other

padPlaintext(bytes, maxPadded) ==
    [ framed |-> bytes,
      length |-> chooseBucket(PAD_HEADER_LENGTH + bytes.length, maxPadded) ]

\* A frame whose length field points past its end is not a frame.
unpadPlaintext(padded) ==
    IF PAD_HEADER_LENGTH + padded.framed.length <= padded.length
        THEN padded.framed
        ELSE padded

(* ------------------------- v2: hybrid envelopes ------------------------ *)

hybridOverhead(recipientCount) ==
    1 + 2 + COMPRESSED_PUBKEY_LENGTH + IV_LENGTH + 4 + TAG_LENGTH
      + recipientCount * HYBRID_WRAP_LENGTH

maxFramedPlaintext(recipientCount, cap) ==
    LET budget == cap - hybridOverhead(recipientCount)
    IN  IF budget < 0 THEN 0 ELSE budget

maxInlineMessageBytes(recipientCount, cap) ==
    LET budget == maxFramedPlaintext(recipientCount, cap) - PAD_HEADER_LENGTH
    IN  IF budget < 0 THEN 0 ELSE budget

\* Both encryptions refuse an empty list, one whose length the count field
\* cannot hold, and a key of the wrong length.
Encryptable(publicKeys) ==
    /\ Len(publicKeys) \in 1 .. MAX_RECIPIENT_COUNT
    /\ \A i \in DOMAIN publicKeys : coercible(publicKeys[i])

\* One content key, wrapped for each recipient in order.  The ephemeral key
\* shared by the wraps is fresh in each envelope and left out.
encryptHybrid(message, publicKeys, cap) ==
    LET n       == Len(publicKeys)
        padded  == padPlaintext(coerceBytes(message), maxFramedPlaintext(n, cap))
    IN  [ version |-> HYBRID_VERSION,
          content |-> aesGcmEncrypt("contentKey", padded),
          wraps   |-> [i \in 1 .. n |->
                           aesGcmEncrypt(publicKeys[i], "contentKey")],
          length  |-> hybridOverhead(n) + padded.length ]

\* Indices count from zero, as in the recipient array of the contracts.
decryptHybridAt(privateKey, envelope, index) ==
    IF \/ envelope.version # HYBRID_VERSION
       \/ index \notin 0 .. Len(envelope.wraps) - 1
        THEN Failure
        ELSE LET contentKey ==
                     aesGcmDecrypt(privateKey, envelope.wraps[index + 1])
             IN  IF contentKey = Failure THEN Failure
                 ELSE unpadPlaintext(aesGcmDecrypt(contentKey, envelope.content))

(* ----------------------------- v1: bundles ----------------------------- *)

encryptBlob(publicKey, message) ==
    LET plaintext == coerceBytes(message)
    IN  [ box    |-> aesGcmEncrypt(publicKey, plaintext),
          length |-> UNCOMPRESSED_PUBKEY_LENGTH + IV_LENGTH + TAG_LENGTH
                         + plaintext.length ]

decryptBlob(privateKey, blob) == aesGcmDecrypt(privateKey, blob.box)

\* Version and count take three bytes, and the length field of a blob four.
encryptBundle(message, publicKeys) ==
    LET blobs == [i \in DOMAIN publicKeys |-> encryptBlob(publicKeys[i], message)]
    IN  [ version |-> BUNDLE_VERSION,
          blobs   |-> blobs,
          length  |-> 3 + Len(blobs) * (4 + blobs[1].length) ]

decryptBundleAt(bundle, privateKey, index) ==
    IF \/ bundle.version # BUNDLE_VERSION
       \/ index \notin 0 .. Len(bundle.blobs) - 1
        THEN Failure
        ELSE decryptBlob(privateKey, bundle.blobs[index + 1])

\* The first byte of a payload tells its reader which format it has.
looksLikeHybrid(payload) == payload.version = HYBRID_VERSION

decryptAt(privateKey, payload, index) ==
    IF looksLikeHybrid(payload)
        THEN decryptHybridAt(privateKey, payload, index)
        ELSE decryptBundleAt(payload, privateKey, index)
===============================================================================
