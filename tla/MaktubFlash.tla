----------------------------- MODULE MaktubFlash -----------------------------
(***************************************************************************)
(* MaktubFlash, the contract that delivers a message at once, and the two  *)
(* registries of recipients' keys: RecipientRegistry, which takes any      *)
(* bytes for a key, and RecipientRegistryV2, whose ratchet key makes an    *)
(* account eligible for a flash.                                           *)
(*                                                                         *)
(* An action whose first parameter is an account is a transaction of that  *)
(* account.  MaktubClient composes them into a next-state relation.        *)
(***************************************************************************)
EXTENDS Integers, Sequences, FiniteSets

CONSTANTS Recipient,            \* accounts that register keys
          perRecipientFee,
          MAX_RECIPIENTS, MAX_PAYLOAD_BYTES

ASSUME FlashAssumption ==
    /\ perRecipientFee \in Nat \ {0}
    /\ MAX_RECIPIENTS \in Nat \ {0}
    /\ MAX_PAYLOAD_BYTES \in Nat

VARIABLES prePublicKey,         \* RecipientRegistry: account -> key
          encPubKey,            \* RecipientRegistryV2: account -> key
          ratchetPubKey,        \* RecipientRegistryV2: account -> key
          flashes,              \* the records; flashCount is their number
          sentFlashes,          \* numbers of the flashes of the one sender
          receivedFlashes,      \* account -> numbers of the flashes it got
          feesReceived          \* what feeReceiver has been paid

v2Vars    == <<encPubKey, ratchetPubKey>>
flashLog  == <<flashes, sentFlashes, receivedFlashes, feesReceived>>
flashVars == <<prePublicKey, v2Vars, flashLog>>

\* A key is one of the pairs its account has made, or bytes that are no
\* point: none at all, or 64 random ones.
PublicKey(account, n) == [of |-> account, number |-> n, length |-> 33]
NoKey                 == [of |-> "nobody", number |-> 0, length |-> 0]
RandomBytes           == [of |-> "nobody", number |-> 0, length |-> 64]

\* Some accounts have registered before, in both registries.
FlashInit(registered) ==
    LET keys == [r \in Recipient |-> IF r \in registered THEN PublicKey(r, 1)
                                                         ELSE NoKey]
    IN  /\ prePublicKey = keys /\ encPubKey = keys /\ ratchetPubKey = keys
        /\ flashes = <<>> /\ sentFlashes = <<>>
        /\ receivedFlashes = [r \in Recipient |-> <<>>]
        /\ feesReceived = 0

(* -------------------------- RecipientRegistry -------------------------- *)

isRegistered(account) == prePublicKey[account] # NoKey

\* register() and updatePrePublicKey() accept any key that is not empty.
Publish(account, key) ==
    /\ key.length > 0
    /\ prePublicKey' = [prePublicKey EXCEPT ![account] = key]
    /\ UNCHANGED <<v2Vars, flashLog>>

(* ------------------------- RecipientRegistryV2 ------------------------- *)

isRegisteredV2(account)  == encPubKey[account] # NoKey
isFlashEligible(account) == ratchetPubKey[account] # NoKey

ValidKey(key) == key.length \in {33, 65}

\* An empty ratchet key registers for heartbeats only.
RegisterV2(account, encKey, ratchetKey) ==
    /\ ~isRegisteredV2(account)
    /\ ValidKey(encKey)
    /\ ratchetKey # NoKey => ValidKey(ratchetKey)
    /\ encPubKey' = [encPubKey EXCEPT ![account] = encKey]
    /\ ratchetPubKey' = [ratchetPubKey EXCEPT ![account] = ratchetKey]
    /\ UNCHANGED <<prePublicKey, flashLog>>

\* A key opts in or replaces the key there was, and no key opts out.
SetRatchetPubKey(account, key) ==
    /\ isRegisteredV2(account)
    /\ key # NoKey => ValidKey(key)
    /\ ratchetPubKey' = [ratchetPubKey EXCEPT ![account] = key]
    /\ UNCHANGED <<prePublicKey, encPubKey, flashLog>>

(* ----------------------------- MaktubFlash ----------------------------- *)

flashFeeFor(recipientCount) == recipientCount * perRecipientFee

NoDuplicates(recipients) ==
    \A i, j \in DOMAIN recipients : recipients[i] = recipients[j] => i = j

\* Mutant of FlashAllowed: a recipient may be named twice.
FlashAllowedTwice(recipients, length, value) ==
    /\ Len(recipients) \in 1 .. MAX_RECIPIENTS
    /\ length \in 1 .. MAX_PAYLOAD_BYTES
    /\ value = flashFeeFor(Len(recipients))
    /\ \A i \in DOMAIN recipients : isFlashEligible(recipients[i])

\* What flash() demands of its arguments; the fee it demands is exact.
FlashAllowed(recipients, length, value) ==
    /\ Len(recipients) \in 1 .. MAX_RECIPIENTS
    /\ length \in 1 .. MAX_PAYLOAD_BYTES
    /\ value = flashFeeFor(Len(recipients))
    /\ \A i \in DOMAIN recipients : isFlashEligible(recipients[i])
    /\ NoDuplicates(recipients)

\* The record and both indexes are written before the fee is sent, and a
\* receiver that refuses the fee reverts them: FlashAllowed and the receiver's
\* consent are together the guard of the whole call.
Flash(recipients, length, value, record) ==
    LET id == Len(flashes)
    IN  /\ FlashAllowed(recipients, length, value)
        /\ flashes' = Append(flashes, record)
        /\ sentFlashes' = Append(sentFlashes, id)
        /\ receivedFlashes' =
               [r \in Recipient |->
                   receivedFlashes[r] \o
                       [k \in 1 .. Cardinality({i \in DOMAIN recipients :
                                                   recipients[i] = r}) |-> id]]
        /\ feesReceived' = feesReceived + value
        /\ UNCHANGED <<prePublicKey, v2Vars>>

\* Of every transaction that reverts.
FlashUnchanged == UNCHANGED flashVars

\* Each flash is once in the sender's index and once in the index of each of
\* its recipients, in the order of sending, the indexes hold nothing else, and
\* the receiver has been paid for every recipient: also when a fee was
\* refused, an account opted out between reading and mining, or a call was
\* made again because the outcome of the first one was not known.
FlashLedgerExact ==
    LET ids      == 0 .. Len(flashes) - 1
        ForRecipient(r) ==
            {id \in ids : \E i \in DOMAIN flashes[id + 1].recipients :
                              flashes[id + 1].recipients[i] = r}
        Listed(index, these) ==
            /\ {index[k] : k \in DOMAIN index} = these
            /\ \A k \in 1 .. Len(index) - 1 : index[k] < index[k + 1]
    IN  /\ Listed(sentFlashes, ids)
        /\ \A r \in Recipient : Listed(receivedFlashes[r], ForRecipient(r))
        /\ feesReceived =
               perRecipientFee *
                   Cardinality({paid \in ids \X (1 .. MAX_RECIPIENTS) :
                                    paid[2] <= Len(flashes[paid[1] + 1].recipients)})
===============================================================================
