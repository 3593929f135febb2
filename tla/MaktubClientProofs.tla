-------------------------- MODULE MaktubClientProofs --------------------------
(***************************************************************************)
(* What holds of the SDK's client, its letters and flashes, the keys of    *)
(* the recipients and the reader of a gated letter, for every number of    *)
(* calls, every set of letters and accounts and every bound.  The          *)
(* argument: from its sending on nothing changes a call's letter or keys   *)
(* any more, so that what is on chain stays the payload of the call that   *)
(* put it there; the keys of a payload were made by the accounts they seal *)
(* it to, in the order of the list; and the queue of nonces holds every    *)
(* pending call once, so that each is mined once.                          *)
(***************************************************************************)
EXTENDS MaktubClient, FunctionSums, FunctionTheorems, SequenceTheorems

Key == [of : Recipient \cup {"nobody"}, number : Nat, length : Nat]

\* What the registries may hold for r, and what r's device may.
KeysOf(r) ==
    {NoKey, RandomBytes} \cup {PublicKey(r, n) : n \in 1 .. made[r]}

KeysInv ==
    /\ made \in [Recipient -> Nat]
    /\ keyFile \in [Recipient -> Key]
    /\ prePublicKey \in [Recipient -> Key]
    /\ encPubKey \in [Recipient -> Key]
    /\ ratchetPubKey \in [Recipient -> Key]
    /\ \A r \in Recipient :
          /\ keyFile[r] # NoKey => made[r] >= 1 /\ keyFile[r] = PublicKey(r, made[r])
          /\ prePublicKey[r] \in KeysOf(r)
          /\ encPubKey[r] \in KeysOf(r)
          /\ ratchetPubKey[r] \in KeysOf(r)

Stage == {"init", "keys", "send", "wait", "done", "threw"}

CallRecord ==
    [at : Stage, letter : Letter, salt : Call, keys : Seq(Key), result : Int]

\* The i-th key is one of the i-th recipient.
KeysMatch(call) ==
    /\ Len(call.keys) <= Len(call.letter.recipients)
    /\ \A i \in 1 .. Len(call.keys) : call.keys[i] \in KeysOf(call.letter.recipients[i])

AllKeysRead(call) == Len(call.keys) = Len(call.letter.recipients)

CallInv(c) ==
    /\ At(c, "idle") => calls[c] = NoCall /\ tx[c] = "none"
    /\ ~At(c, "idle") =>
          /\ calls[c] \in CallRecord
          /\ KeysMatch(calls[c])
          /\ calls[c].at \in {"init", "keys"} => ~AllKeysRead(calls[c])
          /\ calls[c].at \in {"send", "wait", "done"} => AllKeysRead(calls[c])
          /\ calls[c].at \in {"wait", "done"} => tx[c] # "none"
    /\ tx[c] # "none" =>
          /\ calls[c].at \in {"wait", "done", "threw"}
          /\ AllKeysRead(calls[c])
          /\ Encryptable(calls[c].keys)

CallsInv ==
    /\ inited \in BOOLEAN /\ probing \in BOOLEAN
    /\ inited => ~probing
    /\ probing <=> \E c \in Call : At(c, "init")
    /\ calls \in [Call -> {NoCall} \cup CallRecord]
    /\ \A c \in Call : CallInv(c)

QueueInv ==
    /\ tx \in [Call -> {"none", "pending", "mined", "reverted"}]
    /\ queue \in Seq(Call)
    /\ \A i, j \in 1 .. Len(queue) : queue[i] = queue[j] => i = j
    /\ \A c \in Call : tx[c] = "pending" <=> \E k \in 1 .. Len(queue) : queue[k] = c

\* What a call puts on chain.
BeatsOf(c) ==
    [ status     : {"active", "executed", "deactivated"},
      call       : {c},
      recipients : Seq(Recipient),
      payload    : {Payload(c)},
      updated    : BOOLEAN ]

FlashOf(c) ==
    [ call |-> c, recipients |-> calls[c].letter.recipients, payload |-> Payload(c) ]

MinedCalls == {c \in Call : tx[c] = "mined"}

RecordsInv ==
    /\ DOMAIN beats = Call
    /\ \A id \in Call : beats[id] = NoBeat \/ \E c \in MinedCalls : beats[id] \in BeatsOf(c)
    /\ flashes \in Seq({FlashOf(c) : c \in MinedCalls})

\* id is the number of what c put on chain.
CreatedBy(id, c) ==
    IF calls[c].letter.kind = "flash"
        THEN id + 1 \in 1 .. Len(flashes) /\ flashes[id + 1].call = c
        ELSE /\ id = calls[c].salt
             /\ beats[id].status # "none" /\ beats[id].call = c

OutcomeInv ==
    \A c \in Call :
        /\ tx[c] = "mined" => \E id \in Nat : CreatedBy(id, c)
        /\ At(c, "done") => CreatedBy(calls[c].result, c)

Plaintexts == {coerceBytes(letter.message) : letter \in Letter}

OpenerRecord ==
    [ at    : {"polling", "opened", "threw"}, id : Call, index : Int, key : Key,
      rounds : Int, got : {Failure} \cup Plaintexts ]

OpenerInv ==
    \/ opener = NoReader
    \/ /\ opener \in OpenerRecord
       /\ beats[opener.id].status # "none"
       /\ looksLikeHybrid(beats[opener.id].payload)
       /\ VeilNeverEarly

LedgerInv ==
    /\ sentFlashes \in Seq(Nat)
    /\ receivedFlashes \in [Recipient -> Seq(Nat)]
    /\ FlashLedgerExact

BoundsInv == faults \in 0 .. MaxFaults /\ moves \in 0 .. MaxMoves

IInv ==
    /\ KeysInv /\ CallsInv /\ QueueInv /\ RecordsInv /\ OutcomeInv
    /\ OpenerInv /\ LedgerInv /\ BoundsInv

LEMMA CallsAreNumbers == Cardinality(Call) \in Nat /\ Call \subseteq Nat /\ IsFiniteSet(Call)
BY ClientAssumption, FS_CardinalityType

\* A letter, from what a client may be given.
LEMMA LetterTypes ==
    ASSUME NEW letter \in Letter
    PROVE  /\ letter.kind \in {"bundle", "veil", "flash", "script"}
           /\ letter.recipients \in Seq(Recipient) /\ Len(letter.recipients) \in Nat \ {0}
           /\ letter.message.hex \in BOOLEAN /\ letter.message.length \in Nat
<1>1. /\ letter.kind \in {"bundle", "veil", "flash", "script"}
      /\ letter.recipients \in Seq(Recipient) /\ letter.recipients # <<>>
      /\ letter.message.hex \in BOOLEAN /\ letter.message.length \in Nat
  BY ClientAssumption
<1> QED
  BY <1>1

LEMMA CallTypes ==
    ASSUME CallsInv, NEW c \in Call, ~At(c, "idle")
    PROVE  /\ calls[c] \in CallRecord /\ calls[c].letter \in Letter
           /\ calls[c].keys \in Seq(Key) /\ Len(calls[c].keys) \in Nat
           /\ calls[c].letter.recipients \in Seq(Recipient)
           /\ Len(calls[c].letter.recipients) \in Nat \ {0}
<1>1. calls[c] \in CallRecord
  BY DEF CallsInv, CallInv
<1>2. calls[c].letter \in Letter /\ calls[c].keys \in Seq(Key)
  BY <1>1 DEF CallRecord
<1> QED
  BY <1>1, <1>2, LetterTypes

------------------------------------------------------------------------------
(***************************************************************************)
(* What the keys are.                                                      *)
(***************************************************************************)
LEMMA KeysAreKeys ==
    ASSUME KeysInv, NEW r \in Recipient
    PROVE  /\ KeysOf(r) \subseteq Key /\ NoKey \in KeysOf(r) /\ RandomBytes \in KeysOf(r)
           /\ keyFile[r] \in KeysOf(r)
BY DEF KeysInv, KeysOf, Key, NoKey, RandomBytes, PublicKey

KeysUnchanged == UNCHANGED <<ownVars, prePublicKey, v2Vars>>

LEMMA KeysKept ==
    ASSUME KeysInv, KeysUnchanged
    PROVE  KeysInv' /\ \A r \in Recipient : KeysOf(r)' = KeysOf(r)
BY DEF KeysInv, KeysUnchanged, KeysOf, ownVars, v2Vars

\* An account adds to the keys it has made and forgets none of them.
KeysGrow == \A r \in Recipient : KeysOf(r) \subseteq KeysOf(r)'

LEMMA RecipientKeys ==
    ASSUME KeysInv, RecipientNext
    PROVE  KeysInv' /\ KeysGrow
<1>1. PICK r \in Recipient :
          \/ LoadKey(r) \/ LoseDevice(r) \/ PublishKey(r) \/ PublishDummy(r)
          \/ OptIn(r)
          \/ \E key \in {keyFile[r], NoKey} : SetFlash(r, key)
  BY DEF RecipientNext
<1>2. CASE LoadKey(r)
  <2>1. /\ made' = [made EXCEPT ![r] = @ + 1]
        /\ keyFile' = [keyFile EXCEPT ![r] = PublicKey(r, made[r] + 1)]
        /\ UNCHANGED <<prePublicKey, encPubKey, ratchetPubKey>>
    BY <1>2 DEF LoadKey, flashVars, v2Vars
  <2>2. PublicKey(r, made[r] + 1) \in Key
    BY DEF KeysInv, PublicKey, Key
  <2>3. KeysGrow
    BY <2>1 DEF KeysInv, KeysGrow, KeysOf
  <2>4. \A a \in Recipient : keyFile'[a] # NoKey => made'[a] >= 1 /\ keyFile'[a] = PublicKey(a, made'[a])
    BY <2>1 DEF KeysInv
  <2>5. /\ made' \in [Recipient -> Nat] /\ keyFile' \in [Recipient -> Key]
    BY <2>1, <2>2 DEF KeysInv
  <2> QED
    BY <2>1, <2>3, <2>4, <2>5 DEF KeysInv, KeysGrow
<1>3. CASE LoseDevice(r)
  BY <1>3, KeysAreKeys DEF LoseDevice, flashVars, v2Vars, KeysInv, KeysGrow, KeysOf
<1>4. CASE PublishKey(r) \/ PublishDummy(r)
  <2>1. PICK key \in KeysOf(r) : prePublicKey' = [prePublicKey EXCEPT ![r] = key]
    BY <1>4, KeysAreKeys DEF PublishKey, PublishDummy, Publish
  <2>2. UNCHANGED <<made, keyFile, encPubKey, ratchetPubKey>>
    BY <1>4 DEF PublishKey, PublishDummy, Publish, ownVars, v2Vars
  <2> QED
    BY <2>1, <2>2, KeysAreKeys DEF KeysInv, KeysGrow, KeysOf
<1>5. CASE OptIn(r)
  <2>1. /\ encPubKey' = [encPubKey EXCEPT ![r] = keyFile[r]]
        /\ ratchetPubKey' = [ratchetPubKey EXCEPT ![r] = keyFile[r]]
        /\ UNCHANGED <<made, keyFile, prePublicKey>>
    BY <1>5 DEF OptIn, RegisterV2, ownVars
  <2> QED
    BY <2>1, KeysAreKeys DEF KeysInv, KeysGrow, KeysOf
<1>6. CASE \E key \in {keyFile[r], NoKey} : SetFlash(r, key)
  <2>1. PICK key \in KeysOf(r) : ratchetPubKey' = [ratchetPubKey EXCEPT ![r] = key]
    BY <1>6, KeysAreKeys DEF SetFlash, SetRatchetPubKey
  <2>2. UNCHANGED <<made, keyFile, prePublicKey, encPubKey>>
    BY <1>6 DEF SetFlash, SetRatchetPubKey, ownVars
  <2> QED
    BY <2>1, <2>2, KeysAreKeys DEF KeysInv, KeysGrow, KeysOf
<1> QED
  BY <1>1, <1>2, <1>3, <1>4, <1>5, <1>6

------------------------------------------------------------------------------
(***************************************************************************)
(* The calls of the client.                                                *)
(***************************************************************************)
LEMMA KeysStillMatch ==
    ASSUME KeysGrow, NEW call, call.letter.recipients \in Seq(Recipient),
           Len(call.keys) \in Nat, KeysMatch(call)
    PROVE  KeysMatch(call)'
<1>1. \A i \in 1 .. Len(call.keys) : call.letter.recipients[i] \in Recipient
  BY DEF KeysMatch
<1> QED
  BY <1>1 DEF KeysMatch, KeysGrow

LEMMA CallKept ==
    ASSUME CallsInv, KeysGrow, NEW c \in Call,
           calls'[c] = calls[c], (tx'[c] = "none") <=> (tx[c] = "none")
    PROVE  CallInv(c)'
<1>1. CASE At(c, "idle")
  BY <1>1 DEF CallsInv, CallInv, At
<1>2. CASE ~At(c, "idle")
  <2> DEFINE call == calls[c]
  <2>1. KeysMatch(call)'
    <3>1. KeysMatch(calls[c]) /\ calls[c].letter.recipients \in Seq(Recipient)
          /\ Len(calls[c].keys) \in Nat
      BY <1>2, CallTypes DEF CallsInv, CallInv
    <3>2. PICK it : it = calls[c]
      OBVIOUS
    <3>3. KeysMatch(it)'
      BY <3>1, <3>2, KeysStillMatch
    <3> QED
      BY <3>2, <3>3 DEF KeysMatch
  <2>2. KeysMatch(calls[c])'
    BY <2>1 DEF KeysMatch
  <2> QED
    BY <1>2, <2>2 DEF CallsInv, CallInv, At, AllKeysRead, CallRecord, NoCall
<1> QED
  BY <1>1, <1>2

\* A step of one call, which is not waiting for the initialization.
LEMMA OneCallChanges ==
    ASSUME CallsInv, KeysGrow, NEW c \in Call, NEW call \in CallRecord, ~At(c, "init"),
           calls' = [calls EXCEPT ![c] = call],
           UNCHANGED inited, call.at = "init" => ~inited,
           probing' = (probing \/ call.at = "init"),
           \A d \in Call \ {c} : tx'[d] = tx[d],
           CallInv(c)'
    PROVE  CallsInv'
<1>1. calls' \in [Call -> {NoCall} \cup CallRecord]
  BY DEF CallsInv
<1>2. calls'[c] = call /\ \A d \in Call \ {c} : calls'[d] = calls[d]
  BY DEF CallsInv
<1>3. \A d \in Call : CallInv(d)'
  <2> TAKE d \in Call
  <2>1. CASE d = c
    BY <2>1
  <2>2. CASE d # c
    <3>1. calls'[d] = calls[d] /\ tx'[d] = tx[d]
      BY <1>2, <2>2
    <3> QED
      BY <3>1, CallKept
  <2> QED
    BY <2>1, <2>2
<1>4. (\E d \in Call : At(d, "init"))' <=> probing'
  BY <1>2 DEF CallsInv, At
<1>5. inited' \in BOOLEAN /\ probing' \in BOOLEAN /\ (inited' => ~probing')
  BY DEF CallsInv
<1> QED
  BY <1>1, <1>3, <1>4, <1>5 DEF CallsInv, CallRecord, NoCall

\* What a step leaves alone that only the calls' own steps change.
Elsewhere == UNCHANGED <<flashVars, chainVars, ownVars, opener>>

\* A call that has sent keeps what it sent, and no call finds its outcome.
Quiet(c) ==
    \/ calls'[c] = calls[c]
    \/ /\ calls'[c].at # "done"
       /\ tx[c] # "none" => /\ calls'[c].letter = calls[c].letter
                            /\ calls'[c].salt = calls[c].salt
                            /\ calls'[c].keys = calls[c].keys

QuietCalls == \A c \in Call : Quiet(c)

LEMMA NothingGrows ==
    ASSUME KeysInv, UNCHANGED <<flashVars, ownVars>>
    PROVE  KeysUnchanged /\ KeysGrow
BY KeysKept DEF KeysGrow, KeysUnchanged, flashVars

LEMMA FreshCalls ==
    ASSUME KeysInv, CallsInv, UNCHANGED <<flashVars, ownVars, tx, inited>>,
           NEW c \in Call, NEW letter \in Letter, NEW salt \in Call,
           NEW stage \in {"init", "keys"},
           Fresh(c, letter, salt, stage), stage = "init" => ~inited,
           probing' = (probing \/ stage = "init")
    PROVE  CallsInv' /\ QuietCalls
<1> DEFINE call == [ at |-> stage, letter |-> letter, salt |-> salt,
                     keys |-> <<>>, result |-> -1 ]
<1>1. calls' = [calls EXCEPT ![c] = call] /\ At(c, "idle")
  BY DEF Fresh
<1>2. call \in CallRecord
  BY DEF CallRecord, Stage
<1>3. calls'[c] = call /\ tx'[c] = "none"
  BY <1>1 DEF CallsInv, CallInv
<1>4. KeysMatch(calls[c])' /\ ~AllKeysRead(calls[c])'
  BY <1>3, LetterTypes DEF KeysMatch, AllKeysRead
<1>5. CallInv(c)'
  BY <1>2, <1>3, <1>4 DEF CallInv, At, CallRecord
<1>6. ~At(c, "init") /\ KeysGrow /\ (call.at = "init" => ~inited)
      /\ probing' = (probing \/ call.at = "init")
      /\ \A d \in Call \ {c} : tx'[d] = tx[d]
  BY <1>1, NothingGrows DEF At
<1>7. QuietCalls
  BY <1>1, <1>3 DEF QuietCalls, Quiet, CallsInv
<1> HIDE DEF call
<1> QED
  BY <1>1, <1>2, <1>5, <1>6, <1>7, OneCallChanges

LEMMA BeginCalls ==
    ASSUME KeysInv, CallsInv, NEW c \in Call, NEW letter \in Letter,
           \/ \E salt \in 1 .. c : Begin(c, letter, salt)
           \/ BeginScript(c, letter)
    PROVE  CallsInv' /\ QuietCalls /\ Elsewhere
<1>1. CASE BeginScript(c, letter)
  <2>1. /\ Fresh(c, letter, c, "keys") /\ UNCHANGED <<flashVars, ownVars, tx, inited, probing>>
        /\ Elsewhere
    BY <1>1 DEF BeginScript, chainVars, Elsewhere
  <2>2. probing' = (probing \/ "keys" = "init")
    BY <2>1 DEF CallsInv
  <2> QED
    BY <2>1, <2>2, FreshCalls
<1>2. CASE \E salt \in 1 .. c : Begin(c, letter, salt)
  <2>1. PICK salt \in 1 .. c : Begin(c, letter, salt)
    BY <1>2
  <2>2. salt \in Call
    BY ClientAssumption, CallsAreNumbers
  <2> DEFINE stage == IF inited THEN "keys" ELSE "init"
  <2>3. /\ Fresh(c, letter, salt, stage) /\ probing' = ~inited
        /\ UNCHANGED <<flashVars, ownVars, tx, inited>> /\ Elsewhere
    BY <2>1 DEF Begin, chainVars, Elsewhere
  <2>4. /\ stage \in {"init", "keys"} /\ (stage = "init" => ~inited)
        /\ probing' = (probing \/ stage = "init")
    BY <2>3 DEF CallsInv
  <2> HIDE DEF stage
  <2> QED
    BY <2>2, <2>3, <2>4, FreshCalls
<1> QED
  BY <1>1, <1>2

\* The initialization has ended, and those that waited for it go on or throw.
LEMMA ProbeCalls ==
    ASSUME KeysInv, CallsInv, ProbeReturns \/ ProbeFails
    PROVE  CallsInv' /\ QuietCalls /\ Elsewhere
<1>1. PICK stage \in {"keys", "threw"} : AllWaiting(stage)
  BY DEF ProbeReturns, ProbeFails
<1>2. Elsewhere /\ probing' = FALSE /\ inited' \in BOOLEAN
  BY DEF ProbeReturns, ProbeFails, Elsewhere, CallsInv
<1>3. \A c \in Call : calls'[c] = IF At(c, "init") THEN [calls[c] EXCEPT !.at = stage]
                                                  ELSE calls[c]
  BY <1>1 DEF AllWaiting
<1>4. KeysGrow /\ UNCHANGED tx
  BY <1>2, NothingGrows DEF Elsewhere, chainVars
<1>5. ASSUME NEW c \in Call
      PROVE  CallInv(c)' /\ ~At(c, "init")' /\ calls'[c] \in {NoCall} \cup CallRecord
  <2>1. CASE ~At(c, "init")
    <3>1. calls'[c] = calls[c] /\ tx'[c] = tx[c]
      BY <1>3, <1>4, <2>1
    <3>2. CallInv(c)'
      BY <1>4, <3>1, CallKept
    <3> QED
      BY <2>1, <3>1, <3>2 DEF At, CallsInv
  <2>2. CASE At(c, "init")
    <3>1. calls[c] \in CallRecord /\ calls[c].letter.recipients \in Seq(Recipient)
          /\ Len(calls[c].keys) \in Nat
      BY <2>2, CallTypes DEF At
    <3>2. /\ calls'[c] = [calls[c] EXCEPT !.at = stage] /\ tx'[c] = tx[c]
          /\ calls'[c] \in CallRecord /\ calls'[c].at = stage
          /\ calls'[c].letter = calls[c].letter /\ calls'[c].keys = calls[c].keys
      BY <1>3, <1>4, <2>2, <3>1 DEF CallRecord, Stage
    <3>3. KeysMatch(calls[c]) /\ ~AllKeysRead(calls[c]) /\ tx[c] = "none"
      BY <2>2 DEF CallsInv, CallInv, At
    <3>4. KeysMatch(calls[c])'
      <4>1. PICK it : it = calls[c]
        OBVIOUS
      <4>2. KeysMatch(it)'
        BY <1>4, <3>1, <3>3, <4>1, KeysStillMatch
      <4> QED
        BY <3>2, <4>1, <4>2 DEF KeysMatch
    <3>5. ~AllKeysRead(calls[c])'
      BY <3>2, <3>3 DEF AllKeysRead
    <3>6. CallInv(c)'
      BY <3>2, <3>3, <3>4, <3>5 DEF CallInv, At, CallRecord
    <3> QED
      BY <3>2, <3>6 DEF At
  <2> QED
    BY <2>1, <2>2
<1>6. calls' \in [Call -> {NoCall} \cup CallRecord]
  BY <1>1, <1>5 DEF AllWaiting
<1>7. QuietCalls
  BY <1>1, <1>3 DEF QuietCalls, Quiet, CallsInv, CallInv, At, CallRecord
<1> QED
  BY <1>2, <1>5, <1>6, <1>7 DEF CallsInv, CallRecord, NoCall

\* A call that is under way ends, or has sent.
LEMMA StageChanges ==
    ASSUME CallsInv, KeysGrow, NEW c \in Call, calls[c].at \in {"keys", "send", "wait"},
           NEW stage \in {"wait", "done", "threw"}, NEW result \in Int,
           calls' = [calls EXCEPT ![c].at = stage, ![c].result = result],
           UNCHANGED <<inited, probing>>, \A d \in Call \ {c} : tx'[d] = tx[d],
           stage \in {"wait", "done"} => AllKeysRead(calls[c]) /\ tx'[c] # "none",
           tx'[c] # "none" => AllKeysRead(calls[c]) /\ Encryptable(calls[c].keys)
    PROVE  CallsInv' /\ (stage # "done" => QuietCalls)
<1> DEFINE call == [calls[c] EXCEPT !.at = stage, !.result = result]
<1>1. ~At(c, "idle") /\ ~At(c, "init") /\ calls[c] \in CallRecord
  BY CallTypes DEF At
<1>2. /\ call \in CallRecord /\ call.at = stage /\ call.letter = calls[c].letter
      /\ call.salt = calls[c].salt /\ call.keys = calls[c].keys
  BY <1>1 DEF CallRecord, Stage
<1>3. calls' = [calls EXCEPT ![c] = call]
  BY <1>1 DEF CallsInv
<1>4. calls'[c] = call
  BY <1>3 DEF CallsInv
<1>5. KeysMatch(calls[c])'
  <2>1. KeysMatch(calls[c]) /\ calls[c].letter.recipients \in Seq(Recipient)
        /\ Len(calls[c].keys) \in Nat
    BY <1>1, CallTypes DEF CallsInv, CallInv
  <2>2. PICK it : it = calls[c]
    OBVIOUS
  <2>3. KeysMatch(it)'
    BY <2>1, <2>2, KeysStillMatch
  <2> QED
    BY <1>2, <1>4, <2>2, <2>3 DEF KeysMatch
<1>6. AllKeysRead(calls[c])' <=> AllKeysRead(calls[c])
  BY <1>2, <1>4 DEF AllKeysRead
<1>7. CallInv(c)'
  BY <1>2, <1>4, <1>5, <1>6 DEF CallInv, At, CallRecord
<1>8. QuietCalls \/ stage = "done"
  BY <1>2, <1>3, <1>4 DEF QuietCalls, Quiet, CallsInv
<1>9. (call.at = "init" => ~inited) /\ probing' = (probing \/ call.at = "init")
  BY <1>2 DEF CallsInv
<1> HIDE DEF call
<1> QED
  BY <1>1, <1>2, <1>3, <1>7, <1>8, <1>9, OneCallChanges

\* One that goes somewhere keeps its result.
LEMMA Goes ==
    ASSUME CallsInv, NEW c \in Call, ~At(c, "idle"), NEW stage, Goto(c, stage)
    PROVE  \E result \in Int : calls' = [calls EXCEPT ![c].at = stage, ![c].result = result]
<1>1. calls[c] \in CallRecord
  BY CallTypes
<1>2. calls[c].result \in Int
      /\ [calls[c] EXCEPT !.at = stage]
           = [calls[c] EXCEPT !.at = stage, !.result = calls[c].result]
  BY <1>1 DEF CallRecord
<1>3. calls' = [calls EXCEPT ![c].at = stage, ![c].result = calls[c].result]
  BY <1>2 DEF Goto, CallsInv
<1> QED
  BY <1>2, <1>3

LEMMA ThrowCalls ==
    ASSUME KeysInv, CallsInv, NEW c \in Call,
           SendRefused(c) \/ CallFails(c) \/ WaitFails(c)
    PROVE  CallsInv' /\ QuietCalls /\ Elsewhere
<1>1. /\ calls[c].at \in {"keys", "send", "wait"} /\ Goto(c, "threw")
      /\ UNCHANGED <<inited, probing>> /\ Elsewhere /\ UNCHANGED tx
  BY DEF SendRefused, CallFails, WaitFails, At, Elsewhere, chainVars
<1>2. KeysGrow /\ ~At(c, "idle")
  BY <1>1, NothingGrows DEF Elsewhere, At
<1>3. PICK result \in Int : calls' = [calls EXCEPT ![c].at = "threw", ![c].result = result]
  BY <1>1, <1>2, Goes
<1>4. tx'[c] # "none" => AllKeysRead(calls[c]) /\ Encryptable(calls[c].keys)
  BY <1>1 DEF CallsInv, CallInv
<1>5. CallsInv' /\ ("threw" # "done" => QuietCalls)
  BY <1>1, <1>2, <1>3, <1>4, StageChanges
<1> QED
  BY <1>1, <1>5

\* The key a call reads is one of the recipient whose turn it is.
LEMMA ReadKeyCalls ==
    ASSUME KeysInv, CallsInv, NEW c \in Call, ReadKey(c)
    PROVE  CallsInv' /\ QuietCalls /\ Elsewhere
<1> DEFINE letter == calls[c].letter
           n == Len(calls[c].keys)
           key == SealingKey(letter.kind, NextRecipient(c))
           all == Append(calls[c].keys, key)
           stage == IF key = NoKey THEN "threw"
                    ELSE IF Len(all) = Len(letter.recipients) THEN "send" ELSE "keys"
           call == [calls[c] EXCEPT !.keys = all, !.at = stage]
<1>1. At(c, "keys") /\ UNCHANGED <<inited, probing>> /\ Elsewhere /\ UNCHANGED tx
  BY DEF ReadKey, Elsewhere, chainVars
<1>2. calls[c] \in CallRecord /\ ~At(c, "init") /\ tx[c] = "none"
      /\ letter.recipients \in Seq(Recipient) /\ n \in Nat /\ Len(letter.recipients) \in Nat
      /\ calls[c].keys \in Seq(Key) /\ n < Len(letter.recipients)
      /\ \A i \in 1 .. n : calls[c].keys[i] \in KeysOf(letter.recipients[i])
  BY <1>1, CallTypes DEF At, CallsInv, CallInv, AllKeysRead, KeysMatch
<1>3. NextRecipient(c) = letter.recipients[n + 1] /\ NextRecipient(c) \in Recipient
  BY <1>2 DEF NextRecipient
<1>4. key \in KeysOf(NextRecipient(c)) /\ key \in Key
  BY <1>3, KeysAreKeys DEF SealingKey, KeysInv
<1>5. calls' = [calls EXCEPT ![c] = call]
  BY <1>2 DEF ReadKey, CallsInv
<1> HIDE DEF key
<1>6. /\ all \in Seq(Key) /\ Len(all) = n + 1
      /\ \A i \in 1 .. n : all[i] = calls[c].keys[i]
      /\ all[n + 1] = key
  BY <1>2, <1>4
<1> HIDE DEF all
<1>7. stage \in {"threw", "send", "keys"} /\ (stage = "send" => Len(all) = Len(letter.recipients))
      /\ (stage = "keys" => Len(all) # Len(letter.recipients))
  OBVIOUS
<1> HIDE DEF stage
<1>8. call \in CallRecord /\ call.at = stage /\ call.keys = all /\ call.letter = letter
  <2>1. calls[c] \in CallRecord /\ stage \in Stage
    BY <1>2, <1>7 DEF Stage
  <2>2. all \in Seq(Key)
    BY <1>6
  <2>3. call \in CallRecord
    BY <2>1, <2>2 DEF CallRecord
  <2>4. calls[c] \in [at : Stage, letter : Letter, salt : Call, keys : Seq(Key), result : Int]
    BY <2>1 DEF CallRecord
  <2> QED
    BY <2>3, <2>4
<1>9. calls'[c] = call /\ KeysGrow
  BY <1>1, <1>5, NothingGrows DEF CallsInv, Elsewhere
<1> HIDE DEF call
<1>10. KeysMatch(call)
  <2>1. \A i \in 1 .. n + 1 : all[i] \in KeysOf(letter.recipients[i])
    BY <1>2, <1>3, <1>4, <1>6
  <2> QED
    BY <1>2, <1>6, <1>8, <2>1 DEF KeysMatch
<1>11. PICK it : it = call
  OBVIOUS
<1>12. KeysMatch(calls[c])'
  <2>1. KeysMatch(it)'
    BY <1>2, <1>6, <1>8, <1>9, <1>10, <1>11, KeysStillMatch
  <2> QED
    BY <1>9, <1>11, <2>1 DEF KeysMatch
<1>13. CallInv(c)'
  BY <1>1, <1>2, <1>7, <1>8, <1>9, <1>12 DEF CallInv, At, AllKeysRead, CallRecord
<1>14. QuietCalls
  BY <1>2, <1>5, <1>7, <1>8, <1>9 DEF QuietCalls, Quiet, CallsInv
<1>15. (call.at = "init" => ~inited) /\ probing' = (probing \/ call.at = "init")
       /\ \A d \in Call \ {c} : tx'[d] = tx[d]
  BY <1>1, <1>7, <1>8 DEF CallsInv
<1> QED
  BY <1>1, <1>2, <1>5, <1>8, <1>9, <1>13, <1>14, <1>15, OneCallChanges

------------------------------------------------------------------------------
(***************************************************************************)
(* What is on chain, and who put it there.                                 *)
(***************************************************************************)
FrozenCalls ==
    \A c \in Call : tx[c] # "none" => /\ calls'[c].letter = calls[c].letter
                                      /\ calls'[c].salt = calls[c].salt
                                      /\ calls'[c].keys = calls[c].keys

LEMMA QuietCallsAreFrozen == QuietCalls => FrozenCalls
BY DEF QuietCalls, Quiet, FrozenCalls

\* A beat keeps its origin and its payload, and an execution is final.
BeatsGrow ==
    \A id \in Call :
        beats[id].status # "none" =>
            /\ beats'[id].status # "none"
            /\ beats'[id].call = beats[id].call /\ beats'[id].payload = beats[id].payload
            /\ beats[id].status = "executed" => beats'[id].status = "executed"

FlashesGrow ==
    \A k \in 1 .. Len(flashes) : k \in 1 .. Len(flashes)' /\ flashes'[k] = flashes[k]

LEMMA CreationIsFinal ==
    ASSUME CallsInv, FrozenCalls, BeatsGrow, FlashesGrow, NEW c \in Call, tx[c] # "none",
           NEW id \in Int, CreatedBy(id, c)
    PROVE  CreatedBy(id, c)'
<1>1. ~At(c, "idle") /\ calls[c].salt \in Call
  BY CallTypes DEF CallsInv, CallInv, At, CallRecord
<1>2. /\ calls'[c].letter = calls[c].letter /\ calls'[c].salt = calls[c].salt
  BY DEF FrozenCalls
<1>3. CASE calls[c].letter.kind = "flash"
  BY <1>2, <1>3 DEF FlashesGrow, CreatedBy
<1>4. CASE calls[c].letter.kind # "flash"
  BY <1>1, <1>2, <1>4 DEF BeatsGrow, CreatedBy
<1> QED
  BY <1>3, <1>4

LEMMA PayloadsKept ==
    ASSUME FrozenCalls, NEW c \in MinedCalls
    PROVE  /\ Payload(c)' = Payload(c) /\ BeatsOf(c)' = BeatsOf(c)
           /\ FlashOf(c)' = FlashOf(c)
<1>1. calls'[c].letter = calls[c].letter /\ calls'[c].keys = calls[c].keys
  BY DEF FrozenCalls, MinedCalls
<1>2. Payload(c)' = Payload(c)
  BY <1>1 DEF Payload
<1> QED
  BY <1>1, <1>2 DEF BeatsOf, FlashOf

LEMMA RecordsKept ==
    ASSUME RecordsInv, FrozenCalls, MinedCalls \subseteq MinedCalls',
           UNCHANGED <<beats, flashes>>
    PROVE  RecordsInv'
<1>1. {FlashOf(c) : c \in MinedCalls} \subseteq {FlashOf(c) : c \in MinedCalls}'
  BY PayloadsKept
<1>2. flashes' \in Seq({FlashOf(c) : c \in MinedCalls}')
  BY <1>1 DEF RecordsInv
<1>3. \A id \in Call : beats'[id] = NoBeat \/ \E c \in MinedCalls' : beats'[id] \in BeatsOf(c)'
  BY PayloadsKept DEF RecordsInv
<1> QED
  BY <1>2, <1>3 DEF RecordsInv, NoBeat

\* What is read off a beat.
LEMMA BeatTypes ==
    ASSUME RecordsInv, NEW id \in Call, beats[id].status # "none"
    PROVE  \E c \in MinedCalls : /\ beats[id] \in BeatsOf(c)
                                 /\ beats[id].call = c /\ beats[id].payload = Payload(c)
BY DEF RecordsInv, NoBeat, BeatsOf

LEMMA OpenerKept ==
    ASSUME CallsInv, RecordsInv, OpenerInv, FrozenCalls, BeatsGrow, UNCHANGED opener
    PROVE  OpenerInv'
<1>1. CASE opener = NoReader
  BY <1>1 DEF OpenerInv, NoReader
<1>2. CASE opener # NoReader
  <2>1. opener \in OpenerRecord /\ opener.id \in Call /\ beats[opener.id].status # "none"
        /\ looksLikeHybrid(beats[opener.id].payload) /\ VeilNeverEarly
    BY <1>2 DEF OpenerInv, OpenerRecord
  <2>2. PICK c \in MinedCalls : beats[opener.id].call = c
    BY <2>1, BeatTypes
  <2>3. calls'[c].letter = calls[c].letter
    BY DEF FrozenCalls, MinedCalls
  <2>4. /\ beats'[opener.id].status # "none" /\ beats'[opener.id].call = c
        /\ beats'[opener.id].payload = beats[opener.id].payload
        /\ beats[opener.id].status = "executed" => beats'[opener.id].status = "executed"
    BY <2>1, <2>2 DEF BeatsGrow
  <2>5. VeilNeverEarly'
    BY <2>1, <2>2, <2>3, <2>4 DEF VeilNeverEarly
  <2> QED
    BY <2>1, <2>4, <2>5 DEF OpenerInv, OpenerRecord, Plaintexts, looksLikeHybrid, Key
<1> QED
  BY <1>1, <1>2

\* The ledger of the flashes, part by part.
InOrder(index, these) ==
    /\ {index[k] : k \in DOMAIN index} = these
    /\ \A k \in 1 .. Len(index) - 1 : index[k] < index[k + 1]

NumbersFor(r) ==
    {id \in 0 .. Len(flashes) - 1 : \E i \in DOMAIN flashes[id + 1].recipients :
                                        flashes[id + 1].recipients[i] = r}

\* One element for each recipient of each flash.
PaidFor ==
    {paid \in (0 .. Len(flashes) - 1) \X (1 .. MAX_RECIPIENTS) :
        paid[2] <= Len(flashes[paid[1] + 1].recipients)}

LEMMA LedgerByParts ==
    FlashLedgerExact <=>
        /\ InOrder(sentFlashes, 0 .. Len(flashes) - 1)
        /\ \A r \in Recipient : InOrder(receivedFlashes[r], NumbersFor(r))
        /\ feesReceived = perRecipientFee * Cardinality(PaidFor)
BY DEF FlashLedgerExact, InOrder, NumbersFor, PaidFor

LEMMA LedgerByPartsNext ==
    FlashLedgerExact' <=>
        /\ InOrder(sentFlashes', 0 .. Len(flashes') - 1)
        /\ \A r \in Recipient : InOrder(receivedFlashes'[r], NumbersFor(r)')
        /\ feesReceived' = perRecipientFee * Cardinality(PaidFor')
BY DEF FlashLedgerExact, InOrder, NumbersFor, PaidFor

LEMMA LedgerKept ==
    ASSUME LedgerInv, UNCHANGED flashLog
    PROVE  LedgerInv'
<1>1. /\ flashes' = flashes /\ sentFlashes' = sentFlashes
      /\ receivedFlashes' = receivedFlashes /\ feesReceived' = feesReceived
  BY DEF flashLog
<1>2. PaidFor' = PaidFor /\ \A r : NumbersFor(r)' = NumbersFor(r)
  BY <1>1 DEF PaidFor, NumbersFor
<1>3. /\ InOrder(sentFlashes, 0 .. Len(flashes) - 1)
      /\ \A r \in Recipient : InOrder(receivedFlashes[r], NumbersFor(r))
      /\ feesReceived = perRecipientFee * Cardinality(PaidFor)
  BY LedgerByParts DEF LedgerInv
<1>4. FlashLedgerExact'
  BY <1>1, <1>2, <1>3, LedgerByPartsNext
<1> QED
  BY <1>1, <1>4 DEF LedgerInv

LEMMA OutcomeKept ==
    ASSUME CallsInv, OutcomeInv, QuietCalls, BeatsGrow, FlashesGrow,
           \A c \in Call : \/ tx'[c] = "mined" => tx[c] = "mined"
                           \/ \E id \in Nat : CreatedBy(id, c)'
    PROVE  OutcomeInv'
<1>1. FrozenCalls
  BY QuietCallsAreFrozen
<1>2. ASSUME NEW c \in Call, tx'[c] = "mined"
      PROVE  \E id \in Nat : CreatedBy(id, c)'
  BY <1>1, <1>2, CreationIsFinal DEF OutcomeInv
<1>3. ASSUME NEW c \in Call, At(c, "done")'
      PROVE  CreatedBy(calls[c].result, c)'
  <2>1. calls'[c] = calls[c] /\ At(c, "done") /\ CreatedBy(calls[c].result, c)
    BY <1>3 DEF QuietCalls, Quiet, At, OutcomeInv
  <2>2. tx[c] # "none" /\ calls[c].result \in Int
    BY <2>1, CallTypes DEF CallsInv, CallInv, At, CallRecord
  <2>3. PICK id \in Int : id = calls[c].result
    BY <2>2
  <2>4. CreatedBy(id, c)'
    BY <1>1, <2>1, <2>2, <2>3, CreationIsFinal
  <2> QED
    BY <2>1, <2>3, <2>4 DEF CreatedBy
<1> QED
  BY <1>2, <1>3 DEF OutcomeInv

\* A step after which no call has a new outcome.
LEMMA QuietStep ==
    ASSUME IInv, CallsInv', QueueInv', BoundsInv', QuietCalls,
           UNCHANGED <<flashVars, beats, ownVars, opener>>,
           \A c \in Call : tx'[c] = "mined" <=> tx[c] = "mined"
    PROVE  IInv'
<1>1. FrozenCalls /\ BeatsGrow /\ FlashesGrow /\ MinedCalls' = MinedCalls
      /\ KeysUnchanged /\ UNCHANGED flashLog
  BY QuietCallsAreFrozen DEF BeatsGrow, FlashesGrow, MinedCalls, KeysUnchanged, flashVars, flashLog
<1>2. KeysInv' /\ RecordsInv' /\ OpenerInv' /\ LedgerInv'
  BY <1>1, KeysKept, RecordsKept, OpenerKept, LedgerKept DEF IInv, flashLog
<1>3. OutcomeInv'
  BY <1>1, OutcomeKept DEF IInv
<1> QED
  BY <1>2, <1>3 DEF IInv

------------------------------------------------------------------------------
(***************************************************************************)
(* The steps of the client.                                                *)
(***************************************************************************)
LEMMA BoundsKept ==
    ASSUME BoundsInv,
           \/ UNCHANGED <<faults, moves>>
           \/ faults < MaxFaults /\ faults' = faults + 1 /\ UNCHANGED moves
           \/ moves < MaxMoves /\ moves' = moves + 1 /\ UNCHANGED faults
    PROVE  BoundsInv'
<1>1. MaxFaults \in Nat /\ MaxMoves \in Nat
  BY ClientAssumption
<1> QED
  BY <1>1 DEF BoundsInv

LEMMA QueueKept ==
    ASSUME QueueInv, UNCHANGED <<queue, tx>>
    PROVE  QueueInv'
BY DEF QueueInv

LEMMA BroadcastQueue ==
    ASSUME QueueInv, NEW c \in Call, tx[c] = "none", Broadcast(c)
    PROVE  /\ QueueInv' /\ tx'[c] = "pending"
           /\ \A d \in Call \ {c} : tx'[d] = tx[d]
<1>1. queue' = Append(queue, c) /\ tx' = [tx EXCEPT ![c] = "pending"]
  BY DEF Broadcast
<1>2. tx'[c] = "pending" /\ \A d \in Call \ {c} : tx'[d] = tx[d]
  BY <1>1 DEF QueueInv
<1>3. /\ queue' \in Seq(Call) /\ Len(queue') = Len(queue) + 1 /\ Len(queue) \in Nat
      /\ queue'[Len(queue) + 1] = c
      /\ \A k \in 1 .. Len(queue) : queue'[k] = queue[k] /\ queue[k] \in Call /\ queue[k] # c
  BY <1>1 DEF QueueInv
<1>4. \A i, j \in 1 .. Len(queue') : queue'[i] = queue'[j] => i = j
  BY <1>3 DEF QueueInv
<1>5. \A d \in Call : tx'[d] = "pending" <=> \E k \in 1 .. Len(queue') : queue'[k] = d
  <2> TAKE d \in Call
  <2>1. CASE d = c
    BY <1>2, <1>3, <2>1
  <2>2. CASE d # c
    BY <1>2, <1>3, <2>2 DEF QueueInv
  <2> QED
    BY <2>1, <2>2
<1>6. tx' \in [Call -> {"none", "pending", "mined", "reverted"}]
  BY <1>1 DEF QueueInv
<1> QED
  BY <1>2, <1>3, <1>4, <1>5, <1>6 DEF QueueInv

LEMMA SendIInv ==
    ASSUME IInv, NEW c \in Call, Sends(c) \/ AnswerLost(c)
    PROVE  IInv'
<1>1. PICK stage \in {"wait", "threw"} : Goto(c, stage)
  BY DEF Sends, AnswerLost
<1>2. /\ At(c, "send") /\ Broadcast(c) /\ Sendable(c) /\ UNCHANGED <<inited, probing>>
      /\ UNCHANGED <<flashVars, beats, ownVars, opener>>
  BY DEF Sends, AnswerLost, Broadcast
<1>3. BoundsInv'
  BY BoundsKept DEF Sends, AnswerLost, IInv
<1>4. tx[c] = "none" /\ AllKeysRead(calls[c]) /\ Encryptable(calls[c].keys) /\ ~At(c, "idle")
  BY <1>2 DEF IInv, CallsInv, CallInv, At, Sendable
<1>5. QueueInv' /\ tx'[c] = "pending" /\ \A d \in Call \ {c} : tx'[d] = tx[d]
  BY <1>2, <1>4, BroadcastQueue DEF IInv
<1>6. PICK result \in Int : calls' = [calls EXCEPT ![c].at = stage, ![c].result = result]
  BY <1>1, <1>4, Goes DEF IInv
<1>7. KeysGrow /\ calls[c].at \in {"keys", "send", "wait"}
  BY <1>2, NothingGrows DEF IInv, At
<1>8. CallsInv' /\ (stage # "done" => QuietCalls)
  BY <1>2, <1>4, <1>5, <1>6, <1>7, StageChanges DEF IInv
<1>9. \A d \in Call : tx'[d] = "mined" <=> tx[d] = "mined"
  BY <1>4, <1>5
<1> QED
  BY <1>1, <1>2, <1>3, <1>5, <1>8, <1>9, QuietStep

\* The number in the event of a flash is the number of its record.
LEMMA EventIdIsCreated ==
    ASSUME IInv, NEW c \in Call, tx[c] = "mined"
    PROVE  EventId(c) \in Int /\ CreatedBy(EventId(c), c)
<1>1. PICK id \in Nat : CreatedBy(id, c)
  BY DEF IInv, OutcomeInv
<1>2. CASE calls[c].letter.kind = "flash"
  <2>1. Len(flashes) \in Nat
    BY DEF IInv, RecordsInv
  <2>2. id \in 0 .. Len(flashes) - 1 /\ flashes[id + 1].call = c
    BY <1>1, <1>2, <2>1 DEF CreatedBy
  <2>3. FlashId(c) \in 0 .. Len(flashes) - 1 /\ flashes[FlashId(c) + 1].call = c
    BY <2>2 DEF FlashId
  <2> QED
    BY <1>2, <2>1, <2>3 DEF EventId, CreatedBy
<1>3. CASE calls[c].letter.kind # "flash"
  BY <1>1, <1>3 DEF EventId, CreatedBy
<1> QED
  BY <1>2, <1>3

LEMMA WaitReturnsIInv ==
    ASSUME IInv, NEW c \in Call, WaitReturns(c)
    PROVE  IInv'
<1>1. /\ At(c, "wait") /\ UNCHANGED <<inited, probing, faults, moves>>
      /\ UNCHANGED <<flashVars, beats, ownVars, opener>> /\ UNCHANGED <<queue, tx>>
  BY DEF WaitReturns, chainVars
<1>2. /\ tx[c] # "none" /\ AllKeysRead(calls[c]) /\ Encryptable(calls[c].keys)
      /\ ~At(c, "idle") /\ calls[c].at \in {"keys", "send", "wait"} /\ KeysGrow
      /\ QueueInv' /\ BoundsInv'
  BY <1>1, NothingGrows, QueueKept DEF IInv, CallsInv, CallInv, At, BoundsInv
<1>3. CASE tx[c] = "reverted"
  <2>1. PICK result \in Int : calls' = [calls EXCEPT ![c].at = "threw", ![c].result = result]
    <3>1. Goto(c, "threw")
      BY <1>3 DEF WaitReturns
    <3> QED
      BY <1>2, <3>1, Goes DEF IInv
  <2>2. CallsInv' /\ ("threw" # "done" => QuietCalls)
    BY <1>1, <1>2, <2>1, StageChanges DEF IInv
  <2> QED
    BY <1>1, <1>2, <2>2, QuietStep
<1>4. CASE tx[c] = "mined"
  <2>1. calls' = [calls EXCEPT ![c].at = "done", ![c].result = EventId(c)]
    BY <1>4 DEF WaitReturns
  <2>2. EventId(c) \in Int /\ CreatedBy(EventId(c), c)
    BY <1>4, EventIdIsCreated
  <2>3. PICK result \in Int : result = EventId(c)
    BY <2>2
  <2>4. calls' = [calls EXCEPT ![c].at = "done", ![c].result = result] /\ CreatedBy(result, c)
    BY <2>1, <2>2, <2>3
  <2>5. CallsInv'
    BY <1>1, <1>2, <2>4, StageChanges DEF IInv
  <2>6. calls[c] \in CallRecord
    BY <1>2, CallTypes DEF IInv
  <2>7. /\ calls'[c].at = "done" /\ calls'[c].result = result
        /\ calls'[c].letter = calls[c].letter /\ calls'[c].salt = calls[c].salt
        /\ calls'[c].keys = calls[c].keys
        /\ \A d \in Call \ {c} : calls'[d] = calls[d]
    BY <2>4, <2>6 DEF IInv, CallsInv, CallRecord
  <2>8. FrozenCalls /\ BeatsGrow /\ FlashesGrow /\ MinedCalls' = MinedCalls
        /\ KeysUnchanged /\ UNCHANGED flashLog
    BY <1>1, <2>7 DEF FrozenCalls, BeatsGrow, FlashesGrow, MinedCalls, KeysUnchanged,
                      flashVars, flashLog
  <2>9. KeysInv' /\ RecordsInv' /\ OpenerInv' /\ LedgerInv'
    BY <1>1, <2>8, KeysKept, RecordsKept, OpenerKept, LedgerKept DEF IInv, flashLog
  <2>10. \A d \in Call, id \in Int : tx[d] # "none" /\ CreatedBy(id, d) => CreatedBy(id, d)'
    BY <2>8, CreationIsFinal DEF IInv
  <2>11. OutcomeInv'
    <3>1. ASSUME NEW d \in Call, tx'[d] = "mined"
          PROVE  \E id \in Nat : CreatedBy(id, d)'
      <4>1. tx[d] = "mined"
        BY <1>1, <3>1
      <4>2. PICK id \in Nat : CreatedBy(id, d)
        BY <4>1 DEF IInv, OutcomeInv
      <4> QED
        BY <2>10, <4>1, <4>2
    <3>2. ASSUME NEW d \in Call, At(d, "done")'
          PROVE  CreatedBy(calls[d].result, d)'
      <4>1. PICK id : id = calls'[d].result
        OBVIOUS
      <4>2. id \in Int /\ tx[d] # "none" /\ CreatedBy(id, d)
        <5>1. CASE d = c
          BY <1>2, <2>4, <2>7, <4>1, <5>1
        <5>2. CASE d # c
          <6>1. calls'[d] = calls[d] /\ At(d, "done") /\ ~At(d, "idle")
            BY <2>7, <3>2, <5>2 DEF At
          <6>2. tx[d] # "none" /\ calls[d].result \in Int
            BY <6>1, CallTypes DEF IInv, CallsInv, CallInv, At, CallRecord
          <6> QED
            BY <4>1, <6>1, <6>2 DEF IInv, OutcomeInv
        <5> QED
          BY <5>1, <5>2
      <4>3. CreatedBy(id, d)'
        BY <2>10, <4>2
      <4> QED
        BY <4>1, <4>3 DEF CreatedBy
    <3> QED
      BY <3>1, <3>2 DEF OutcomeInv
  <2> QED
    BY <1>2, <2>5, <2>9, <2>11 DEF IInv
<1> QED
  BY <1>3, <1>4 DEF WaitReturns

LEMMA ClientIInv ==
    ASSUME IInv, ClientNext
    PROVE  IInv'
<1>1. ASSUME CallsInv', QuietCalls, Elsewhere, BoundsInv'
      PROVE  IInv'
  <2>1. UNCHANGED <<flashVars, beats, ownVars, opener>> /\ UNCHANGED <<queue, tx>>
    BY <1>1 DEF Elsewhere, chainVars
  <2>2. QueueInv' /\ \A c \in Call : tx'[c] = "mined" <=> tx[c] = "mined"
    BY <2>1, QueueKept DEF IInv
  <2> QED
    BY <1>1, <2>1, <2>2, QuietStep
<1>2. CASE ProbeReturns \/ ProbeFails
  <2>1. BoundsInv'
    BY <1>2, BoundsKept DEF ProbeReturns, ProbeFails, IInv
  <2> QED
    BY <1>1, <1>2, <2>1, ProbeCalls DEF IInv
<1>3. ASSUME NEW c \in Call, NEW letter \in Letter,
             (\E salt \in 1 .. c : Begin(c, letter, salt)) \/ BeginScript(c, letter)
      PROVE  IInv'
  <2>1. BoundsInv'
    BY <1>3, BoundsKept DEF Begin, BeginScript, IInv
  <2> QED
    BY <1>1, <1>3, <2>1, BeginCalls DEF IInv
<1>4. ASSUME NEW c \in Call, ReadKey(c)
      PROVE  IInv'
  <2>1. BoundsInv'
    BY <1>4, BoundsKept DEF ReadKey, IInv
  <2> QED
    BY <1>1, <1>4, <2>1, ReadKeyCalls DEF IInv
<1>5. ASSUME NEW c \in Call, SendRefused(c) \/ CallFails(c) \/ WaitFails(c)
      PROVE  IInv'
  <2>1. BoundsInv'
    BY <1>5, BoundsKept DEF SendRefused, CallFails, WaitFails, IInv
  <2> QED
    BY <1>1, <1>5, <2>1, ThrowCalls DEF IInv
<1>6. ASSUME NEW c \in Call, SendBeat(c) \/ SendFlash(c) \/ SendScript(c) \/ AnswerLost(c)
      PROVE  IInv'
  BY <1>6, SendIInv DEF SendBeat, SendFlash, SendScript
<1> QED
  BY <1>2, <1>3, <1>4, <1>5, <1>6, WaitReturnsIInv DEF ClientNext, CallStep

------------------------------------------------------------------------------
(***************************************************************************)
(* The ledger of the flashes.                                              *)
(***************************************************************************)
\* The number of the newest goes to the end.
LEMMA AppendInOrder ==
    ASSUME NEW index \in Seq(Nat), NEW these, InOrder(index, these), NEW n \in Nat,
           \A k \in these : k < n
    PROVE  Append(index, n) \in Seq(Nat) /\ InOrder(Append(index, n), these \cup {n})
<1> DEFINE longer == Append(index, n)
<1>1. /\ longer \in Seq(Nat) /\ Len(longer) = Len(index) + 1 /\ Len(index) \in Nat
      /\ DOMAIN longer = 1 .. Len(index) + 1 /\ DOMAIN index = 1 .. Len(index)
      /\ longer[Len(index) + 1] = n
      /\ \A k \in 1 .. Len(index) : longer[k] = index[k] /\ index[k] \in Nat
  OBVIOUS
<1> HIDE DEF longer
<1>2. {longer[k] : k \in DOMAIN longer} = {index[k] : k \in DOMAIN index} \cup {n}
  <2>1. ASSUME NEW x \in {longer[k] : k \in DOMAIN longer}
        PROVE  x \in {index[k] : k \in DOMAIN index} \cup {n}
    BY <1>1, <2>1
  <2>2. ASSUME NEW x \in {index[k] : k \in DOMAIN index} \cup {n}
        PROVE  x \in {longer[k] : k \in DOMAIN longer}
    <3>1. CASE x = n
      <4>1. Len(index) + 1 \in DOMAIN longer
        BY <1>1
      <4> QED
        BY <1>1, <3>1, <4>1
    <3>2. CASE x # n
      <4>1. PICK k \in 1 .. Len(index) : x = index[k]
        BY <1>1, <2>2, <3>2
      <4>2. k \in DOMAIN longer /\ longer[k] = x
        BY <1>1, <4>1
      <4> QED
        BY <4>2
    <3> QED
      BY <3>1, <3>2
  <2> QED
    BY <2>1, <2>2
<1>3. ASSUME NEW k \in 1 .. Len(longer) - 1
      PROVE  longer[k] < longer[k + 1]
  <2>1. CASE k = Len(index)
    <3>1. index[k] \in these
      BY <1>1, <2>1, <1>3 DEF InOrder
    <3> QED
      BY <1>1, <1>3, <2>1, <3>1
  <2>2. CASE k # Len(index)
    <3>1. k \in 1 .. Len(index) - 1 /\ k \in 1 .. Len(index) /\ k + 1 \in 1 .. Len(index)
      <4>1. k \in Int /\ 1 <= k /\ k <= Len(index) /\ Len(index) \in Nat
        BY <1>1, <1>3
      <4>2. k <= Len(index) - 1
        BY <2>2, <4>1
      <4> QED
        BY <4>1, <4>2
    <3> QED
      BY <1>1, <3>1 DEF InOrder
  <2> QED
    BY <2>1, <2>2
<1>4. longer \in Seq(Nat) /\ InOrder(longer, these \cup {n})
  BY <1>1, <1>2, <1>3 DEF InOrder
<1> QED
  BY <1>4 DEF longer

PlacesOf(r, recipients) == {i \in DOMAIN recipients : recipients[i] = r}
Repeated(n, count) == [k \in 1 .. count |-> n]

\* An account that is named once or not at all gets that many new entries.
LEMMA EntriesFor ==
    ASSUME NEW recipients \in Seq(Recipient), NoDuplicates(recipients), NEW r,
           NEW index \in Seq(Nat), NEW n \in Nat
    PROVE  index \o Repeated(n, Cardinality(PlacesOf(r, recipients)))
               = IF PlacesOf(r, recipients) = {} THEN index ELSE Append(index, n)
<1> DEFINE mine == PlacesOf(r, recipients)
           m == Cardinality(mine)
           entries == Repeated(n, m)
           longer == IF mine = {} THEN index ELSE Append(index, n)
<1>1. m = IF mine = {} THEN 0 ELSE 1
  <2>1. mine # {} => \E i \in mine : mine = {i}
    BY DEF NoDuplicates, PlacesOf
  <2> QED
    BY <2>1, FS_EmptySet, FS_Singleton
<1> HIDE DEF mine, m
<1>2. m \in Nat /\ entries \in Seq(Nat) /\ Len(entries) = m /\ \A k \in 1 .. m : entries[k] = n
  BY <1>1 DEF Repeated
<1> HIDE DEF entries
<1>3. /\ index \o entries \in Seq(Nat) /\ Len(index \o entries) = Len(index) + m
      /\ \A k \in 1 .. Len(index) + m :
            (index \o entries)[k] = IF k <= Len(index) THEN index[k] ELSE entries[k - Len(index)]
  BY <1>2, ConcatProperties
<1>4. /\ longer \in Seq(Nat) /\ Len(longer) = Len(index) + m /\ Len(index) \in Nat
      /\ \A k \in 1 .. Len(index) + m :
            longer[k] = IF k <= Len(index) THEN index[k] ELSE n
  BY SMTT(30), <1>1
<1> HIDE DEF longer
<1>5. \A k \in 1 .. Len(index) + m : (index \o entries)[k] = longer[k]
  <2> TAKE k \in 1 .. Len(index) + m
  <2>1. k > Len(index) => k - Len(index) \in 1 .. m
    BY <1>2, <1>4
  <2> QED
    BY <1>2, <1>3, <1>4, <2>1
<1>6. index \o entries = longer
  BY <1>3, <1>4, <1>5, SeqEqual
<1> QED
  BY <1>6 DEF longer, entries, mine, m

LEMMA Distributes ==
    ASSUME NEW a \in Nat, NEW b \in Nat, NEW c \in Nat
    PROVE  c * a + b * c = c * (a + b)
OBVIOUS

\* As many as there are recipients.
LEMMA PairsCardinality ==
    ASSUME NEW n \in Nat, NEW m \in Nat
    PROVE  IsFiniteSet({n} \X (1 .. m)) /\ Cardinality({n} \X (1 .. m)) = m
<1>1. IsFiniteSet(1 .. m) /\ Cardinality(1 .. m) = m
  BY FS_Interval
<1> DEFINE f == [i \in 1 .. m |-> <<n, i>>]
<1>2. f \in Bijection(1 .. m, {n} \X (1 .. m))
  <2>1. f \in [1 .. m -> {n} \X (1 .. m)]
    OBVIOUS
  <2>2. \A i, j \in 1 .. m : f[i] = f[j] => i = j
    OBVIOUS
  <2>3. \A pair \in {n} \X (1 .. m) : \E i \in 1 .. m : f[i] = pair
    OBVIOUS
  <2> QED
    BY <2>1, <2>2, <2>3, Fun_IsBij
<1> QED
  BY <1>1, <1>2, FS_Bijection DEF ExistsBijection

\* A flash that is mined is entered in every index and paid for.
LEMMA FlashLedger ==
    ASSUME LedgerInv, NEW S, flashes \in Seq(S), NEW record,
           NEW recipients \in Seq(Recipient), record.recipients = recipients, NEW length,
           Flash(recipients, length, flashFeeFor(Len(recipients)), record)
    PROVE  LedgerInv'
<1> DEFINE n == Len(flashes)
           L == Len(recipients)
<1>1. /\ n \in Nat /\ L \in Nat /\ L <= MAX_RECIPIENTS /\ NoDuplicates(recipients)
      /\ MAX_RECIPIENTS \in Nat /\ perRecipientFee \in Nat /\ DOMAIN recipients = 1 .. L
  BY FlashAssumption DEF Flash, FlashAllowed
<1>2. /\ Len(flashes') = n + 1 /\ flashes'[n + 1] = record
      /\ \A k \in 1 .. n : flashes'[k] = flashes[k]
  BY DEF Flash
<1>3. /\ sentFlashes' = Append(sentFlashes, n)
      /\ receivedFlashes' =
             [r \in Recipient |->
                 receivedFlashes[r] \o
                     [k \in 1 .. Cardinality({i \in DOMAIN recipients :
                                                 recipients[i] = r}) |-> n]]
      /\ feesReceived' = feesReceived + L * perRecipientFee
  BY DEF Flash, flashFeeFor
<1>4. /\ InOrder(sentFlashes, 0 .. n - 1) /\ sentFlashes \in Seq(Nat)
      /\ receivedFlashes \in [Recipient -> Seq(Nat)]
      /\ \A r \in Recipient : InOrder(receivedFlashes[r], NumbersFor(r))
      /\ feesReceived = perRecipientFee * Cardinality(PaidFor)
  BY LedgerByParts DEF LedgerInv
<1> HIDE DEF n, L
<1>5. sentFlashes' \in Seq(Nat) /\ InOrder(sentFlashes', 0 .. Len(flashes') - 1)
  <2>1. (0 .. n - 1) \cup {n} = 0 .. Len(flashes') - 1 /\ \A k \in 0 .. n - 1 : k < n
    BY <1>1, <1>2
  <2>2. Append(sentFlashes, n) \in Seq(Nat) /\ InOrder(Append(sentFlashes, n), (0 .. n - 1) \cup {n})
    BY <1>1, <1>4, <2>1, AppendInOrder
  <2> QED
    BY <1>3, <2>1, <2>2
<1>6. ASSUME NEW r \in Recipient
      PROVE  receivedFlashes'[r] \in Seq(Nat) /\ InOrder(receivedFlashes'[r], NumbersFor(r)')
  <2> DEFINE mine == PlacesOf(r, recipients)
             index == receivedFlashes[r]
             numbers == NumbersFor(r)
  <2>1. receivedFlashes'[r] = IF mine = {} THEN index ELSE Append(index, n)
    <3>1. receivedFlashes'[r] = index \o Repeated(n, Cardinality(mine))
      BY <1>3 DEF Repeated, PlacesOf
    <3>2. index \in Seq(Nat)
      BY <1>4
    <3> HIDE DEF index
    <3>3. index \o Repeated(n, Cardinality(mine)) = IF mine = {} THEN index ELSE Append(index, n)
      BY <1>1, <3>2, EntriesFor
    <3> QED
      BY <3>1, <3>3
  <2>2. NumbersFor(r)' = IF mine = {} THEN numbers ELSE numbers \cup {n}
    <3>1. NumbersFor(r)' = {id \in 0 .. n : \E i \in DOMAIN flashes'[id + 1].recipients :
                                               flashes'[id + 1].recipients[i] = r}
      BY <1>1, <1>2 DEF NumbersFor
    <3>2. numbers = {id \in 0 .. n - 1 : \E i \in DOMAIN flashes[id + 1].recipients :
                                            flashes[id + 1].recipients[i] = r}
      BY DEF NumbersFor, n
    <3>3. \A id \in 0 .. n - 1 : id \in 0 .. n /\ id + 1 \in 1 .. n /\ flashes'[id + 1] = flashes[id + 1]
      BY <1>1, <1>2
    <3>4. flashes'[n + 1].recipients = recipients
      BY <1>2
    <3>5. 0 .. n = (0 .. n - 1) \cup {n} /\ n \notin 0 .. n - 1
      BY <1>1
    <3> HIDE DEF numbers
    <3> QED
      BY ZenonT(30), <1>1, <3>1, <3>2, <3>3, <3>4, <3>5 DEF PlacesOf
  <2>3. index \in Seq(Nat) /\ InOrder(index, numbers)
    BY <1>4
  <2>4. \A k \in numbers : k < n
    <3>1. \A k \in numbers : k \in 0 .. n - 1
      BY DEF NumbersFor, n
    <3> QED
      BY <1>1, <3>1
  <2> HIDE DEF mine, index, numbers
  <2>5. Append(index, n) \in Seq(Nat) /\ InOrder(Append(index, n), numbers \cup {n})
    BY <1>1, <2>3, <2>4, AppendInOrder
  <2> QED
    BY <2>1, <2>2, <2>3, <2>5
<1>7. feesReceived' = perRecipientFee * Cardinality(PaidFor')
  <2> DEFINE new == {n} \X (1 .. L)
  <2>1. IsFiniteSet(new) /\ Cardinality(new) = L
    BY <1>1, PairsCardinality
  <2>2. IsFiniteSet(PaidFor) /\ Cardinality(PaidFor) \in Nat
    <3>1. IsFiniteSet(0 .. n - 1) /\ IsFiniteSet(1 .. MAX_RECIPIENTS)
      <4>1. 0 \in Int /\ 1 \in Int /\ n - 1 \in Int /\ MAX_RECIPIENTS \in Int
        BY <1>1
      <4> QED
        BY <4>1, FS_Interval
    <3>2. IsFiniteSet((0 .. n - 1) \X (1 .. MAX_RECIPIENTS))
      BY <3>1, FS_Product
    <3>3. PaidFor \in SUBSET ((0 .. n - 1) \X (1 .. MAX_RECIPIENTS))
      BY DEF PaidFor, n
    <3>4. IsFiniteSet(PaidFor)
      BY <3>2, <3>3, FS_Subset
    <3> QED
      BY <3>4, FS_CardinalityType
  <2>3. PaidFor' = PaidFor \cup new
    <3>1. PaidFor' = {paid \in (0 .. n) \X (1 .. MAX_RECIPIENTS) :
                         paid[2] <= Len(flashes'[paid[1] + 1].recipients)}
      BY <1>1, <1>2 DEF PaidFor
    <3>2. PaidFor = {paid \in (0 .. n - 1) \X (1 .. MAX_RECIPIENTS) :
                        paid[2] <= Len(flashes[paid[1] + 1].recipients)}
      BY DEF PaidFor, n
    <3>3. \A id \in 0 .. n - 1 : id \in 0 .. n /\ flashes'[id + 1] = flashes[id + 1]
      BY <1>1, <1>2
    <3>4. Len(flashes'[n + 1].recipients) = L
      BY <1>2 DEF L
    <3>5. \A id, i : <<id, i>> \in PaidFor' <=>
                        /\ id \in 0 .. n /\ i \in 1 .. MAX_RECIPIENTS
                        /\ i <= Len(flashes'[id + 1].recipients)
      BY <3>1
    <3>6. \A id, i : <<id, i>> \in PaidFor <=>
                        /\ id \in 0 .. n - 1 /\ i \in 1 .. MAX_RECIPIENTS
                        /\ i <= Len(flashes[id + 1].recipients)
      BY <3>2
    <3>7. \A id, i : <<id, i>> \in new <=> id = n /\ i \in 1 .. MAX_RECIPIENTS /\ i <= L
      BY <1>1
    <3>8. \A id : id \in 0 .. n <=> id \in 0 .. n - 1 \/ id = n
      BY <1>1
    <3> HIDE DEF new
    <3>9. \A id, i : <<id, i>> \in PaidFor' <=> <<id, i>> \in PaidFor \/ <<id, i>> \in new
      <4> TAKE id, i
      <4>1. CASE id = n
        <5>1. id \notin 0 .. n - 1
          BY <1>1, <4>1
        <5> QED
          BY <3>4, <3>5, <3>6, <3>7, <3>8, <4>1, <5>1
      <4>2. CASE id # n
        BY <3>3, <3>5, <3>6, <3>7, <3>8, <4>2
      <4> QED
        BY <4>1, <4>2
    <3>10. \A paid : /\ paid \in PaidFor' => \E id, i : paid = <<id, i>>
                     /\ paid \in PaidFor => \E id, i : paid = <<id, i>>
                     /\ paid \in new => \E id, i : paid = <<id, i>>
      BY <3>1, <3>2 DEF new
    <3> QED
      BY <3>9, <3>10
  <2>4. PaidFor \cap new = {}
    <3>1. \A paid \in PaidFor : paid[1] \in 0 .. n - 1
      BY DEF PaidFor, n
    <3>2. \A paid \in new : paid[1] = n
      OBVIOUS
    <3> HIDE DEF new
    <3> QED
      BY <1>1, <3>1, <3>2
  <2> HIDE DEF new
  <2>5. Cardinality(PaidFor \cup new) = Cardinality(PaidFor) + L
    <3>1. Cardinality(PaidFor \cap new) = 0
      BY <2>4, FS_EmptySet
    <3>2. Cardinality(PaidFor \cup new)
            = Cardinality(PaidFor) + Cardinality(new) - Cardinality(PaidFor \cap new)
      BY <2>1, <2>2, FS_Union
    <3> QED
      BY <1>1, <2>1, <2>2, <3>1, <3>2
  <2>6. perRecipientFee * Cardinality(PaidFor) + L * perRecipientFee
          = perRecipientFee * (Cardinality(PaidFor) + L)
    BY <1>1, <2>2, Distributes
  <2> QED
    BY <1>3, <1>4, <2>3, <2>5, <2>6
<1>8. receivedFlashes' \in [Recipient -> Seq(Nat)]
  BY <1>3, <1>6
<1>9. FlashLedgerExact'
  BY <1>5, <1>6, <1>7, LedgerByPartsNext
<1> QED
  BY <1>5, <1>8, <1>9 DEF LedgerInv

------------------------------------------------------------------------------
(***************************************************************************)
(* The steps of the chain.                                                 *)
(***************************************************************************)
LEMMA MinedQueue ==
    ASSUME QueueInv, queue # <<>>, NEW how \in {"mined", "reverted"},
           Mined(Head(queue), how)
    PROVE  /\ QueueInv'
           /\ Head(queue) \in Call /\ tx[Head(queue)] = "pending" /\ tx'[Head(queue)] = how
           /\ \A d \in Call \ {Head(queue)} : tx'[d] = tx[d]
<1> DEFINE c == Head(queue)
<1>1. /\ queue \in Seq(Call) /\ Len(queue) \in Nat \ {0} /\ c = queue[1] /\ c \in Call
      /\ queue' = Tail(queue) /\ tx' = [tx EXCEPT ![c] = how]
  BY DEF QueueInv, Mined
<1> HIDE DEF c
<1>2. tx[c] = "pending" /\ tx'[c] = how /\ \A d \in Call \ {c} : tx'[d] = tx[d]
  BY <1>1 DEF QueueInv
<1>3. /\ queue' \in Seq(Call) /\ Len(queue') = Len(queue) - 1
      /\ \A k \in 1 .. Len(queue) - 1 : queue'[k] = queue[k + 1]
  BY <1>1
<1>4. \A i, j \in 1 .. Len(queue') : queue'[i] = queue'[j] => i = j
  <2> TAKE i, j \in 1 .. Len(queue')
  <2>1. /\ i + 1 \in 1 .. Len(queue) /\ j + 1 \in 1 .. Len(queue) /\ i \in Int /\ j \in Int
        /\ queue'[i] = queue[i + 1] /\ queue'[j] = queue[j + 1]
    BY <1>1, <1>3
  <2>2. queue[i + 1] = queue[j + 1] => i + 1 = j + 1
    <3> DEFINE k == i + 1
               l == j + 1
    <3>1. k \in 1 .. Len(queue) /\ l \in 1 .. Len(queue)
      BY <2>1
    <3> HIDE DEF k, l
    <3>2. queue[k] = queue[l] => k = l
      BY <3>1 DEF QueueInv
    <3> QED
      BY <3>2 DEF k, l
  <2> QED
    BY <2>1, <2>2
<1>5. \A d \in Call : tx'[d] = "pending" <=> \E k \in 1 .. Len(queue') : queue'[k] = d
  <2> TAKE d \in Call
  <2>1. CASE d = c
    <3>1. \A k \in 1 .. Len(queue') : queue'[k] # c
      <4> TAKE k \in 1 .. Len(queue')
      <4>1. k + 1 \in 1 .. Len(queue) /\ 1 \in 1 .. Len(queue) /\ k + 1 # 1
            /\ queue'[k] = queue[k + 1]
        BY <1>1, <1>3
      <4> QED
        BY <1>1, <4>1 DEF QueueInv
    <3> QED
      BY <1>2, <2>1, <3>1
  <2>2. CASE d # c
    <3>1. tx'[d] = tx[d]
      BY <1>2, <2>2
    <3>2. ASSUME NEW k \in 1 .. Len(queue), queue[k] = d
          PROVE  \E j \in 1 .. Len(queue') : queue'[j] = d
      <4>1. k # 1 /\ k - 1 \in 1 .. Len(queue) - 1 /\ (k - 1) + 1 = k
        BY <1>1, <2>2, <3>2
      <4>2. queue'[k - 1] = queue[k]
        BY <1>3, <4>1
      <4> QED
        BY <1>3, <3>2, <4>1, <4>2
    <3>3. ASSUME NEW k \in 1 .. Len(queue'), queue'[k] = d
          PROVE  \E j \in 1 .. Len(queue) : queue[j] = d
      <4>1. k + 1 \in 1 .. Len(queue) /\ queue'[k] = queue[k + 1]
        BY <1>1, <1>3
      <4> QED
        BY <3>3, <4>1
    <3> QED
      BY <3>1, <3>2, <3>3 DEF QueueInv
  <2> QED
    BY <2>1, <2>2
<1>6. tx' \in [Call -> {"none", "pending", "mined", "reverted"}]
  BY <1>1 DEF QueueInv
<1>7. QueueInv'
  BY <1>3, <1>4, <1>5, <1>6 DEF QueueInv
<1> QED
  BY <1>1, <1>2, <1>7 DEF c

LEMMA MinedCallsInv ==
    ASSUME CallsInv, KeysGrow, UNCHANGED callVars,
           \A c \in Call : tx'[c] = "none" <=> tx[c] = "none"
    PROVE  CallsInv' /\ QuietCalls
<1>1. UNCHANGED calls /\ UNCHANGED inited /\ UNCHANGED probing
  BY DEF callVars
<1>2. \A c \in Call : CallInv(c)'
  BY <1>1, CallKept
<1>3. QuietCalls
  BY <1>1 DEF QuietCalls, Quiet
<1> QED
  BY <1>1, <1>2, <1>3 DEF CallsInv, At

LEMMA RevertIInv ==
    ASSUME IInv, MineReverts \/ FeeRefused
    PROVE  IInv'
<1>1. /\ queue # <<>> /\ Mined(Head(queue), "reverted")
      /\ UNCHANGED callVars /\ UNCHANGED <<flashVars, beats, ownVars, opener>>
  BY DEF MineReverts, FeeRefused
<1>2. BoundsInv'
  BY BoundsKept DEF MineReverts, FeeRefused, IInv
<1>3. /\ QueueInv' /\ tx[Head(queue)] = "pending" /\ tx'[Head(queue)] = "reverted"
      /\ \A d \in Call \ {Head(queue)} : tx'[d] = tx[d]
  BY <1>1, MinedQueue DEF IInv
<1>4. \A c \in Call : /\ tx'[c] = "none" <=> tx[c] = "none"
                      /\ tx'[c] = "mined" <=> tx[c] = "mined"
  BY <1>3
<1>5. CallsInv' /\ QuietCalls
  BY <1>1, <1>4, NothingGrows, MinedCallsInv DEF IInv
<1> QED
  BY <1>1, <1>2, <1>3, <1>4, <1>5, QuietStep

\* The oldest pending transaction is a letter's or a flash's, and goes through.
LEMMA MinedFacts ==
    ASSUME IInv, queue # <<>>, Mined(Head(queue), "mined"), UNCHANGED <<callVars, ownVars>>,
           UNCHANGED <<prePublicKey, v2Vars>>
    PROVE  /\ QueueInv' /\ CallsInv' /\ KeysInv' /\ QuietCalls /\ FrozenCalls
           /\ Head(queue) \in Call /\ calls[Head(queue)].salt \in Call
           /\ calls[Head(queue)].letter.recipients \in Seq(Recipient)
           /\ MinedCalls' = MinedCalls \cup {Head(queue)}
           /\ \A c \in MinedCalls' : Payload(c)' = Payload(c) /\ BeatsOf(c)' = BeatsOf(c)
                                     /\ FlashOf(c)' = FlashOf(c)
<1> DEFINE c == Head(queue)
<1>1. /\ QueueInv' /\ c \in Call /\ tx[c] = "pending" /\ tx'[c] = "mined"
      /\ \A d \in Call \ {c} : tx'[d] = tx[d]
  BY MinedQueue DEF IInv
<1> HIDE DEF c
<1>2. KeysInv' /\ KeysGrow
  <2>1. KeysUnchanged
    BY DEF KeysUnchanged
  <2> QED
    BY <2>1, KeysKept DEF IInv, KeysGrow
<1>3. \A d \in Call : tx'[d] = "none" <=> tx[d] = "none"
  BY <1>1
<1>4. CallsInv' /\ QuietCalls
  BY <1>2, <1>3, MinedCallsInv DEF IInv
<1>5. FrozenCalls
  BY <1>4, QuietCallsAreFrozen
<1>6. calls[c].salt \in Call /\ calls[c].letter.recipients \in Seq(Recipient)
  <2>1. ~At(c, "idle")
    BY <1>1 DEF IInv, CallsInv, CallInv
  <2> QED
    BY <1>1, <2>1, CallTypes DEF IInv, CallRecord
<1>7. MinedCalls' = MinedCalls \cup {c}
  BY <1>1 DEF MinedCalls
<1>8. \A d : Payload(d)' = Payload(d) /\ BeatsOf(d)' = BeatsOf(d) /\ FlashOf(d)' = FlashOf(d)
  <2>1. UNCHANGED calls
    BY DEF callVars
  <2>2. \A d : Payload(d)' = Payload(d)
    BY <2>1 DEF Payload
  <2> QED
    BY <2>1, <2>2 DEF BeatsOf, FlashOf
<1> QED
  BY <1>1, <1>2, <1>4, <1>5, <1>6, <1>7, <1>8 DEF c

LEMMA MineBeatIInv ==
    ASSUME IInv, MineBeat
    PROVE  IInv'
<1> DEFINE c == Head(queue)
           salt == calls[c].salt
           beat == [ status |-> "active", call |-> c,
                     recipients |-> calls[c].letter.recipients,
                     payload |-> Payload(c), updated |-> FALSE ]
<1>1. /\ queue # <<>> /\ Mined(c, "mined") /\ calls[c].letter.kind # "flash"
      /\ Accepted(c) /\ beats' = [beats EXCEPT ![salt] = beat]
      /\ UNCHANGED <<callVars, ownVars>> /\ UNCHANGED <<prePublicKey, v2Vars>>
      /\ UNCHANGED flashLog /\ UNCHANGED <<flashes, opener, faults, moves, calls>>
  BY DEF MineBeat, flashVars, flashLog, callVars
<1>2. /\ QueueInv' /\ CallsInv' /\ KeysInv' /\ QuietCalls /\ FrozenCalls
      /\ c \in Call /\ salt \in Call /\ calls[c].letter.recipients \in Seq(Recipient)
      /\ MinedCalls' = MinedCalls \cup {c}
      /\ \A d \in MinedCalls' : BeatsOf(d)' = BeatsOf(d) /\ FlashOf(d)' = FlashOf(d)
  BY <1>1, MinedFacts
<1>3. beats[salt] = NoBeat
  BY <1>1 DEF Accepted
<1>4. beat \in BeatsOf(c) /\ beat.status = "active" /\ beat.call = c
  BY <1>2 DEF BeatsOf
<1> HIDE DEF c, salt, beat
<1>5. DOMAIN beats' = Call /\ beats'[salt] = beat
      /\ \A id \in Call \ {salt} : beats'[id] = beats[id]
  BY <1>1, <1>2 DEF IInv, RecordsInv
<1>6. RecordsInv'
  <2>1. \A id \in Call : beats'[id] = NoBeat \/ \E d \in MinedCalls' : beats'[id] \in BeatsOf(d)'
    <3> TAKE id \in Call
    <3>1. CASE id = salt
      BY <1>2, <1>4, <1>5, <3>1
    <3>2. CASE id # salt
      BY <1>2, <1>5, <3>2 DEF IInv, RecordsInv
    <3> QED
      BY <3>1, <3>2
  <2>2. flashes' \in Seq({FlashOf(d) : d \in MinedCalls}')
    <3>1. {FlashOf(d) : d \in MinedCalls} \subseteq {FlashOf(d) : d \in MinedCalls}'
      BY <1>2
    <3> QED
      BY <1>1, <3>1 DEF IInv, RecordsInv
  <2> QED
    BY <1>5, <2>1, <2>2 DEF RecordsInv, NoBeat
<1>7. BeatsGrow /\ FlashesGrow
  BY <1>1, <1>3, <1>5 DEF BeatsGrow, FlashesGrow, NoBeat
<1>8. OutcomeInv'
  <2>1. salt \in Nat
    BY <1>2, CallsAreNumbers
  <2>2. \A d \in Call : tx'[d] = "mined" => tx[d] = "mined" \/ d = c
    BY <1>2 DEF MinedCalls
  <2>3. \A d \in Call : \/ tx'[d] = "mined" => tx[d] = "mined"
                        \/ \E id \in Nat : CreatedBy(id, d)'
    <3> TAKE d \in Call
    <3>1. CASE d = c
      <4>1. PICK it \in Nat : it = salt
        BY <2>1
      <4>2. PICK who : who = c
        OBVIOUS
      <4>3. CreatedBy(it, who)'
        BY <1>1, <1>4, <1>5, <4>1, <4>2 DEF CreatedBy, salt, c
      <4> QED
        BY <3>1, <4>2, <4>3
    <3>2. CASE d # c
      BY <2>2, <3>2
    <3> QED
      BY <3>1, <3>2
  <2> QED
    BY <1>2, <1>7, <2>3, OutcomeKept DEF IInv
<1>9. OpenerInv' /\ LedgerInv' /\ BoundsInv'
  BY <1>1, <1>2, <1>7, OpenerKept, LedgerKept, BoundsKept DEF IInv
<1> QED
  BY <1>2, <1>6, <1>8, <1>9 DEF IInv

LEMMA MineFlashIInv ==
    ASSUME IInv, MineFlash
    PROVE  IInv'
<1> DEFINE c == Head(queue)
           recipients == calls[c].letter.recipients
           record == [call |-> c, recipients |-> recipients, payload |-> Payload(c)]
           n == Len(flashes)
<1>1. /\ queue # <<>> /\ Mined(c, "mined") /\ calls[c].letter.kind = "flash"
      /\ Flash(recipients, Payload(c).length, flashFeeFor(Len(recipients)), record)
      /\ UNCHANGED <<callVars, ownVars>> /\ UNCHANGED <<beats, opener, faults, moves, calls>>
  BY DEF MineFlash, callVars
<1>2. /\ UNCHANGED <<prePublicKey, v2Vars>> /\ flashes' = Append(flashes, record)
  BY <1>1 DEF Flash
<1>3. /\ QueueInv' /\ CallsInv' /\ KeysInv' /\ QuietCalls /\ FrozenCalls
      /\ c \in Call /\ recipients \in Seq(Recipient)
      /\ MinedCalls' = MinedCalls \cup {c}
      /\ \A d \in MinedCalls' : BeatsOf(d)' = BeatsOf(d) /\ FlashOf(d)' = FlashOf(d)
  BY <1>1, <1>2, MinedFacts
<1>4. record = FlashOf(c) /\ record.call = c /\ record.recipients = recipients
  BY DEF FlashOf
<1>5. flashes \in Seq({FlashOf(d) : d \in MinedCalls})
  BY DEF IInv, RecordsInv
<1>6. LedgerInv'
  <2> HIDE DEF record, recipients
  <2> QED
    BY <1>1, <1>3, <1>4, <1>5, FlashLedger DEF IInv
<1> HIDE DEF c, record, n
<1>7. /\ n \in Nat /\ Len(flashes') = n + 1 /\ flashes'[n + 1] = record
      /\ \A k \in 1 .. n : flashes'[k] = flashes[k]
  BY <1>2, <1>5 DEF n
<1>8. RecordsInv'
  <2>1. \A id \in Call : beats'[id] = NoBeat \/ \E d \in MinedCalls' : beats'[id] \in BeatsOf(d)'
    BY <1>1, <1>3 DEF IInv, RecordsInv
  <2>2. flashes' \in Seq({FlashOf(d) : d \in MinedCalls}')
    <3> DEFINE S == {FlashOf(d) : d \in MinedCalls}
               T == {FlashOf(d) : d \in MinedCalls}'
    <3>1. S \subseteq T
      BY <1>3
    <3>2. record \in T
      BY <1>3, <1>4
    <3>3. flashes \in Seq(S)
      BY <1>5
    <3> HIDE DEF S, T
    <3>4. flashes' \in Seq(T)
      BY <1>2, <3>1, <3>2, <3>3
    <3> QED
      BY <3>4 DEF T
  <2> QED
    BY <1>1, <2>1, <2>2 DEF IInv, RecordsInv, NoBeat
<1>9. BeatsGrow /\ FlashesGrow
  BY <1>1, <1>7 DEF BeatsGrow, FlashesGrow, n
<1>10. OutcomeInv'
  <2>1. PICK who : who = c
    OBVIOUS
  <2>2. PICK it \in Nat : it = n
    BY <1>7
  <2>3. CreatedBy(it, who)'
    <3>1. it + 1 \in 1 .. Len(flashes') /\ flashes'[it + 1].call = who
      BY <1>4, <1>7, <2>1, <2>2
    <3>2. calls'[who].letter.kind = "flash"
      BY <1>1, <2>1 DEF c
    <3> QED
      BY <3>1, <3>2 DEF CreatedBy
  <2>4. \A d \in Call : \/ tx'[d] = "mined" => tx[d] = "mined"
                        \/ \E id \in Nat : CreatedBy(id, d)'
    <3> TAKE d \in Call
    <3>1. CASE d = c
      BY <2>1, <2>2, <2>3, <3>1
    <3>2. CASE d # c
      BY <1>3, <3>2 DEF MinedCalls
    <3> QED
      BY <3>1, <3>2
  <2> QED
    BY <1>3, <1>9, <2>4, OutcomeKept DEF IInv
<1>11. OpenerInv' /\ BoundsInv'
  BY <1>1, <1>3, <1>9, OpenerKept, BoundsKept DEF IInv
<1> QED
  BY <1>3, <1>6, <1>8, <1>10, <1>11 DEF IInv

------------------------------------------------------------------------------
(***************************************************************************)
(* The steps of the owner and of the recipients.                           *)
(***************************************************************************)
LEMMA OwnerIInv ==
    ASSUME IInv, OwnerNext
    PROVE  IInv'
<1>1. PICK id \in Call :
          \/ \E recipients \in Recipients : UpdateRecipients(id, recipients)
          \/ Execute(id) \/ Deactivate(id)
  BY DEF OwnerNext
<1>2. /\ beats[id].status = "active" /\ Move
      /\ \/ \E recipients \in Recipients :
                beats' = [beats EXCEPT ![id].recipients = recipients, ![id].updated = TRUE]
         \/ \E status \in {"executed", "deactivated"} :
                beats' = [beats EXCEPT ![id].status = status]
      /\ UNCHANGED <<flashVars, callVars, queue, tx, ownVars, opener, faults>>
  BY <1>1 DEF UpdateRecipients, Execute, Deactivate, Conclude
<1>3. /\ UNCHANGED flashLog /\ UNCHANGED <<flashes, opener, queue, tx, calls, inited, probing>>
      /\ KeysUnchanged /\ KeysGrow
  BY <1>2, NothingGrows DEF flashVars, flashLog, callVars, IInv
<1>4. PICK c \in MinedCalls : beats[id] \in BeatsOf(c)
  BY <1>2, BeatTypes DEF IInv
<1>5. /\ beats'[id] \in BeatsOf(c) /\ beats'[id].status # "none"
      /\ beats'[id].call = beats[id].call /\ beats'[id].payload = beats[id].payload
      /\ DOMAIN beats' = Call /\ \A d \in Call \ {id} : beats'[d] = beats[d]
  <2>1. DOMAIN beats = Call
    BY DEF IInv, RecordsInv
  <2>2. CASE \E recipients \in Recipients :
                beats' = [beats EXCEPT ![id].recipients = recipients, ![id].updated = TRUE]
    <3>1. PICK recipients \in Seq(Recipient) :
              beats' = [beats EXCEPT ![id].recipients = recipients, ![id].updated = TRUE]
      BY <2>2, ClientAssumption
    <3>2. beats'[id] = [beats[id] EXCEPT !.recipients = recipients, !.updated = TRUE]
          /\ DOMAIN beats' = Call /\ \A d \in Call \ {id} : beats'[d] = beats[d]
      BY <2>1, <3>1
    <3> QED
      BY <1>4, <3>2 DEF BeatsOf
  <2>3. CASE \E status \in {"executed", "deactivated"} :
                beats' = [beats EXCEPT ![id].status = status]
    <3>1. PICK status \in {"executed", "deactivated"} :
              beats' = [beats EXCEPT ![id].status = status]
      BY <2>3
    <3>2. beats'[id] = [beats[id] EXCEPT !.status = status]
          /\ DOMAIN beats' = Call /\ \A d \in Call \ {id} : beats'[d] = beats[d]
      BY <2>1, <3>1
    <3> QED
      BY <1>4, <3>2 DEF BeatsOf
  <2> QED
    BY <1>2, <2>2, <2>3
<1>6. BeatsGrow /\ FlashesGrow /\ MinedCalls' = MinedCalls
  BY <1>2, <1>3, <1>5 DEF BeatsGrow, FlashesGrow, MinedCalls
<1>7. CallsInv' /\ QuietCalls /\ FrozenCalls
  <2>1. UNCHANGED callVars /\ \A d \in Call : tx'[d] = "none" <=> tx[d] = "none"
    BY <1>2
  <2>2. CallsInv' /\ QuietCalls
    BY <1>3, <2>1, MinedCallsInv DEF IInv
  <2> QED
    BY <2>2, QuietCallsAreFrozen
<1>8. RecordsInv'
  <2>1. \A d \in MinedCalls : BeatsOf(d)' = BeatsOf(d) /\ FlashOf(d)' = FlashOf(d)
    BY <1>7, PayloadsKept
  <2>2. \A d \in Call : beats'[d] = NoBeat \/ \E b \in MinedCalls' : beats'[d] \in BeatsOf(b)'
    <3> TAKE d \in Call
    <3>1. CASE d = id
      BY <1>4, <1>5, <1>6, <2>1, <3>1
    <3>2. CASE d # id
      BY <1>5, <1>6, <2>1, <3>2 DEF IInv, RecordsInv
    <3> QED
      BY <3>1, <3>2
  <2>3. {FlashOf(d) : d \in MinedCalls}' = {FlashOf(d) : d \in MinedCalls}
    BY <1>6, <2>1
  <2> QED
    BY <1>3, <1>5, <2>2, <2>3 DEF IInv, RecordsInv, NoBeat
<1>9. OutcomeInv'
  BY <1>3, <1>6, <1>7, OutcomeKept DEF IInv
<1>10. KeysInv' /\ QueueInv' /\ OpenerInv' /\ LedgerInv'
  BY <1>3, <1>6, <1>7, KeysKept, QueueKept, OpenerKept, LedgerKept DEF IInv
<1>11. BoundsInv'
  BY <1>2, BoundsKept DEF Move, IInv
<1> QED
  BY <1>7, <1>8, <1>9, <1>10, <1>11 DEF IInv

LEMMA RecipientIInv ==
    ASSUME IInv, RecipientNext
    PROVE  IInv'
<1>1. KeysInv' /\ KeysGrow
  BY RecipientKeys DEF IInv
<1>2. /\ UNCHANGED <<callVars, chainVars, opener, faults>> /\ UNCHANGED flashLog
      /\ UNCHANGED moves \/ Move
  BY DEF RecipientNext, LoadKey, LoseDevice, PublishKey, PublishDummy, OptIn, SetFlash,
         Publish, RegisterV2, SetRatchetPubKey, flashVars, flashLog
<1>3. /\ UNCHANGED <<flashes, beats, queue, tx, calls>>
      /\ \A c \in Call : tx'[c] = "none" <=> tx[c] = "none"
  BY <1>2 DEF callVars, chainVars, flashLog
<1>4. CallsInv' /\ QuietCalls /\ FrozenCalls
  <2>1. CallsInv' /\ QuietCalls
    BY <1>1, <1>2, <1>3, MinedCallsInv DEF IInv
  <2> QED
    BY <2>1, QuietCallsAreFrozen
<1>5. BeatsGrow /\ FlashesGrow /\ MinedCalls' = MinedCalls
  BY <1>3 DEF BeatsGrow, FlashesGrow, MinedCalls
<1>6. RecordsInv' /\ OutcomeInv'
  BY <1>3, <1>4, <1>5, RecordsKept, OutcomeKept DEF IInv
<1>7. QueueInv' /\ OpenerInv' /\ LedgerInv'
  BY <1>2, <1>3, <1>4, <1>5, QueueKept, OpenerKept, LedgerKept DEF IInv
<1>8. BoundsInv'
  BY <1>2, BoundsKept DEF Move, IInv
<1> QED
  BY <1>1, <1>4, <1>6, <1>7, <1>8 DEF IInv

------------------------------------------------------------------------------
(***************************************************************************)
(* What the payload formats do: padding is undone and keeps its budget,    *)
(* and a payload opens at an index with the key it was sealed with there.  *)
(***************************************************************************)
LEMMA PlaintextLength ==
    ASSUME NEW letter \in Letter
    PROVE  coerceBytes(letter.message).length \in Nat
<1>1. letter.message.hex \in BOOLEAN /\ letter.message.length \in Nat
  BY LetterTypes
<1> DEFINE half == letter.message.length \div 2
<1>2. half \in Nat
  BY <1>1
<1> HIDE DEF half
<1>3. coerceBytes(letter.message).length
        = IF letter.message.hex THEN half ELSE letter.message.length
  BY DEF coerceBytes, half
<1> QED
  BY <1>1, <1>2, <1>3

\* A frame fits its bucket, and the bucket the budget that the frame fits.
LEMMA BucketFits ==
    ASSUME NEW framedLen \in Nat, NEW maxPadded \in Int
    PROVE  /\ chooseBucket(framedLen, maxPadded) \in Int
           /\ framedLen <= chooseBucket(framedLen, maxPadded)
           /\ framedLen <= maxPadded => chooseBucket(framedLen, maxPadded) <= maxPadded
<1> DEFINE fitting == {b \in PAD_BUCKETS : framedLen <= b /\ b <= maxPadded}
<1>1. fitting \in SUBSET Nat /\ \A b \in fitting : framedLen <= b /\ b <= maxPadded
  BY DEF PAD_BUCKETS
<1>2. fitting # {} => \E b \in fitting : \A other \in fitting : b <= other
  <2> HIDE DEF fitting
  <2> QED
    BY <1>1, LeastNumber
<1>3. chooseBucket(framedLen, maxPadded)
        = IF framedLen > maxPadded THEN framedLen
          ELSE IF fitting = {} THEN maxPadded
          ELSE CHOOSE b \in fitting : \A other \in fitting : b <= other
  BY DEF chooseBucket
<1> DEFINE least == CHOOSE b \in fitting : \A other \in fitting : b <= other
<1> HIDE DEF fitting
<1>4. fitting # {} => least \in fitting
  BY <1>2
<1>5. CASE framedLen > maxPadded
  BY <1>3, <1>5
<1>6. CASE ~(framedLen > maxPadded) /\ fitting = {}
  BY <1>3, <1>6
<1>7. CASE ~(framedLen > maxPadded) /\ fitting # {}
  <2>1. chooseBucket(framedLen, maxPadded) = least
    BY <1>3, <1>7
  <2>2. least \in Nat /\ framedLen <= least /\ least <= maxPadded
    BY <1>1, <1>4, <1>7
  <2> QED
    BY <2>1, <2>2
<1> QED
  BY <1>5, <1>6, <1>7

LEMMA PaddingUndone ==
    ASSUME NEW letter \in Letter, NEW maxPadded \in Int
    PROVE  unpadPlaintext(padPlaintext(coerceBytes(letter.message), maxPadded))
               = coerceBytes(letter.message)
<1> DEFINE bytes == coerceBytes(letter.message)
           padded == padPlaintext(bytes, maxPadded)
<1>1. bytes.length \in Nat
  BY PlaintextLength
<1> HIDE DEF bytes
<1>2. PAD_HEADER_LENGTH + bytes.length \in Nat
  BY <1>1 DEF PAD_HEADER_LENGTH
<1>3. PAD_HEADER_LENGTH + bytes.length <= chooseBucket(PAD_HEADER_LENGTH + bytes.length, maxPadded)
  BY <1>2, BucketFits
<1>4. padded.framed = bytes /\ PAD_HEADER_LENGTH + padded.framed.length <= padded.length
  BY <1>3 DEF padPlaintext
<1> HIDE DEF padded
<1>5. unpadPlaintext(padded) = bytes
  BY <1>4 DEF unpadPlaintext
<1> QED
  BY <1>5 DEF padded, bytes

LEMMA BudgetIsInt ==
    ASSUME NEW n \in Nat
    PROVE  /\ hybridOverhead(n) \in Nat /\ maxFramedPlaintext(n, MAX_PAYLOAD_BYTES) \in Nat
           /\ maxFramedPlaintext(n, MAX_PAYLOAD_BYTES) > 0 =>
                  maxFramedPlaintext(n, MAX_PAYLOAD_BYTES) = MAX_PAYLOAD_BYTES - hybridOverhead(n)
<1>1. hybridOverhead(n) \in Nat
  BY DEF hybridOverhead, COMPRESSED_PUBKEY_LENGTH, IV_LENGTH, TAG_LENGTH,
         HYBRID_WRAP_LENGTH, AES_KEY_LENGTH
<1> QED
  BY <1>1, FlashAssumption DEF maxFramedPlaintext

\* What decrypting at an index of a list of keys comes to.
Opened(privateKey, keys, index, message) ==
    IF index \in 0 .. Len(keys) - 1 /\ keys[index + 1] = privateKey
        THEN coerceBytes(message) ELSE Failure

LEMMA ListLength ==
    ASSUME NEW n \in Nat, NEW S, NEW f \in [1 .. n -> S]
    PROVE  Len(f) = n
<1>1. f \in Seq(S)
  OBVIOUS
<1> QED
  BY <1>1, LenProperties

LEMMA HybridOpens ==
    ASSUME NEW letter \in Letter, NEW keys \in Seq(Key), NEW privateKey, NEW index \in Int
    PROVE  decryptHybridAt(privateKey, encryptHybrid(letter.message, keys, MAX_PAYLOAD_BYTES), index)
               = Opened(privateKey, keys, index, letter.message)
<1> DEFINE n == Len(keys)
           padded == padPlaintext(coerceBytes(letter.message),
                                  maxFramedPlaintext(n, MAX_PAYLOAD_BYTES))
           wraps == [i \in 1 .. n |-> aesGcmEncrypt(keys[i], "contentKey")]
           envelope == encryptHybrid(letter.message, keys, MAX_PAYLOAD_BYTES)
<1>1. n \in Nat
  OBVIOUS
<1>2. unpadPlaintext(padded) = coerceBytes(letter.message)
  <2>1. maxFramedPlaintext(n, MAX_PAYLOAD_BYTES) \in Int
    BY <1>1, BudgetIsInt
  <2> QED
    BY <2>1, PaddingUndone
<1>3. /\ envelope.version = HYBRID_VERSION /\ envelope.wraps = wraps
      /\ envelope.content = aesGcmEncrypt("contentKey", padded)
  BY DEF encryptHybrid
<1>4. Len(wraps) = n
  <2>1. \A i \in 1 .. n : keys[i] \in Key
    OBVIOUS
  <2>2. wraps \in [1 .. n -> {aesGcmEncrypt(k, "contentKey") : k \in Key}]
    BY <2>1
  <2> HIDE DEF wraps
  <2> QED
    BY <1>1, <2>2, ListLength
<1>5. \A i \in 1 .. n : wraps[i] = [key |-> keys[i], plaintext |-> "contentKey"]
  BY DEF aesGcmEncrypt
<1> HIDE DEF n, padded, wraps, envelope
<1>6. aesGcmDecrypt("contentKey", envelope.content) = padded
  <2>1. /\ envelope.content.key = "contentKey" /\ envelope.content.plaintext = padded
    BY <1>3 DEF aesGcmEncrypt
  <2> QED
    BY <2>1 DEF aesGcmDecrypt
<1>7. CASE index \notin 0 .. n - 1
  <2>1. index \notin 0 .. Len(envelope.wraps) - 1
    BY <1>3, <1>4, <1>7
  <2>2. decryptHybridAt(privateKey, envelope, index) = Failure
    BY <2>1 DEF decryptHybridAt
  <2> QED
    BY <1>7, <2>2 DEF Opened, n, envelope
<1>8. CASE index \in 0 .. n - 1
  <2>1. index + 1 \in 1 .. n
    BY <1>1, <1>8
  <2>2. aesGcmDecrypt(privateKey, envelope.wraps[index + 1])
          = IF keys[index + 1] = privateKey THEN "contentKey" ELSE Failure
    <3>1. /\ envelope.wraps[index + 1].key = keys[index + 1]
          /\ envelope.wraps[index + 1].plaintext = "contentKey"
      <4>1. envelope.wraps[index + 1] = [key |-> keys[index + 1], plaintext |-> "contentKey"]
        BY <1>3, <1>5, <2>1
      <4> QED
        BY <4>1
    <3> QED
      BY <3>1 DEF aesGcmDecrypt
  <2>3. decryptHybridAt(privateKey, envelope, index)
          = IF keys[index + 1] = privateKey THEN coerceBytes(letter.message) ELSE Failure
    BY <1>2, <1>3, <1>4, <1>6, <1>8, <2>2, PayloadAssumption DEF decryptHybridAt
  <2> QED
    BY <1>8, <2>3 DEF Opened, n, envelope
<1> QED
  BY <1>7, <1>8

LEMMA BundleOpens ==
    ASSUME NEW letter \in Letter, NEW keys \in Seq(Key), NEW privateKey, NEW index \in Int
    PROVE  decryptBundleAt(encryptBundle(letter.message, keys), privateKey, index)
               = Opened(privateKey, keys, index, letter.message)
<1> DEFINE n == Len(keys)
           blobs == [i \in DOMAIN keys |-> encryptBlob(keys[i], letter.message)]
           bundle == encryptBundle(letter.message, keys)
<1>1. n \in Nat /\ DOMAIN keys = 1 .. n
  OBVIOUS
<1>2. bundle.version = BUNDLE_VERSION /\ bundle.blobs = blobs
  BY DEF encryptBundle
<1>3. Len(blobs) = n
  <2>1. blobs \in [1 .. n -> {encryptBlob(k, letter.message) : k \in Key}]
    BY <1>1
  <2> HIDE DEF blobs
  <2> QED
    BY <1>1, <2>1, ListLength
<1>4. \A i \in 1 .. n : decryptBlob(privateKey, blobs[i])
                          = IF keys[i] = privateKey THEN coerceBytes(letter.message) ELSE Failure
  BY <1>1 DEF encryptBlob, decryptBlob, aesGcmEncrypt, aesGcmDecrypt
<1> HIDE DEF n, blobs, bundle
<1>5. CASE index \notin 0 .. n - 1
  <2>1. decryptBundleAt(bundle, privateKey, index) = Failure
    BY <1>2, <1>3, <1>5 DEF decryptBundleAt
  <2> QED
    BY <1>5, <2>1 DEF Opened, n, bundle
<1>6. CASE index \in 0 .. n - 1
  <2>1. index + 1 \in 1 .. n
    BY <1>1, <1>6
  <2>2. decryptBundleAt(bundle, privateKey, index)
          = IF keys[index + 1] = privateKey THEN coerceBytes(letter.message) ELSE Failure
    BY <1>2, <1>3, <1>4, <1>6, <2>1 DEF decryptBundleAt
  <2> QED
    BY <1>6, <2>2 DEF Opened, n, bundle
<1> QED
  BY <1>5, <1>6

\* Whatever the format, a payload opens at an index with the key it was
\* sealed with there, to the message, and with no other key and nowhere else.
THEOREM SealedOpens ==
    ASSUME NEW letter \in Letter, NEW keys \in Seq(Key), NEW privateKey, NEW index \in Int
    PROVE  decryptAt(privateKey, Sealed(letter, keys), index)
               = Opened(privateKey, keys, index, letter.message)
<1>1. CASE Hybrid(letter.kind)
  <2>1. Sealed(letter, keys) = encryptHybrid(letter.message, keys, MAX_PAYLOAD_BYTES)
    BY <1>1 DEF Sealed
  <2>2. looksLikeHybrid(Sealed(letter, keys))
    <3>1. encryptHybrid(letter.message, keys, MAX_PAYLOAD_BYTES).version = HYBRID_VERSION
      BY DEF encryptHybrid
    <3> QED
      BY <2>1, <3>1 DEF looksLikeHybrid
  <2> QED
    BY <2>1, <2>2, HybridOpens DEF decryptAt
<1>2. CASE ~Hybrid(letter.kind)
  <2>1. Sealed(letter, keys) = encryptBundle(letter.message, keys)
    BY <1>2 DEF Sealed
  <2>2. ~looksLikeHybrid(Sealed(letter, keys))
    BY <2>1 DEF looksLikeHybrid, encryptBundle, BUNDLE_VERSION, HYBRID_VERSION
  <2> QED
    BY <2>1, <2>2, BundleOpens DEF decryptAt
<1> QED
  BY <1>1, <1>2

------------------------------------------------------------------------------
(***************************************************************************)
(* The reader of a gated letter.                                           *)
(***************************************************************************)
\* What a payload on chain gives its reader is nothing or the message.
LEMMA ReadsTheMessage ==
    ASSUME CallsInv, RecordsInv, NEW id \in Call, beats[id].status # "none",
           looksLikeHybrid(beats[id].payload), NEW privateKey, NEW index \in Int
    PROVE  /\ beats[id].call \in Call /\ calls[beats[id].call].letter \in Letter
           /\ decryptHybridAt(privateKey, beats[id].payload, index)
                  \in {Failure, coerceBytes(calls[beats[id].call].letter.message)}
<1>1. PICK c \in MinedCalls : beats[id].call = c /\ beats[id].payload = Payload(c)
  BY BeatTypes
<1>2. c \in Call /\ ~At(c, "idle")
  BY DEF MinedCalls, CallsInv, CallInv
<1>3. calls[c].letter \in Letter /\ calls[c].keys \in Seq(Key)
  BY <1>2, CallTypes
<1>4. decryptAt(privateKey, Sealed(calls[c].letter, calls[c].keys), index)
        = Opened(privateKey, calls[c].keys, index, calls[c].letter.message)
  BY <1>3, SealedOpens
<1>5. beats[id].payload = Sealed(calls[c].letter, calls[c].keys)
  BY <1>1 DEF Payload
<1>6. decryptHybridAt(privateKey, beats[id].payload, index)
        = Opened(privateKey, calls[c].keys, index, calls[c].letter.message)
  BY <1>4, <1>5 DEF decryptAt
<1> QED
  BY <1>1, <1>2, <1>3, <1>6 DEF Opened

LEMMA ReaderIInv ==
    ASSUME IInv, ReaderNext
    PROVE  IInv'
<1>1. UNCHANGED <<flashVars, callVars, chainVars, ownVars, faults, moves>>
  BY DEF ReaderNext, StartOpen, Poll, PollOpens, PollAgain
<1>2. /\ KeysInv' /\ CallsInv' /\ QueueInv' /\ RecordsInv' /\ OutcomeInv' /\ LedgerInv' /\ BoundsInv'
  <2>1. /\ UNCHANGED <<flashes, beats, queue, tx, calls>> /\ UNCHANGED flashLog
        /\ KeysUnchanged /\ KeysGrow /\ \A c \in Call : tx'[c] = "none" <=> tx[c] = "none"
    BY <1>1, NothingGrows DEF callVars, chainVars, flashLog, flashVars, IInv
  <2>2. CallsInv' /\ QuietCalls /\ FrozenCalls
    <3>1. CallsInv' /\ QuietCalls
      BY <1>1, <2>1, MinedCallsInv DEF IInv
    <3> QED
      BY <3>1, QuietCallsAreFrozen
  <2>3. BeatsGrow /\ FlashesGrow /\ MinedCalls' = MinedCalls
    BY <2>1 DEF BeatsGrow, FlashesGrow, MinedCalls
  <2>4. RecordsInv' /\ OutcomeInv'
    BY <2>1, <2>2, <2>3, RecordsKept, OutcomeKept DEF IInv
  <2> QED
    BY <1>1, <2>1, <2>2, <2>4, KeysKept, QueueKept, LedgerKept, BoundsKept DEF IInv
<1>3. ASSUME NEW id \in Call, NEW index \in 1 .. MAX_RECIPIENTS, StartOpen(id, index)
      PROVE  OpenerInv'
  <2>1. beats[id].status # "none" /\ looksLikeHybrid(beats[id].payload)
        /\ index \in 1 .. Len(beats[id].recipients) /\ index - 1 \in Int
    BY <1>3, FlashAssumption DEF StartOpen
  <2>2. beats[id].recipients \in Seq(Recipient)
    BY <2>1, BeatTypes DEF IInv, BeatsOf
  <2>3. keyFile[beats[id].recipients[index]] \in Key
    <3>1. beats[id].recipients[index] \in Recipient
      BY <2>1, <2>2
    <3> QED
      BY <3>1 DEF IInv, KeysInv
  <2>4. /\ opener' \in OpenerRecord /\ opener'.id = id /\ opener'.at = "polling"
    BY <1>3, <2>1, <2>3 DEF StartOpen, OpenerRecord
  <2>5. beats' = beats
    BY <1>1 DEF chainVars
  <2> QED
    BY <2>1, <2>4, <2>5 DEF OpenerInv, VeilNeverEarly
<1>4. ASSUME Poll
      PROVE  OpenerInv'
  <2>1. PICK partials \in 0 .. Nodes : PollOpens(partials) \/ PollAgain(partials)
    BY <1>4 DEF Poll
  <2>2. opener.at = "polling" /\ partials \in Answers /\ beats' = beats /\ calls' = calls
    BY <1>1, <2>1 DEF PollOpens, PollAgain, chainVars, callVars
  <2>3. /\ opener \in OpenerRecord /\ opener.id \in Call /\ opener.index \in Int
        /\ beats[opener.id].status # "none" /\ looksLikeHybrid(beats[opener.id].payload)
    BY <2>2 DEF IInv, OpenerInv, NoReader, OpenerRecord
  <2>4. CASE PollOpens(partials)
    <3>1. Combines(partials)
          /\ opener' = [opener EXCEPT
                 !.at  = IF veilUnwrap = Failure THEN "threw" ELSE "opened",
                 !.got = veilUnwrap]
      BY <2>4 DEF PollOpens
    <3>2. /\ beats[opener.id].call \in Call /\ calls[beats[opener.id].call].letter \in Letter
          /\ veilUnwrap \in {Failure, coerceBytes(calls[beats[opener.id].call].letter.message)}
      BY <2>3, ReadsTheMessage DEF veilUnwrap, IInv
    <3>3. Released(opener.id)
      <4>1. Threshold \in Nat /\ Faulty \in Nat /\ Faulty < Threshold /\ Nodes \in Nat
        BY ClientAssumption
      <4>2. partials \in Int /\ partials >= Threshold
        BY <3>1 DEF Combines
      <4>3. ~(partials \in 0 .. Faulty)
        BY <4>1, <4>2
      <4> QED
        BY <2>2, <4>3 DEF Answers
    <3>4. veilUnwrap \in {Failure} \cup Plaintexts
      BY <3>2 DEF Plaintexts
    <3> DEFINE got == veilUnwrap
    <3> HIDE DEF got
    <3>5. /\ opener' \in OpenerRecord /\ opener'.id = opener.id /\ opener'.got = got
          /\ opener'.at = IF got = Failure THEN "threw" ELSE "opened"
      BY <2>3, <3>1, <3>4 DEF OpenerRecord, got
    <3>6. VeilNeverEarly'
      BY <2>2, <3>2, <3>3, <3>5 DEF VeilNeverEarly, Released, got
    <3> QED
      BY <2>2, <2>3, <3>5, <3>6 DEF OpenerInv
  <2>5. CASE PollAgain(partials)
    <3>1. /\ opener' \in OpenerRecord /\ opener'.id = opener.id /\ opener'.at # "opened"
      BY <2>2, <2>3, <2>5 DEF PollAgain, OpenerRecord
    <3> QED
      BY <2>2, <2>3, <3>1 DEF OpenerInv, VeilNeverEarly
  <2> QED
    BY <2>1, <2>4, <2>5
<1> QED
  BY <1>2, <1>3, <1>4 DEF ReaderNext, IInv

------------------------------------------------------------------------------
LEMMA InitClientIInv == Init => IInv
<1> SUFFICES ASSUME Init PROVE IInv
  OBVIOUS
<1>1. KeysInv
  <2> DEFINE keys == [r \in Recipient |-> IF r \in Registered THEN PublicKey(r, 1) ELSE NoKey]
  <2>1. keys \in [Recipient -> Key]
    BY DEF PublicKey, NoKey, Key
  <2>2. /\ prePublicKey = keys /\ encPubKey = keys /\ ratchetPubKey = keys
        /\ keyFile = [r \in Recipient |-> keys[r]]
        /\ made = [r \in Recipient |-> IF r \in Registered THEN 1 ELSE 0]
    BY DEF Init, FlashInit
  <2>3. \A r \in Recipient : keys[r] = IF made[r] = 1 THEN PublicKey(r, 1) ELSE NoKey
    BY <2>2
  <2>4. made \in [Recipient -> Nat] /\ keyFile \in [Recipient -> Key]
        /\ \A r \in Recipient : keyFile[r] = keys[r]
    BY <2>1, <2>2
  <2> HIDE DEF keys
  <2>5. \A r \in Recipient : keys[r] \in KeysOf(r)
    BY <2>3 DEF KeysOf
  <2>6. \A r \in Recipient : keyFile[r] # NoKey => made[r] >= 1 /\ keyFile[r] = PublicKey(r, made[r])
    BY <2>3, <2>4
  <2> QED
    BY <2>1, <2>2, <2>4, <2>5, <2>6 DEF KeysInv
<1>2. CallsInv
  BY DEF Init, CallsInv, CallInv, At, NoCall
<1>3. QueueInv
  BY DEF Init, QueueInv
<1>4. RecordsInv /\ OutcomeInv
  BY DEF Init, FlashInit, RecordsInv, OutcomeInv, At, NoCall
<1>5. OpenerInv
  BY DEF Init, OpenerInv
<1>6. LedgerInv
  <2>1. /\ flashes = <<>> /\ sentFlashes = <<>> /\ feesReceived = 0
        /\ receivedFlashes = [r \in Recipient |-> <<>>]
    BY DEF Init, FlashInit
  <2>2. 0 .. Len(flashes) - 1 = {}
    BY <2>1
  <2>3. InOrder(<<>>, {})
    BY DEF InOrder
  <2>4. \A r \in Recipient : NumbersFor(r) = {}
    BY <2>2 DEF NumbersFor
  <2>5. PaidFor = {}
    BY <2>2 DEF PaidFor
  <2>6. perRecipientFee * Cardinality(PaidFor) = 0
    BY <2>5, FS_EmptySet, FlashAssumption
  <2>7. FlashLedgerExact
    BY <2>1, <2>2, <2>3, <2>4, <2>6, LedgerByParts
  <2> QED
    BY <2>1, <2>7 DEF LedgerInv
<1>7. BoundsInv
  BY ClientAssumption DEF Init, BoundsInv
<1> QED
  BY <1>1, <1>2, <1>3, <1>4, <1>5, <1>6, <1>7 DEF IInv

LEMMA NextClientIInv == IInv /\ [Next]_vars => IInv'
<1> SUFFICES ASSUME IInv, [Next]_vars PROVE IInv'
  OBVIOUS
<1>1. CASE UNCHANGED vars
  <2>1. /\ UNCHANGED <<flashVars, beats, ownVars, opener>> /\ UNCHANGED <<queue, tx, faults, moves>>
        /\ UNCHANGED callVars
    BY <1>1 DEF vars, chainVars
  <2>2. CallsInv' /\ QuietCalls
    BY <2>1, NothingGrows, MinedCallsInv DEF IInv
  <2>3. QueueInv' /\ BoundsInv'
    BY <2>1, QueueKept, BoundsKept DEF IInv
  <2> QED
    BY <2>1, <2>2, <2>3, QuietStep
<1> QED
  BY <1>1, ClientIInv, MineBeatIInv, MineFlashIInv, RevertIInv, OwnerIInv, RecipientIInv,
     ReaderIInv DEF Next, Mine

THEOREM ClientInvariance == Spec => []IInv
<1> QED
  BY InitClientIInv, NextClientIInv, PTL DEF Spec

------------------------------------------------------------------------------
(***************************************************************************)
(* The properties that the runs check.                                     *)
(***************************************************************************)
\* The shared initialization is pending exactly while a call waits for it,
\* and a transaction is pending exactly while it is in the queue.
THEOREM ClientTypeCorrect == Spec => []TypeOK
<1>1. IInv => TypeOK
  <2> SUFFICES ASSUME IInv PROVE TypeOK
    OBVIOUS
  <2>1. ASSUME NEW c \in Call
        PROVE  /\ tx[c] \in {"none", "pending", "mined", "reverted"}
               /\ tx[c] = "pending" <=> \E k \in DOMAIN queue : queue[k] = c
               /\ beats[c].status \in {"none", "active", "executed", "deactivated"}
    <3>1. DOMAIN queue = 1 .. Len(queue)
      BY DEF IInv, QueueInv
    <3>2. beats[c].status \in {"none", "active", "executed", "deactivated"}
      BY DEF IInv, RecordsInv, NoBeat, BeatsOf
    <3> QED
      BY <3>1, <3>2 DEF IInv, QueueInv
  <2>2. ASSUME NEW c \in Call, calls[c] # NoCall
        PROVE  /\ calls[c].at \in {"init", "keys", "send", "wait", "done", "threw"}
               /\ calls[c].letter \in Letter /\ calls[c].salt \in Call
               /\ Len(calls[c].keys) <= Len(calls[c].letter.recipients)
    BY <2>2, CallTypes DEF IInv, CallsInv, CallInv, CallRecord, Stage, KeysMatch
  <2>3. opener.at \in {"idle", "polling", "opened", "threw"}
    BY DEF IInv, OpenerInv, NoReader, OpenerRecord
  <2>4. inited \in BOOLEAN /\ (probing <=> \E c \in Call : At(c, "init"))
        /\ faults \in 0 .. MaxFaults /\ moves \in 0 .. MaxMoves
    BY DEF IInv, CallsInv, BoundsInv
  <2> QED
    BY <2>1, <2>2, <2>3, <2>4 DEF TypeOK
<1> QED
  BY <1>1, ClientInvariance, PTL

\* The indexes of the flashes list each one exactly where it belongs, and it
\* has been paid for each of its recipients.
THEOREM FlashLedgerIsExact == Spec => []FlashLedgerExact
<1>1. IInv => FlashLedgerExact
  BY DEF IInv, LedgerInv
<1> QED
  BY <1>1, ClientInvariance, PTL

\* An id that a call returns is of what that call put on the chain.
THEOREM ReturnedWasCreated == Spec => []ReturnedIsCreated
<1>1. IInv => ReturnedIsCreated
  BY DEF IInv, OutcomeInv, CreatedBy, ReturnedIsCreated
<1> QED
  BY <1>1, ClientInvariance, PTL

\* A gated letter opens only once it has been executed.
THEOREM VeilIsNeverEarly == Spec => []VeilNeverEarly
<1>1. IInv => VeilNeverEarly
  BY DEF IInv, OpenerInv, NoReader, VeilNeverEarly
<1> QED
  BY <1>1, ClientInvariance, PTL

\* What the client admits for the room there is makes an envelope that the
\* contract admits.
THEOREM PayloadAlwaysFits == Spec => []PayloadFits
<1>1. IInv => PayloadFits
  <2> SUFFICES ASSUME IInv, NEW c \in Call, At(c, "send"), Hybrid(calls[c].letter.kind),
                      coerceBytes(calls[c].letter.message).length
                          <= maxInlineMessageBytes(Len(calls[c].keys), MAX_PAYLOAD_BYTES),
                      0 < maxInlineMessageBytes(Len(calls[c].keys), MAX_PAYLOAD_BYTES)
               PROVE  Payload(c).length <= MAX_PAYLOAD_BYTES
    BY DEF PayloadFits
  <2> DEFINE n == Len(calls[c].keys)
             letter == calls[c].letter
             length == coerceBytes(letter.message).length
             room == maxFramedPlaintext(n, MAX_PAYLOAD_BYTES)
             framed == PAD_HEADER_LENGTH + length
  <2>1. letter \in Letter /\ n \in Nat
    BY CallTypes DEF IInv, At
  <2>2. length \in Nat
    BY <2>1, PlaintextLength
  <2>3. /\ room \in Nat /\ hybridOverhead(n) \in Nat
        /\ room > 0 => room = MAX_PAYLOAD_BYTES - hybridOverhead(n)
    BY <2>1, BudgetIsInt
  <2>4. Payload(c).length = hybridOverhead(n) + chooseBucket(framed, room)
    BY DEF Payload, Sealed, encryptHybrid, padPlaintext
  <2>5. maxInlineMessageBytes(n, MAX_PAYLOAD_BYTES)
          = IF room - PAD_HEADER_LENGTH < 0 THEN 0 ELSE room - PAD_HEADER_LENGTH
    BY DEF maxInlineMessageBytes
  <2> HIDE DEF n, letter, length, room
  <2>6. framed \in Nat /\ framed <= room /\ room > 0
    BY <2>2, <2>3, <2>5 DEF PAD_HEADER_LENGTH, n, letter, length
  <2> HIDE DEF framed
  <2>7. chooseBucket(framed, room) \in Int /\ chooseBucket(framed, room) <= room
    BY <2>3, <2>6, BucketFits
  <2> QED
    BY <2>3, <2>4, <2>6, <2>7, FlashAssumption
<1> QED
  BY <1>1, ClientInvariance, PTL

\* A payload of a call opens for those it was sealed for.
LEMMA PayloadOpens ==
    ASSUME IInv, NEW c \in MinedCalls
    PROVE  SealedFor(calls[c].letter.recipients, Payload(c), calls[c].letter.message)
<1> DEFINE letter == calls[c].letter
           keys == calls[c].keys
           list == letter.recipients
<1>1. c \in Call /\ ~At(c, "idle")
  BY DEF IInv, MinedCalls, CallsInv, CallInv
<1>2. /\ letter \in Letter /\ keys \in Seq(Key) /\ list \in Seq(Recipient)
      /\ Len(keys) \in Nat /\ Payload(c) = Sealed(letter, keys)
  BY <1>1, CallTypes DEF IInv, Payload
<1>3. /\ Len(keys) = Len(list) /\ DOMAIN list = 1 .. Len(keys)
      /\ \A i \in 1 .. Len(keys) : keys[i] \in KeysOf(list[i]) /\ list[i] \in Recipient
  BY <1>1, <1>2 DEF IInv, MinedCalls, CallsInv, CallInv, KeysMatch, AllKeysRead
<1>4. \A i \in 1 .. Len(keys) : coercible(keys[i])
  BY <1>1, <1>2 DEF IInv, MinedCalls, CallsInv, CallInv, Encryptable
<1> HIDE DEF letter, keys, list
<1>5. \A i \in 1 .. Len(keys) : \E m \in 1 .. made[list[i]] : keys[i] = PublicKey(list[i], m)
  BY <1>3, <1>4 DEF KeysOf, coercible, NoKey, RandomBytes,
                    COMPRESSED_PUBKEY_LENGTH, UNCOMPRESSED_PUBKEY_LENGTH
<1>6. ASSUME NEW r \in Recipient, NEW i \in DOMAIN list
      PROVE  decryptAt(keyFile[r], Payload(c), i - 1)
                 = IF keys[i] = keyFile[r] THEN coerceBytes(letter.message) ELSE Failure
  <2>1. i \in 1 .. Len(keys) /\ i - 1 \in 0 .. Len(keys) - 1 /\ i - 1 \in Int /\ (i - 1) + 1 = i
    BY <1>2, <1>3
  <2> DEFINE index == i - 1
             privateKey == keyFile[r]
  <2> HIDE DEF index, privateKey
  <2>2. decryptAt(privateKey, Sealed(letter, keys), index)
          = Opened(privateKey, keys, index, letter.message)
    BY <1>2, <2>1, SealedOpens DEF index
  <2> QED
    BY <1>2, <2>1, <2>2 DEF Opened, index, privateKey
<1>7. ASSUME NEW r \in Recipient, \E i \in DOMAIN list : list[i] = r,
             keyFile[r] = PublicKey(r, 1)
      PROVE  ReadBack(r, list, Payload(c)) = coerceBytes(letter.message)
  <2> DEFINE mine == {i \in DOMAIN list : list[i] = r}
             first == CHOOSE i \in mine : \A j \in mine : i <= j
  <2>1. mine \in SUBSET Nat /\ mine # {}
    BY <1>3, <1>7
  <2>2. first \in mine
    <3> HIDE DEF mine
    <3>1. \E i \in mine : \A j \in mine : i <= j
      BY <2>1, LeastNumber
    <3> QED
      BY <3>1
  <2>3. ReadBack(r, list, Payload(c)) = decryptAt(keyFile[r], Payload(c), first - 1)
    BY <2>1 DEF ReadBack
  <2> HIDE DEF first
  <2>4. first \in DOMAIN list /\ list[first] = r
    BY <2>2
  <2>5. made[r] = 1
    BY <1>7 DEF IInv, KeysInv, PublicKey, NoKey
  <2>6. keys[first] = keyFile[r]
    <3>1. PICK m \in 1 .. made[r] : keys[first] = PublicKey(r, m)
      BY <1>3, <1>5, <2>4
    <3>2. m = 1
      BY <2>5
    <3> QED
      BY <1>7, <3>1, <3>2
  <2> QED
    BY <1>6, <2>3, <2>4, <2>6
<1>8. ASSUME NEW r \in Recipient, ~ \E i \in DOMAIN list : list[i] = r, NEW i \in DOMAIN list
      PROVE  decryptAt(keyFile[r], Payload(c), i - 1) = Failure
  <2>1. PICK m \in 1 .. made[list[i]] : keys[i] = PublicKey(list[i], m)
    BY <1>3, <1>5
  <2>2. keyFile[r] = NoKey \/ keyFile[r] = PublicKey(r, made[r])
    BY DEF IInv, KeysInv
  <2>3. keys[i] # keyFile[r]
    BY <1>8, <2>1, <2>2 DEF PublicKey, NoKey
  <2> QED
    BY <1>6, <2>3
<1>9. SealedFor(list, Payload(c), letter.message)
  BY <1>7, <1>8 DEF SealedFor
<1> QED
  BY <1>9 DEF list, letter

\* Every letter and flash on chain opens for exactly those it was sent to.
THEOREM LettersAlwaysOpen == Spec => []LettersOpen
<1>1. IInv => LettersOpen
  <2> SUFFICES ASSUME IInv PROVE LettersOpen
    OBVIOUS
  <2>1. ASSUME NEW id \in Call, beats[id].status # "none"
        PROVE  SealedFor(calls[beats[id].call].letter.recipients, beats[id].payload,
                         calls[beats[id].call].letter.message)
    <3>1. PICK c \in MinedCalls : beats[id].call = c /\ beats[id].payload = Payload(c)
      BY <2>1, BeatTypes DEF IInv
    <3> QED
      BY <3>1, PayloadOpens
  <2>2. ASSUME NEW k \in DOMAIN flashes
        PROVE  SealedFor(flashes[k].recipients, flashes[k].payload,
                         calls[flashes[k].call].letter.message)
    <3>1. PICK c \in MinedCalls : flashes[k] = FlashOf(c)
      BY DEF IInv, RecordsInv
    <3>2. /\ flashes[k].call = c /\ flashes[k].payload = Payload(c)
          /\ flashes[k].recipients = calls[c].letter.recipients
      BY <3>1 DEF FlashOf
    <3> QED
      BY <3>2, PayloadOpens
  <2> QED
    BY <2>1, <2>2 DEF LettersOpen
<1> QED
  BY <1>1, ClientInvariance, PTL
==============================================================================
