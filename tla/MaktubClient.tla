----------------------------- MODULE MaktubClient -----------------------------
(***************************************************************************)
(* The SDK's MaktubClient sending letters and flashes, the recipients who  *)
(* publish, lose and replace the keys they are sealed to, the chain that   *)
(* mines the transactions, and the reader of a letter sealed with Veil.    *)
(*                                                                         *)
(* Every method of the client is a chain of awaits: a call is a record     *)
(* that says how far it has come, calls of one client interleave at their  *)
(* awaits, and everyone else acts between any two of them.                 *)
(***************************************************************************)
EXTENDS MaktubFlash, Payloads

CONSTANTS Call,                 \* the sender's calls, numbered from 1
          Letter,               \* what they send: [kind, recipients, message]
          Recipients,           \* the lists an owner may change a letter's to
          Registered,           \* who has keys in both registries to begin with
          Nodes, Threshold, Faulty,     \* the Veil federation
          MaxKeys, MaxMoves, MaxFaults, MaxRounds       \* bounds

ASSUME ClientAssumption ==
    /\ IsFiniteSet(Call) /\ Call = 1 .. Cardinality(Call)
    /\ \A letter \in Letter :
          /\ letter.kind \in {"bundle", "veil", "flash", "script"}
          /\ letter.recipients \in Seq(Recipient) \ {<<>>}
          /\ letter.message.hex \in BOOLEAN /\ letter.message.length \in Nat
    /\ Recipients \subseteq Seq(Recipient)
    /\ Registered \subseteq Recipient
    /\ {Nodes, Threshold, Faulty} \subseteq Nat
    /\ Faulty < Threshold /\ Threshold <= Nodes
    /\ {MaxKeys, MaxMoves, MaxFaults, MaxRounds} \subseteq Nat

VARIABLES inited,       \* _initialized
          probing,      \* _initPromise is set
          calls,
          queue,        \* the sender's pending transactions, by nonce
          tx,           \* call -> what became of its transaction
          beats,        \* id, which is the salt -> the letter there
          keyFile,      \* recipient -> the key pair on its device
          made,         \* recipient -> number of key pairs it has made
          opener,       \* veilOpen, at a recipient
          faults, moves

callVars  == <<inited, probing, calls>>
chainVars == <<queue, tx, beats>>
ownVars   == <<keyFile, made>>
vars == <<flashVars, callVars, chainVars, ownVars, opener, faults, moves>>

NoCall   == [at |-> "idle"]
NoBeat   == [status |-> "none"]
NoReader == [at |-> "idle"]

Init ==
    /\ FlashInit(Registered)
    /\ inited = FALSE /\ probing = FALSE
    /\ calls = [c \in Call |-> NoCall]
    /\ queue = <<>>
    /\ tx = [c \in Call |-> "none"]
    /\ beats = [id \in Call |-> NoBeat]
    /\ keyFile = [r \in Recipient |-> prePublicKey[r]]
    /\ made = [r \in Recipient |-> IF r \in Registered THEN 1 ELSE 0]
    /\ opener = NoReader
    /\ faults = 0 /\ moves = 0

(* ------------------------- what a call works with ---------------------- *)

At(c, stage) == calls[c].at = stage
Ended(c)     == At(c, "done") \/ At(c, "threw")
Goto(c, stage) == calls' = [calls EXCEPT ![c].at = stage]

Hybrid(kind) == kind \in {"veil", "flash"}

\* The key a letter of this kind is sealed with, and NoKey for an account
\* the sender finds not registered, or not eligible.
SealingKey(kind, r) == IF kind = "flash" THEN ratchetPubKey[r] ELSE prePublicKey[r]

Sealed(letter, keys) ==
    IF Hybrid(letter.kind)
        THEN encryptHybrid(letter.message, keys, MAX_PAYLOAD_BYTES)
        ELSE encryptBundle(letter.message, keys)

Payload(c) == Sealed(calls[c].letter, calls[c].keys)

\* The script's gate: a bundle, and one longer than the text it hides.
PassesGate(payload, message) ==
    /\ payload.version = BUNDLE_VERSION
    /\ payload.length > message.length

\* Of a letter that Veil gates only the address of the envelope goes on chain.
OnChainLength(letter, payload) == IF letter.kind = "veil" THEN 1 ELSE payload.length

\* createHeartbeat and updateRecipients take accounts of the first registry.
ValidateRecipients(recipients) ==
    /\ Len(recipients) \in 1 .. MAX_RECIPIENTS
    /\ \A i \in DOMAIN recipients : isRegistered(recipients[i])
    /\ NoDuplicates(recipients)

\* What createHeartbeat and flash demand, as the estimate and then the block
\* find it.
Accepted(c) ==
    LET letter == calls[c].letter
        length == OnChainLength(letter, Payload(c))
    IN  IF letter.kind = "flash"
            THEN FlashAllowed(letter.recipients, length,
                              flashFeeFor(Len(letter.recipients)))
            ELSE /\ beats[calls[c].salt] = NoBeat
                 /\ length \in 1 .. MAX_PAYLOAD_BYTES
                 /\ ValidateRecipients(letter.recipients)

(* ------------------------------ the client ----------------------------- *)

Fresh(c, letter, salt, stage) ==
    /\ At(c, "idle")
    /\ \A d \in 1 .. c - 1 : ~At(d, "idle")
    /\ calls' = [calls EXCEPT ![c] = [ at     |-> stage,
                                       letter |-> letter,
                                       salt   |-> salt,
                                       keys   |-> <<>>,
                                       result |-> -1 ]]

\* A salt given again is a letter sent again.  Whoever needs the client first
\* starts its initialization, and the others wait for the same one.
Begin(c, letter, salt) ==
    /\ letter.kind # "script"
    /\ Fresh(c, letter, salt, IF inited THEN "keys" ELSE "init")
    /\ salt # c => letter.kind # "flash" /\ calls[salt].letter = letter
    /\ probing' = ~inited
    /\ UNCHANGED <<flashVars, inited, chainVars, ownVars, opener, faults, moves>>

\* The two-wallet script calls the contracts without a client.
BeginScript(c, letter) ==
    /\ letter.kind = "script"
    /\ Fresh(c, letter, c, "keys")
    /\ UNCHANGED <<flashVars, inited, probing, chainVars, ownVars, opener,
                   faults, moves>>

AllWaiting(stage) ==
    calls' = [c \in Call |-> IF At(c, "init") THEN [calls[c] EXCEPT !.at = stage]
                                              ELSE calls[c]]

ProbeReturns ==
    /\ probing
    /\ inited' = TRUE /\ probing' = FALSE
    /\ AllWaiting("keys")
    /\ UNCHANGED <<flashVars, chainVars, ownVars, opener, faults, moves>>

\* Mutant of ProbeFails: the promise stays.
ProbeFailsForGood ==
    /\ probing
    /\ faults < MaxFaults /\ faults' = faults + 1
    /\ AllWaiting("threw")
    /\ UNCHANGED <<flashVars, inited, probing, chainVars, ownVars, opener, moves>>

\* The promise is cleared, so that a later call tries again.
ProbeFails ==
    /\ probing
    /\ faults < MaxFaults /\ faults' = faults + 1
    /\ probing' = FALSE
    /\ AllWaiting("threw")
    /\ UNCHANGED <<flashVars, inited, chainVars, ownVars, opener, moves>>

NextRecipient(c) == calls[c].letter.recipients[Len(calls[c].keys) + 1]

\* Mutant of ReadKey: a key is put before those read earlier.
ReadKeyInFront(c) ==
    LET key == SealingKey(calls[c].letter.kind, NextRecipient(c))
        all == <<key>> \o calls[c].keys
    IN  /\ At(c, "keys")
        /\ calls' = [calls EXCEPT
               ![c].keys = all,
               ![c].at = IF key = NoKey THEN "threw"
                         ELSE IF Len(all) = Len(calls[c].letter.recipients)
                             THEN "send" ELSE "keys"]
        /\ UNCHANGED <<flashVars, inited, probing, chainVars, ownVars, opener,
                       faults, moves>>

\* One recipient's key, read when its turn comes.  A key that is missing ends
\* the call, here or when the encryption finds it too short.
ReadKey(c) ==
    LET key == SealingKey(calls[c].letter.kind, NextRecipient(c))
        all == Append(calls[c].keys, key)
    IN  /\ At(c, "keys")
        /\ calls' = [calls EXCEPT
               ![c].keys = all,
               ![c].at = IF key = NoKey THEN "threw"
                         ELSE IF Len(all) = Len(calls[c].letter.recipients)
                             THEN "send" ELSE "keys"]
        /\ UNCHANGED <<flashVars, inited, probing, chainVars, ownVars, opener,
                       faults, moves>>

\* The provider estimates the gas of what it is about to send, and refuses to
\* send what would revert.
Sendable(c) ==
    /\ Encryptable(calls[c].keys)
    /\ calls[c].letter.kind = "script" =>
           PassesGate(Payload(c), calls[c].letter.message)
    /\ Accepted(c)

Broadcast(c) ==
    /\ Sendable(c)
    /\ queue' = Append(queue, c)
    /\ tx' = [tx EXCEPT ![c] = "pending"]

Sends(c) ==
    /\ At(c, "send")
    /\ Broadcast(c)
    /\ Goto(c, "wait")
    /\ UNCHANGED <<flashVars, inited, probing, beats, ownVars, opener, faults, moves>>

SendBeat(c)   == Sends(c) /\ calls[c].letter.kind \in {"bundle", "veil"}
SendFlash(c)  == Sends(c) /\ calls[c].letter.kind = "flash"
SendScript(c) == Sends(c) /\ calls[c].letter.kind = "script"

SendRefused(c) ==
    /\ At(c, "send") /\ ~Sendable(c)
    /\ Goto(c, "threw")
    /\ UNCHANGED <<flashVars, inited, probing, chainVars, ownVars, opener,
                   faults, moves>>

\* A request fails before the network has the transaction.
CallFails(c) ==
    /\ calls[c].at \in {"keys", "send"}
    /\ faults < MaxFaults /\ faults' = faults + 1
    /\ Goto(c, "threw")
    /\ UNCHANGED <<flashVars, inited, probing, chainVars, ownVars, opener, moves>>

\* The network has the transaction and the caller does not hear of it.
AnswerLost(c) ==
    /\ At(c, "send") /\ Broadcast(c)
    /\ faults < MaxFaults /\ faults' = faults + 1
    /\ Goto(c, "threw")
    /\ UNCHANGED <<flashVars, inited, probing, beats, ownVars, opener, moves>>

WaitFails(c) ==
    /\ At(c, "wait")
    /\ faults < MaxFaults /\ faults' = faults + 1
    /\ Goto(c, "threw")
    /\ UNCHANGED <<flashVars, inited, probing, chainVars, ownVars, opener, moves>>

\* The number that the event of this transaction carries.
FlashId(c) == CHOOSE id \in 0 .. Len(flashes) - 1 : flashes[id + 1].call = c

\* A letter's id is its salt, in the event and when it is derived.
EventId(c) == IF calls[c].letter.kind = "flash" THEN FlashId(c) ELSE calls[c].salt

\* Mutant of WaitReturns: a receipt without an event is taken for a success,
\* and the id derived from the salt.
WaitDerives(c) ==
    /\ At(c, "wait")
    /\ \/ /\ tx[c] = "mined"
          /\ calls' = [calls EXCEPT ![c].at = "done", ![c].result = EventId(c)]
       \/ /\ tx[c] = "reverted"
          /\ calls[c].letter.kind # "flash"
          /\ calls' = [calls EXCEPT ![c].at = "done", ![c].result = calls[c].salt]
    /\ UNCHANGED <<flashVars, inited, probing, chainVars, ownVars, opener,
                   faults, moves>>

\* wait() throws when the transaction has reverted.
WaitReturns(c) ==
    /\ At(c, "wait")
    /\ \/ /\ tx[c] = "mined"
          /\ calls' = [calls EXCEPT ![c].at = "done", ![c].result = EventId(c)]
       \/ tx[c] = "reverted" /\ Goto(c, "threw")
    /\ UNCHANGED <<flashVars, inited, probing, chainVars, ownVars, opener,
                   faults, moves>>

(* ------------------------------- the chain ----------------------------- *)

\* Transactions of one account are mined in the order of their nonces.
Mined(c, how) ==
    /\ queue' = Tail(queue)
    /\ tx' = [tx EXCEPT ![c] = how]

MineBeat ==
    /\ queue # <<>>
    /\ LET c == Head(queue)
       IN  /\ calls[c].letter.kind # "flash"
           /\ Accepted(c)
           /\ Mined(c, "mined")
           /\ beats' = [beats EXCEPT ![calls[c].salt] =
                  [ status     |-> "active",
                    call       |-> c,
                    recipients |-> calls[c].letter.recipients,
                    payload    |-> Payload(c),
                    updated    |-> FALSE ]]
    /\ UNCHANGED <<flashVars, callVars, ownVars, opener, faults, moves>>

MineFlash ==
    /\ queue # <<>>
    /\ LET c      == Head(queue)
           letter == calls[c].letter
       IN  /\ letter.kind = "flash"
           /\ Mined(c, "mined")
           /\ Flash(letter.recipients, Payload(c).length,
                    flashFeeFor(Len(letter.recipients)),
                    [ call       |-> c,
                      recipients |-> letter.recipients,
                      payload    |-> Payload(c) ])
    /\ UNCHANGED <<callVars, beats, ownVars, opener, faults, moves>>

\* Something has changed since the estimate.
MineReverts ==
    /\ queue # <<>>
    /\ ~Accepted(Head(queue))
    /\ Mined(Head(queue), "reverted")
    /\ UNCHANGED <<flashVars, callVars, beats, ownVars, opener, faults, moves>>

\* The contract that collects the fees of flashes refuses one.
FeeRefused ==
    /\ queue # <<>>
    /\ calls[Head(queue)].letter.kind = "flash"
    /\ faults < MaxFaults /\ faults' = faults + 1
    /\ Mined(Head(queue), "reverted")
    /\ UNCHANGED <<flashVars, callVars, beats, ownVars, opener, moves>>

\* What owner and recipients do of their own accord is bounded together.
Move == moves < MaxMoves /\ moves' = moves + 1

\* The owner names others; the payload stays as it was sealed.
UpdateRecipients(id, recipients) ==
    /\ Move
    /\ beats[id].status = "active" /\ ~beats[id].updated
    /\ recipients # beats[id].recipients
    /\ ValidateRecipients(recipients)
    /\ beats' = [beats EXCEPT ![id].recipients = recipients, ![id].updated = TRUE]
    /\ UNCHANGED <<flashVars, callVars, queue, tx, ownVars, opener, faults>>

\* The timer runs out and an executor executes, or the owner deactivates.
Conclude(id, status) ==
    /\ Move
    /\ beats[id].status = "active"
    /\ beats' = [beats EXCEPT ![id].status = status]
    /\ UNCHANGED <<flashVars, callVars, queue, tx, ownVars, opener, faults>>

Execute(id)    == Conclude(id, "executed")
Deactivate(id) == Conclude(id, "deactivated")

(* ----------------------------- the recipients -------------------------- *)

\* A key pair is written to the device before it is published.
LoadKey(r) ==
    /\ keyFile[r] = NoKey /\ made[r] < MaxKeys
    /\ made' = [made EXCEPT ![r] = @ + 1]
    /\ keyFile' = [keyFile EXCEPT ![r] = PublicKey(r, made[r] + 1)]
    /\ UNCHANGED <<flashVars, callVars, chainVars, opener, faults, moves>>

LoseDevice(r) ==
    /\ Move
    /\ keyFile[r] # NoKey
    /\ keyFile' = [keyFile EXCEPT ![r] = NoKey]
    /\ UNCHANGED <<flashVars, callVars, chainVars, made, opener, faults>>

\* Registers, rotates, or finds the key published already.
PublishKey(r) ==
    /\ Move
    /\ prePublicKey[r] # keyFile[r]
    /\ Publish(r, keyFile[r])
    /\ UNCHANGED <<callVars, chainVars, ownVars, opener, faults>>

\* The script of the third wallet registers bytes nobody has the key of.
PublishDummy(r) ==
    /\ Move
    /\ ~isRegistered(r)
    /\ Publish(r, RandomBytes)
    /\ UNCHANGED <<callVars, chainVars, ownVars, opener, faults>>

OptIn(r) ==
    /\ Move
    /\ RegisterV2(r, keyFile[r], keyFile[r])
    /\ UNCHANGED <<callVars, chainVars, ownVars, opener, faults>>

\* Rotates the ratchet key, or opts out.
SetFlash(r, key) ==
    /\ Move
    /\ key # ratchetPubKey[r]
    /\ SetRatchetPubKey(r, key)
    /\ UNCHANGED <<callVars, chainVars, ownVars, opener, faults>>

(* --------------------------- the Veil reader --------------------------- *)

\* The gated envelope is public: its reader need not wait for the execution
\* to ask the federation.
StartOpen(id, index) ==
    /\ opener = NoReader
    /\ beats[id].status # "none"
    /\ looksLikeHybrid(beats[id].payload)
    /\ index \in 1 .. Len(beats[id].recipients)
    /\ opener' = [ at     |-> "polling",
                   id     |-> id,
                   index  |-> index - 1,
                   key    |-> keyFile[beats[id].recipients[index]],
                   rounds |-> 0,
                   got    |-> Failure ]
    /\ UNCHANGED <<flashVars, callVars, chainVars, ownVars, faults, moves>>

\* The condition of the gate.
Released(id) == beats[id].status = "executed"

\* The nodes that answer with a valid partial: an honest one does only once
\* the chain meets the condition.
Answers == 0 .. IF Released(opener.id) THEN Nodes ELSE Faulty

\* Mutant of Combines: one short of the threshold.
CombinesFewer(partials) == partials >= Threshold - 1

Combines(partials) == partials >= Threshold

veilUnwrap ==
    decryptHybridAt(opener.key, beats[opener.id].payload, opener.index)

PollOpens(partials) ==
    /\ opener.at = "polling" /\ partials \in Answers
    /\ Combines(partials)
    /\ opener' = [opener EXCEPT
           !.at  = IF veilUnwrap = Failure THEN "threw" ELSE "opened",
           !.got = veilUnwrap]
    /\ UNCHANGED <<flashVars, callVars, chainVars, ownVars, faults, moves>>

\* Mutant of PollAgain: no deadline.
PollForever(partials) ==
    /\ opener.at = "polling" /\ partials \in Answers
    /\ ~Combines(partials)
    /\ opener' = [opener EXCEPT !.rounds = (@ + 1) % (MaxRounds + 1)]
    /\ UNCHANGED <<flashVars, callVars, chainVars, ownVars, faults, moves>>

\* Too few partials: sleep and ask again, until the deadline has passed.
PollAgain(partials) ==
    /\ opener.at = "polling" /\ partials \in Answers
    /\ ~Combines(partials)
    /\ \/ /\ opener.rounds < MaxRounds
          /\ opener' = [opener EXCEPT !.rounds = @ + 1]
       \/ opener' = [opener EXCEPT !.at = "threw"]
    /\ UNCHANGED <<flashVars, callVars, chainVars, ownVars, faults, moves>>

Poll == \E partials \in 0 .. Nodes : PollOpens(partials) \/ PollAgain(partials)

(* ------------------------------ composition ---------------------------- *)

Mine == MineBeat \/ MineFlash \/ MineReverts

CallStep(c) ==
    \/ ReadKey(c)
    \/ SendBeat(c) \/ SendFlash(c) \/ SendScript(c) \/ SendRefused(c)
    \/ WaitReturns(c)

ClientNext ==
    \/ ProbeReturns \/ ProbeFails
    \/ \E c \in Call :
        \/ \E letter \in Letter :
              \/ \E salt \in 1 .. c : Begin(c, letter, salt)
              \/ BeginScript(c, letter)
        \/ CallStep(c)
        \/ CallFails(c) \/ AnswerLost(c) \/ WaitFails(c)

OwnerNext ==
    \E id \in Call :
        \/ \E recipients \in Recipients : UpdateRecipients(id, recipients)
        \/ Execute(id) \/ Deactivate(id)

RecipientNext ==
    \E r \in Recipient :
        \/ LoadKey(r) \/ LoseDevice(r) \/ PublishKey(r) \/ PublishDummy(r)
        \/ OptIn(r)
        \/ \E key \in {keyFile[r], NoKey} : SetFlash(r, key)

ReaderNext ==
    \/ \E id \in Call, index \in 1 .. MAX_RECIPIENTS : StartOpen(id, index)
    \/ Poll

Next == ClientNext \/ Mine \/ FeeRefused \/ OwnerNext \/ RecipientNext \/ ReaderNext

Spec == Init /\ [][Next]_vars

\* Requests are answered, transactions with a sufficient fee are mined, and
\* the event loop runs every continuation whose promise has settled: as long
\* as one of these can happen, one does.
Progress ==
    \/ ProbeReturns \/ Mine \/ Poll
    \/ \E c \in Call : CallStep(c)

Fairness == WF_vars(Progress)

FairSpec == Spec /\ Fairness

(* ------------------------------ properties ----------------------------- *)

\* The state has its types, and the shared initialization is pending exactly
\* while some call waits for it: a failure that left the promise behind would
\* fail every later call of the client.
TypeOK ==
    /\ inited \in BOOLEAN
    /\ probing <=> \E c \in Call : At(c, "init")
    /\ \A c \in Call :
        /\ tx[c] \in {"none", "pending", "mined", "reverted"}
        /\ tx[c] = "pending" <=> \E k \in DOMAIN queue : queue[k] = c
        /\ \/ calls[c] = NoCall
           \/ /\ calls[c].at \in {"init", "keys", "send", "wait", "done", "threw"}
              /\ calls[c].letter \in Letter /\ calls[c].salt \in Call
              /\ Len(calls[c].keys) <= Len(calls[c].letter.recipients)
        /\ beats[c].status \in {"none", "active", "executed", "deactivated"}
    /\ opener.at \in {"idle", "polling", "opened", "threw"}
    /\ faults \in 0 .. MaxFaults /\ moves \in 0 .. MaxMoves

\* What an account reads of a payload: it looks for its index in the list of
\* recipients and decrypts there with the key on its device.
ReadBack(r, recipients, payload) ==
    LET mine == {i \in DOMAIN recipients : recipients[i] = r}
    IN  IF mine = {} THEN Failure
        ELSE decryptAt(keyFile[r], payload,
                       (CHOOSE i \in mine : \A j \in mine : i <= j) - 1)

\* What was sealed for these recipients opens, to the bytes of the message,
\* for each one that still has the first key pair it made, and at no index
\* for an account that was not among them.
SealedFor(recipients, payload, message) ==
    \A r \in Recipient :
        IF \E i \in DOMAIN recipients : recipients[i] = r
            THEN keyFile[r] = PublicKey(r, 1) =>
                     ReadBack(r, recipients, payload) = coerceBytes(message)
            ELSE \A i \in DOMAIN recipients :
                     decryptAt(keyFile[r], payload, i - 1) = Failure

\* Every letter and flash on chain can be opened by exactly those it was
\* sent to, although its keys were read one by one before it was sent, and
\* accounts published, lost and replaced keys meanwhile.
LettersOpen ==
    /\ \A id \in Call :
        beats[id].status # "none" =>
            LET letter == calls[beats[id].call].letter
            IN  SealedFor(letter.recipients, beats[id].payload, letter.message)
    /\ \A k \in DOMAIN flashes :
        SealedFor(flashes[k].recipients, flashes[k].payload,
                  calls[flashes[k].call].letter.message)

\* An id that a call returns is the id of what that call put on the chain:
\* never one of another call that used the salt or the number first, also
\* when calls are sent together or a call is made again after an error that
\* left its outcome unknown.
ReturnedIsCreated ==
    \A c \in Call :
        At(c, "done") =>
            IF calls[c].letter.kind = "flash"
                THEN flashes[calls[c].result + 1].call = c
                ELSE beats[calls[c].result].status # "none"
                     /\ beats[calls[c].result].call = c

\* A message that maxInlineMessageBytes admits, which answers 0 when there is
\* no room for any, makes an envelope that the contract's limit admits,
\* whatever the padding adds to it.
PayloadFits ==
    \A c \in Call :
        At(c, "send") /\ Hybrid(calls[c].letter.kind) /\ Encryptable(calls[c].keys) =>
            LET length == coerceBytes(calls[c].letter.message).length
                room   == maxInlineMessageBytes(Len(calls[c].keys), MAX_PAYLOAD_BYTES)
            IN  0 < room /\ length <= room => Payload(c).length <= MAX_PAYLOAD_BYTES

\* A letter gated by Veil opens only once it has been executed, and then to
\* its own message, while fewer nodes than the threshold are faulty.
VeilNeverEarly ==
    opener.at = "opened" =>
        /\ beats[opener.id].status = "executed"
        /\ opener.got = coerceBytes(calls[beats[opener.id].call].letter.message)

\* Every call returns or throws, those that waited for an initialization
\* somebody else started included, and every attempt to open a gated letter
\* ends, executed or not.  Calls are finitely many and never resume, so that
\* the client is idle at last only if each one of them has ended.
Busy ==
    \/ \E c \in Call : ~At(c, "idle") /\ ~Ended(c)
    \/ opener.at = "polling"

EveryCallEnds == Busy ~> ~Busy

===============================================================================
