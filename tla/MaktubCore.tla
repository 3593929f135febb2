------------------------------ MODULE MaktubCore ------------------------------
(***************************************************************************)
(* contracts/v3/core/MaktubCore.sol: the heartbeats, their two discovery   *)
(* indexes and the creation fee.  An external function that runs to its    *)
(* end without handing control away is one action.  createHeartbeat hands  *)
(* control away twice, to the fee receiver and to the refunded sender, so  *)
(* it is a sequence of steps, and `frame' holds the call in flight: while  *)
(* it is open the callee may call back any function that is not            *)
(* nonReentrant, and the callee's failure undoes the whole transaction.    *)
(*                                                                         *)
(* An identifier keccak256(sender, salt) is the pair <<sender, salt>>, a   *)
(* payload is its length, and the order of a recipient list is dropped     *)
(* once the list has been validated and charged for.                       *)
(***************************************************************************)
EXTENDS Integers, Sequences, FiniteSets, Functions

CONSTANTS
    Address,            \* every account, contract or not
    Creator,            \* the accounts that create heartbeats
    Salt,               \* the salts they draw
    Registrant,         \* the accounts that register as recipients
    Staker,             \* the accounts that may become active executors
    NoAddress,          \* address(0)
    MIN_INTERVAL, MAX_INTERVAL, EXECUTION_GRACE,   \* in ticks of the clock
    MAX_RECIPIENTS, MAX_PAYLOAD_BYTES,
    baseFee, perAdditionalFee,
    MaxValue,           \* bound on the ether sent with a creation
    MaxCheckIns,        \* bound on the check-ins of one beat
    OwnersActUntil,     \* the time after which every owner is silent
    MaxTime             \* bound on the clock

ASSUME CoreAssumption ==
    /\ Creator \subseteq Address
    /\ Registrant \subseteq Address /\ Staker \subseteq Address
    /\ NoAddress \notin Address
    /\ MIN_INTERVAL \in Nat \ {0} /\ MAX_INTERVAL \in Nat
    /\ EXECUTION_GRACE \in Nat
    /\ MAX_RECIPIENTS \in Nat /\ MAX_PAYLOAD_BYTES \in Nat
    /\ baseFee \in Nat \ {0} /\ perAdditionalFee \in Nat
    /\ MaxValue \in Nat /\ MaxCheckIns \in Nat
    /\ OwnersActUntil \in Nat /\ MaxTime \in Nat

VARIABLES
    now,                \* block.timestamp
    registered,         \* RecipientRegistry._registered
    isActiveExecutor,   \* ExecutorRewards.isActiveExecutor
    beats,              \* _heartbeats
    heartbeatCount,
    ownerBeats,         \* _ownerBeats
    recipientBeats,     \* _recipientBeats
    recipientIndexed,   \* _recipientIndexed, as the set of its true entries
    executedBy,         \* the executor of each HeartbeatExecuted event
    coreBalance,        \* address(this).balance
    feesReceived,       \* the ether the fee receiver has been sent
    frame               \* the createHeartbeat call that has handed control away

Id == Creator \X Salt

storage == <<beats, heartbeatCount, ownerBeats, recipientBeats,
             recipientIndexed, executedBy, coreBalance, feesReceived>>
indexes == <<heartbeatCount, ownerBeats, recipientBeats, recipientIndexed>>
ether == <<coreBalance, feesReceived>>
environment == <<now, registered, isActiveExecutor>>
vars == <<environment, storage, frame>>

------------------------------------------------------------------------------
NoBeat == [owner |-> NoAddress, recipients |-> {}, payload |-> 0,
           interval |-> 0, lastCheckIn |-> 0, createdAt |-> 0,
           checkInCount |-> 0, executed |-> FALSE, deactivated |-> FALSE]

\* The storage as one record: what a reverted transaction restores.
Storage == [beats |-> beats, heartbeatCount |-> heartbeatCount,
            ownerBeats |-> ownerBeats, recipientBeats |-> recipientBeats,
            recipientIndexed |-> recipientIndexed, executedBy |-> executedBy,
            coreBalance |-> coreBalance, feesReceived |-> feesReceived]

Restore(s) ==
    /\ beats' = s.beats
    /\ heartbeatCount' = s.heartbeatCount
    /\ ownerBeats' = s.ownerBeats
    /\ recipientBeats' = s.recipientBeats
    /\ recipientIndexed' = s.recipientIndexed
    /\ executedBy' = s.executedBy
    /\ coreBalance' = s.coreBalance
    /\ feesReceived' = s.feesReceived

NoFrame == [stage |-> "idle"]
Idle == frame.stage = "idle"

\* nonReentrant: no guarded call is open.  A transaction runs alone, so an
\* open call also keeps every transaction of another account out.
Unlocked == Idle

Init ==
    /\ now = 0
    /\ registered = {}
    /\ isActiveExecutor = [a \in Address |-> FALSE]
    /\ beats = [id \in Id |-> NoBeat]
    /\ heartbeatCount = 0
    /\ ownerBeats = [a \in Address |-> << >>]
    /\ recipientBeats = [a \in Address |-> << >>]
    /\ recipientIndexed = {}
    /\ executedBy = [id \in Id |-> NoAddress]
    /\ coreBalance = 0
    /\ feesReceived = 0
    /\ frame = NoFrame

------------------------------------------------------------------------------
\* The modifiers heartbeatExists, onlyOwnerOf and isActive.
HeartbeatExists(id) == beats[id].owner # NoAddress
OnlyOwnerOf(a, id) == beats[id].owner = a
IsActive(id) == ~beats[id].executed /\ ~beats[id].deactivated

Expiry(id) == beats[id].lastCheckIn + beats[id].interval

creationFeeFor(recipientCount) == baseFee + (recipientCount - 1) * perAdditionalFee

ValidInterval(interval) == interval >= MIN_INTERVAL /\ interval <= MAX_INTERVAL
ValidPayload(payload) == payload > 0 /\ payload <= MAX_PAYLOAD_BYTES

ValidateRecipients(list) ==
    /\ Len(list) > 0 /\ Len(list) <= MAX_RECIPIENTS
    /\ Range(list) \subseteq registered
    /\ \A i, j \in 1..Len(list) : i < j => list[i] # list[j]

\* Mutant of OwnerTurn: the isActive modifier is forgotten.
OwnerTurnOnEndedBeat(a, id) ==
    /\ now <= OwnersActUntil
    /\ HeartbeatExists(id) /\ OnlyOwnerOf(a, id)

\* The owners speak only up to OwnersActUntil (a bound of the model).
OwnerTurn(a, id) ==
    /\ now <= OwnersActUntil
    /\ HeartbeatExists(id) /\ OnlyOwnerOf(a, id) /\ IsActive(id)

\* Mutant of IndexRecipients: pushes without looking at _recipientIndexed.
PushRecipients(id, R) ==
    /\ recipientIndexed' = recipientIndexed \cup ({id} \X R)
    /\ recipientBeats' = [a \in Address |->
          IF a \in R THEN Append(recipientBeats[a], id) ELSE recipientBeats[a]]

\* _indexRecipients: each recipient not yet indexed for id gets it pushed.
IndexRecipients(id, R) ==
    /\ recipientIndexed' = recipientIndexed \cup ({id} \X R)
    /\ recipientBeats' = [a \in Address |->
          IF a \in R /\ <<id, a>> \notin recipientIndexed
          THEN Append(recipientBeats[a], id)
          ELSE recipientBeats[a]]

\* The beat that createHeartbeat stores.
NewBeat(a, R, payload, interval) ==
    [owner |-> a, recipients |-> R, payload |-> payload, interval |-> interval,
     lastCheckIn |-> now, createdAt |-> now, checkInCount |-> 0,
     executed |-> FALSE, deactivated |-> FALSE]

\* Mutant of CreateHeartbeat: a reused salt overwrites the beat it named.
CreateOverwriting(a, salt, list, payload, interval, value) ==
    LET id == <<a, salt>>
        fee == creationFeeFor(Len(list))
    IN  /\ Unlocked
        /\ now <= OwnersActUntil
        /\ ValidateRecipients(list)
        /\ value >= fee
        /\ ValidInterval(interval)
        /\ ValidPayload(payload)
        /\ heartbeatCount' = heartbeatCount + 1
        /\ beats' = [beats EXCEPT ![id] = NewBeat(a, Range(list), payload, interval)]
        /\ ownerBeats' = [ownerBeats EXCEPT ![a] = Append(@, id)]
        /\ IndexRecipients(id, Range(list))
        /\ coreBalance' = coreBalance + value - fee
        /\ feesReceived' = feesReceived + fee
        /\ frame' = [stage |-> "fee", id |-> id, fee |-> fee,
                     excess |-> value - fee, saved |-> Storage]
        /\ UNCHANGED <<environment, executedBy>>

\* createHeartbeat up to the call that pays the fee receiver.
CreateHeartbeat(a, salt, list, payload, interval, value) ==
    LET id == <<a, salt>>
        fee == creationFeeFor(Len(list))
    IN  /\ Unlocked
        /\ now <= OwnersActUntil
        /\ ValidateRecipients(list)
        /\ value >= fee
        /\ ValidInterval(interval)
        /\ ValidPayload(payload)
        /\ ~HeartbeatExists(id)
        /\ heartbeatCount' = heartbeatCount + 1
        /\ beats' = [beats EXCEPT ![id] = NewBeat(a, Range(list), payload, interval)]
        /\ ownerBeats' = [ownerBeats EXCEPT ![a] = Append(@, id)]
        /\ IndexRecipients(id, Range(list))
        /\ coreBalance' = coreBalance + value - fee
        /\ feesReceived' = feesReceived + fee
        /\ frame' = [stage |-> "fee", id |-> id, fee |-> fee,
                     excess |-> value - fee, saved |-> Storage]
        /\ UNCHANGED <<environment, executedBy>>

\* The fee receiver returns and nothing is left to refund.
FeeAccepted ==
    /\ frame.stage = "fee"
    /\ frame.excess = 0
    /\ frame' = NoFrame
    /\ UNCHANGED <<environment, storage>>

\* Mutant of RefundExcess: sends back the whole value instead of the excess.
RefundValue ==
    /\ frame.stage = "fee"
    /\ frame.excess > 0
    /\ coreBalance' = coreBalance - (frame.fee + frame.excess)
    /\ frame' = [frame EXCEPT !.stage = "refund"]
    /\ UNCHANGED <<environment, beats, indexes, executedBy, feesReceived>>

\* The fee receiver returns and the excess is sent back to the sender.
RefundExcess ==
    /\ frame.stage = "fee"
    /\ frame.excess > 0
    /\ coreBalance' = coreBalance - frame.excess
    /\ frame' = [frame EXCEPT !.stage = "refund"]
    /\ UNCHANGED <<environment, beats, indexes, executedBy, feesReceived>>

\* The sender returns from its refund.
RefundAccepted ==
    /\ frame.stage = "refund"
    /\ frame' = NoFrame
    /\ UNCHANGED <<environment, storage>>

\* Mutant of CallFails: the fee transfer is not required to succeed.
FailureIgnored ==
    /\ frame.stage = "fee"
    /\ coreBalance' = coreBalance + frame.fee
    /\ feesReceived' = feesReceived - frame.fee
    /\ frame' = NoFrame
    /\ UNCHANGED <<environment, beats, indexes, executedBy>>

\* The callee fails, a require() fails with it, and the transaction reverts.
CallFails ==
    /\ frame.stage \in {"fee", "refund"}
    /\ Restore(frame.saved)
    /\ frame' = NoFrame
    /\ UNCHANGED environment

\* checkIn: not nonReentrant, so a callback may make it too.
CheckIn(a, id) ==
    /\ OwnerTurn(a, id)
    /\ beats[id].checkInCount < MaxCheckIns
    /\ beats' = [beats EXCEPT ![id].lastCheckIn = now, ![id].checkInCount = @ + 1]
    /\ UNCHANGED <<environment, indexes, executedBy, ether, frame>>

\* Mutant of Execute: the timer is taken to have expired at its very end.
ExecuteAtExpiry(a, id) ==
    /\ Unlocked
    /\ HeartbeatExists(id) /\ IsActive(id)
    /\ now >= Expiry(id)
    /\ isActiveExecutor[a] \/ now > Expiry(id) + EXECUTION_GRACE
    /\ beats' = [beats EXCEPT ![id].executed = TRUE]
    /\ executedBy' = [executedBy EXCEPT ![id] = a]
    /\ UNCHANGED <<environment, indexes, ether, frame>>

\* Mutant of Execute: the permissionless backstop is missing.
ExecuteStakedOnly(a, id) ==
    /\ Unlocked
    /\ HeartbeatExists(id) /\ IsActive(id)
    /\ now > Expiry(id)
    /\ isActiveExecutor[a]
    /\ beats' = [beats EXCEPT ![id].executed = TRUE]
    /\ executedBy' = [executedBy EXCEPT ![id] = a]
    /\ UNCHANGED <<environment, indexes, ether, frame>>

\* execute: an active executor at once, anyone once the grace is over too.
Execute(a, id) ==
    /\ Unlocked
    /\ HeartbeatExists(id) /\ IsActive(id)
    /\ now > Expiry(id)
    /\ isActiveExecutor[a] \/ now > Expiry(id) + EXECUTION_GRACE
    /\ beats' = [beats EXCEPT ![id].executed = TRUE]
    /\ executedBy' = [executedBy EXCEPT ![id] = a]
    /\ UNCHANGED <<environment, indexes, ether, frame>>

\* Mutant of UpdateRecipients: nonReentrant is forgotten.
UpdateRecipientsReentrant(a, id, list) ==
    /\ OwnerTurn(a, id)
    /\ ValidateRecipients(list)
    /\ beats' = [beats EXCEPT ![id].recipients = Range(list), ![id].lastCheckIn = now]
    /\ IndexRecipients(id, Range(list))
    /\ UNCHANGED <<environment, heartbeatCount, ownerBeats, executedBy, ether, frame>>

\* Mutant of UpdateRecipients: the inboxes of removed recipients are tidied up.
UpdateRecipientsPruning(a, id, list) ==
    LET removed == beats[id].recipients \ Range(list)
    IN  /\ Unlocked
        /\ OwnerTurn(a, id)
        /\ ValidateRecipients(list)
        /\ beats' = [beats EXCEPT ![id].recipients = Range(list), ![id].lastCheckIn = now]
        /\ recipientIndexed' = (recipientIndexed \ ({id} \X removed)) \cup ({id} \X Range(list))
        /\ recipientBeats' = [r \in Address |->
              IF r \in removed THEN SelectSeq(recipientBeats[r], LAMBDA entry : entry # id)
              ELSE IF r \in Range(list) /\ <<id, r>> \notin recipientIndexed
              THEN Append(recipientBeats[r], id)
              ELSE recipientBeats[r]]
        /\ UNCHANGED <<environment, heartbeatCount, ownerBeats, executedBy, ether, frame>>

\* updateRecipients: the payload stays, the timer restarts.
UpdateRecipients(a, id, list) ==
    /\ Unlocked
    /\ OwnerTurn(a, id)
    /\ ValidateRecipients(list)
    /\ beats' = [beats EXCEPT ![id].recipients = Range(list), ![id].lastCheckIn = now]
    /\ IndexRecipients(id, Range(list))
    /\ UNCHANGED <<environment, heartbeatCount, ownerBeats, executedBy, ether, frame>>

\* updateInterval: the timer is not restarted, so the beat may expire at once.
UpdateInterval(a, id, interval) ==
    /\ OwnerTurn(a, id)
    /\ ValidInterval(interval)
    /\ beats' = [beats EXCEPT ![id].interval = interval]
    /\ UNCHANGED <<environment, indexes, executedBy, ether, frame>>

\* deactivate
Deactivate(a, id) ==
    /\ OwnerTurn(a, id)
    /\ beats' = [beats EXCEPT ![id].deactivated = TRUE]
    /\ UNCHANGED <<environment, indexes, executedBy, ether, frame>>

\* RecipientRegistry.register: once, and never undone.  It is kept outside open
\* calls like FlipExecutor: both functions that read the registry are guarded.
Register(a) ==
    /\ Idle
    /\ a \notin registered
    /\ registered' = registered \cup {a}
    /\ UNCHANGED <<now, isActiveExecutor, storage, frame>>

\* Staking, unstaking or slashing in ExecutorRewards flips a's flag.  No
\* function of this contract that a callback can reach reads the flag, so
\* the flip is kept outside open calls.
FlipExecutor(a) ==
    /\ Idle
    /\ isActiveExecutor' = [isActiveExecutor EXCEPT ![a] = ~@]
    /\ UNCHANGED <<now, registered, storage, frame>>

\* The next block.
Tick ==
    /\ Idle
    /\ now < MaxTime
    /\ now' = now + 1
    /\ UNCHANGED <<registered, isActiveExecutor, storage, frame>>

------------------------------------------------------------------------------
RecipientLists == UNION {[1..n -> Registrant] : n \in 0..(MAX_RECIPIENTS + 1)}

\* The two guards that depend on no input come before the inputs.
Create ==
    /\ Unlocked /\ now <= OwnersActUntil
    /\ \E a \in Creator, salt \in Salt, list \in RecipientLists,
          payload \in 0..(MAX_PAYLOAD_BYTES + 1), interval \in 0..(MAX_INTERVAL + 1),
          value \in 0..MaxValue :
             CreateHeartbeat(a, salt, list, payload, interval, value)

OwnerStep ==
    \E a \in Address, id \in Id :
        \/ CheckIn(a, id)
        \/ \E list \in RecipientLists : UpdateRecipients(a, id, list)
        \/ \E interval \in 0..(MAX_INTERVAL + 1) : UpdateInterval(a, id, interval)
        \/ Deactivate(a, id)

CallReturns == FeeAccepted \/ RefundExcess \/ RefundAccepted \/ CallFails

Next ==
    \/ Create
    \/ OwnerStep
    \/ CallReturns
    \/ \E a \in Address, id \in Id : Execute(a, id)
    \/ \E a \in Registrant : Register(a)
    \/ \E a \in Staker : FlipExecutor(a)
    \/ Tick

Spec == Init /\ [][Next]_vars

\* A recipient collects an overdue beat itself.
SelfRescue(id) == \E a \in beats[id].recipients : Execute(a, id)

\* Blocks keep coming, calls return, and a recipient who may collect does.
\* No executor is assumed to act, and none to be active.
FairSpec ==
    /\ Spec
    /\ SF_vars(Tick)
    /\ WF_vars(CallReturns)
    /\ \A id \in Id : WF_vars(SelfRescue(id))

------------------------------------------------------------------------------
(***************************************************************************)
(* Properties                                                              *)
(***************************************************************************)
Beat == [owner : Address \cup {NoAddress}, recipients : SUBSET Address,
         payload : 0..MAX_PAYLOAD_BYTES, interval : Nat, lastCheckIn : Nat,
         createdAt : Nat, checkInCount : Nat,
         executed : BOOLEAN, deactivated : BOOLEAN]

StorageType ==
    [beats : [Id -> Beat], heartbeatCount : Nat,
     ownerBeats : [Address -> Seq(Id)], recipientBeats : [Address -> Seq(Id)],
     recipientIndexed : SUBSET (Id \X Address),
     executedBy : [Id -> Address \cup {NoAddress}],
     coreBalance : Nat, feesReceived : Nat]

FrameType ==
    {NoFrame} \cup [stage : {"fee", "refund"}, id : Id, fee : Nat, excess : Nat,
                    saved : StorageType]

\* Every variable holds a value of the type the contract declares for it.
TypeOK ==
    /\ now \in Nat
    /\ registered \in SUBSET Address
    /\ isActiveExecutor \in [Address -> BOOLEAN]
    /\ Storage \in StorageType
    /\ frame \in FrameType

\* The owner index is exact (MaktubCore.sol:144-148): it holds the beats of
\* its owner, each once, an identifier belongs to the account it was derived
\* from, and every recipient of a beat is registered.  It holds inside an
\* open creation too, where a callback may read it.
OwnerIndexExact ==
    /\ \A a \in Address :
          /\ IsInjective(ownerBeats[a])
          /\ Range(ownerBeats[a]) = {id \in Id : beats[id].owner = a}
    /\ \A id \in Id : HeartbeatExists(id) =>
          beats[id].owner = id[1] /\ beats[id].recipients \subseteq registered

\* The recipient index (MaktubCore.sol:150-158) never misses a current
\* recipient, holds no duplicate, and lists only beats that exist.
RecipientIndexSound ==
    /\ \A a \in Address :
          /\ IsInjective(recipientBeats[a])
          /\ Range(recipientBeats[a]) = {id \in Id : <<id, a>> \in recipientIndexed}
    /\ \A id \in Id : beats[id].recipients \subseteq {a \in Address : <<id, a>> \in recipientIndexed}
    /\ \A pair \in recipientIndexed : HeartbeatExists(pair[1])

\* The contract keeps no ether: what it holds inside an open creation is the
\* excess it is about to refund, and the fee it took is the fee for exactly
\* the recipients the new beat has.
NoEtherRetained ==
    /\ coreBalance = IF frame.stage = "fee" THEN frame.excess ELSE 0
    /\ ~Idle => frame.fee = creationFeeFor(Cardinality(beats[frame.id].recipients))

\* Every entry an account finds in its inbox has cost somebody a creation fee
\* (MaktubCore.sol:160-165), whatever owners do with updateRecipients, and a
\* creation that reverts leaves neither the entry nor the fee.
InboxFeeMetered ==
    /\ heartbeatCount * baseFee <= feesReceived
    /\ \A a \in Address : Len(recipientBeats[a]) <= heartbeatCount

\* A delivered beat was overdue, was not cancelled, and has an executor: no
\* later call moves its timer, and no callback unwinds its delivery.
DeliveredOverdue ==
    \A id \in Id :
        /\ beats[id].executed =>
              HeartbeatExists(id) /\ ~beats[id].deactivated /\ now > Expiry(id)
        /\ beats[id].executed <=> executedBy[id] # NoAddress

\* What the world outside the transaction sees: an open creation has not
\* happened yet.
Committed == IF Idle THEN Storage ELSE frame.saved

CommittedPhase(id) ==
    LET hb == Committed.beats[id]
    IN  IF hb.owner = NoAddress THEN "none"
        ELSE IF hb.executed THEN "delivered"
        ELSE IF hb.deactivated THEN "cancelled"
        ELSE "armed"

Promise == INSTANCE DeadManSwitch WITH
    Account <- Address,
    Nobody <- NoAddress,
    Grace <- EXECUTION_GRACE,
    clock <- now,
    eligible <- {a \in Address : isActiveExecutor[a]},
    phase <- [id \in Id |-> CommittedPhase(id)],
    deadline <- [id \in Id |->
        Committed.beats[id].lastCheckIn + Committed.beats[id].interval],
    owner <- [id \in Id |-> Committed.beats[id].owner],
    audience <- [id \in Id |->
        <<Committed.beats[id].recipients, Committed.beats[id].payload>>],
    deliveredBy <- Committed.executedBy

\* Seen from outside its transactions the contract is a dead man's switch:
\* one-shot, never early, reserved to active executors during the grace, its
\* two ends final, and a beat's owner never replaced.
ImplementsDeadManSwitch == Promise!Spec

\* Once its owner falls silent a beat is delivered even if no executor ever
\* acts: the grace backstop (MaktubCore.sol:42-51).
SilenceDelivers ==
    \A id \in Id : CommittedPhase(id) = "armed" ~> CommittedPhase(id) \in {"delivered", "cancelled"}
==============================================================================
