--------------------------- MODULE MaktubCoreProofs ---------------------------
(***************************************************************************)
(* What holds of MaktubCore for every set of accounts and salts and every  *)
(* value of its parameters: its types, that only overdue beats are         *)
(* delivered and nothing disturbs a delivered one, that it implements      *)
(* DeadManSwitch, that its indexes and its ether are exact, and that what  *)
(* a client of InboxReader lists page by page is complete.                 *)
(*                                                                         *)
(* A creation that has handed control away may still                       *)
(* revert, so the inductive invariant says of the saved storage what it    *)
(* says of the current one, and it bounds the balance by the excess,       *)
(* without which a refund might not be covered.                            *)
(***************************************************************************)
EXTENDS InboxReader, FiniteSetTheorems, TLAPS

\* DeliveredOverdue of a storage with beats b and executors ex.
Delivered(b, ex) ==
    \A id \in Id :
        /\ b[id].executed =>
              /\ b[id].owner # NoAddress
              /\ ~b[id].deactivated
              /\ now > b[id].lastCheckIn + b[id].interval
        /\ b[id].executed <=> ex[id] # NoAddress

\* The ether of an open creation, and the storage its failure would restore.
Settled ==
    /\ coreBalance = IF frame.stage = "fee" THEN frame.excess ELSE 0
    /\ ~Idle => /\ frame.saved.coreBalance = 0
                /\ Delivered(frame.saved.beats, frame.saved.executedBy)

IInv == TypeOK /\ Delivered(beats, executedBy) /\ Settled

\* The type of the storage, variable by variable.
StorageTypes ==
    /\ beats \in [Id -> Beat]
    /\ heartbeatCount \in Nat
    /\ ownerBeats \in [Address -> Seq(Id)]
    /\ recipientBeats \in [Address -> Seq(Id)]
    /\ recipientIndexed \in SUBSET (Id \X Address)
    /\ executedBy \in [Id -> Address \cup {NoAddress}]
    /\ coreBalance \in Nat
    /\ feesReceived \in Nat

LEMMA StorageByField == Storage \in StorageType <=> StorageTypes
BY DEF Storage, StorageType, StorageTypes

LEMMA StorageByFieldNext == (Storage \in StorageType)' <=> StorageTypes'
BY DEF Storage, StorageType, StorageTypes

\* An open frame is a record with the storage it may have to restore.
OpenFrame ==
    [stage : {"fee", "refund"}, id : Id, fee : Nat, excess : Nat, saved : StorageType]

LEMMA FrameIsOpen ==
    ASSUME frame \in FrameType
    PROVE  /\ ~Idle => frame \in OpenFrame
           /\ frame.stage \in {"fee", "refund"} => ~Idle
BY DEF FrameType, NoFrame, Idle, OpenFrame

LEMMA InitIInv == Init => IInv
<1> SUFFICES ASSUME Init PROVE IInv
  OBVIOUS
<1>1. NoBeat \in Beat
  BY CoreAssumption DEF NoBeat, Beat
<1>2. StorageTypes
  BY <1>1 DEF Init, StorageTypes
<1>3. TypeOK
  BY <1>2, StorageByField, CoreAssumption DEF Init, TypeOK, FrameType
<1>4. Delivered(beats, executedBy)
  BY DEF Init, Delivered, NoBeat
<1>5. Settled
  BY DEF Init, Settled, Idle, NoFrame
<1> QED
  BY <1>3, <1>4, <1>5 DEF IInv

------------------------------------------------------------------------------
\* The fee of a list that passed validation (creationFeeFor).
LEMMA FeeIsNat ==
    ASSUME NEW n \in Nat, n > 0
    PROVE  creationFeeFor(n) \in Nat
<1>1. n - 1 \in Nat /\ perAdditionalFee \in Nat /\ baseFee \in Nat
  BY CoreAssumption
<1>2. (n - 1) * perAdditionalFee \in Nat
  BY <1>1
<1> QED
  BY <1>1, <1>2 DEF creationFeeFor

\* _indexRecipients keeps the types of both indexes.
LEMMA IndexTypes ==
    ASSUME StorageTypes, NEW id \in Id, NEW R \in SUBSET Address, IndexRecipients(id, R)
    PROVE  /\ recipientIndexed' \in SUBSET (Id \X Address)
           /\ recipientBeats' \in [Address -> Seq(Id)]
<1>1. \A s \in Seq(Id) : Append(s, id) \in Seq(Id)
  OBVIOUS
<1> QED
  BY <1>1 DEF IndexRecipients, StorageTypes

\* A list of recipients that validation accepts.
LEMMA ValidRecipients ==
    ASSUME TypeOK, NEW list \in RecipientLists, ValidateRecipients(list)
    PROVE  /\ Range(list) \in SUBSET Address
           /\ Len(list) \in Nat /\ Len(list) > 0
<1>1. PICK n \in 0..(MAX_RECIPIENTS + 1) : list \in [1..n -> Registrant]
  BY DEF RecipientLists
<1>2. list \in Seq(Registrant)
  BY <1>1, CoreAssumption
<1>3. Range(list) \subseteq registered /\ Len(list) > 0
  BY DEF ValidateRecipients
<1> QED
  BY <1>2, <1>3 DEF TypeOK

LEMMA CreateIInv ==
    ASSUME IInv, NEW a \in Creator, NEW salt \in Salt, NEW list \in RecipientLists,
           NEW payload \in 0..(MAX_PAYLOAD_BYTES + 1),
           NEW interval \in 0..(MAX_INTERVAL + 1), NEW value \in 0..MaxValue,
           CreateHeartbeat(a, salt, list, payload, interval, value)
    PROVE  IInv'
<1> DEFINE id == <<a, salt>>
           fee == creationFeeFor(Len(list))
           new == NewBeat(a, Range(list), payload, interval)
<1>1. /\ Idle /\ ValidateRecipients(list) /\ value >= fee
      /\ ValidPayload(payload) /\ ~HeartbeatExists(id)
      /\ heartbeatCount' = heartbeatCount + 1
      /\ beats' = [beats EXCEPT ![id] = new]
      /\ ownerBeats' = [ownerBeats EXCEPT ![a] = Append(@, id)]
      /\ IndexRecipients(id, Range(list))
      /\ coreBalance' = coreBalance + value - fee
      /\ feesReceived' = feesReceived + fee
      /\ frame' = [stage |-> "fee", id |-> id, fee |-> fee,
                   excess |-> value - fee, saved |-> Storage]
      /\ UNCHANGED <<environment, executedBy>>
  BY DEF CreateHeartbeat, Unlocked
<1>2. /\ id \in Id /\ a \in Address /\ value \in Nat /\ interval \in Nat /\ payload \in Nat
      /\ NoAddress \notin Address
  BY CoreAssumption DEF Id
<1>3. /\ now \in Nat /\ StorageTypes /\ Storage \in StorageType
      /\ Range(list) \in SUBSET Address /\ fee \in Nat
  BY <1>1, ValidRecipients, FeeIsNat, StorageByField DEF IInv, TypeOK
<1>4. coreBalance = 0 /\ value - fee \in Nat
  <2>1. frame.stage # "fee"
    BY <1>1 DEF Idle
  <2>2. coreBalance = 0
    BY <2>1 DEF IInv, Settled
  <2> QED
    BY <1>1, <1>2, <1>3, <2>2
<1>5. new \in Beat /\ new.executed = FALSE
  <2>1. payload \in 0..MAX_PAYLOAD_BYTES
    BY <1>1, <1>2, CoreAssumption DEF ValidPayload
  <2> QED
    BY <1>2, <1>3, <2>1 DEF Beat, NewBeat
<1>6. StorageTypes'
  <2>1. beats' \in [Id -> Beat]
    BY SMTT(30), <1>1, <1>2, <1>3, <1>5 DEF StorageTypes
  <2>2. ownerBeats' \in [Address -> Seq(Id)]
    BY <1>1, <1>2, <1>3 DEF StorageTypes
  <2>3. recipientIndexed' \in SUBSET (Id \X Address) /\ recipientBeats' \in [Address -> Seq(Id)]
    BY <1>1, <1>2, <1>3, IndexTypes
  <2>4. heartbeatCount' \in Nat /\ coreBalance' \in Nat /\ feesReceived' \in Nat
    BY <1>1, <1>3, <1>4 DEF StorageTypes
  <2> QED
    BY <1>1, <1>3, <2>1, <2>2, <2>3, <2>4 DEF StorageTypes
<1>7. TypeOK'
  <2>1. frame' \in FrameType
    BY <1>1, <1>2, <1>3, <1>4 DEF FrameType
  <2> QED
    BY <1>1, <1>6, <2>1, StorageByFieldNext DEF IInv, TypeOK, environment
<1>8. Delivered(beats, executedBy)'
  <2>1. ~beats[id].executed /\ executedBy[id] = NoAddress
    BY <1>1, <1>2 DEF IInv, Delivered, HeartbeatExists
  <2>2. beats'[id] = new /\ \A o \in Id : o # id => beats'[o] = beats[o]
    BY <1>1, <1>2, <1>3 DEF StorageTypes
  <2> QED
    BY <1>1, <1>5, <2>1, <2>2 DEF IInv, Delivered, environment
<1>9. Settled'
  <2>1. frame'.saved.coreBalance = coreBalance /\ frame'.saved.beats = beats
        /\ frame'.saved.executedBy = executedBy /\ frame'.stage = "fee"
        /\ frame'.excess = value - fee
    BY <1>1 DEF Storage
  <2> QED
    BY <1>1, <1>4, <2>1 DEF IInv, Settled, Delivered, environment
<1> QED
  BY <1>7, <1>8, <1>9 DEF IInv

------------------------------------------------------------------------------
\* The steps that change one beat of an active owner: what the beat becomes is
\* a beat, and it is not delivered.
LEMMA OwnerTurnIInv ==
    ASSUME IInv, NEW id \in Id, ~beats[id].executed,
           NEW hb \in Beat, ~hb.executed,
           beats' = [beats EXCEPT ![id] = hb],
           StorageTypes', coreBalance' = coreBalance,
           UNCHANGED <<environment, executedBy, frame>>
    PROVE  IInv'
<1>1. beats \in [Id -> Beat]
  BY StorageByField DEF IInv, TypeOK, StorageTypes
<1>2. TypeOK'
  BY StorageByFieldNext DEF IInv, TypeOK, environment
<1>3. Delivered(beats, executedBy)'
  <2>1. beats'[id] = hb /\ \A o \in Id : o # id => beats'[o] = beats[o]
    BY <1>1
  <2> QED
    BY <2>1 DEF IInv, Delivered, environment
<1>4. Settled'
  BY DEF IInv, Settled, Delivered, Idle, environment
<1> QED
  BY <1>2, <1>3, <1>4 DEF IInv

\* A beat, changed in one or two fields, is a beat.
LEMMA OwnerBeat ==
    ASSUME IInv, NEW id \in Id
    PROVE  /\ StorageTypes /\ now \in Nat
           /\ beats[id] \in Beat
           /\ [beats[id] EXCEPT !.lastCheckIn = now, !.checkInCount = @ + 1] \in Beat
           /\ \A R \in SUBSET Address :
                 [beats[id] EXCEPT !.recipients = R, !.lastCheckIn = now] \in Beat
           /\ \A interval \in Nat : [beats[id] EXCEPT !.interval = interval] \in Beat
           /\ [beats[id] EXCEPT !.deactivated = TRUE] \in Beat
           /\ [beats[id] EXCEPT !.executed = TRUE] \in Beat
<1>1. StorageTypes /\ now \in Nat
  BY StorageByField DEF IInv, TypeOK
<1>2. beats[id] \in Beat
  BY <1>1 DEF StorageTypes
<1>3. [beats[id] EXCEPT !.lastCheckIn = now, !.checkInCount = @ + 1] \in Beat
  <2>1. /\ [beats[id] EXCEPT !.lastCheckIn = now] \in Beat
        /\ [beats[id] EXCEPT !.lastCheckIn = now].checkInCount + 1 \in Nat
    BY <1>1, <1>2 DEF Beat
  <2>2. \A b \in Beat : b.checkInCount + 1 \in Nat => [b EXCEPT !.checkInCount = @ + 1] \in Beat
    BY DEF Beat
  <2> QED
    BY <2>1, <2>2
<1>4. \A R \in SUBSET Address :
         [beats[id] EXCEPT !.recipients = R, !.lastCheckIn = now] \in Beat
  BY <1>1, <1>2 DEF Beat
<1>5. /\ \A interval \in Nat : [beats[id] EXCEPT !.interval = interval] \in Beat
      /\ [beats[id] EXCEPT !.deactivated = TRUE] \in Beat
      /\ [beats[id] EXCEPT !.executed = TRUE] \in Beat
  BY <1>2 DEF Beat
<1> QED
  BY <1>1, <1>2, <1>3, <1>4, <1>5

\* checkIn, updateRecipients, updateInterval and deactivate.
LEMMA OwnerStepIInv ==
    ASSUME IInv, OwnerStep
    PROVE  IInv'
<1> PICK a \in Address, id \in Id :
        \/ CheckIn(a, id)
        \/ \E list \in RecipientLists : UpdateRecipients(a, id, list)
        \/ \E interval \in 0..(MAX_INTERVAL + 1) : UpdateInterval(a, id, interval)
        \/ Deactivate(a, id)
  BY DEF OwnerStep
<1>1. StorageTypes /\ now \in Nat /\ beats[id] \in Beat
  BY OwnerBeat
<1>2. CASE CheckIn(a, id)
  <2> DEFINE hb == [beats[id] EXCEPT !.lastCheckIn = now, !.checkInCount = @ + 1]
  <2>1. hb \in Beat /\ hb.executed = beats[id].executed
    BY OwnerBeat, <1>1 DEF Beat
  <2>2. beats' = [beats EXCEPT ![id] = hb] /\ ~beats[id].executed
    BY <1>1, <1>2 DEF CheckIn, OwnerTurn, IsActive
  <2> HIDE DEF hb
  <2>3. StorageTypes'
    BY <1>1, <1>2, <2>1, <2>2 DEF CheckIn, StorageTypes, indexes, ether
  <2> QED
    BY <1>2, <2>1, <2>2, <2>3, OwnerTurnIInv DEF CheckIn, ether
<1>3. ASSUME NEW list \in RecipientLists, UpdateRecipients(a, id, list)
      PROVE  IInv'
  <2> DEFINE hb == [beats[id] EXCEPT !.recipients = Range(list), !.lastCheckIn = now]
  <2>1. Range(list) \in SUBSET Address
    BY <1>3, ValidRecipients DEF UpdateRecipients, IInv
  <2>2. hb \in Beat /\ hb.executed = beats[id].executed
    BY <2>1, OwnerBeat, <1>1 DEF Beat
  <2>3. beats' = [beats EXCEPT ![id] = hb] /\ ~beats[id].executed
    BY <1>1, <1>3 DEF UpdateRecipients, OwnerTurn, IsActive
  <2> HIDE DEF hb
  <2>4. /\ recipientIndexed' \in SUBSET (Id \X Address)
        /\ recipientBeats' \in [Address -> Seq(Id)]
    BY <1>1, <1>3, <2>1, IndexTypes DEF UpdateRecipients
  <2>5. StorageTypes'
    BY <1>1, <1>3, <2>2, <2>3, <2>4 DEF UpdateRecipients, StorageTypes, ether
  <2> QED
    BY <1>3, <2>2, <2>3, <2>5, OwnerTurnIInv DEF UpdateRecipients, ether
<1>4. ASSUME NEW interval \in 0..(MAX_INTERVAL + 1), UpdateInterval(a, id, interval)
      PROVE  IInv'
  <2> DEFINE hb == [beats[id] EXCEPT !.interval = interval]
  <2>1. interval \in Nat
    BY CoreAssumption
  <2>2. hb \in Beat /\ hb.executed = beats[id].executed
    BY <2>1, OwnerBeat, <1>1 DEF Beat
  <2>3. beats' = [beats EXCEPT ![id] = hb] /\ ~beats[id].executed
    BY <1>1, <1>4 DEF UpdateInterval, OwnerTurn, IsActive
  <2> HIDE DEF hb
  <2>4. StorageTypes'
    BY <1>1, <1>4, <2>2, <2>3 DEF UpdateInterval, StorageTypes, indexes, ether
  <2> QED
    BY <1>4, <2>2, <2>3, <2>4, OwnerTurnIInv DEF UpdateInterval, ether
<1>5. CASE Deactivate(a, id)
  <2> DEFINE hb == [beats[id] EXCEPT !.deactivated = TRUE]
  <2>1. hb \in Beat /\ hb.executed = beats[id].executed
    BY OwnerBeat, <1>1 DEF Beat
  <2>2. beats' = [beats EXCEPT ![id] = hb] /\ ~beats[id].executed
    BY <1>1, <1>5 DEF Deactivate, OwnerTurn, IsActive
  <2> HIDE DEF hb
  <2>3. StorageTypes'
    BY <1>1, <1>5, <2>1, <2>2 DEF Deactivate, StorageTypes, indexes, ether
  <2> QED
    BY <1>5, <2>1, <2>2, <2>3, OwnerTurnIInv DEF Deactivate, ether
<1> QED
  BY <1>2, <1>3, <1>4, <1>5

\* execute
LEMMA ExecuteIInv ==
    ASSUME IInv, NEW a \in Address, NEW id \in Id, Execute(a, id)
    PROVE  IInv'
<1> DEFINE hb == [beats[id] EXCEPT !.executed = TRUE]
<1>1. /\ StorageTypes /\ beats[id] \in Beat /\ hb \in Beat
      /\ beats' = [beats EXCEPT ![id] = hb]
      /\ executedBy' = [executedBy EXCEPT ![id] = a]
      /\ UNCHANGED <<environment, indexes, ether, frame>>
      /\ Idle
  BY OwnerBeat DEF Execute, Unlocked
<1>2. /\ hb.executed = TRUE /\ hb.owner = beats[id].owner
      /\ hb.deactivated = beats[id].deactivated
      /\ hb.lastCheckIn = beats[id].lastCheckIn /\ hb.interval = beats[id].interval
  BY <1>1 DEF Beat
<1>3. /\ beats[id].owner # NoAddress /\ ~beats[id].deactivated
      /\ now > beats[id].lastCheckIn + beats[id].interval /\ a # NoAddress
  BY CoreAssumption DEF Execute, HeartbeatExists, IsActive, Expiry
<1> HIDE DEF hb
<1>4. StorageTypes'
  BY <1>1 DEF StorageTypes, indexes, ether
<1>5. TypeOK'
  BY <1>1, <1>4, StorageByFieldNext DEF IInv, TypeOK, environment
<1>6. Delivered(beats, executedBy)'
  <2>1. /\ beats'[id] = hb /\ executedBy'[id] = a
        /\ \A o \in Id : o # id => beats'[o] = beats[o] /\ executedBy'[o] = executedBy[o]
    BY <1>1 DEF StorageTypes
  <2> QED
    BY <1>1, <1>2, <1>3, <2>1 DEF IInv, Delivered, environment
<1>7. Settled'
  BY <1>1 DEF IInv, Settled, Idle, ether
<1> QED
  BY <1>5, <1>6, <1>7 DEF IInv

------------------------------------------------------------------------------
\* The fee receiver and the refunded sender return, or fail.
LEMMA CallReturnsIInv ==
    ASSUME IInv, CallReturns
    PROVE  IInv'
<1>1. /\ StorageTypes /\ Storage \in StorageType /\ frame \in FrameType
      /\ ~Idle /\ frame \in OpenFrame
  BY StorageByField, FrameIsOpen
  DEF IInv, TypeOK, CallReturns, FeeAccepted, RefundExcess, RefundAccepted, CallFails
<1>2. NoFrame \in FrameType /\ NoFrame.stage = "idle"
  BY DEF FrameType, NoFrame
<1>3. CASE FeeAccepted
  <2>1. coreBalance = 0 /\ frame' = NoFrame /\ UNCHANGED <<environment, storage>>
    BY <1>3 DEF FeeAccepted, IInv, Settled
  <2>2. TypeOK'
    BY <1>2, <2>1 DEF IInv, TypeOK, Storage, environment, storage
  <2> QED
    BY <1>2, <2>1, <2>2 DEF IInv, Settled, Idle, Delivered, environment, storage
<1>4. CASE RefundExcess
  <2>1. /\ frame.stage = "fee"
        /\ coreBalance = frame.excess /\ coreBalance' = coreBalance - frame.excess
        /\ frame' = [frame EXCEPT !.stage = "refund"]
        /\ UNCHANGED <<environment, beats, indexes, executedBy, feesReceived>>
    BY <1>4 DEF RefundExcess, IInv, Settled
  <2>2. coreBalance' = 0
    BY <1>1, <2>1 DEF OpenFrame
  <2>3. frame' \in OpenFrame /\ frame'.saved = frame.saved /\ frame'.stage = "refund"
    BY <1>1, <2>1 DEF OpenFrame
  <2>4. StorageTypes'
    BY <1>1, <2>1, <2>2 DEF StorageTypes, indexes
  <2>5. TypeOK'
    <3>1. frame' \in FrameType
      BY <2>3 DEF FrameType, OpenFrame
    <3> QED
      BY <2>1, <2>4, <3>1, StorageByFieldNext DEF IInv, TypeOK, environment
  <2> QED
    BY <1>1, <2>1, <2>2, <2>3, <2>5 DEF IInv, Settled, Idle, Delivered, environment
<1>5. CASE RefundAccepted
  <2>1. coreBalance = 0 /\ frame' = NoFrame /\ UNCHANGED <<environment, storage>>
    BY <1>5 DEF RefundAccepted, IInv, Settled
  <2>2. TypeOK'
    BY <1>2, <2>1 DEF IInv, TypeOK, Storage, environment, storage
  <2> QED
    BY <1>2, <2>1, <2>2 DEF IInv, Settled, Idle, Delivered, environment, storage
<1>6. CASE CallFails
  <2>1. frame.saved \in StorageType
    BY <1>1 DEF OpenFrame
  <2>2. /\ frame' = NoFrame /\ UNCHANGED environment
        /\ Restore(frame.saved)
    BY <1>6 DEF CallFails
  <2>3. StorageTypes'
    BY <2>1, <2>2 DEF StorageTypes, StorageType, Restore
  <2>4. TypeOK'
    BY <1>2, <2>2, <2>3, StorageByFieldNext DEF IInv, TypeOK, environment
  <2>5. /\ frame.saved.coreBalance = 0
        /\ Delivered(frame.saved.beats, frame.saved.executedBy)
    BY <1>1 DEF IInv, Settled
  <2>6. Delivered(beats, executedBy)'
    BY <2>2, <2>5 DEF Delivered, Restore, environment
  <2>7. Settled'
    BY <1>2, <2>2, <2>5 DEF Settled, Restore, Idle
  <2> QED
    BY <2>4, <2>6, <2>7 DEF IInv
<1> QED
  BY <1>3, <1>4, <1>5, <1>6 DEF CallReturns

\* The steps of the other contracts, and of the clock.
LEMMA EnvironmentIInv ==
    ASSUME IInv,
           \/ \E a \in Registrant : Register(a)
           \/ \E a \in Staker : FlipExecutor(a)
           \/ Tick
    PROVE  IInv'
<1>1. /\ Idle /\ UNCHANGED <<storage, frame>>
      /\ now \in Nat /\ now' \in Nat /\ now' >= now
  BY DEF Register, FlipExecutor, Tick, IInv, TypeOK
<1>2. registered' \in SUBSET Address
  BY CoreAssumption DEF Register, FlipExecutor, Tick, IInv, TypeOK
<1>3. isActiveExecutor' \in [Address -> BOOLEAN]
  <2>1. CASE \E a \in Staker : FlipExecutor(a)
    BY <2>1, Zenon DEF FlipExecutor, IInv, TypeOK
  <2>2. CASE \E a \in Registrant : Register(a)
    BY <2>2 DEF Register, IInv, TypeOK
  <2>3. CASE Tick
    BY <2>3 DEF Tick, IInv, TypeOK
  <2> QED
    BY <2>1, <2>2, <2>3
<1>4. TypeOK'
  BY <1>1, <1>2, <1>3 DEF IInv, TypeOK, Storage, storage
<1>5. Delivered(beats, executedBy)'
  <2>1. \A id \in Id : beats[id].lastCheckIn \in Nat /\ beats[id].interval \in Nat
    BY StorageByField DEF IInv, TypeOK, StorageTypes, Beat
  <2> QED
    BY <1>1, <2>1 DEF IInv, Delivered, storage
<1>6. Settled'
  BY <1>1 DEF IInv, Settled, Idle, storage
<1> QED
  BY <1>4, <1>5, <1>6 DEF IInv

\* However the flags of the executors change between transactions, the core
\* keeps its invariant: it only reads them.
LEMMA FlagsIInv ==
    ASSUME IInv, UNCHANGED <<now, registered, storage, frame>>,
           isActiveExecutor' \in [Address -> BOOLEAN]
    PROVE  IInv'
BY DEF IInv, TypeOK, Storage, Delivered, Settled, Idle, storage

LEMMA NextIInv ==
    ASSUME IInv, [Next]_vars
    PROVE  IInv'
<1>1. CASE Create
  BY <1>1, CreateIInv DEF Create
<1>2. CASE OwnerStep
  BY <1>2, OwnerStepIInv
<1>3. CASE CallReturns
  BY <1>3, CallReturnsIInv
<1>4. CASE \E a \in Address, id \in Id : Execute(a, id)
  BY <1>4, ExecuteIInv
<1>5. CASE \/ \E a \in Registrant : Register(a)
           \/ \E a \in Staker : FlipExecutor(a)
           \/ Tick
  BY <1>5, EnvironmentIInv
<1>6. CASE UNCHANGED vars
  BY <1>6 DEF vars, environment, storage, IInv, TypeOK, Storage, Delivered, Settled, Idle
<1> QED
  BY <1>1, <1>2, <1>3, <1>4, <1>5, <1>6 DEF Next

\* The inductive invariant.
THEOREM Invariance == Spec => []IInv
<1> QED
  BY InitIInv, NextIInv, PTL DEF Spec

\* Every variable keeps its type, the balance inside a refund included.
THEOREM TypeCorrect == Spec => []TypeOK
<1>1. IInv => TypeOK
  BY DEF IInv
<1> QED
  BY <1>1, Invariance, PTL

\* A delivered beat was overdue and stays as it was delivered: no call of its
\* owner, no callback and no reverted creation moves it.
THEOREM DeliveryIsOverdue == Spec => []DeliveredOverdue
<1>1. IInv => DeliveredOverdue
  BY DEF IInv, Delivered, DeliveredOverdue, HeartbeatExists, Expiry
<1> QED
  BY <1>1, Invariance, PTL

-------------------------------------------------------------------------------
(***************************************************************************)
(* The refinement of DeadManSwitch.  The promise is about what the world   *)
(* outside a transaction sees, so an open creation maps to the storage it  *)
(* saved, and returning from it is one transaction of the promise,         *)
(* whatever a callback did inside.  Pending says what the callbacks can    *)
(* have done by then.                                                      *)
(***************************************************************************)

\* A transaction at time t created the beat, which then was hb.
Created(old, hb, t) ==
    /\ old.owner = NoAddress
    /\ hb.owner \in Address /\ ~hb.executed
    /\ hb.lastCheckIn = t /\ hb.interval \in Nat \ {0}

\* The owner of the active beat old made it hb.
Kept(old, hb) ==
    /\ old.owner # NoAddress /\ ~old.executed /\ ~old.deactivated
    /\ hb.owner = old.owner /\ ~hb.executed

\* What an open creation, and the callbacks inside it, have done so far.
Pending ==
    ~Idle =>
        /\ executedBy = frame.saved.executedBy
        /\ \A id \in Id :
              \/ Created(frame.saved.beats[id], beats[id], now)
              \/ Kept(frame.saved.beats[id], beats[id])
              \/ beats[id] = frame.saved.beats[id]

LEMMA InitPending == Init => Pending
BY DEF Init, Pending, Idle, NoFrame

LEMMA CreatePending ==
    ASSUME IInv, NEW a \in Creator, NEW salt \in Salt, NEW list \in RecipientLists,
           NEW payload \in 0..(MAX_PAYLOAD_BYTES + 1),
           NEW interval \in 0..(MAX_INTERVAL + 1), NEW value \in 0..MaxValue,
           CreateHeartbeat(a, salt, list, payload, interval, value)
    PROVE  Pending'
<1> DEFINE id == <<a, salt>>
           hb == NewBeat(a, Range(list), payload, interval)
<1>1. /\ beats[id].owner = NoAddress /\ interval >= MIN_INTERVAL
      /\ beats' = [beats EXCEPT ![id] = hb]
      /\ frame'.saved.beats = beats /\ frame'.saved.executedBy = executedBy
      /\ UNCHANGED <<now, executedBy>>
  BY DEF CreateHeartbeat, HeartbeatExists, ValidInterval, environment, Storage
<1>2. id \in Id /\ a \in Address /\ interval \in Nat /\ MIN_INTERVAL \in Nat \ {0}
  BY CoreAssumption DEF Id
<1>3. /\ hb.owner = a /\ hb.executed = FALSE
      /\ hb.lastCheckIn = now /\ hb.interval = interval
  BY DEF NewBeat
<1>4. beats \in [Id -> Beat]
  BY StorageByField DEF IInv, TypeOK, StorageTypes
<1> HIDE DEF hb, id
<1>5. beats'[id] = hb /\ \A o \in Id : o # id => beats'[o] = beats[o]
  BY <1>1, <1>2, <1>4
<1> QED
  BY <1>1, <1>2, <1>3, <1>5 DEF Pending, Created

\* The owner's calls: each keeps the beat that an open creation saved, or the
\* beat that it created.
LEMMA OwnerStepKeeps ==
    ASSUME IInv, NEW a \in Address, NEW id \in Id,
           \/ CheckIn(a, id)
           \/ \E list \in RecipientLists : UpdateRecipients(a, id, list)
           \/ \E interval \in 0..(MAX_INTERVAL + 1) : UpdateInterval(a, id, interval)
           \/ Deactivate(a, id)
    PROVE  /\ UNCHANGED <<environment, executedBy, frame>>
           /\ Kept(beats[id], beats'[id])
           /\ \A o \in Id : o # id => beats'[o] = beats[o]
           /\ beats'[id].lastCheckIn \in {beats[id].lastCheckIn, now}
           /\ beats[id].interval \in Nat \ {0} => beats'[id].interval \in Nat \ {0}
<1>1. beats \in [Id -> Beat] /\ beats[id] \in Beat
  BY OwnerBeat DEF StorageTypes
<1>2. beats[id].owner # NoAddress /\ ~beats[id].executed /\ ~beats[id].deactivated
  BY DEF CheckIn, UpdateRecipients, UpdateInterval, Deactivate, OwnerTurn,
         HeartbeatExists, IsActive
<1>3. CASE CheckIn(a, id)
  BY <1>1, <1>2, <1>3 DEF CheckIn, Kept, Beat
<1>4. CASE \E list \in RecipientLists : UpdateRecipients(a, id, list)
  <2>1. PICK list \in RecipientLists : UpdateRecipients(a, id, list)
    BY <1>4
  <2> DEFINE hb == [beats[id] EXCEPT !.recipients = Range(list), !.lastCheckIn = now]
  <2>2. /\ beats' = [beats EXCEPT ![id] = hb]
        /\ UNCHANGED <<environment, executedBy, frame>>
    BY <1>1, <2>1 DEF UpdateRecipients
  <2>3. /\ hb.owner = beats[id].owner /\ hb.executed = beats[id].executed
        /\ hb.interval = beats[id].interval /\ hb.lastCheckIn = now
    BY <1>1 DEF Beat
  <2> HIDE DEF hb
  <2> QED
    BY <1>1, <1>2, <2>2, <2>3 DEF Kept
<1>5. CASE \E interval \in 0..(MAX_INTERVAL + 1) : UpdateInterval(a, id, interval)
  <2>1. PICK interval \in 0..(MAX_INTERVAL + 1) : UpdateInterval(a, id, interval)
    BY <1>5
  <2>2. interval \in Nat \ {0}
    BY <2>1, CoreAssumption DEF UpdateInterval, ValidInterval
  <2> QED
    BY <1>1, <1>2, <2>1, <2>2 DEF UpdateInterval, Kept, Beat
<1>6. CASE Deactivate(a, id)
  BY <1>1, <1>2, <1>6 DEF Deactivate, Kept, Beat
<1> QED
  BY <1>3, <1>4, <1>5, <1>6

LEMMA OwnerStepPending ==
    ASSUME IInv, Pending, OwnerStep
    PROVE  Pending'
<1> PICK a \in Address, id \in Id :
        \/ CheckIn(a, id)
        \/ \E list \in RecipientLists : UpdateRecipients(a, id, list)
        \/ \E interval \in 0..(MAX_INTERVAL + 1) : UpdateInterval(a, id, interval)
        \/ Deactivate(a, id)
  BY DEF OwnerStep
<1>1. /\ UNCHANGED <<now, executedBy, frame>>
      /\ Kept(beats[id], beats'[id])
      /\ \A o \in Id : o # id => beats'[o] = beats[o]
      /\ beats'[id].lastCheckIn \in {beats[id].lastCheckIn, now}
      /\ beats[id].interval \in Nat \ {0} => beats'[id].interval \in Nat \ {0}
  BY OwnerStepKeeps DEF environment
<1> SUFFICES ASSUME ~Idle, NEW o \in Id
             PROVE  \/ Created(frame.saved.beats[o], beats'[o], now)
                    \/ Kept(frame.saved.beats[o], beats'[o])
                    \/ beats'[o] = frame.saved.beats[o]
  BY <1>1 DEF Pending, Idle
<1>2. \/ Created(frame.saved.beats[o], beats[o], now)
      \/ Kept(frame.saved.beats[o], beats[o])
      \/ beats[o] = frame.saved.beats[o]
  BY DEF Pending
<1>3. CASE o = id
  BY <1>1, <1>2, <1>3 DEF Created, Kept
<1>4. CASE o # id
  BY <1>1, <1>2, <1>4
<1> QED
  BY <1>3, <1>4

LEMMA NextPending ==
    ASSUME IInv, Pending, [Next]_vars
    PROVE  Pending'
<1>1. CASE Create
  BY <1>1, CreatePending DEF Create
<1>2. CASE OwnerStep
  BY <1>2, OwnerStepPending
<1>3. CASE FeeAccepted \/ RefundAccepted \/ CallFails
  BY <1>3 DEF FeeAccepted, RefundAccepted, CallFails, Pending, Idle, NoFrame
<1>4. CASE RefundExcess
  <2>1. frame.stage = "fee" /\ frame' = [frame EXCEPT !.stage = "refund"]
        /\ UNCHANGED <<now, beats, executedBy>>
    BY <1>4 DEF RefundExcess, environment
  <2>2. ~Idle /\ frame'.saved = frame.saved
    BY <2>1, FrameIsOpen DEF IInv, TypeOK, OpenFrame
  <2> QED
    BY <2>1, <2>2 DEF Pending
<1>5. CASE \/ \E a \in Address, id \in Id : Execute(a, id)
           \/ \E a \in Registrant : Register(a)
           \/ \E a \in Staker : FlipExecutor(a)
           \/ Tick
  <2>1. Idle /\ frame' = frame
    BY <1>5 DEF Execute, Unlocked, Register, FlipExecutor, Tick
  <2> QED
    BY <2>1 DEF Pending, Idle
<1>6. CASE UNCHANGED vars
  BY <1>6 DEF vars, environment, storage, Pending, Idle
<1> QED
  BY <1>1, <1>2, <1>3, <1>4, <1>5, <1>6 DEF Next, CallReturns

THEOREM PendingInvariance == Spec => [](IInv /\ Pending)
<1> QED
  BY Invariance, InitPending, NextPending, PTL DEF Spec

------------------------------------------------------------------------------
\* The mapped variables of a beat depend on two fields of the committed storage.
LEMMA CommittedFields ==
    /\ Committed.beats = IF Idle THEN beats ELSE frame.saved.beats
    /\ Committed.executedBy = IF Idle THEN executedBy ELSE frame.saved.executedBy
BY DEF Committed, Storage

LEMMA CommittedFieldsNext ==
    /\ Committed'.beats = IF Idle' THEN beats' ELSE frame'.saved.beats
    /\ Committed'.executedBy = IF Idle' THEN executedBy' ELSE frame'.saved.executedBy
BY DEF Committed, Storage

LEMMA CommittedTypes ==
    ASSUME IInv
    PROVE  /\ Committed.beats \in [Id -> Beat]
           /\ Committed.executedBy \in [Id -> Address \cup {NoAddress}]
<1>1. beats \in [Id -> Beat] /\ executedBy \in [Id -> Address \cup {NoAddress}]
  BY StorageByField DEF IInv, TypeOK, StorageTypes
<1>2. ~Idle => frame.saved \in StorageType
  BY FrameIsOpen DEF IInv, TypeOK, OpenFrame
<1> QED
  BY <1>1, <1>2, CommittedFields DEF StorageType

\* A step that commits nothing is a stutter of the promise.
LEMMA NothingCommitted ==
    ASSUME Committed'.beats = Committed.beats, Committed'.executedBy = Committed.executedBy,
           UNCHANGED <<now, isActiveExecutor>>
    PROVE  UNCHANGED Promise!vars
BY DEF Promise!vars, CommittedPhase

\* A beat that is not touched rests.
LEMMA Untouched ==
    ASSUME NEW id \in Id, Committed'.beats[id] = Committed.beats[id],
           Committed'.executedBy[id] = Committed.executedBy[id]
    PROVE  Promise!Rest(id)
BY DEF Promise!Rest, Promise!Frozen, CommittedPhase

LEMMA CreatedArms ==
    ASSUME now \in Nat, NEW id \in Id,
           Created(Committed.beats[id], Committed'.beats[id], now),
           Committed'.executedBy[id] = Committed.executedBy[id]
    PROVE  Promise!Arm(id)
BY CoreAssumption DEF Created, Promise!Arm, CommittedPhase

LEMMA KeptKeeps ==
    ASSUME NEW id \in Id, Kept(Committed.beats[id], Committed'.beats[id]),
           Committed'.executedBy[id] = Committed.executedBy[id]
    PROVE  Promise!Keep(id)
BY DEF Kept, Promise!Keep, CommittedPhase

\* The initial states of the contract are initial states of the promise.
LEMMA InitPromise == Init => Promise!Init
<1> SUFFICES ASSUME Init PROVE Promise!Init
  OBVIOUS
<1>1. Committed.beats = [id \in Id |-> NoBeat] /\ Committed.executedBy = [id \in Id |-> NoAddress]
  BY CommittedFields DEF Init, Idle, NoFrame
<1>2. \A id \in Id : CommittedPhase(id) = "none" /\ Committed.beats[id].owner = NoAddress
  BY <1>1 DEF CommittedPhase, NoBeat
<1> QED
  BY <1>1, <1>2 DEF Promise!Init, Init

------------------------------------------------------------------------------
\* A step that commits what an owner's call, or a whole creation, did.
LEMMA CommitTransacts ==
    ASSUME IInv, UNCHANGED <<now, isActiveExecutor>>,
           \A id \in Id :
              /\ \/ Created(Committed.beats[id], Committed'.beats[id], now)
                 \/ Kept(Committed.beats[id], Committed'.beats[id])
                 \/ Committed'.beats[id] = Committed.beats[id]
              /\ Committed'.executedBy[id] = Committed.executedBy[id]
    PROVE  Promise!Transact
<1>1. now \in Nat
  BY DEF IInv, TypeOK
<1>2. ASSUME NEW id \in Id
      PROVE  Promise!Arm(id) \/ Promise!Keep(id) \/ Promise!Rest(id)
  BY <1>1, CreatedArms, KeptKeeps, Untouched
<1> QED
  BY <1>2 DEF Promise!Transact

\* An owner's call outside a creation is a transaction, and inside one is part
\* of the creation's.
LEMMA OwnerStepPromise ==
    ASSUME IInv, OwnerStep
    PROVE  Promise!Transact \/ UNCHANGED Promise!vars
<1> PICK a \in Address, id \in Id :
        \/ CheckIn(a, id)
        \/ \E list \in RecipientLists : UpdateRecipients(a, id, list)
        \/ \E interval \in 0..(MAX_INTERVAL + 1) : UpdateInterval(a, id, interval)
        \/ Deactivate(a, id)
  BY DEF OwnerStep
<1>1. /\ UNCHANGED <<now, isActiveExecutor, executedBy, frame>>
      /\ Kept(beats[id], beats'[id])
      /\ \A o \in Id : o # id => beats'[o] = beats[o]
      /\ Idle' <=> Idle
  BY OwnerStepKeeps DEF environment, Idle
<1>2. CASE Idle
  <2>1. \A o \in Id : /\ \/ Kept(Committed.beats[o], Committed'.beats[o])
                         \/ Committed'.beats[o] = Committed.beats[o]
                      /\ Committed'.executedBy[o] = Committed.executedBy[o]
    BY <1>1, <1>2, CommittedFields, CommittedFieldsNext
  <2> QED
    BY <1>1, <2>1, CommitTransacts
<1>3. CASE ~Idle
  BY <1>1, <1>3, CommittedFields, CommittedFieldsNext, NothingCommitted
<1> QED
  BY <1>2, <1>3

\* execute delivers one beat, after its deadline and by whom the grace allows.
LEMMA ExecutePromise ==
    ASSUME IInv, NEW a \in Address, NEW id \in Id, Execute(a, id)
    PROVE  Promise!Transact
<1>1. /\ Idle /\ Idle' /\ UNCHANGED <<now, isActiveExecutor>>
      /\ beats[id].owner # NoAddress /\ ~beats[id].executed /\ ~beats[id].deactivated
      /\ now > beats[id].lastCheckIn + beats[id].interval
      /\ \/ isActiveExecutor[a]
         \/ now > beats[id].lastCheckIn + beats[id].interval + EXECUTION_GRACE
      /\ beats' = [beats EXCEPT ![id].executed = TRUE]
      /\ executedBy' = [executedBy EXCEPT ![id] = a]
  BY DEF Execute, Unlocked, Idle, HeartbeatExists, IsActive, Expiry, environment
<1>2. /\ Committed.beats = beats /\ Committed'.beats = beats'
      /\ Committed.executedBy = executedBy /\ Committed'.executedBy = executedBy'
  BY <1>1, CommittedFields, CommittedFieldsNext
<1>3. beats \in [Id -> Beat] /\ executedBy \in [Id -> Address \cup {NoAddress}]
  BY StorageByField DEF IInv, TypeOK, StorageTypes
<1>4. Promise!Deliver(a, id)
  <2>1. /\ beats'[id].owner = beats[id].owner /\ beats'[id].executed
        /\ beats'[id].lastCheckIn = beats[id].lastCheckIn
        /\ beats'[id].interval = beats[id].interval
        /\ beats'[id].recipients = beats[id].recipients
        /\ beats'[id].payload = beats[id].payload
        /\ executedBy'[id] = a
    BY <1>1, <1>3 DEF Beat
  <2>2. CommittedPhase(id) = "armed" /\ CommittedPhase(id)' = "delivered"
    BY <1>1, <1>2, <2>1 DEF CommittedPhase
  <2> QED
    BY <1>1, <1>2, <2>1, <2>2 DEF Promise!Deliver, Promise!Frozen
<1>5. ASSUME NEW o \in Id, o # id
      PROVE  Promise!Rest(o)
  <2>1. beats'[o] = beats[o] /\ executedBy'[o] = executedBy[o]
    BY <1>1, <1>3, <1>5
  <2> QED
    BY <1>2, <2>1, Untouched
<1> QED
  BY <1>1, <1>4, <1>5 DEF Promise!Transact

\* Returning from a creation commits it, and its failure commits nothing.
LEMMA CallReturnsPromise ==
    ASSUME IInv, Pending, CallReturns
    PROVE  Promise!Transact \/ UNCHANGED Promise!vars
<1>1. /\ ~Idle /\ frame \in OpenFrame /\ UNCHANGED <<now, isActiveExecutor>>
      /\ Committed.beats = frame.saved.beats
      /\ Committed.executedBy = frame.saved.executedBy
  BY FrameIsOpen, CommittedFields
  DEF IInv, TypeOK, CallReturns, FeeAccepted, RefundExcess, RefundAccepted, CallFails,
      environment
<1>2. CASE FeeAccepted \/ RefundAccepted
  <2>1. Idle' /\ beats' = beats /\ executedBy' = executedBy
    BY <1>2 DEF FeeAccepted, RefundAccepted, storage, Idle, NoFrame
  <2>2. Committed'.beats = beats /\ Committed'.executedBy = executedBy
    BY <2>1, CommittedFieldsNext
  <2> QED
    BY <1>1, <2>2, CommitTransacts DEF Pending
<1>3. CASE RefundExcess
  <2>1. ~Idle' /\ frame'.saved = frame.saved
    BY <1>1, <1>3 DEF RefundExcess, OpenFrame, Idle
  <2> QED
    BY <1>1, <2>1, CommittedFieldsNext, NothingCommitted
<1>4. CASE CallFails
  <2>1. Idle' /\ beats' = frame.saved.beats /\ executedBy' = frame.saved.executedBy
    BY <1>4 DEF CallFails, Restore, Idle, NoFrame
  <2> QED
    BY <1>1, <2>1, CommittedFieldsNext, NothingCommitted
<1> QED
  BY <1>2, <1>3, <1>4 DEF CallReturns

LEMMA NextPromise ==
    ASSUME IInv, Pending, [Next]_vars
    PROVE  [Promise!Next]_(Promise!vars)
<1>1. CASE Create
  <2>1. Idle /\ ~Idle' /\ frame'.saved = Storage /\ UNCHANGED <<now, isActiveExecutor>>
    BY <1>1 DEF Create, CreateHeartbeat, Unlocked, Idle, environment
  <2>2. Committed'.beats = Committed.beats /\ Committed'.executedBy = Committed.executedBy
    BY <2>1, CommittedFields, CommittedFieldsNext DEF Storage
  <2> QED
    BY <2>1, <2>2, NothingCommitted
<1>2. CASE OwnerStep
  BY <1>2, OwnerStepPromise DEF Promise!Next
<1>3. CASE CallReturns
  BY <1>3, CallReturnsPromise DEF Promise!Next
<1>4. CASE \E a \in Address, id \in Id : Execute(a, id)
  BY <1>4, ExecutePromise DEF Promise!Next
<1>5. CASE \/ \E a \in Registrant : Register(a)
           \/ \E a \in Staker : FlipExecutor(a)
           \/ Tick
           \/ UNCHANGED vars
  <2>1. UNCHANGED <<beats, executedBy, frame>> /\ (Idle' <=> Idle) /\ now' >= now
    BY <1>5 DEF Register, FlipExecutor, Tick, vars, storage, environment, Idle, IInv, TypeOK
  <2>2. Committed'.beats = Committed.beats /\ Committed'.executedBy = Committed.executedBy
    BY <2>1, CommittedFields, CommittedFieldsNext
  <2>3. \A id \in Id : Promise!Rest(id)
    BY <2>2, Untouched
  <2> QED
    BY <2>1, <2>3 DEF Promise!Next, Promise!Environment
<1> QED
  BY <1>1, <1>2, <1>3, <1>4, <1>5 DEF Next

\* The contract implements the promise: seen from outside its transactions a
\* beat is delivered once, after its deadline, by an active executor or after
\* the grace, and its two ends are final.
THEOREM PromiseIsKept == Spec => ImplementsDeadManSwitch
<1> QED
  BY PendingInvariance, InitPromise, NextPromise, PTL
  DEF Spec, ImplementsDeadManSwitch, Promise!Spec
------------------------------------------------------------------------------
(* The two discovery indexes and the ether.  A creation that fails restores *)
(* a storage, so what is shown of the current storage is shown of the saved *)
(* one too.  The fees are metered by counting: the beats that exist are     *)
(* finitely many, heartbeatCount of them, and a list without duplicates is  *)
(* as long as the set it lists.                                             *)

Existing(b) == {id \in Id : b[id].owner # NoAddress}

\* OwnerIndexExact of the storage s, with the recipients reg registered.
OwnerIndex(s, reg) ==
    /\ \A a \in Address :
          /\ IsInjective(s.ownerBeats[a])
          /\ Range(s.ownerBeats[a]) = {id \in Id : s.beats[id].owner = a}
    /\ \A id \in Existing(s.beats) :
          s.beats[id].owner = id[1] /\ s.beats[id].recipients \subseteq reg

\* The list of an account is what the flags of _recipientIndexed say it is.
ListsFollowFlags(listed, indexed) ==
    \A a \in Address :
        /\ IsInjective(listed[a])
        /\ Range(listed[a]) = {id \in Id : <<id, a>> \in indexed}

\* RecipientIndexSound of the storage s.
RecipientIndex(s) ==
    /\ ListsFollowFlags(s.recipientBeats, s.recipientIndexed)
    /\ \A id \in Id : \A a \in s.beats[id].recipients : <<id, a>> \in s.recipientIndexed
    /\ \A pair \in s.recipientIndexed : pair[1] \in Existing(s.beats)

\* What makes InboxFeeMetered hold of the storage s.
Metered(s) ==
    /\ IsFiniteSet(Existing(s.beats))
    /\ Cardinality(Existing(s.beats)) = s.heartbeatCount
    /\ s.heartbeatCount * baseFee <= s.feesReceived

Indexed(s, reg) == OwnerIndex(s, reg) /\ RecipientIndex(s) /\ Metered(s)

FeeMatches == ~Idle => frame.fee = creationFeeFor(Cardinality(beats[frame.id].recipients))

\* The inductive invariant, beside the one of MaktubCoreProofs.
IndexIInv ==
    /\ Indexed(Storage, registered)
    /\ ~Idle => Indexed(frame.saved, registered)
    /\ FeeMatches

------------------------------------------------------------------------------
\* Lists without duplicates.
LEMMA AppendOnce ==
    ASSUME NEW S, NEW s \in Seq(S), IsInjective(s), NEW x \in S, x \notin Range(s)
    PROVE  IsInjective(Append(s, x)) /\ Range(Append(s, x)) = Range(s) \cup {x}
<1> DEFINE t == Append(s, x)
<1>1. /\ DOMAIN s = 1..Len(s) /\ DOMAIN t = 1..(Len(s) + 1) /\ Len(s) \in Nat
      /\ \A i \in 1..Len(s) : t[i] = s[i]
      /\ t[Len(s) + 1] = x
  OBVIOUS
<1> HIDE DEF t
<1>2. \A i \in 1..Len(s) : s[i] # x
  BY <1>1 DEF Range
<1>3. IsInjective(t)
  BY <1>1, <1>2 DEF IsInjective
<1>4. Range(t) = Range(s) \cup {x}
  BY <1>1 DEF Range
<1> QED
  BY <1>3, <1>4 DEF t

LEMMA ListCardinality ==
    ASSUME NEW S, NEW s \in Seq(S), IsInjective(s)
    PROVE  IsFiniteSet(Range(s)) /\ Cardinality(Range(s)) = Len(s)
<1>1. Len(s) \in Nat /\ DOMAIN s = 1..Len(s)
  OBVIOUS
<1>2. s \in Bijection(1..Len(s), Range(s))
  BY <1>1 DEF Bijection, Injection, Surjection, Range
<1>3. ExistsBijection(1..Len(s), Range(s))
  BY <1>2 DEF ExistsBijection
<1> QED
  BY <1>1, <1>3, FS_CountingElements, FS_NatBijection

\* The recipients that validation accepts are as many as the list is long.
LEMMA ValidListCardinality ==
    ASSUME NEW list \in RecipientLists, ValidateRecipients(list)
    PROVE  Cardinality(Range(list)) = Len(list)
<1>1. PICK n \in 0..(MAX_RECIPIENTS + 1) : list \in [1..n -> Registrant]
  BY DEF RecipientLists
<1>2. list \in Seq(Registrant) /\ DOMAIN list = 1..Len(list) /\ Len(list) \in Nat
  BY <1>1, CoreAssumption
<1>3. \A i, j \in 1..Len(list) : i < j => list[i] # list[j]
  BY DEF ValidateRecipients
<1>4. IsInjective(list)
  BY <1>2, <1>3 DEF IsInjective
<1> QED
  BY <1>2, <1>4, ListCardinality

------------------------------------------------------------------------------
LEMMA StorageFields ==
    /\ Storage.beats = beats /\ Storage.heartbeatCount = heartbeatCount
    /\ Storage.ownerBeats = ownerBeats /\ Storage.recipientBeats = recipientBeats
    /\ Storage.recipientIndexed = recipientIndexed /\ Storage.feesReceived = feesReceived
BY DEF Storage

LEMMA StorageFieldsNext ==
    /\ Storage'.beats = beats' /\ Storage'.heartbeatCount = heartbeatCount'
    /\ Storage'.ownerBeats = ownerBeats' /\ Storage'.recipientBeats = recipientBeats'
    /\ Storage'.recipientIndexed = recipientIndexed' /\ Storage'.feesReceived = feesReceived'
BY DEF Storage

\* s and t have the same indexes and counters, and their beats the same owners
\* and recipients.
SameIndexes(s, t) ==
    /\ t.heartbeatCount = s.heartbeatCount /\ t.feesReceived = s.feesReceived
    /\ t.ownerBeats = s.ownerBeats /\ t.recipientBeats = s.recipientBeats
    /\ t.recipientIndexed = s.recipientIndexed
    /\ \A id \in Id : /\ t.beats[id].owner = s.beats[id].owner
                      /\ t.beats[id].recipients = s.beats[id].recipients

LEMMA SameIndexesIndexed ==
    ASSUME NEW s, NEW t, NEW reg, NEW more, Indexed(s, reg), SameIndexes(s, t),
           reg \subseteq more
    PROVE  Indexed(t, more)
<1>1. Existing(t.beats) = Existing(s.beats)
  BY DEF Existing, SameIndexes
<1>2. OwnerIndex(t, more)
  <2>1. \A a \in Address : {id \in Id : t.beats[id].owner = a} = {id \in Id : s.beats[id].owner = a}
    BY DEF SameIndexes
  <2>2. \A id \in Existing(t.beats) :
           t.beats[id].owner = id[1] /\ t.beats[id].recipients \subseteq more
    BY <1>1 DEF Indexed, OwnerIndex, SameIndexes, Existing
  <2> QED
    BY <2>1, <2>2 DEF Indexed, OwnerIndex, SameIndexes
<1>3. RecipientIndex(t)
  BY <1>1 DEF Indexed, RecipientIndex, SameIndexes
<1>4. Metered(t)
  BY <1>1 DEF Indexed, Metered, SameIndexes
<1> QED
  BY <1>2, <1>3, <1>4 DEF Indexed

LEMMA InitIndexed == Init => IndexIInv
<1> SUFFICES ASSUME Init PROVE IndexIInv
  OBVIOUS
<1>1. /\ \A id \in Id : beats[id].owner = NoAddress /\ beats[id].recipients = {}
      /\ Existing(beats) = {}
  BY DEF Init, NoBeat, Existing
<1>2. /\ IsInjective(<< >>) /\ Range(<< >>) = {}
      /\ \A a \in Address : ownerBeats[a] = << >> /\ recipientBeats[a] = << >>
  BY DEF Init, IsInjective, Range
<1>3. OwnerIndex(Storage, registered)
  BY <1>1, <1>2, StorageFields, CoreAssumption DEF OwnerIndex
<1>4. RecipientIndex(Storage)
  BY <1>1, <1>2, StorageFields DEF RecipientIndex, ListsFollowFlags, Init
<1>5. Metered(Storage)
  <2>1. IsFiniteSet({}) /\ Cardinality({}) = 0
    BY FS_EmptySet
  <2>2. heartbeatCount = 0 /\ feesReceived = 0 /\ 0 * baseFee = 0
    BY CoreAssumption DEF Init
  <2> QED
    BY <1>1, <2>1, <2>2, StorageFields DEF Metered
<1>6. Idle
  BY DEF Init, Idle, NoFrame
<1> QED
  BY <1>3, <1>4, <1>5, <1>6 DEF IndexIInv, Indexed, FeeMatches

------------------------------------------------------------------------------
\* _indexRecipients pushes what it flags, and nothing twice.
LEMMA IndexingFollowsFlags ==
    ASSUME StorageTypes, ListsFollowFlags(recipientBeats, recipientIndexed),
           NEW id \in Id, NEW R \in SUBSET Address, IndexRecipients(id, R)
    PROVE  ListsFollowFlags(recipientBeats', recipientIndexed')
<1> SUFFICES ASSUME NEW a \in Address
             PROVE  /\ IsInjective(recipientBeats'[a])
                    /\ Range(recipientBeats'[a]) = {o \in Id : <<o, a>> \in recipientIndexed'}
  BY DEF ListsFollowFlags
<1>1. /\ IsInjective(recipientBeats[a]) /\ recipientBeats[a] \in Seq(Id)
      /\ Range(recipientBeats[a]) = {o \in Id : <<o, a>> \in recipientIndexed}
  BY DEF ListsFollowFlags, StorageTypes
<1>2. \A o \in Id : <<o, a>> \in recipientIndexed'
                       <=> <<o, a>> \in recipientIndexed \/ (o = id /\ a \in R)
  BY DEF IndexRecipients
<1>3. CASE a \in R /\ <<id, a>> \notin recipientIndexed
  <2>1. recipientBeats'[a] = Append(recipientBeats[a], id) /\ id \notin Range(recipientBeats[a])
    BY <1>1, <1>3 DEF IndexRecipients
  <2>2. /\ IsInjective(Append(recipientBeats[a], id))
        /\ Range(Append(recipientBeats[a], id)) = Range(recipientBeats[a]) \cup {id}
    BY <1>1, <2>1, AppendOnce
  <2> QED
    BY <1>1, <1>2, <1>3, <2>1, <2>2
<1>4. CASE ~(a \in R /\ <<id, a>> \notin recipientIndexed)
  <2>1. recipientBeats'[a] = recipientBeats[a]
    BY <1>4 DEF IndexRecipients
  <2> QED
    BY <1>1, <1>2, <1>4, <2>1
<1> QED
  BY <1>3, <1>4

\* Once the beat id has the recipients R and they are indexed, every list is
\* still sound, whatever recipients it had.
LEMMA IndexingSound ==
    ASSUME StorageTypes, RecipientIndex(Storage),
           NEW id \in Id, NEW R \in SUBSET Address, IndexRecipients(id, R),
           NEW hb, hb.owner # NoAddress, hb.recipients = R,
           beats' = [beats EXCEPT ![id] = hb]
    PROVE  RecipientIndex(Storage')
<1>1. /\ ListsFollowFlags(recipientBeats, recipientIndexed)
      /\ \A o \in Id : \A a \in beats[o].recipients : <<o, a>> \in recipientIndexed
      /\ \A pair \in recipientIndexed : pair[1] \in Existing(beats)
  BY StorageFields DEF RecipientIndex
<1>2. beats \in [Id -> Beat] /\ beats'[id] = hb /\ \A o \in Id : o # id => beats'[o] = beats[o]
  BY DEF StorageTypes
<1>3. ListsFollowFlags(recipientBeats', recipientIndexed')
  BY <1>1, IndexingFollowsFlags
<1>4. \A o \in Id : \A a \in beats'[o].recipients : <<o, a>> \in recipientIndexed'
  BY <1>1, <1>2 DEF IndexRecipients
<1>5. \A pair \in recipientIndexed' : pair[1] \in Existing(beats')
  <2>1. \A pair \in recipientIndexed' : pair \in recipientIndexed \/ pair[1] = id
    BY DEF IndexRecipients
  <2>2. id \in Existing(beats') /\ \A o \in Existing(beats) : o \in Existing(beats')
    BY <1>2 DEF Existing
  <2> QED
    BY <1>1, <2>1, <2>2
<1> QED
  BY <1>3, <1>4, <1>5, StorageFieldsNext DEF RecipientIndex

\* createHeartbeat: the new identifier enters every index, and pays for it.
LEMMA CreateIndexed ==
    ASSUME IInv, IndexIInv,
           NEW a \in Creator, NEW salt \in Salt, NEW list \in RecipientLists,
           NEW payload \in 0..(MAX_PAYLOAD_BYTES + 1),
           NEW interval \in 0..(MAX_INTERVAL + 1), NEW value \in 0..MaxValue,
           CreateHeartbeat(a, salt, list, payload, interval, value)
    PROVE  IndexIInv'
<1> DEFINE id == <<a, salt>>
           R == Range(list)
           hb == NewBeat(a, R, payload, interval)
           fee == creationFeeFor(Len(list))
<1>1. /\ ValidateRecipients(list) /\ beats[id].owner = NoAddress
      /\ heartbeatCount' = heartbeatCount + 1
      /\ beats' = [beats EXCEPT ![id] = hb]
      /\ ownerBeats' = [ownerBeats EXCEPT ![a] = Append(@, id)]
      /\ IndexRecipients(id, R)
      /\ feesReceived' = feesReceived + fee
      /\ frame'.id = id /\ frame'.fee = fee /\ frame'.saved = Storage
      /\ registered' = registered
  BY DEF CreateHeartbeat, HeartbeatExists, environment
<1>2. id \in Id /\ id[1] = a /\ a \in Address /\ a # NoAddress
  BY CoreAssumption DEF Id
<1>3. /\ StorageTypes /\ R \in SUBSET Address /\ R \subseteq registered
      /\ Len(list) \in Nat /\ Len(list) > 0
  BY <1>1, ValidRecipients, StorageByField DEF IInv, TypeOK, ValidateRecipients
<1>4. hb.owner = a /\ hb.recipients = R
  BY DEF NewBeat
<1> HIDE DEF hb, R, id
<1>5. beats'[id] = hb /\ \A o \in Id : o # id => beats'[o] = beats[o]
  BY <1>1, <1>2, <1>3 DEF StorageTypes
<1>6. Existing(beats') = Existing(beats) \cup {id} /\ id \notin Existing(beats)
  BY <1>1, <1>2, <1>4, <1>5 DEF Existing
<1>7. OwnerIndex(Storage', registered')
  <2>1. ASSUME NEW o \in Address
        PROVE  /\ IsInjective(ownerBeats'[o])
               /\ Range(ownerBeats'[o]) = {i \in Id : beats'[i].owner = o}
    <3>1. /\ IsInjective(ownerBeats[o]) /\ ownerBeats[o] \in Seq(Id) /\ o # NoAddress
          /\ Range(ownerBeats[o]) = {i \in Id : beats[i].owner = o}
      BY <1>3, StorageFields, CoreAssumption DEF IndexIInv, Indexed, OwnerIndex, StorageTypes
    <3>2. CASE o = a
      <4>1. ownerBeats'[o] = Append(ownerBeats[o], id) /\ id \notin Range(ownerBeats[o])
        BY <1>1, <1>2, <1>3, <3>1, <3>2 DEF StorageTypes
      <4>2. /\ IsInjective(Append(ownerBeats[o], id))
            /\ Range(Append(ownerBeats[o], id)) = Range(ownerBeats[o]) \cup {id}
        BY <1>2, <3>1, <4>1, AppendOnce
      <4> QED
        BY <1>2, <1>4, <1>5, <3>1, <3>2, <4>1, <4>2
    <3>3. CASE o # a
      <4>1. ownerBeats'[o] = ownerBeats[o]
        BY <1>1, <1>3, <3>3 DEF StorageTypes
      <4> QED
        BY <1>1, <1>2, <1>4, <1>5, <3>1, <3>3, <4>1
    <3> QED
      BY <3>2, <3>3
  <2>2. \A i \in Existing(beats') :
           beats'[i].owner = i[1] /\ beats'[i].recipients \subseteq registered'
    <3>1. \A i \in Existing(beats) :
             beats[i].owner = i[1] /\ beats[i].recipients \subseteq registered
      BY StorageFields DEF IndexIInv, Indexed, OwnerIndex
    <3> QED
      BY <1>1, <1>2, <1>3, <1>4, <1>5, <1>6, <3>1 DEF Existing
  <2> QED
    BY <2>1, <2>2, StorageFieldsNext DEF OwnerIndex
<1>8. RecipientIndex(Storage')
  <2>1. RecipientIndex(Storage) /\ StorageTypes
    BY <1>3 DEF IndexIInv, Indexed
  <2>2. /\ R \in SUBSET Address /\ IndexRecipients(id, R)
        /\ hb.owner # NoAddress /\ hb.recipients = R
        /\ beats' = [beats EXCEPT ![id] = hb]
    BY <1>1, <1>2, <1>3, <1>4
  <2> QED
    BY <1>2, <2>1, <2>2, IndexingSound
<1>9. Metered(Storage')
  <2>1. /\ IsFiniteSet(Existing(beats)) /\ Cardinality(Existing(beats)) = heartbeatCount
        /\ heartbeatCount * baseFee <= feesReceived
    BY StorageFields DEF IndexIInv, Indexed, Metered
  <2>2. IsFiniteSet(Existing(beats')) /\ Cardinality(Existing(beats')) = heartbeatCount + 1
    BY <1>6, <2>1, FS_AddElement
  <2>3. heartbeatCount' * baseFee <= feesReceived'
    <3>1. /\ heartbeatCount \in Nat /\ feesReceived \in Nat
          /\ baseFee \in Nat /\ perAdditionalFee \in Nat
      BY <1>3, CoreAssumption DEF StorageTypes
    <3>2. (heartbeatCount + 1) * baseFee = heartbeatCount * baseFee + baseFee
      BY <3>1
    <3>3. fee >= baseFee /\ fee \in Nat
      <4>1. (Len(list) - 1) * perAdditionalFee \in Nat
        BY <1>3, <3>1
      <4> QED
        BY <3>1, <4>1 DEF creationFeeFor
    <3>4. heartbeatCount * baseFee \in Nat
      BY <3>1
    <3> HIDE DEF fee
    <3> QED
      BY <1>1, <2>1, <3>1, <3>2, <3>3, <3>4
  <2> QED
    BY <1>1, <2>2, <2>3, StorageFieldsNext DEF Metered
<1>10. Indexed(frame'.saved, registered')
  BY <1>1 DEF IndexIInv
<1>11. FeeMatches'
  <2>1. Cardinality(R) = Len(list)
    BY <1>1, ValidListCardinality DEF R
  <2> QED
    BY <1>1, <1>4, <1>5, <2>1 DEF FeeMatches
<1> QED
  BY <1>7, <1>8, <1>9, <1>10, <1>11 DEF IndexIInv, Indexed

\* The steps that leave the indexes, the owners and the recipients alone.
LEMMA KeptIndexed ==
    ASSUME IndexIInv, SameIndexes(Storage, Storage'), registered \subseteq registered',
           \/ Idle'
           \/ ~Idle /\ frame'.id = frame.id /\ frame'.fee = frame.fee /\ frame'.saved = frame.saved,
           \A id \in Id : beats'[id].recipients = beats[id].recipients,
           frame \in FrameType
    PROVE  IndexIInv'
<1>1. Indexed(Storage', registered')
  BY SameIndexesIndexed DEF IndexIInv
<1>2. ASSUME ~Idle'
      PROVE  Indexed(frame'.saved, registered') /\ FeeMatches'
  <2>1. ~Idle /\ frame'.id = frame.id /\ frame'.fee = frame.fee /\ frame'.saved = frame.saved
    BY <1>2
  <2>2. frame.id \in Id
    BY <2>1, FrameIsOpen DEF OpenFrame
  <2>3. SameIndexes(frame.saved, frame.saved)
    BY DEF SameIndexes
  <2>4. Indexed(frame.saved, registered')
    BY <2>1, <2>3, SameIndexesIndexed DEF IndexIInv
  <2> QED
    BY <2>1, <2>2, <2>4 DEF IndexIInv, FeeMatches
<1> QED
  BY <1>1, <1>2 DEF IndexIInv, FeeMatches

\* updateRecipients: the new recipients are indexed, the removed ones stay.
LEMMA UpdateIndexed ==
    ASSUME IInv, IndexIInv, NEW a \in Address, NEW id \in Id, NEW list \in RecipientLists,
           UpdateRecipients(a, id, list)
    PROVE  IndexIInv'
<1> DEFINE R == Range(list)
           hb == [beats[id] EXCEPT !.recipients = R, !.lastCheckIn = now]
<1>1. /\ ValidateRecipients(list) /\ beats[id].owner # NoAddress /\ Idle
      /\ beats' = [beats EXCEPT ![id].recipients = R, ![id].lastCheckIn = now]
      /\ IndexRecipients(id, R)
      /\ UNCHANGED <<registered, heartbeatCount, ownerBeats, feesReceived, frame>>
  BY DEF UpdateRecipients, OwnerTurn, HeartbeatExists, Unlocked, environment, ether
<1>2. StorageTypes /\ beats[id] \in Beat /\ R \in SUBSET Address /\ R \subseteq registered
  BY <1>1, ValidRecipients, OwnerBeat DEF IInv, ValidateRecipients
<1>3. hb.owner = beats[id].owner /\ hb.recipients = R /\ beats' = [beats EXCEPT ![id] = hb]
  BY <1>1, <1>2 DEF Beat, StorageTypes
<1> HIDE DEF hb, R
<1>4. beats'[id] = hb /\ \A o \in Id : o # id => beats'[o] = beats[o]
  BY <1>2, <1>3 DEF StorageTypes
<1>5. Existing(beats') = Existing(beats)
  BY <1>3, <1>4 DEF Existing
<1>6. OwnerIndex(Storage', registered')
  <2>1. \A o \in Address : {i \in Id : beats'[i].owner = o} = {i \in Id : beats[i].owner = o}
    BY <1>3, <1>4
  <2>2. /\ \A o \in Address : /\ IsInjective(ownerBeats[o])
                              /\ Range(ownerBeats[o]) = {i \in Id : beats[i].owner = o}
        /\ \A i \in Existing(beats) :
              beats[i].owner = i[1] /\ beats[i].recipients \subseteq registered
    BY StorageFields DEF IndexIInv, Indexed, OwnerIndex
  <2>3. \A i \in Existing(beats') :
           beats'[i].owner = i[1] /\ beats'[i].recipients \subseteq registered'
    BY <1>1, <1>2, <1>3, <1>4, <1>5, <2>2 DEF Existing
  <2>4. \A o \in Address : /\ IsInjective(ownerBeats'[o])
                           /\ Range(ownerBeats'[o]) = {i \in Id : beats'[i].owner = o}
    BY <1>1, <2>1, <2>2
  <2> QED
    BY <2>3, <2>4, StorageFieldsNext DEF OwnerIndex
<1>7. RecipientIndex(Storage')
  BY <1>1, <1>2, <1>3, IndexingSound DEF IndexIInv, Indexed
<1>8. Metered(Storage')
  BY <1>1, <1>5, StorageFields, StorageFieldsNext DEF IndexIInv, Indexed, Metered
<1>9. Idle'
  BY <1>1 DEF Idle
<1> QED
  BY <1>6, <1>7, <1>8, <1>9 DEF IndexIInv, Indexed, FeeMatches

\* checkIn, updateInterval, deactivate and execute.
LEMMA BeatStepIndexed ==
    ASSUME IInv, IndexIInv, NEW a \in Address, NEW id \in Id,
           \/ CheckIn(a, id)
           \/ \E interval \in 0..(MAX_INTERVAL + 1) : UpdateInterval(a, id, interval)
           \/ Deactivate(a, id)
           \/ Execute(a, id)
    PROVE  IndexIInv'
<1>1. UNCHANGED <<registered, indexes, feesReceived, frame>>
  BY DEF CheckIn, UpdateInterval, Deactivate, Execute, environment, ether
<1>2. beats \in [Id -> Beat] /\ beats[id] \in Beat
  BY OwnerBeat DEF StorageTypes
<1>3. \A o \in Id : /\ beats'[o].owner = beats[o].owner
                    /\ beats'[o].recipients = beats[o].recipients
  <2>1. CASE CheckIn(a, id)
    BY <1>2, <2>1 DEF CheckIn, Beat
  <2>2. CASE \E interval \in 0..(MAX_INTERVAL + 1) : UpdateInterval(a, id, interval)
    BY <1>2, <2>2 DEF UpdateInterval, Beat
  <2>3. CASE Deactivate(a, id)
    BY <1>2, <2>3 DEF Deactivate, Beat
  <2>4. CASE Execute(a, id)
    BY <1>2, <2>4 DEF Execute, Beat
  <2> QED
    BY <2>1, <2>2, <2>3, <2>4
<1>4. SameIndexes(Storage, Storage')
  BY <1>1, <1>3, StorageFields, StorageFieldsNext DEF SameIndexes, indexes
<1>5. frame \in FrameType /\ (Idle' <=> Idle)
  BY <1>1 DEF IInv, TypeOK, Idle
<1> QED
  BY <1>1, <1>3, <1>4, <1>5, KeptIndexed

\* The fee receiver and the refunded sender return, or fail.
LEMMA CallReturnsIndexed ==
    ASSUME IInv, IndexIInv, CallReturns
    PROVE  IndexIInv'
<1>1. frame \in FrameType /\ NoFrame.stage = "idle"
  BY DEF IInv, TypeOK, NoFrame
<1>2. CASE FeeAccepted \/ RefundAccepted
  <2>1. frame' = NoFrame /\ UNCHANGED <<registered, storage>>
    BY <1>2 DEF FeeAccepted, RefundAccepted, environment
  <2>2. SameIndexes(Storage, Storage') /\ Idle'
    BY <1>1, <2>1, StorageFields, StorageFieldsNext DEF SameIndexes, storage, Idle
  <2> QED
    BY <1>1, <2>1, <2>2, KeptIndexed DEF storage
<1>3. CASE RefundExcess
  <2>1. /\ frame.stage = "fee" /\ frame' = [frame EXCEPT !.stage = "refund"]
        /\ UNCHANGED <<registered, beats, indexes, feesReceived>>
    BY <1>3 DEF RefundExcess, environment
  <2>2. SameIndexes(Storage, Storage')
    BY <2>1, StorageFields, StorageFieldsNext DEF SameIndexes, indexes
  <2>3. ~Idle /\ frame \in OpenFrame
    BY <1>1, <2>1, FrameIsOpen
  <2>4. ~Idle' /\ frame'.id = frame.id /\ frame'.fee = frame.fee /\ frame'.saved = frame.saved
    BY <2>1, <2>3 DEF OpenFrame, Idle
  <2> QED
    BY <1>1, <2>1, <2>2, <2>3, <2>4, KeptIndexed
<1>4. CASE CallFails
  <2>1. ~Idle /\ frame' = NoFrame /\ registered' = registered /\ Restore(frame.saved)
    BY <1>1, <1>4, FrameIsOpen DEF CallFails, environment
  <2>2. SameIndexes(frame.saved, Storage')
    BY <2>1, StorageFieldsNext DEF SameIndexes, Restore
  <2>3. Indexed(Storage', registered')
    BY <2>1, <2>2, SameIndexesIndexed DEF IndexIInv
  <2>4. Idle'
    BY <1>1, <2>1 DEF Idle
  <2> QED
    BY <2>3, <2>4 DEF IndexIInv, FeeMatches
<1> QED
  BY <1>2, <1>3, <1>4 DEF CallReturns

LEMMA NextIndexed ==
    ASSUME IInv, IndexIInv, [Next]_vars
    PROVE  IndexIInv'
<1>1. CASE Create
  BY <1>1, CreateIndexed DEF Create
<1>2. CASE OwnerStep
  BY <1>2, UpdateIndexed, BeatStepIndexed DEF OwnerStep
<1>3. CASE CallReturns
  BY <1>3, CallReturnsIndexed
<1>4. CASE \E a \in Address, id \in Id : Execute(a, id)
  BY <1>4, BeatStepIndexed
<1>5. CASE \/ \E a \in Registrant : Register(a)
           \/ \E a \in Staker : FlipExecutor(a)
           \/ Tick
           \/ UNCHANGED vars
  <2>1. UNCHANGED <<storage, frame>> /\ registered \subseteq registered'
    BY <1>5 DEF Register, FlipExecutor, Tick, vars, environment
  <2>2. SameIndexes(Storage, Storage')
    BY <2>1, StorageFields, StorageFieldsNext DEF SameIndexes, storage
  <2>3. frame \in FrameType /\ (Idle' <=> Idle)
    BY <2>1 DEF IInv, TypeOK, Idle
  <2> QED
    BY <2>1, <2>2, <2>3, KeptIndexed DEF storage
<1> QED
  BY <1>1, <1>2, <1>3, <1>4, <1>5 DEF Next

\* The inductive invariant.
THEOREM IndexInvariance == Spec => [](IInv /\ IndexIInv)
<1> QED
  BY Invariance, InitIndexed, NextIndexed, PTL DEF Spec

\* Whatever calls back into a creation, and whatever reverts, an owner's list
\* is exactly its beats (getOwnerHeartbeats).
THEOREM OwnerIndexIsExact == Spec => []OwnerIndexExact
<1>1. IndexIInv => OwnerIndexExact
  BY StorageFields
  DEF IndexIInv, Indexed, OwnerIndex, Existing, OwnerIndexExact, HeartbeatExists
<1> QED
  BY <1>1, IndexInvariance, PTL

\* A recipient's list misses no beat that names it, holds none twice, and
\* holds only beats that exist (getRecipientHeartbeats).
THEOREM RecipientIndexIsSound == Spec => []RecipientIndexSound
<1>1. IInv /\ IndexIInv => RecipientIndexSound
  <2> SUFFICES ASSUME IInv, IndexIInv PROVE RecipientIndexSound
    OBVIOUS
  <2>1. beats \in [Id -> Beat] /\ recipientIndexed \in SUBSET (Id \X Address)
    BY StorageByField DEF IInv, TypeOK, StorageTypes
  <2>2. /\ ListsFollowFlags(recipientBeats, recipientIndexed)
        /\ \A id \in Id : \A a \in beats[id].recipients : <<id, a>> \in recipientIndexed
        /\ \A pair \in recipientIndexed : pair[1] \in Existing(beats)
    BY StorageFields DEF IndexIInv, Indexed, RecipientIndex
  <2> QED
    BY <2>1, <2>2
    DEF RecipientIndexSound, ListsFollowFlags, Existing, HeartbeatExists, Beat
<1> QED
  BY <1>1, IndexInvariance, PTL

\* The contract keeps no ether, and an open creation has taken the fee for
\* exactly the recipients its beat has.
THEOREM NothingIsRetained == Spec => []NoEtherRetained
<1>1. IInv /\ IndexIInv => NoEtherRetained
  BY DEF IInv, Settled, IndexIInv, FeeMatches, NoEtherRetained
<1> QED
  BY <1>1, IndexInvariance, PTL

\* No list is longer than the creations that were paid for.
THEOREM InboxIsMetered == Spec => []InboxFeeMetered
<1>1. IInv /\ IndexIInv => InboxFeeMetered
  <2> SUFFICES ASSUME IInv, IndexIInv PROVE InboxFeeMetered
    OBVIOUS
  <2>1. /\ IsFiniteSet(Existing(beats)) /\ Cardinality(Existing(beats)) = heartbeatCount
        /\ heartbeatCount * baseFee <= feesReceived
    BY StorageFields DEF IndexIInv, Indexed, Metered
  <2>2. ASSUME NEW a \in Address
        PROVE  Len(recipientBeats[a]) <= heartbeatCount
    <3>1. /\ IsInjective(recipientBeats[a]) /\ recipientBeats[a] \in Seq(Id)
          /\ Range(recipientBeats[a]) = {id \in Id : <<id, a>> \in recipientIndexed}
          /\ \A pair \in recipientIndexed : pair[1] \in Existing(beats)
      BY StorageByField, StorageFields
      DEF IInv, TypeOK, StorageTypes, IndexIInv, Indexed, RecipientIndex, ListsFollowFlags
    <3>2. Range(recipientBeats[a]) \subseteq Existing(beats)
      BY <3>1
    <3>3. Cardinality(Range(recipientBeats[a])) = Len(recipientBeats[a])
      BY <3>1, ListCardinality
    <3>4. Cardinality(Range(recipientBeats[a])) <= Cardinality(Existing(beats))
      BY <2>1, <3>2, FS_Subset
    <3> QED
      BY <2>1, <3>3, <3>4
  <2> QED
    BY <2>1, <2>2 DEF InboxFeeMetered
<1> QED
  BY <1>1, IndexInvariance, PTL
-------------------------------------------------------------------------------
(***************************************************************************)
(* A paged listing is complete, for every page size, every number of beats *)
(* and every interleaving of the client's reads with the transactions of   *)
(* the others.  The argument: a committed list only ever grows at its end, *)
(* so what has been read is a prefix of it, and so is what the listing's   *)
(* first request counted; every beat that belonged then is in that prefix. *)
(***************************************************************************)
\* The reader's lists, as the world outside sees them.
Seen(list) == IF list = "inbox" THEN Committed.recipientBeats[Reader]
                                ELSE Committed.ownerBeats[Reader]

\* new is old, with something appended.
Extends(new, old) ==
    Len(old) <= Len(new) /\ \A i \in 1..Len(old) : new[i] = old[i]

\* What an open creation has done to the lists, it has done at their ends.
Grown ==
    ~Idle => \A a \in Address :
                /\ Extends(ownerBeats[a], frame.saved.ownerBeats[a])
                /\ Extends(recipientBeats[a], frame.saved.recipientBeats[a])

\* The first r entries of list have been read, and those that are not in
\* `found' any more have been confirmed or dropped.
ReadUpTo(r, list) ==
    LET done == r - Len(found)
    IN  /\ r <= Len(list) /\ total <= Len(list) /\ Len(found) <= r
        /\ IF start < total THEN r = start ELSE r >= total
        /\ \A i \in 1..Len(found) : found[i] = list[done + i]
        /\ \A id \in Range(confirmed) : \E i \in 1..done : list[i] = id
        /\ \A i \in 1..done : list[i] \in owed => list[i] \in Range(confirmed)
        /\ \A id \in owed : \E i \in 1..total : list[i] = id
        /\ listing = "owner" => Len(confirmed) = done /\ \A i \in 1..done : confirmed[i] = list[i]

\* The inductive invariant, beside those of the contract.
ListingInv ==
    /\ listing \in {"none", "inbox", "owner"}
    /\ start \in Nat /\ total \in Nat
    /\ found \in Seq(Id) /\ confirmed \in Seq(Id) /\ IsInjective(confirmed)
    /\ listing = "none" => start = 0 /\ total = 0 /\ found = << >> /\ confirmed = << >> /\ owed = {}
    /\ listing # "none" => /\ owed \subseteq Belonging(listing)
                           /\ \E r \in Nat : ReadUpTo(r, Seen(listing))
    /\ Listed => Idle

------------------------------------------------------------------------------
\* The lists of a storage, open or committed.
LEMMA ListTypes ==
    ASSUME IInv, NEW a \in Address
    PROVE  /\ ownerBeats[a] \in Seq(Id) /\ recipientBeats[a] \in Seq(Id)
           /\ Committed.ownerBeats[a] \in Seq(Id) /\ Committed.recipientBeats[a] \in Seq(Id)
<1>1. ownerBeats \in [Address -> Seq(Id)] /\ recipientBeats \in [Address -> Seq(Id)]
  BY StorageByField DEF IInv, TypeOK, StorageTypes
<1>2. ~Idle => frame.saved \in StorageType
  BY FrameIsOpen DEF IInv, TypeOK, OpenFrame
<1> QED
  BY <1>1, <1>2 DEF Committed, Storage, StorageType

\* Appending to a list, or leaving it, extends it.
LEMMA AppendExtends ==
    ASSUME NEW S, NEW s \in Seq(S), NEW x \in S
    PROVE  Extends(Append(s, x), s) /\ Extends(s, s)
BY DEF Extends

LEMMA IndexingExtends ==
    ASSUME IInv, NEW id \in Id, NEW R, IndexRecipients(id, R), NEW a \in Address
    PROVE  Extends(recipientBeats'[a], recipientBeats[a])
<1>1. recipientBeats[a] \in Seq(Id)
  BY ListTypes
<1>2. recipientBeats'[a] \in {recipientBeats[a], Append(recipientBeats[a], id)}
  BY DEF IndexRecipients
<1> QED
  BY <1>1, <1>2, AppendExtends

LEMMA CreateGrown ==
    ASSUME IInv, NEW a \in Creator, NEW salt \in Salt, NEW list \in RecipientLists,
           NEW payload \in 0..(MAX_PAYLOAD_BYTES + 1),
           NEW interval \in 0..(MAX_INTERVAL + 1), NEW value \in 0..MaxValue,
           CreateHeartbeat(a, salt, list, payload, interval, value)
    PROVE  Grown'
<1> DEFINE id == <<a, salt>>
<1>1. /\ ownerBeats' = [ownerBeats EXCEPT ![a] = Append(@, id)]
      /\ IndexRecipients(id, Range(list))
      /\ frame'.saved.ownerBeats = ownerBeats /\ frame'.saved.recipientBeats = recipientBeats
  BY DEF CreateHeartbeat, Storage
<1>2. id \in Id /\ a \in Address
  BY CoreAssumption DEF Id
<1> HIDE DEF id
<1>3. ASSUME NEW o \in Address
      PROVE  /\ Extends(ownerBeats'[o], ownerBeats[o])
             /\ Extends(recipientBeats'[o], recipientBeats[o])
  <2>1. ownerBeats[o] \in Seq(Id) /\ ownerBeats \in [Address -> Seq(Id)]
    BY StorageByField DEF IInv, TypeOK, StorageTypes
  <2>2. ownerBeats'[o] \in {ownerBeats[o], Append(ownerBeats[o], id)}
    BY <1>1, <2>1
  <2>3. Extends(recipientBeats'[o], recipientBeats[o])
    BY <1>1, <1>2, IndexingExtends
  <2> QED
    BY <1>2, <2>1, <2>2, <2>3, AppendExtends
<1> QED
  BY <1>1, <1>3 DEF Grown

\* Every transaction leaves the committed lists, or extends them.
LEMMA NextGrown ==
    ASSUME IInv, Grown, [Next]_vars
    PROVE  Grown'
<1>1. CASE Create
  BY <1>1, CreateGrown DEF Create
<1>2. CASE \/ OwnerStep
           \/ \E a \in Address, id \in Id : Execute(a, id)
           \/ \E a \in Registrant : Register(a)
           \/ \E a \in Staker : FlipExecutor(a)
           \/ Tick
           \/ UNCHANGED vars
  <2>1. frame' = frame /\ (~Idle => UNCHANGED <<ownerBeats, recipientBeats>>)
    BY <1>2
    DEF OwnerStep, CheckIn, UpdateRecipients, UpdateInterval, Deactivate, Execute, Unlocked,
        Register, FlipExecutor, Tick, vars, storage, indexes
  <2> QED
    BY <2>1 DEF Grown, Idle
<1>3. CASE RefundExcess
  <2>1. /\ frame.stage = "fee" /\ frame' = [frame EXCEPT !.stage = "refund"]
        /\ UNCHANGED <<ownerBeats, recipientBeats>>
    BY <1>3 DEF RefundExcess, indexes
  <2>2. ~Idle /\ frame'.saved = frame.saved
    BY <2>1, FrameIsOpen DEF IInv, TypeOK, OpenFrame
  <2> QED
    BY <2>1, <2>2 DEF Grown
<1>4. CASE FeeAccepted \/ RefundAccepted \/ CallFails
  BY <1>4 DEF FeeAccepted, RefundAccepted, CallFails, Grown, Idle, NoFrame
<1> QED
  BY <1>1, <1>2, <1>3, <1>4 DEF Next, CallReturns

CommittedGrows ==
    \A a \in Address :
        /\ Extends(Committed'.ownerBeats[a], Committed.ownerBeats[a])
        /\ Extends(Committed'.recipientBeats[a], Committed.recipientBeats[a])

\* A step that leaves the committed lists alone.
LEMMA ListsKept ==
    ASSUME IInv, Committed'.ownerBeats = Committed.ownerBeats,
           Committed'.recipientBeats = Committed.recipientBeats
    PROVE  CommittedGrows
<1> SUFFICES ASSUME NEW a \in Address
             PROVE  /\ Extends(Committed.ownerBeats[a], Committed.ownerBeats[a])
                    /\ Extends(Committed.recipientBeats[a], Committed.recipientBeats[a])
  BY DEF CommittedGrows
<1> QED
  BY ListTypes DEF Extends

LEMMA CommittedListsGrow ==
    ASSUME IInv, Grown, [Next]_vars
    PROVE  CommittedGrows
<1>1. CASE Create
  <2>1. Idle /\ ~Idle' /\ frame'.saved = Storage
    BY <1>1 DEF Create, CreateHeartbeat, Unlocked, Idle
  <2> QED
    BY <2>1, ListsKept DEF Committed
<1>2. CASE \E a \in Address, id \in Id, list \in RecipientLists : UpdateRecipients(a, id, list)
  <2>1. PICK a \in Address, id \in Id, list \in RecipientLists : UpdateRecipients(a, id, list)
    BY <1>2
  <2>2. Idle /\ Idle' /\ ownerBeats' = ownerBeats /\ IndexRecipients(id, Range(list))
    BY <2>1 DEF UpdateRecipients, Unlocked, Idle
  <2>3. ASSUME NEW o \in Address
        PROVE  /\ Extends(ownerBeats'[o], ownerBeats[o])
               /\ Extends(recipientBeats'[o], recipientBeats[o])
    <3>1. Extends(ownerBeats[o], ownerBeats[o])
      BY ListTypes DEF Extends
    <3> QED
      BY <2>2, <3>1, IndexingExtends
  <2> QED
    BY <2>2, <2>3 DEF CommittedGrows, Committed, Storage
<1>3. CASE \/ OwnerStep /\ ~\E a \in Address, id \in Id, list \in RecipientLists :
                               UpdateRecipients(a, id, list)
           \/ \E a \in Address, id \in Id : Execute(a, id)
           \/ \E a \in Registrant : Register(a)
           \/ \E a \in Staker : FlipExecutor(a)
           \/ Tick
           \/ UNCHANGED vars
  <2>1. UNCHANGED <<frame, ownerBeats, recipientBeats>>
    BY <1>3
    DEF OwnerStep, CheckIn, UpdateInterval, Deactivate, Execute,
        Register, FlipExecutor, Tick, vars, storage, indexes
  <2> QED
    BY <2>1, ListsKept DEF Committed, Storage, Idle
<1>4. CASE FeeAccepted \/ RefundAccepted
  <2>1. ~Idle /\ Idle' /\ UNCHANGED storage
    BY <1>4 DEF FeeAccepted, RefundAccepted, Idle, NoFrame
  <2> QED
    BY <2>1 DEF Grown, CommittedGrows, Committed, Storage, storage
<1>5. CASE RefundExcess
  <2>1. /\ frame.stage = "fee" /\ frame' = [frame EXCEPT !.stage = "refund"]
    BY <1>5 DEF RefundExcess
  <2>2. ~Idle /\ ~Idle' /\ frame'.saved = frame.saved
    BY <2>1, FrameIsOpen DEF IInv, TypeOK, OpenFrame, Idle
  <2> QED
    BY <2>2, ListsKept DEF Committed
<1>6. CASE CallFails
  <2>1. ~Idle /\ Idle' /\ Restore(frame.saved)
    BY <1>6 DEF CallFails, Idle, NoFrame
  <2> QED
    BY <2>1, ListsKept DEF Committed, Storage, Restore
<1> QED
  BY <1>1, <1>2, <1>3, <1>4, <1>5, <1>6 DEF Next, CallReturns

------------------------------------------------------------------------------
\* What the index invariants say of a list that a client reads.
LEMMA SeenLists ==
    ASSUME IInv, IndexIInv, NEW list \in {"inbox", "owner"}
    PROVE  /\ Seen(list) \in Seq(Id) /\ IsInjective(Seen(list))
           /\ \A id \in Belonging(list) : \E i \in 1..Len(Seen(list)) : Seen(list)[i] = id
           /\ list = "owner" => \A i \in 1..Len(Seen(list)) :
                                   Committed.beats[Seen(list)[i]].owner = Reader
           /\ Idle => Seen(list) = List(list)
<1>1. Seen(list) \in Seq(Id)
  BY ListTypes, ReaderAssumption DEF Seen
<1>2. Indexed(Committed, registered)
  BY DEF IndexIInv, Committed
<1>3. Range(Seen(list)) = {Seen(list)[i] : i \in 1..Len(Seen(list))}
  BY <1>1 DEF Range
<1>4. CASE list = "inbox"
  <2>1. /\ IsInjective(Seen(list))
        /\ Range(Seen(list)) = {id \in Id : <<id, Reader>> \in Committed.recipientIndexed}
        /\ \A id \in Id : Reader \in Committed.beats[id].recipients =>
                             <<id, Reader>> \in Committed.recipientIndexed
    BY <1>2, <1>4, ReaderAssumption DEF Indexed, RecipientIndex, ListsFollowFlags, Seen
  <2>2. \A id \in Belonging(list) : Reader \in Committed.beats[id].recipients /\ id \in Id
    BY <1>4 DEF Belonging, Names
  <2>3. Idle => Seen(list) = List(list)
    BY <1>4 DEF Seen, List, Committed, Storage
  <2> QED
    BY <1>1, <1>3, <1>4, <2>1, <2>2, <2>3
<1>5. CASE list = "owner"
  <2>1. /\ IsInjective(Seen(list))
        /\ Range(Seen(list)) = {id \in Id : Committed.beats[id].owner = Reader}
    BY <1>2, <1>5, ReaderAssumption DEF Indexed, OwnerIndex, Seen
  <2>2. \A id \in Belonging(list) : Committed.beats[id].owner = Reader /\ id \in Id
    BY <1>5 DEF Belonging, Names
  <2>3. Idle => Seen(list) = List(list)
    BY <1>5 DEF Seen, List, Committed, Storage
  <2> QED
    BY <1>1, <1>3, <1>5, <2>1, <2>2, <2>3
<1> QED
  BY <1>4, <1>5

LEMMA InitListing == Init /\ ReaderInit => ListingInv /\ Grown
<1> SUFFICES ASSUME Init, ReaderInit PROVE ListingInv /\ Grown
  OBVIOUS
<1>1. IsInjective(confirmed) /\ found \in Seq(Id) /\ confirmed \in Seq(Id)
  BY DEF ReaderInit, IsInjective
<1> QED
  BY <1>1 DEF Init, ReaderInit, ListingInv, Listed, Grown, Idle, NoFrame

\* inboxCount, ownerBeatCount: what belongs is in the list that was counted.
LEMMA CountListing ==
    ASSUME IInv, IndexIInv, ListingInv, NEW list \in {"inbox", "owner"}, Count(list)
    PROVE  ListingInv'
<1>1. /\ Idle /\ listing = "none" /\ listing' = list /\ total' = Len(List(list))
      /\ owed' = Belonging(list) /\ start' = 0
      /\ found' = << >> /\ confirmed' = << >> /\ UNCHANGED vars
  BY DEF Count, ListingInv
<1>2. /\ Seen(list) = List(list) /\ List(list) \in Seq(Id)
      /\ \A id \in Belonging(list) : \E i \in 1..Len(List(list)) : List(list)[i] = id
  BY <1>1, SeenLists
<1>3. Committed' = Committed /\ Idle'
  BY <1>1 DEF Committed, Storage, vars, storage, Idle
<1>4. Seen(listing)' = List(list) /\ Belonging(listing)' = Belonging(list)
  BY <1>1, <1>2, <1>3 DEF Seen, Belonging
<1>5. ReadUpTo(0, Seen(listing))'
  <2>1. /\ Len(List(list)) \in Nat /\ Len(<< >>) = 0 /\ 0 - 0 = 0 /\ 1..0 = {}
        /\ \A id : id \notin Range(<< >>)
    BY <1>2 DEF Range
  <2>2. /\ 0 <= Len(List(list)) /\ total' <= Len(List(list)) /\ Len(found') <= 0
        /\ IF start' < total' THEN 0 = start' ELSE 0 >= total'
    BY <1>1, <2>1
  <2>3. /\ 0 - Len(found') = 0 /\ 1..(0 - Len(found')) = {} /\ 1..Len(found') = {}
        /\ Len(confirmed') = 0 /\ \A id : id \notin Range(confirmed')
    BY <1>1, <2>1
  <2>4. \A id \in owed' : \E i \in 1..total' : List(list)[i] = id
    BY <1>1, <1>2
  <2> QED
    BY <1>4, <2>2, <2>3, <2>4 DEF ReadUpTo
<1>6. /\ found' \in Seq(Id) /\ confirmed' \in Seq(Id) /\ IsInjective(confirmed')
      /\ total' \in Nat
  BY <1>1, <1>2 DEF IsInjective
<1> QED
  BY <1>1, <1>3, <1>4, <1>5, <1>6 DEF ListingInv

\* _page returns the entries from start on, as many as there are.
LEMMA PageEntries ==
    ASSUME NEW arr \in Seq(Id), NEW from \in 0..(Len(arr) - 1)
    PROVE  /\ Page(arr, from, PageSize) \in Seq(Id)
           /\ from + Len(Page(arr, from, PageSize)) =
                 IF from + PageSize > Len(arr) THEN Len(arr) ELSE from + PageSize
           /\ \A i \in 1..Len(Page(arr, from, PageSize)) :
                 Page(arr, from, PageSize)[i] = arr[from + i]
<1> DEFINE end == IF from + PageSize > Len(arr) THEN Len(arr) ELSE from + PageSize
<1>1. end \in from..Len(arr) /\ Len(arr) \in Nat /\ from \in Nat /\ from < Len(arr)
  BY ReaderAssumption
<1> HIDE DEF end
<1>2. Page(arr, from, PageSize) = SubSeq(arr, from + 1, end)
  BY <1>1 DEF Page, end
<1>3. /\ SubSeq(arr, from + 1, end) \in Seq(Id)
      /\ Len(SubSeq(arr, from + 1, end)) = end - from
      /\ \A i \in 1..(end - from) : SubSeq(arr, from + 1, end)[i] = arr[from + i]
  BY <1>1
<1>4. from + (end - from) = end
  BY <1>1
<1> QED
  BY <1>2, <1>3, <1>4 DEF end

\* The pages follow each other: nothing between two of them is skipped.
LEMMA PageListing ==
    ASSUME IInv, IndexIInv, ListingInv, ReadPage
    PROVE  ListingInv'
<1> DEFINE L == Seen(listing)
<1>1. /\ Idle /\ listing \in {"inbox", "owner"} /\ start < total /\ found = << >>
      /\ found' = Page(List(listing), start, PageSize) /\ start' = start + PageSize
      /\ UNCHANGED <<vars, listing, total, confirmed, owed>>
      /\ start \in Nat /\ total \in Nat /\ PageSize \in Nat \ {0}
  BY ReaderAssumption DEF ReadPage, ListingInv
<1>2. L \in Seq(Id) /\ L = List(listing)
  BY <1>1, SeenLists
<1>3. Committed' = Committed /\ Idle' /\ L' = L
  BY <1>1 DEF Committed, Storage, vars, storage, Idle, Seen
<1> HIDE DEF L
<1>4. ReadUpTo(start, L)
  <2>1. PICK r \in Nat : ReadUpTo(r, L)
    BY <1>1 DEF ListingInv, L
  <2> QED
    BY <1>1, <2>1 DEF ReadUpTo
<1>5. start < Len(L) /\ total <= Len(L) /\ Len(L) \in Nat
  BY <1>1, <1>2, <1>4 DEF ReadUpTo
<1> PICK end \in Nat :
        end = IF start + PageSize > Len(L) THEN Len(L) ELSE start + PageSize
  BY <1>1, <1>5
<1>6. /\ found' \in Seq(Id) /\ start + Len(found') = end
      /\ \A i \in 1..Len(found') : found'[i] = L[start + i]
  <2>1. found' = Page(L, start, PageSize) /\ start \in 0..(Len(L) - 1)
    BY <1>1, <1>2, <1>5
  <2>2. /\ Page(L, start, PageSize) \in Seq(Id)
        /\ start + Len(Page(L, start, PageSize)) =
              IF start + PageSize > Len(L) THEN Len(L) ELSE start + PageSize
        /\ \A i \in 1..Len(Page(L, start, PageSize)) :
              Page(L, start, PageSize)[i] = L[start + i]
    BY <1>2, <2>1, PageEntries
  <2> QED
    BY <2>1, <2>2
<1>7. /\ end <= Len(L) /\ end - Len(found') = start /\ Len(found') \in Nat
      /\ Len(found') <= end
      /\ IF start' < total THEN end = start' ELSE end >= total
  BY <1>1, <1>5, <1>6
<1>8. start - Len(found) = start
  BY <1>1
<1>9. ReadUpTo(end, L)'
  <2>1. /\ \A id \in Range(confirmed) : \E i \in 1..start : L[i] = id
        /\ \A i \in 1..start : L[i] \in owed => L[i] \in Range(confirmed)
        /\ \A id \in owed : \E i \in 1..total : L[i] = id
        /\ listing = "owner" => Len(confirmed) = start /\ \A i \in 1..start : confirmed[i] = L[i]
    BY <1>4, <1>8 DEF ReadUpTo
  <2> QED
    BY ZenonT(30), <1>1, <1>3, <1>5, <1>6, <1>7, <2>1 DEF ReadUpTo
<1>10. UNCHANGED Belonging(listing)
  BY <1>1, <1>3 DEF Belonging
<1> QED
  BY <1>1, <1>3, <1>6, <1>7, <1>9, <1>10 DEF ListingInv, L

\* getHeartbeat confirms the next identifier, or drops it if it is stale: what
\* is owed is never stale, and no beat of an owner's list ever is.
LEMMA ConfirmListing ==
    ASSUME IInv, IndexIInv, ListingInv, Confirm
    PROVE  ListingInv'
<1> DEFINE L == Seen(listing)
           h == Head(found)
<1>1. /\ Idle /\ found # << >> /\ found \in Seq(Id) /\ confirmed \in Seq(Id)
      /\ confirmed' = IF Names(beats[h])[listing] THEN Append(confirmed, h) ELSE confirmed
      /\ found' = Tail(found)
      /\ UNCHANGED <<vars, listing, total, start, owed>>
      /\ listing \in {"inbox", "owner"} /\ IsInjective(confirmed)
      /\ start \in Nat /\ total \in Nat
  BY DEF Confirm, ListingInv
<1>2. /\ Committed' = Committed /\ Idle' /\ L' = L /\ UNCHANGED Belonging(listing)
      /\ Committed.beats = beats
  BY <1>1 DEF Committed, Storage, vars, storage, Idle, Seen, Belonging
<1>3. /\ L \in Seq(Id) /\ IsInjective(L) /\ Len(L) \in Nat /\ DOMAIN L = 1..Len(L)
      /\ listing = "owner" => \A i \in 1..Len(L) : beats[L[i]].owner = Reader
  BY <1>1, <1>2, SeenLists
<1>4. PICK r \in Nat : ReadUpTo(r, L)
  BY <1>1 DEF ListingInv
<1>5. owed \subseteq Belonging(listing)
  BY <1>1 DEF ListingInv
<1> HIDE DEF L
<1>6. PICK done \in Nat : done = r - Len(found) /\ done + 1 <= Len(L) /\ done + 1 <= r
  <2>1. Len(found) \in Nat /\ Len(found) >= 1
    BY <1>1
  <2>2. Len(found) <= r /\ r <= Len(L)
    BY <1>4 DEF ReadUpTo
  <2>3. r - Len(found) \in Nat /\ r - Len(found) + 1 <= Len(L) /\ r - Len(found) + 1 <= r
    BY <1>3, <2>1, <2>2
  <2> QED
    BY <2>3
<1>7. /\ h = L[done + 1] /\ h \in Id
      /\ found' \in Seq(Id) /\ Len(found') = Len(found) - 1
      /\ r - Len(found') = done + 1
      /\ \A i \in 1..Len(found') : found'[i] = L[done + 1 + i]
  <2>1. /\ h = found[1] /\ h \in Id /\ Len(found) \in Nat /\ Len(found) >= 1
        /\ found' \in Seq(Id) /\ Len(found') = Len(found) - 1
        /\ \A i \in 1..Len(found') : found'[i] = found[i + 1]
    BY <1>1
  <2>2. \A i \in 1..Len(found) : found[i] = L[done + i]
    BY <1>4, <1>6 DEF ReadUpTo
  <2>3. \A i \in 1..Len(found') : i + 1 \in 1..Len(found) /\ done + (i + 1) = done + 1 + i
    BY <2>1
  <2>4. h = L[done + 1]
    BY <2>1, <2>2
  <2>5. \A i \in 1..Len(found') : found'[i] = L[done + 1 + i]
    BY <2>1, <2>2, <2>3
  <2>6. r - Len(found') = done + 1
    BY <1>6, <2>1
  <2> QED
    BY <2>1, <2>4, <2>5, <2>6
<1> HIDE DEF h
<1>8. /\ r <= Len(L) /\ total <= Len(L) /\ Len(found') <= r
      /\ IF start < total THEN r = start ELSE r >= total
      /\ \A id \in owed : \E i \in 1..total : L[i] = id
  <2>1. Len(found') <= r
    <3>1. r - Len(found') = done + 1 /\ Len(found') \in Nat
      BY <1>7
    <3> QED
      BY <3>1
  <2>2. /\ r <= Len(L) /\ total <= Len(L)
        /\ IF start < total THEN r = start ELSE r >= total
        /\ \A id \in owed : \E i \in 1..total : L[i] = id
    BY <1>4 DEF ReadUpTo
  <2> QED
    BY <2>1, <2>2
<1>9. /\ \A id \in Range(confirmed) : \E i \in 1..done : L[i] = id
      /\ \A i \in 1..done : L[i] \in owed => L[i] \in Range(confirmed)
      /\ listing = "owner" => Len(confirmed) = done /\ \A i \in 1..done : confirmed[i] = L[i]
  BY <1>4, <1>6 DEF ReadUpTo
<1>10. \A i \in 1..(done + 1) : i \in 1..done \/ i = done + 1
  OBVIOUS
<1>11. CASE Names(beats[h])[listing]
  <2>1. h \notin Range(confirmed)
    <3>1. \A i \in 1..done : i \in DOMAIN L /\ done + 1 \in DOMAIN L /\ i # done + 1
      BY <1>3, <1>6
    <3>2. \A i \in 1..done : L[i] # h
      BY <1>3, <1>7, <3>1 DEF IsInjective
    <3> QED
      BY <1>9, <3>2
  <2>2. confirmed' = Append(confirmed, h)
    BY <1>1, <1>11
  <2>3. IsInjective(confirmed') /\ Range(confirmed') = Range(confirmed) \cup {h}
    BY <1>1, <1>7, <2>1, <2>2, AppendOnce
  <2>4. \A id \in Range(confirmed') : \E i \in 1..(done + 1) : L[i] = id
    <3>1. \A id \in Range(confirmed) : \E i \in 1..(done + 1) : L[i] = id
      BY <1>9
    <3>2. \E i \in 1..(done + 1) : L[i] = h
      BY <1>7
    <3> QED
      BY <2>3, <3>1, <3>2
  <2>5. \A i \in 1..(done + 1) : L[i] \in owed => L[i] \in Range(confirmed')
    BY <1>7, <1>9, <1>10, <2>3
  <2>6. ASSUME listing = "owner"
        PROVE  Len(confirmed') = done + 1 /\ \A i \in 1..(done + 1) : confirmed'[i] = L[i]
    <3>1. confirmed \in Seq(Id) /\ h \in Id /\ Len(confirmed) = done
      BY <1>1, <1>7, <1>9, <2>6
    <3>2. Len(confirmed') = done + 1 /\ confirmed'[done + 1] = h
      BY <2>2, <3>1
    <3>3. \A i \in 1..done : confirmed'[i] = confirmed[i]
      BY <2>2, <3>1
    <3>4. \A i \in 1..done : confirmed'[i] = L[i]
      BY <1>9, <2>6, <3>3
    <3> QED
      BY <1>7, <1>10, <3>2, <3>4
  <2>7. ReadUpTo(r, L)'
    <3>1. UNCHANGED <<total, start, owed, listing, L>> /\ r - Len(found') = done + 1
      BY <1>1, <1>2, <1>7
    <3>2. \A i \in 1..Len(found') : found'[i] = L[done + 1 + i]
      BY <1>7
    <3> QED
      BY <1>8, <2>4, <2>5, <2>6, <3>1, <3>2 DEF ReadUpTo
  <2> QED
    BY <1>1, <1>2, <1>5, <1>7, <2>2, <2>3, <2>7 DEF ListingInv, L
<1>12. CASE ~Names(beats[h])[listing]
  <2>1. confirmed' = confirmed
    BY <1>1, <1>12
  <2>2. h \notin owed
    <3>1. h \notin Belonging(listing)
      BY <1>2, <1>12 DEF Belonging
    <3> QED
      BY <1>5, <3>1
  <2>3. listing # "owner"
    <3>1. CASE listing = "owner"
      <4>1. beats[h].owner = Reader
        BY <1>3, <1>6, <1>7, <3>1
      <4> QED
        BY <1>12, <3>1, <4>1 DEF Names
    <3> QED
      BY <3>1
  <2>4. /\ \A id \in Range(confirmed) : \E i \in 1..(done + 1) : L[i] = id
        /\ \A i \in 1..(done + 1) : L[i] \in owed => L[i] \in Range(confirmed)
    BY <1>7, <1>9, <1>10, <2>2
  <2>5. ReadUpTo(r, L)'
    BY <1>1, <1>2, <1>7, <1>8, <2>1, <2>3, <2>4 DEF ReadUpTo
  <2> QED
    BY <1>1, <1>2, <1>5, <1>7, <2>1, <2>5 DEF ListingInv, L
<1> QED
  BY <1>11, <1>12

------------------------------------------------------------------------------
\* A transaction between two reads: the list that is being read may grow.
LEMMA ChainListing ==
    ASSUME IInv, Grown, ListingInv, ChainNext
    PROVE  ListingInv'
<1>1. /\ ~Listed /\ Next /\ UNCHANGED <<listing, total, start, found, confirmed>>
      /\ owed' = IF listing = "none" THEN owed ELSE owed \cap Belonging(listing)'
  BY DEF ChainNext
<1>2. ~Listed'
  BY <1>1 DEF Listed
<1>3. CASE listing = "none"
  BY <1>1, <1>2, <1>3 DEF ListingInv
<1>4. CASE listing # "none"
  <2>1. PICK r \in Nat : ReadUpTo(r, Seen(listing))
    BY <1>4 DEF ListingInv
  <2>2. owed' \subseteq owed /\ owed' \subseteq Belonging(listing)'
    BY <1>1, <1>4
  <2>3. Extends(Seen(listing)', Seen(listing))
    BY <1>1, CommittedListsGrow, ReaderAssumption DEF CommittedGrows, Seen
  <2>4. Seen(listing) \in Seq(Id) /\ found \in Seq(Id) /\ total \in Nat
    BY ListTypes, ReaderAssumption DEF Seen, ListingInv
  <2>5. ReadUpTo(r, Seen(listing))'
    <3> DEFINE L == Seen(listing)
               M == Seen(listing)'
               done == r - Len(found)
    <3>1. /\ Len(L) \in Nat /\ Len(L) <= Len(M) /\ \A i \in 1..Len(L) : M[i] = L[i]
      BY <2>3, <2>4 DEF Extends
    <3> HIDE DEF L, M
    <3>2. /\ r <= Len(L) /\ total <= Len(L) /\ Len(found) <= r /\ Len(found) \in Nat
          /\ IF start < total THEN r = start ELSE r >= total
          /\ \A i \in 1..Len(found) : found[i] = L[done + i]
          /\ \A id \in Range(confirmed) : \E i \in 1..done : L[i] = id
          /\ \A i \in 1..done : L[i] \in owed => L[i] \in Range(confirmed)
          /\ \A id \in owed : \E i \in 1..total : L[i] = id
          /\ listing = "owner" => Len(confirmed) = done /\ \A i \in 1..done : confirmed[i] = L[i]
      BY <2>1, <2>4 DEF ReadUpTo, L
    <3>3. /\ done \in Nat /\ \A i \in 1..done : i \in 1..Len(L)
          /\ \A i \in 1..Len(found) : done + i \in 1..Len(L)
          /\ \A i \in 1..total : i \in 1..Len(L)
      BY <2>4, <3>1, <3>2
    <3> HIDE DEF done
    <3>4. r <= Len(M) /\ total <= Len(M)
      BY <3>1, <3>2, <2>4
    <3>5. /\ \A i \in 1..Len(found) : found[i] = M[done + i]
          /\ \A id \in Range(confirmed) : \E i \in 1..done : M[i] = id
          /\ \A i \in 1..done : M[i] \in owed' => M[i] \in Range(confirmed)
          /\ \A id \in owed' : \E i \in 1..total : M[i] = id
      BY <2>2, <3>1, <3>2, <3>3
    <3>6. listing = "owner" => Len(confirmed) = done /\ \A i \in 1..done : confirmed[i] = M[i]
      BY <3>1, <3>2, <3>3
    <3> QED
      BY <1>1, <3>2, <3>4, <3>5, <3>6 DEF ReadUpTo, M, done
  <2> QED
    BY <1>1, <1>2, <1>4, <2>2, <2>5 DEF ListingInv
<1> QED
  BY <1>3, <1>4

LEMMA NextListing ==
    ASSUME IInv, IndexIInv, Grown, ListingInv, [ReaderNext \/ ChainNext]_allVars
    PROVE  [Next]_vars /\ Grown' /\ ListingInv'
<1>1. [Next]_vars
  BY DEF ReaderNext, Count, ReadPage, Confirm, ChainNext, allVars
<1>2. Grown'
  BY <1>1, NextGrown
<1>3. ListingInv'
  <2>1. CASE ReaderNext
    BY <2>1, CountListing, PageListing, ConfirmListing DEF ReaderNext
  <2>2. CASE ChainNext
    BY <2>2, ChainListing
  <2>3. CASE UNCHANGED allVars
    <3>1. Committed' = Committed
      BY <2>3 DEF allVars, vars, storage, Committed, Storage, Idle
    <3>2. UNCHANGED <<Seen(listing), Belonging(listing), Listed, Idle>> /\ UNCHANGED reading
      BY <2>3, <3>1 DEF allVars, reading, vars, Listed, Idle, Belonging, Seen
    <3>3. \A r \in Nat : ReadUpTo(r, Seen(listing)) => ReadUpTo(r, Seen(listing))'
      BY <3>2 DEF ReadUpTo, reading
    <3> QED
      BY <3>2, <3>3 DEF ListingInv, reading
  <2> QED
    BY <2>1, <2>2, <2>3
<1> QED
  BY <1>1, <1>2, <1>3

THEOREM ListingInvariance == ReaderSpec => [](IInv /\ IndexIInv /\ ListingInv)
<1>1. ReaderSpec => [](IInv /\ IndexIInv /\ Grown /\ ListingInv)
  BY InitIInv, InitIndexed, InitListing, NextIInv, NextIndexed, NextListing, PTL
  DEF ReaderSpec
<1> QED
  BY <1>1, PTL

\* What getInboxBeatsPaged and getOwnerBeatsPaged, read a page at a time while
\* the chain moves, show of the beats that belonged there all along.
THEOREM ListingIsComplete == ReaderSpec => []PagedListComplete
<1>1. IInv /\ IndexIInv /\ ListingInv => PagedListComplete
  <2> SUFFICES ASSUME IInv, IndexIInv, ListingInv, Listed
               PROVE  /\ owed \subseteq Range(confirmed)
                      /\ listing = "owner" => IsPrefix(confirmed, ownerBeats[Reader])
    BY DEF PagedListComplete, ListingInv
  <2> DEFINE L == Seen(listing)
  <2>1. /\ listing \in {"inbox", "owner"} /\ Idle /\ found = << >> /\ start >= total
        /\ start \in Nat /\ total \in Nat /\ confirmed \in Seq(Id)
    BY DEF ListingInv, Listed
  <2>2. L \in Seq(Id) /\ L = List(listing)
    BY <2>1, SeenLists
  <2>3. PICK r \in Nat : ReadUpTo(r, L)
    BY <2>1 DEF ListingInv
  <2> HIDE DEF L
  <2>4. r - Len(found) = r /\ r >= total /\ r <= Len(L)
    BY <2>1, <2>3 DEF ReadUpTo
  <2>5. owed \subseteq Range(confirmed)
    <3>1. \A i \in 1..total : i \in 1..r
      BY <2>1, <2>4
    <3> QED
      BY <2>3, <2>4, <3>1 DEF ReadUpTo
  <2>6. ASSUME listing = "owner"
        PROVE  IsPrefix(confirmed, ownerBeats[Reader])
    <3>1. L = ownerBeats[Reader]
      BY <2>2, <2>6 DEF List
    <3>2. Len(confirmed) = r /\ \A i \in 1..r : confirmed[i] = L[i]
      BY <2>3, <2>4, <2>6 DEF ReadUpTo
    <3>3. SubSeq(confirmed, 1, r) = SubSeq(L, 1, r)
      BY <2>1, <2>2, <2>4, <3>2
    <3> QED
      BY <2>4, <3>1, <3>2, <3>3 DEF IsPrefix
  <2> QED
    BY <2>5, <2>6
<1> QED
  BY <1>1, ListingInvariance, PTL
==============================================================================
