------------------------- MODULE ExecutionRelayProofs -------------------------
(***************************************************************************)
(* What holds of the relay composed with the core and the rewards, for     *)
(* every set of accounts and salts and every value of the parameters.  The *)
(* lemmas of the two components are cited from instances of their proof    *)
(* modules over the shared variables: a step of the composition is a step  *)
(* of the one and changes the other only in the flags and the clock.  That *)
(* the core delivers once, and that a reverted creation unwinds no         *)
(* delivery, is what makes every reward the reward of one beat.            *)
(***************************************************************************)
EXTENDS ExecutionRelay, FunctionSums, FiniteSetTheorems, TLAPS

\* The listings of InboxReader have no part in the composition.
COREP == INSTANCE MaktubCoreProofs WITH
    Reader <- Relay, PageSize <- 1,
    listing <- "none", total <- 0, start <- 0,
    found <- << >>, confirmed <- << >>, owed <- {}
REWARDSP == INSTANCE ExecutorRewardsProofs WITH
    Account <- Address,
    Core <- {ThisCore},
    Grantees <- [ADMIN |-> {}, GOVERNANCE |-> {}, CORE |-> {Relay}],
    MaxNow <- MaxTime

Completion == [operator : Address \cup {NoAddress}, reward : Nat]

IInv ==
    /\ COREP!IInv /\ COREP!Pending
    /\ REWARDSP!IInv
    /\ completed \in [CORE!Id -> Completion]
    /\ OneRewardPerDelivery

------------------------------------------------------------------------------
(***************************************************************************)
(* The definitions of the instances that the specification and the proofs  *)
(* name are the same.                                                      *)
(***************************************************************************)
LEMMA Assumptions ==
    COREP!CoreAssumption /\ COREP!ReaderAssumption /\ REWARDSP!RewardsAssumption
<1>1. COREP!CoreAssumption
  BY RelayAssumption DEF CORE!CoreAssumption, COREP!CoreAssumption
<1>2. 1 \in Nat \ {0}
  OBVIOUS
<1>3. COREP!ReaderAssumption
  BY <1>2, RelayAssumption DEF COREP!ReaderAssumption
<1>4. REWARDSP!RewardsAssumption
  BY RelayAssumption
  DEF REWARDS!RewardsAssumption, REWARDSP!RewardsAssumption, REWARDS!Holder, REWARDSP!Holder,
      REWARDS!Role, REWARDSP!Role, REWARDS!IsFiniteSet, REWARDSP!IsFiniteSet
<1> QED
  BY <1>1, <1>3, <1>4

LEMMA SameCore ==
    /\ CORE!Id = COREP!Id
    /\ CORE!Idle <=> COREP!Idle
    /\ CORE!Idle' <=> COREP!Idle'
    /\ \A id : CORE!Expiry(id) = COREP!Expiry(id)
BY DEF CORE!Id, COREP!Id, CORE!Idle, COREP!Idle, CORE!Expiry, COREP!Expiry

LEMMA SameExecute ==
    ASSUME NEW a, NEW id
    PROVE  CORE!Execute(a, id) <=> COREP!Execute(a, id)
BY DEF CORE!Execute, COREP!Execute, CORE!Unlocked, COREP!Unlocked, CORE!Idle, COREP!Idle,
       CORE!HeartbeatExists, COREP!HeartbeatExists, CORE!IsActive, COREP!IsActive,
       CORE!Expiry, COREP!Expiry, CORE!environment, COREP!environment,
       CORE!indexes, COREP!indexes, CORE!ether, COREP!ether

LEMMA SameCallReturns == CORE!CallReturns <=> COREP!CallReturns
BY DEF CORE!CallReturns, COREP!CallReturns, CORE!FeeAccepted, COREP!FeeAccepted,
       CORE!RefundExcess, COREP!RefundExcess, CORE!RefundAccepted, COREP!RefundAccepted,
       CORE!CallFails, COREP!CallFails, CORE!Restore, COREP!Restore,
       CORE!environment, COREP!environment, CORE!storage, COREP!storage,
       CORE!indexes, COREP!indexes, CORE!NoFrame, COREP!NoFrame

LEMMA SameOwnerStep == CORE!OwnerStep <=> COREP!OwnerStep
BY DEF CORE!OwnerStep, COREP!OwnerStep, CORE!Id, COREP!Id,
       CORE!CheckIn, COREP!CheckIn, CORE!UpdateRecipients, COREP!UpdateRecipients,
       CORE!UpdateInterval, COREP!UpdateInterval, CORE!Deactivate, COREP!Deactivate,
       CORE!RecipientLists, COREP!RecipientLists, CORE!environment, COREP!environment,
       CORE!indexes, COREP!indexes, CORE!ether, COREP!ether,
       CORE!OwnerTurn, COREP!OwnerTurn, CORE!HeartbeatExists, COREP!HeartbeatExists,
       CORE!OnlyOwnerOf, COREP!OnlyOwnerOf, CORE!IsActive, COREP!IsActive,
       CORE!Unlocked, COREP!Unlocked, CORE!Idle, COREP!Idle,
       CORE!ValidateRecipients, COREP!ValidateRecipients,
       CORE!IndexRecipients, COREP!IndexRecipients,
       CORE!ValidInterval, COREP!ValidInterval, CORE!Range, COREP!Range

LEMMA SameCreate == CORE!Create <=> COREP!Create
BY DEF CORE!Create, COREP!Create, CORE!CreateHeartbeat, COREP!CreateHeartbeat,
       CORE!RecipientLists, COREP!RecipientLists, CORE!environment, COREP!environment,
       CORE!Unlocked, COREP!Unlocked, CORE!Idle, COREP!Idle,
       CORE!HeartbeatExists, COREP!HeartbeatExists, CORE!Storage, COREP!Storage,
       CORE!ValidateRecipients, COREP!ValidateRecipients,
       CORE!IndexRecipients, COREP!IndexRecipients, CORE!NewBeat, COREP!NewBeat,
       CORE!ValidInterval, COREP!ValidInterval, CORE!ValidPayload, COREP!ValidPayload,
       CORE!creationFeeFor, COREP!creationFeeFor, CORE!Range, COREP!Range

\* Registering and the clock.
LEMMA SameEnvironment ==
    /\ \A a : CORE!Register(a) <=> COREP!Register(a)
    /\ CORE!Tick <=> COREP!Tick
BY DEF CORE!Register, COREP!Register, CORE!Tick, COREP!Tick, CORE!Idle, COREP!Idle,
       CORE!storage, COREP!storage

LEMMA SameCoreInit == CORE!Init <=> COREP!Init
BY DEF CORE!Init, COREP!Init, CORE!Id, COREP!Id, CORE!NoBeat, COREP!NoBeat,
       CORE!NoFrame, COREP!NoFrame

LEMMA SameStaking ==
    ASSUME NEW a, NEW g, NEW amount
    PROVE  /\ REWARDS!Stake(a, amount) <=> REWARDSP!Stake(a, amount)
           /\ REWARDS!Unstake(a, amount) <=> REWARDSP!Unstake(a, amount)
           /\ REWARDS!Slash(g, a, amount) <=> REWARDSP!Slash(g, a, amount)
BY DEF REWARDS!Stake, REWARDSP!Stake, REWARDS!Unstake, REWARDSP!Unstake,
       REWARDS!Slash, REWARDSP!Slash, REWARDS!HasRole, REWARDSP!HasRole,
       REWARDS!Transferred, REWARDSP!Transferred, REWARDS!Holder, REWARDSP!Holder,
       REWARDS!rewarding, REWARDSP!rewarding, REWARDS!parameters, REWARDSP!parameters

LEMMA SameParameters ==
    ASSUME NEW g, NEW x
    PROVE  /\ REWARDS!SetMinimumStake(g, x) <=> REWARDSP!SetMinimumStake(g, x)
           /\ REWARDS!SetRewardPerExecution(g, x) <=> REWARDSP!SetRewardPerExecution(g, x)
           /\ REWARDS!SetPaused(g, x) <=> REWARDSP!SetPaused(g, x)
           /\ REWARDS!SetMaktubCore(g, x) <=> REWARDSP!SetMaktubCore(g, x)
BY DEF REWARDS!SetMinimumStake, REWARDSP!SetMinimumStake,
       REWARDS!SetRewardPerExecution, REWARDSP!SetRewardPerExecution,
       REWARDS!maxRewardPerExecution, REWARDSP!maxRewardPerExecution,
       REWARDS!SetPaused, REWARDSP!SetPaused, REWARDS!SetMaktubCore, REWARDSP!SetMaktubCore,
       REWARDS!HasRole, REWARDSP!HasRole, REWARDS!staking, REWARDSP!staking,
       REWARDS!rewarding, REWARDSP!rewarding

LEMMA SameGovernanceStep == REWARDS!GovernanceStep <=> REWARDSP!GovernanceStep
BY SameStaking, SameParameters DEF REWARDS!GovernanceStep, REWARDSP!GovernanceStep

LEMMA SameAdminStep == REWARDS!AdminStep <=> REWARDSP!AdminStep
BY DEF REWARDS!AdminStep, REWARDSP!AdminStep, REWARDS!GrantRole, REWARDSP!GrantRole,
       REWARDS!RevokeRole, REWARDSP!RevokeRole, REWARDS!RenounceRole, REWARDSP!RenounceRole,
       REWARDS!RenounceAdmin, REWARDSP!RenounceAdmin, REWARDS!Role, REWARDSP!Role,
       REWARDS!HasRole, REWARDSP!HasRole, REWARDS!staking, REWARDSP!staking,
       REWARDS!rewarding, REWARDSP!rewarding, REWARDS!parameters, REWARDSP!parameters

LEMMA SameReward ==
    ASSUME NEW c, NEW a, NEW hb
    PROVE  /\ REWARDS!CappedReward = REWARDSP!CappedReward
           /\ REWARDS!MayDistribute(c, a, hb) <=> REWARDSP!MayDistribute(c, a, hb)
           /\ REWARDS!PayReward(a) <=> REWARDSP!PayReward(a)
BY DEF REWARDS!CappedReward, REWARDSP!CappedReward, REWARDS!Smaller, REWARDSP!Smaller,
       REWARDS!currentRewardAmount, REWARDSP!currentRewardAmount,
       REWARDS!emissionStart, REWARDSP!emissionStart,
       REWARDS!MayDistribute, REWARDSP!MayDistribute, REWARDS!PayReward, REWARDSP!PayReward,
       REWARDS!HasRole, REWARDSP!HasRole, REWARDS!Transferred, REWARDSP!Transferred,
       REWARDS!Holder, REWARDSP!Holder

LEMMA SameRewardsInit == REWARDS!Init <=> REWARDSP!Init
BY DEF REWARDS!Init, REWARDSP!Init, REWARDS!emissionStart, REWARDSP!emissionStart,
       REWARDS!Role, REWARDSP!Role

------------------------------------------------------------------------------
LEMMA FiniteIds == IsFiniteSet(CORE!Id)
<1>1. IsFiniteSet(Address) /\ IsFiniteSet(Salt) /\ Creator \subseteq Address
  BY RelayAssumption
  DEF CORE!CoreAssumption, REWARDS!RewardsAssumption, REWARDS!IsFiniteSet, IsFiniteSet
<1>2. IsFiniteSet(Creator)
  BY <1>1, FS_Subset
<1> QED
  BY <1>1, <1>2, FS_Product DEF CORE!Id

\* No account is the zero address.
LEMMA Accounts ==
    /\ Relay \in Address /\ NoAddress \notin Address /\ Staker \subseteq Address
    /\ Amounts \subseteq Nat
BY RelayAssumption DEF CORE!CoreAssumption, REWARDS!RewardsAssumption

\* The sum of the rewards when no beat gains or loses one.
LEMMA SameCompletion ==
    ASSUME OneRewardPerDelivery, UNCHANGED <<completed, totalDistributed>>,
           \A id \in CORE!Id : executedBy'[id] = Relay <=> executedBy[id] = Relay
    PROVE  OneRewardPerDelivery'
BY DEF OneRewardPerDelivery, CORE!Id, NotCompleted

LEMMA InitIInv == Init => IInv
<1> SUFFICES ASSUME Init PROVE IInv
  OBVIOUS
<1>1. COREP!IInv /\ COREP!Pending
  BY Assumptions, SameCoreInit, COREP!InitIInv, COREP!InitPending DEF Init
<1>2. REWARDSP!IInv
  BY Assumptions, SameRewardsInit, REWARDSP!InitIInv DEF Init
<1>3. completed \in [CORE!Id -> Completion]
  BY DEF Init, Completion, NotCompleted
<1>4. totalDistributed = 0 /\ executedBy = [id \in CORE!Id |-> NoAddress]
  BY DEF Init, CORE!Init, REWARDS!Init
<1>5. [id \in CORE!Id |-> completed[id].reward] = [id \in CORE!Id |-> 0]
  BY DEF Init, NotCompleted
<1>6. SumFunction([id \in CORE!Id |-> 0]) = 0
  BY FiniteIds, SumOfZeros
<1>7. \A id \in CORE!Id : completed[id] = NotCompleted /\ executedBy[id] # Relay
  BY <1>4, Accounts DEF Init
<1>8. OneRewardPerDelivery
  BY <1>4, <1>5, <1>6, <1>7 DEF OneRewardPerDelivery
<1> QED
  BY <1>1, <1>2, <1>3, <1>8 DEF IInv

------------------------------------------------------------------------------
\* A transaction of the rewards contract or of the relay's staking leaves the
\* core as it is, up to the flags.
LEMMA CoreKept ==
    ASSUME COREP!IInv, CORE!Idle, UNCHANGED <<now, coreVars>>,
           isActiveExecutor' \in [Address -> BOOLEAN]
    PROVE  COREP!IInv' /\ COREP!Pending'
<1>1. UNCHANGED <<now, registered, COREP!storage, frame>>
  BY DEF coreVars, COREP!storage
<1>2. COREP!IInv'
  BY <1>1, Assumptions, COREP!FlagsIInv
<1>3. COREP!Pending'
  BY <1>1, SameCore DEF COREP!Pending, COREP!Idle
<1> QED
  BY <1>2, <1>3

\* A transaction of the core, and the clock, leave the rewards as they are.
LEMMA RewardsKept ==
    ASSUME REWARDSP!IInv, now' \in Nat, UNCHANGED <<isActiveExecutor, rewardsVars>>
    PROVE  REWARDSP!IInv'
BY DEF REWARDSP!IInv, REWARDSP!TypeOK, REWARDSP!StakeBacked, rewardsVars

\* A step of the core or of the clock is a step of the core alone.
LEMMA CoreNext ==
    ASSUME CoreStep \/ Tick
    PROVE  COREP!Next /\ UNCHANGED <<isActiveExecutor, rewardsVars, relayVars>>
<1>1. UNCHANGED <<rewardsVars, relayVars>>
  BY DEF CoreStep, Tick
<1>2. CASE CORE!Create
  <2>1. UNCHANGED isActiveExecutor
    BY <1>2 DEF CORE!Create, CORE!CreateHeartbeat, CORE!environment
  <2> QED
    BY <1>1, <1>2, <2>1, SameCreate DEF COREP!Next
<1>3. CASE CORE!OwnerStep
  <2>1. UNCHANGED isActiveExecutor
    BY <1>3 DEF CORE!OwnerStep, CORE!CheckIn, CORE!UpdateRecipients, CORE!UpdateInterval,
                CORE!Deactivate, CORE!environment
  <2> QED
    BY <1>1, <1>3, <2>1, SameOwnerStep DEF COREP!Next
<1>4. CASE CORE!CallReturns
  <2>1. UNCHANGED isActiveExecutor
    BY <1>4 DEF CORE!CallReturns, CORE!FeeAccepted, CORE!RefundExcess,
                CORE!RefundAccepted, CORE!CallFails, CORE!environment
  <2> QED
    BY <1>1, <1>4, <2>1, SameCallReturns DEF COREP!Next
<1>5. CASE \E a \in Address \ {Relay}, id \in CORE!Id : CORE!Execute(a, id)
  <2>1. PICK a \in Address, id \in CORE!Id : CORE!Execute(a, id)
    BY <1>5
  <2>2. UNCHANGED isActiveExecutor
    BY <2>1 DEF CORE!Execute, CORE!environment
  <2>3. COREP!Execute(a, id) /\ id \in COREP!Id
    BY <2>1, SameExecute, SameCore
  <2> QED
    BY <1>1, <2>2, <2>3 DEF COREP!Next
<1>6. CASE (\E a \in Registrant : CORE!Register(a)) \/ Tick
  <2>1. UNCHANGED isActiveExecutor
    BY <1>6 DEF CORE!Register, Tick, CORE!Tick
  <2> QED
    BY <1>1, <1>6, <2>1, SameEnvironment DEF COREP!Next, Tick
<1> QED
  BY <1>2, <1>3, <1>4, <1>5, <1>6 DEF CoreStep

\* What such a step does to the executors and to the beats that are delivered:
\* the relay delivers none, and a reverted creation unwinds none.
LEMMA CoreDelivers ==
    ASSUME COREP!IInv, COREP!Pending, CoreStep \/ Tick, NEW id \in CORE!Id
    PROVE  \/ /\ executedBy'[id] = executedBy[id]
              /\ beats'[id].executed => beats[id].executed
           \/ /\ ~beats[id].executed
              /\ executedBy[id] = NoAddress
              /\ \E a \in Address \ {Relay} :
                    /\ executedBy'[id] = a
                    /\ isActiveExecutor[a] \/ now > CORE!Expiry(id) + EXECUTION_GRACE
<1>1. /\ beats \in [CORE!Id -> COREP!Beat]
      /\ executedBy \in [CORE!Id -> Address \cup {NoAddress}]
  <2>1. COREP!StorageTypes
    BY Assumptions, COREP!StorageByField DEF COREP!IInv, COREP!TypeOK
  <2> QED
    BY <2>1, SameCore DEF COREP!StorageTypes
<1>2. CASE CORE!Create
  <2>1. PICK a \in Creator, salt \in Salt, list \in CORE!RecipientLists,
             payload \in 0..(MAX_PAYLOAD_BYTES + 1), interval \in 0..(MAX_INTERVAL + 1),
             value \in 0..MaxValue :
                CORE!CreateHeartbeat(a, salt, list, payload, interval, value)
    BY <1>2 DEF CORE!Create
  <2>2. /\ executedBy' = executedBy
        /\ beats' = [beats EXCEPT ![<<a, salt>>] =
              CORE!NewBeat(a, CORE!Range(list), payload, interval)]
    BY <2>1 DEF CORE!CreateHeartbeat
  <2>3. ~CORE!NewBeat(a, CORE!Range(list), payload, interval).executed
    BY DEF CORE!NewBeat
  <2> HIDE DEF CORE!NewBeat
  <2> QED
    BY <1>1, <2>2, <2>3
<1>3. CASE CORE!OwnerStep
  <2>1. PICK a \in Address, o \in COREP!Id :
           \/ COREP!CheckIn(a, o)
           \/ \E list \in COREP!RecipientLists : COREP!UpdateRecipients(a, o, list)
           \/ \E interval \in 0..(MAX_INTERVAL + 1) : COREP!UpdateInterval(a, o, interval)
           \/ COREP!Deactivate(a, o)
    BY <1>3, SameOwnerStep DEF COREP!OwnerStep
  <2>2. /\ UNCHANGED <<COREP!environment, executedBy, frame>>
        /\ COREP!Kept(beats[o], beats'[o])
        /\ \A p \in COREP!Id : p # o => beats'[p] = beats[p]
    BY <2>1, Assumptions, COREP!OwnerStepKeeps
  <2> QED
    BY <2>2, SameCore DEF COREP!Kept
<1>4. CASE CORE!CallReturns
  <2>1. ~CORE!Idle
    BY <1>4 DEF CORE!CallReturns, CORE!FeeAccepted, CORE!RefundExcess,
                CORE!RefundAccepted, CORE!CallFails, CORE!Idle
  <2>2. CASE ~CORE!CallFails
    BY <1>4, <2>2 DEF CORE!CallReturns, CORE!FeeAccepted, CORE!RefundExcess,
                      CORE!RefundAccepted, CORE!storage
  <2>3. CASE CORE!CallFails
    <3>1. /\ executedBy' = frame.saved.executedBy /\ beats' = frame.saved.beats
      BY <2>3 DEF CORE!CallFails, CORE!Restore
    <3>2. /\ executedBy = frame.saved.executedBy
          /\ \/ COREP!Created(frame.saved.beats[id], beats[id], now)
             \/ COREP!Kept(frame.saved.beats[id], beats[id])
             \/ beats[id] = frame.saved.beats[id]
      BY <2>1, SameCore DEF COREP!Pending
    <3>3. COREP!Delivered(frame.saved.beats, frame.saved.executedBy)
      BY <2>1, SameCore DEF COREP!IInv, COREP!Settled
    <3>4. frame.saved.beats[id].executed => frame.saved.beats[id].owner # NoAddress
      BY <3>3, SameCore DEF COREP!Delivered
    <3> QED
      BY <3>1, <3>2, <3>4 DEF COREP!Created, COREP!Kept
  <2> QED
    BY <2>2, <2>3
<1>5. CASE \E a \in Address \ {Relay}, o \in CORE!Id : CORE!Execute(a, o)
  <2>1. PICK a \in Address \ {Relay}, o \in CORE!Id : CORE!Execute(a, o)
    BY <1>5
  <2>2. /\ ~beats[o].executed
        /\ isActiveExecutor[a] \/ now > CORE!Expiry(o) + EXECUTION_GRACE
        /\ beats' = [beats EXCEPT ![o].executed = TRUE]
        /\ executedBy' = [executedBy EXCEPT ![o] = a]
    BY <2>1 DEF CORE!Execute, CORE!IsActive
  <2>3. executedBy[o] = NoAddress
    BY <2>2, SameCore DEF COREP!IInv, COREP!Delivered
  <2> QED
    BY <1>1, <2>2, <2>3
<1>6. CASE (\E a \in Registrant : CORE!Register(a)) \/ Tick
  BY <1>6 DEF CORE!Register, Tick, CORE!Tick, CORE!storage
<1> QED
  BY <1>2, <1>3, <1>4, <1>5, <1>6 DEF CoreStep

\* A step of the core or of the clock keeps the invariant.
LEMMA CoreStepIInv ==
    ASSUME IInv, CoreStep \/ Tick
    PROVE  IInv'
<1>1. COREP!Next /\ UNCHANGED <<isActiveExecutor, rewardsVars, relayVars>>
  BY CoreNext
<1>2. COREP!IInv' /\ COREP!Pending'
  <2>1. [COREP!Next]_(COREP!vars)
    BY <1>1
  <2> QED
    BY <2>1, Assumptions, COREP!NextIInv, COREP!NextPending DEF IInv
<1>3. REWARDSP!IInv'
  <2>1. now' \in Nat
    BY <1>2 DEF COREP!IInv, COREP!TypeOK
  <2> QED
    BY <1>1, <2>1, RewardsKept DEF IInv
<1>4. \A id \in CORE!Id : executedBy'[id] = Relay <=> executedBy[id] = Relay
  <2> TAKE id \in CORE!Id
  <2> QED
    BY CoreDelivers, Accounts DEF IInv
<1>5. OneRewardPerDelivery'
  BY <1>1, <1>4, SameCompletion DEF IInv, rewardsVars, relayVars
<1>6. completed' \in [CORE!Id -> Completion]'
  BY <1>1 DEF IInv, relayVars, CORE!Id
<1> QED
  BY <1>2, <1>3, <1>5, <1>6 DEF IInv

\* No call but distributeReward pays a reward.
LEMMA StakingPaysNothing ==
    ASSUME \/ \E a \in Address, amount \in Amounts :
                 REWARDS!Stake(a, amount) \/ REWARDS!Unstake(a, amount)
           \/ REWARDS!GovernanceStep
           \/ REWARDS!AdminStep
    PROVE  UNCHANGED <<now, totalDistributed, rewardsEarned>>
<1>1. CASE \E a \in Address, amount \in Amounts :
              REWARDS!Stake(a, amount) \/ REWARDS!Unstake(a, amount)
  BY <1>1 DEF REWARDS!Stake, REWARDS!Unstake, REWARDS!rewarding
<1>2. CASE REWARDS!GovernanceStep
  BY <1>2 DEF REWARDS!GovernanceStep, REWARDS!Slash, REWARDS!SetMinimumStake,
              REWARDS!SetRewardPerExecution, REWARDS!SetPaused, REWARDS!SetMaktubCore,
              REWARDS!rewarding
<1>3. CASE REWARDS!AdminStep
  BY <1>3 DEF REWARDS!AdminStep, REWARDS!GrantRole, REWARDS!RevokeRole,
              REWARDS!RenounceRole, REWARDS!RenounceAdmin, REWARDS!rewarding
<1> QED
  BY <1>1, <1>2, <1>3

\* Staking, unstaking, governance and administration, and the relay's stake.
LEMMA StakingIInv ==
    ASSUME IInv, CORE!Idle, UNCHANGED <<coreVars, completed>>,
           \/ \E a \in Address, amount \in Amounts :
                 REWARDS!Stake(a, amount) \/ REWARDS!Unstake(a, amount)
           \/ REWARDS!GovernanceStep
           \/ REWARDS!AdminStep
    PROVE  IInv'
<1>1. \/ \E a \in Address, amount \in Amounts :
            REWARDSP!Stake(a, amount) \/ REWARDSP!Unstake(a, amount)
      \/ REWARDSP!GovernanceStep \/ REWARDSP!AdminStep
  BY SameStaking, SameGovernanceStep, SameAdminStep
<1>2. REWARDSP!Next
  BY <1>1 DEF REWARDSP!Next, REWARDSP!StakerStep
<1>3. REWARDSP!IInv'
  BY <1>2, Assumptions, REWARDSP!NextIInv DEF IInv
<1>4. isActiveExecutor' \in [Address -> BOOLEAN]
  BY <1>3 DEF REWARDSP!IInv, REWARDSP!TypeOK
<1>5. UNCHANGED <<now, totalDistributed, rewardsEarned>>
  BY StakingPaysNothing
<1>6. COREP!IInv' /\ COREP!Pending'
  BY <1>4, <1>5, CoreKept DEF IInv
<1>7. OneRewardPerDelivery'
  BY <1>5, SameCompletion DEF IInv, coreVars
<1>8. completed' \in [CORE!Id -> Completion]'
  BY DEF IInv, CORE!Id
<1> QED
  BY <1>3, <1>6, <1>7, <1>8 DEF IInv

------------------------------------------------------------------------------
\* What executeAndReward does to the beat, and what it records of it.
LEMMA ExecutionFacts ==
    ASSUME IInv, NEW op \in Staker, NEW id \in CORE!Id, ExecuteAndReward(op, id)
    PROVE  /\ op \in Address /\ op # Relay /\ isActiveExecutor[op]
           /\ COREP!Execute(Relay, id) /\ CORE!Idle
           /\ UNCHANGED <<now, isActiveExecutor, stakes, totalStaked, minimumStake,
                          rewardPerExecution, paused, maktubCore, roles>>
           /\ ~beats[id].executed /\ executedBy[id] = NoAddress
           /\ completed[id] = NotCompleted
           /\ beats' = [beats EXCEPT ![id].executed = TRUE]
           /\ executedBy' = [executedBy EXCEPT ![id] = Relay]
           /\ beats \in [CORE!Id -> COREP!Beat]
           /\ executedBy \in [CORE!Id -> Address \cup {NoAddress}]
<1>1. /\ op \in Address /\ op # Relay /\ isActiveExecutor[op]
      /\ CORE!Execute(Relay, id)
      /\ UNCHANGED <<stakes, totalStaked, minimumStake, rewardPerExecution, paused,
                     maktubCore, roles>>
  BY Accounts DEF ExecuteAndReward
<1>2. /\ CORE!Idle /\ ~beats[id].executed
      /\ UNCHANGED <<now, isActiveExecutor>>
      /\ beats' = [beats EXCEPT ![id].executed = TRUE]
      /\ executedBy' = [executedBy EXCEPT ![id] = Relay]
  BY <1>1 DEF CORE!Execute, CORE!Unlocked, CORE!IsActive, CORE!environment
<1>3. executedBy[id] = NoAddress
  BY <1>2, SameCore DEF IInv, COREP!IInv, COREP!Delivered
<1>4. completed[id] = NotCompleted
  BY <1>3, Accounts DEF IInv, OneRewardPerDelivery
<1>5. COREP!Execute(Relay, id)
  BY <1>1, SameExecute
<1>6. COREP!StorageTypes
  BY Assumptions, COREP!StorageByField DEF IInv, COREP!IInv, COREP!TypeOK
<1>7. /\ beats \in [CORE!Id -> COREP!Beat]
      /\ executedBy \in [CORE!Id -> Address \cup {NoAddress}]
  BY <1>6, SameCore DEF COREP!StorageTypes
<1> QED
  BY <1>1, <1>2, <1>3, <1>4, <1>5, <1>7

\* The reward of an execution: what distributeReward pays, or nothing.
LEMMA RewardFacts ==
    ASSUME IInv, NEW op \in Staker, NEW id \in CORE!Id, ExecuteAndReward(op, id)
    PROVE  \E reward \in Nat :
              /\ completed' = [completed EXCEPT ![id] = [operator |-> op, reward |-> reward]]
              /\ totalDistributed' = totalDistributed + reward
              /\ REWARDSP!IInv'
<1>1. op \in Address /\ REWARDSP!IInv /\ Relay \in Address
      /\ UNCHANGED <<now, isActiveExecutor, stakes, totalStaked, minimumStake,
                     rewardPerExecution, paused, maktubCore, roles>>
  BY ExecutionFacts, Accounts DEF IInv
<1>2. PICK hb : hb = HeartbeatAfter(id)
  OBVIOUS
<1>3. CASE REWARDS!MayDistribute(Relay, op, HeartbeatAfter(id))
  <2>1. /\ REWARDSP!MayDistribute(Relay, op, hb) /\ REWARDSP!PayReward(op)
        /\ completed' = [completed EXCEPT ![id] =
              [operator |-> op, reward |-> REWARDSP!CappedReward]]
    BY <1>2, <1>3, SameReward DEF ExecuteAndReward
  <2>2. REWARDSP!DistributeReward(Relay, op, hb)
    BY <1>1, <2>1 DEF REWARDSP!DistributeReward, REWARDSP!staking, REWARDSP!parameters
  <2>3. REWARDSP!IInv'
    BY <1>1, <2>2, Assumptions, REWARDSP!DistributeIInv
  <2>4. REWARDSP!CappedReward \in Nat
    BY <1>1, <2>1, Assumptions, REWARDSP!RewardFits DEF REWARDSP!IInv, REWARDSP!MayDistribute
  <2> QED
    BY <2>1, <2>3, <2>4 DEF REWARDSP!PayReward
<1>4. CASE ~REWARDS!MayDistribute(Relay, op, HeartbeatAfter(id))
  <2>1. /\ completed' = [completed EXCEPT ![id] = [operator |-> op, reward |-> 0]]
        /\ UNCHANGED <<mktb, totalDistributed, rewardsEarned>>
    BY <1>4 DEF ExecuteAndReward
  <2>2. totalDistributed \in Nat /\ now \in Nat
    BY <1>1 DEF REWARDSP!IInv, REWARDSP!TypeOK
  <2>3. REWARDSP!IInv'
    BY <1>1, <2>1, <2>2, RewardsKept DEF rewardsVars
  <2>4. totalDistributed' = totalDistributed + 0
    BY <2>1, <2>2
  <2> QED
    BY <2>1, <2>3, <2>4
<1> QED
  BY <1>3, <1>4

LEMMA ExecuteAndRewardIInv ==
    ASSUME IInv, NEW op \in Staker, NEW id \in CORE!Id, ExecuteAndReward(op, id)
    PROVE  IInv'
<1>1. PICK reward \in Nat :
        /\ completed' = [completed EXCEPT ![id] = [operator |-> op, reward |-> reward]]
        /\ totalDistributed' = totalDistributed + reward
        /\ REWARDSP!IInv'
  BY RewardFacts
<1>2. COREP!IInv' /\ COREP!Pending'
  <2>1. COREP!Execute(Relay, id) /\ id \in COREP!Id
    BY ExecutionFacts, SameCore
  <2>2. [COREP!Next]_(COREP!vars)
    BY <2>1, Accounts DEF COREP!Next
  <2> QED
    BY <2>2, Assumptions, COREP!NextIInv, COREP!NextPending DEF IInv
<1>3. completed' \in [CORE!Id -> Completion]
  BY <1>1, ExecutionFacts DEF IInv, Completion
<1>4. totalDistributed' = SumFunction([o \in CORE!Id |-> completed'[o].reward])
  <2> DEFINE old == [o \in CORE!Id |-> completed[o].reward]
             new == [o \in CORE!Id |-> completed'[o].reward]
  <2>1. old \in [CORE!Id -> Int] /\ reward \in Int
    BY DEF IInv, Completion
  <2>2. old[id] = 0
    BY ExecutionFacts DEF NotCompleted
  <2>3. new = [old EXCEPT ![id] = @ + reward]
    <3>1. completed'[id].reward = reward /\ old[id] + reward = reward
      BY <1>1, <2>2 DEF IInv
    <3>2. \A o \in CORE!Id : o # id => completed'[o].reward = completed[o].reward
      BY <1>1 DEF IInv
    <3> QED
      BY <3>1, <3>2
  <2>4. SumFunction(old) = totalDistributed
    BY DEF IInv, OneRewardPerDelivery
  <2> HIDE DEF old
  <2> QED
    BY <1>1, <2>1, <2>3, <2>4, FiniteIds, SumOfChange
<1>5. \A o \in CORE!Id : completed'[o] # NotCompleted <=> executedBy'[o] = Relay
  <2> TAKE o \in CORE!Id
  <2>1. CASE o = id
    BY <1>1, <2>1, ExecutionFacts, Accounts DEF IInv, NotCompleted
  <2>2. CASE o # id
    BY <1>1, <2>2, ExecutionFacts DEF IInv, OneRewardPerDelivery
  <2> QED
    BY <2>1, <2>2
<1>6. OneRewardPerDelivery'
  BY <1>4, <1>5 DEF OneRewardPerDelivery, CORE!Id, NotCompleted
<1>7. (completed \in [CORE!Id -> Completion])'
  BY <1>3 DEF CORE!Id, Completion
<1> QED
  BY <1>1, <1>2, <1>6, <1>7 DEF IInv

------------------------------------------------------------------------------
LEMMA NextIInv ==
    ASSUME IInv, [Next]_vars
    PROVE  IInv'
<1>1. CASE CoreStep \/ Tick
  BY <1>1, CoreStepIInv
<1>2. CASE RewardsStep
  <2>1. CORE!Idle /\ UNCHANGED <<coreVars, completed>>
    BY <1>2 DEF RewardsStep, relayVars
  <2>2. CASE \E a \in Staker, amount \in Amounts :
                REWARDS!Stake(a, amount) \/ REWARDS!Unstake(a, amount)
    BY <2>1, <2>2, Accounts, StakingIInv
  <2>3. CASE REWARDS!GovernanceStep \/ REWARDS!AdminStep
    BY <2>1, <2>3, StakingIInv
  <2> QED
    BY <1>2, <2>2, <2>3 DEF RewardsStep
<1>3. CASE \E a \in Address, amount \in Amounts : InitialStake(a, amount)
  <2>1. PICK amount \in Amounts : REWARDS!Stake(Relay, amount) /\ CORE!Idle
                                  /\ UNCHANGED <<coreVars, completed>>
    BY <1>3 DEF InitialStake
  <2> QED
    BY <2>1, Accounts, StakingIInv
<1>4. CASE \E op \in Staker, id \in CORE!Id : ExecuteAndReward(op, id)
  BY <1>4, ExecuteAndRewardIInv
<1>5. CASE UNCHANGED vars
  <2>1. /\ CORE!Id' = CORE!Id /\ UNCHANGED <<now, isActiveExecutor, coreVars>>
        /\ UNCHANGED <<rewardsVars, relayVars>>
    BY <1>5 DEF vars, CORE!Id
  <2>2. COREP!IInv' /\ COREP!Pending'
    <3>1. [COREP!Next]_(COREP!vars)
      BY <2>1 DEF COREP!vars, COREP!environment, COREP!storage, coreVars
    <3> QED
      BY <3>1, Assumptions, COREP!NextIInv, COREP!NextPending DEF IInv
  <2>3. REWARDSP!IInv'
    <3>1. now' \in Nat
      BY <2>2 DEF COREP!IInv, COREP!TypeOK
    <3> QED
      BY <2>1, <3>1, RewardsKept DEF IInv
  <2>4. OneRewardPerDelivery'
    BY <2>1, SameCompletion DEF IInv, coreVars, relayVars, rewardsVars
  <2> QED
    BY <2>1, <2>2, <2>3, <2>4 DEF IInv, relayVars
<1> QED
  BY <1>1, <1>2, <1>3, <1>4, <1>5 DEF Next, RelayStep

\* The inductive invariant of the composition: both components keep theirs,
\* and the ledger of completions agrees with both.
THEOREM Invariance == Spec => []IInv
<1> QED
  BY InitIInv, NextIInv, PTL DEF Spec

\* The rewards paid are one amount for each beat that the relay delivered.
THEOREM RewardsAreOneEach == Spec => []OneRewardPerDelivery
<1>1. IInv => OneRewardPerDelivery
  BY DEF IInv
<1> QED
  BY <1>1, Invariance, PTL

\* Composed with the others each component keeps what it was proved to keep
\* alone: no step of the relay reaches a state the core or the rewards exclude.
THEOREM ComponentsKeepTheirs ==
    Spec => [](CORE!DeliveredOverdue /\ REWARDS!StakeBacked)
<1>1. IInv => CORE!DeliveredOverdue
  BY SameCore
  DEF IInv, COREP!IInv, COREP!Delivered, CORE!DeliveredOverdue, CORE!HeartbeatExists, CORE!Expiry
<1>2. IInv => REWARDS!StakeBacked
  BY DEF IInv, REWARDSP!IInv, REWARDSP!StakeBacked, REWARDS!StakeBacked
<1> QED
  BY <1>1, <1>2, Invariance, PTL

------------------------------------------------------------------------------
\* Nothing but executeAndReward credits a reward.
LEMMA OthersCreditNothing ==
    ASSUME CoreStep \/ RewardsStep \/ Tick
           \/ (\E a \in Address, amount \in Amounts : InitialStake(a, amount))
    PROVE  rewardsEarned' = rewardsEarned
<1>1. CASE CoreStep \/ Tick
  BY <1>1 DEF CoreStep, Tick, rewardsVars
<1>2. CASE RewardsStep
  <2>1. \/ \E a \in Address, amount \in Amounts :
             REWARDS!Stake(a, amount) \/ REWARDS!Unstake(a, amount)
        \/ REWARDS!GovernanceStep
        \/ REWARDS!AdminStep
    BY <1>2, Accounts DEF RewardsStep
  <2> QED
    BY <2>1, StakingPaysNothing
<1>3. CASE \E a \in Address, amount \in Amounts : InitialStake(a, amount)
  BY <1>3 DEF InitialStake, REWARDS!Stake, REWARDS!rewarding
<1> QED
  BY <1>1, <1>2, <1>3

\* A reward was earned: the step delivered a beat through the relay for an
\* operator staked in its own name, and the beat was eligible.
EligibleDelivery(a) ==
    /\ isActiveExecutor[a] /\ a # Relay
    /\ \E id \in CORE!Id :
          /\ ~beats[id].executed /\ beats'[id].executed
          /\ executedBy'[id] = Relay
          /\ beats[id].checkInCount >= MIN_CHECKINS_FOR_REWARD
          /\ now - beats[id].createdAt >= MIN_HEARTBEAT_AGE

LEMMA PaysEligible ==
    ASSUME IInv, NEW op \in Staker, NEW id \in CORE!Id, ExecuteAndReward(op, id),
           NEW a \in Address, rewardsEarned'[a] > rewardsEarned[a]
    PROVE  EligibleDelivery(a)
<1>1. rewardsEarned \in [Address -> Nat]
  BY DEF IInv, REWARDSP!IInv, REWARDSP!TypeOK
<1>2. CASE ~REWARDS!MayDistribute(Relay, op, HeartbeatAfter(id))
  <2>1. rewardsEarned' = rewardsEarned
    BY <1>2 DEF ExecuteAndReward
  <2> QED
    BY <1>1, <2>1
<1>3. CASE REWARDS!MayDistribute(Relay, op, HeartbeatAfter(id))
  <2>1. REWARDS!PayReward(op)
    BY <1>3 DEF ExecuteAndReward
  <2>2. a = op
    BY <1>1, <2>1 DEF REWARDS!PayReward
  <2>3. /\ beats'[id].executed /\ executedBy'[id] = Relay
        /\ beats'[id].checkInCount = beats[id].checkInCount
        /\ beats'[id].createdAt = beats[id].createdAt
    BY ExecutionFacts DEF COREP!Beat
  <2>4. /\ beats[id].checkInCount >= MIN_CHECKINS_FOR_REWARD
        /\ now - beats[id].createdAt >= MIN_HEARTBEAT_AGE
    BY <1>3, <2>3 DEF REWARDS!MayDistribute, HeartbeatAfter
  <2> QED
    BY <2>2, <2>3, <2>4, ExecutionFacts DEF EligibleDelivery
<1> QED
  BY <1>2, <1>3

\* A reward is paid only with an eligible delivery.
THEOREM RewardsAreEarned == Spec => PaidOnlyForEligibleDelivery
<1> DEFINE Paid == \A a \in Address : rewardsEarned'[a] > rewardsEarned[a] => EligibleDelivery(a)
<1>1. IInv /\ [Next]_vars => [Paid]_vars
  <2> SUFFICES ASSUME IInv, Next PROVE Paid
    OBVIOUS
  <2>1. CASE \E op \in Staker, id \in CORE!Id : ExecuteAndReward(op, id)
    BY <2>1, PaysEligible
  <2>2. CASE CoreStep \/ RewardsStep \/ Tick
             \/ (\E a \in Address, amount \in Amounts : InitialStake(a, amount))
    <3>1. rewardsEarned \in [Address -> Nat]
      BY DEF IInv, REWARDSP!IInv, REWARDSP!TypeOK
    <3> QED
      BY <2>2, <3>1, OthersCreditNothing
  <2> QED
    BY <2>1, <2>2 DEF Next, RelayStep
<1> QED
  BY <1>1, Invariance, PTL DEF Spec, PaidOnlyForEligibleDelivery, EligibleDelivery

------------------------------------------------------------------------------
\* The beat was not delivered, or an operator that is staked in its own name
\* is behind it, or the grace was over.
NoGateway(id) ==
    /\ ~beats[id].executed /\ beats'[id].executed
    /\ now <= CORE!Expiry(id) + EXECUTION_GRACE
    => \E a \in Address \ {Relay} :
          /\ isActiveExecutor[a]
          /\ a = executedBy'[id] \/ a = completed'[id].operator

LEMMA NextNoGateway ==
    ASSUME IInv, Next, NEW id \in CORE!Id
    PROVE  NoGateway(id)
<1>1. now \in Nat /\ CORE!Expiry(id) + EXECUTION_GRACE \in Nat
  <2>1. /\ COREP!StorageTypes /\ now \in Nat
    BY Assumptions, COREP!StorageByField DEF IInv, COREP!IInv, COREP!TypeOK
  <2>2. beats[id] \in COREP!Beat /\ EXECUTION_GRACE \in Nat
    BY <2>1, SameCore, Assumptions DEF COREP!StorageTypes, COREP!CoreAssumption
  <2> QED
    BY <2>1, <2>2 DEF CORE!Expiry, COREP!Beat
<1>2. CASE CoreStep \/ Tick
  <2>1. \/ beats'[id].executed => beats[id].executed
        \/ \E a \in Address \ {Relay} :
              /\ executedBy'[id] = a
              /\ isActiveExecutor[a] \/ now > CORE!Expiry(id) + EXECUTION_GRACE
    BY <1>2, CoreDelivers DEF IInv
  <2> HIDE DEF CORE!Expiry
  <2> QED
    BY <1>1, <2>1 DEF NoGateway
<1>3. CASE RewardsStep \/ \E a \in Address, amount \in Amounts : InitialStake(a, amount)
  BY <1>3 DEF NoGateway, RewardsStep, InitialStake, coreVars
<1>4. ASSUME NEW op \in Staker, NEW o \in CORE!Id, ExecuteAndReward(op, o)
      PROVE  NoGateway(id)
  <2>1. CASE id # o
    BY <1>4, <2>1, ExecutionFacts DEF NoGateway
  <2>2. CASE id = o
    <3>1. PICK reward \in Nat :
            completed' = [completed EXCEPT ![id] = [operator |-> op, reward |-> reward]]
      BY <1>4, <2>2, RewardFacts
    <3>2. completed'[id].operator = op
      BY <3>1 DEF IInv
    <3> QED
      BY <1>4, <2>2, <3>2, ExecutionFacts DEF NoGateway
  <2> QED
    BY <2>1, <2>2
<1> QED
  BY <1>2, <1>3, <1>4 DEF Next, RelayStep

\* The relay's own stake opens execute to nobody before the grace is over.
THEOREM RelayGivesNoAccess == Spec => RelayIsNoGateway
<1> DEFINE Closed == \A id \in CORE!Id : NoGateway(id)
<1>1. IInv /\ [Next]_vars => [Closed]_vars
  BY NextNoGateway
<1> QED
  BY <1>1, Invariance, PTL DEF Spec, RelayIsNoGateway, NoGateway
==============================================================================
