---------------------------- MODULE ExecutionRelay ----------------------------
(***************************************************************************)
(* contracts/v3/core/ExecutionRelay.sol composed with the two contracts it *)
(* drives.  MaktubCore and ExecutorRewards are instantiated over shared    *)
(* variables: isActiveExecutor, which the core reads and staking writes,   *)
(* and the clock.  The relay is an account that stakes once and that calls *)
(* execute and distributeReward in one transaction.  CORE_ROLE is given to *)
(* the relay alone, whose code reaches distributeReward only from          *)
(* executeAndReward, and maktubCore points to this core once it is set.    *)
(***************************************************************************)
EXTENDS Integers, Sequences, FiniteSets, Functions

CONSTANTS
    Address, Creator, Salt, Registrant, Staker, NoAddress,
    MIN_INTERVAL, MAX_INTERVAL, EXECUTION_GRACE, MAX_RECIPIENTS,
    MAX_PAYLOAD_BYTES, baseFee, perAdditionalFee, MaxValue, MaxCheckIns,
    OwnersActUntil, MaxTime,
    Self, Timelock, Deployer, ThisCore, NoCore, TOTAL_REWARD_POOL,
    HALVING_PERIOD, TOTAL_PERIODS, MIN_HEARTBEAT_AGE, MIN_CHECKINS_FOR_REWARD,
    InitialMinimumStake, InitialReward, InitialBalance, Amounts,
    Relay,      \* address(this) of the relay
    admin       \* the one account that may call initialStake

VARIABLES
    now, registered, isActiveExecutor, beats, heartbeatCount, ownerBeats,
    recipientBeats, recipientIndexed, executedBy, coreBalance, feesReceived,
    frame,
    mktb, stakes, totalStaked, minimumStake, rewardPerExecution,
    totalDistributed, rewardsEarned, paused, maktubCore, roles,
    staked,     \* whether initialStake has run
    completed   \* operator and reward of each beat's ExecutionCompleted event

coreVars == <<registered, beats, heartbeatCount, ownerBeats, recipientBeats,
              recipientIndexed, executedBy, coreBalance, feesReceived, frame>>
rewardsVars == <<mktb, stakes, totalStaked, minimumStake, rewardPerExecution,
                 totalDistributed, rewardsEarned, paused, maktubCore, roles>>
relayVars == <<staked, completed>>
vars == <<now, isActiveExecutor, coreVars, rewardsVars, relayVars>>

CORE == INSTANCE MaktubCore
REWARDS == INSTANCE ExecutorRewards WITH
    Account <- Address,
    Core <- {ThisCore},
    Grantees <- [ADMIN |-> {}, GOVERNANCE |-> {}, CORE |-> {Relay}],
    MaxNow <- MaxTime

ASSUME RelayAssumption ==
    /\ CORE!CoreAssumption
    /\ REWARDS!RewardsAssumption
    /\ IsFiniteSet(Salt)
    /\ Relay \in Address

NotCompleted == [operator |-> NoAddress, reward |-> 0]

Init ==
    /\ CORE!Init
    /\ REWARDS!Init
    /\ staked = FALSE
    /\ completed = [id \in CORE!Id |-> NotCompleted]

------------------------------------------------------------------------------
\* initialStake: approve and stake, in the relay's own name, once.  That
\* amount reaches the minimum is required by the comment and not by the code.
InitialStake(a, amount) ==
    /\ CORE!Idle
    /\ a = admin
    /\ ~staked
    /\ staked' = TRUE
    /\ REWARDS!Stake(Relay, amount)
    /\ UNCHANGED <<coreVars, completed>>

\* What maktubCore.getHeartbeat returns within the transaction, after execute.
HeartbeatAfter(id) ==
    [createdAt |-> beats'[id].createdAt, checkInCount |-> beats'[id].checkInCount,
     executed |-> beats'[id].executed]

\* Mutant of ExecuteAndReward: the operator's own stake is not required.
ExecuteForAnyone(op, id) ==
    /\ op # Relay
    /\ CORE!Execute(Relay, id)
    /\ IF REWARDS!MayDistribute(Relay, op, HeartbeatAfter(id))
       THEN /\ REWARDS!PayReward(op)
            /\ completed' = [completed EXCEPT ![id] =
                  [operator |-> op, reward |-> REWARDS!CappedReward]]
       ELSE /\ completed' = [completed EXCEPT ![id] = [operator |-> op, reward |-> 0]]
            /\ UNCHANGED <<mktb, totalDistributed, rewardsEarned>>
    /\ UNCHANGED <<stakes, totalStaked, minimumStake, rewardPerExecution,
                   paused, maktubCore, roles, staked>>

\* Mutant of ExecuteAndReward: no reward, no delivery.
ExecuteIfRewarded(op, id) ==
    /\ op # Relay
    /\ isActiveExecutor[op]
    /\ CORE!Execute(Relay, id)
    /\ REWARDS!MayDistribute(Relay, op, HeartbeatAfter(id))
    /\ REWARDS!PayReward(op)
    /\ completed' = [completed EXCEPT ![id] =
          [operator |-> op, reward |-> REWARDS!CappedReward]]
    /\ UNCHANGED <<stakes, totalStaked, minimumStake, rewardPerExecution,
                   paused, maktubCore, roles, staked>>

\* Mutant of ExecuteAndReward: a lost race is tolerated, and paid for again.
ExecuteOrTolerate(op, id) ==
    /\ op # Relay
    /\ isActiveExecutor[op]
    /\ \/ CORE!Execute(Relay, id)
       \/ beats[id].executed /\ CORE!Idle /\ UNCHANGED <<now, isActiveExecutor, coreVars>>
    /\ IF REWARDS!MayDistribute(Relay, op, HeartbeatAfter(id))
       THEN /\ REWARDS!PayReward(op)
            /\ completed' = [completed EXCEPT ![id] =
                  [operator |-> op, reward |-> REWARDS!CappedReward]]
       ELSE /\ completed' = [completed EXCEPT ![id] = [operator |-> op, reward |-> 0]]
            /\ UNCHANGED <<mktb, totalDistributed, rewardsEarned>>
    /\ UNCHANGED <<stakes, totalStaked, minimumStake, rewardPerExecution,
                   paused, maktubCore, roles, staked>>

\* executeAndReward: the delivery stands whether or not the reward is paid.
ExecuteAndReward(op, id) ==
    /\ op # Relay
    /\ isActiveExecutor[op]
    /\ CORE!Execute(Relay, id)
    /\ IF REWARDS!MayDistribute(Relay, op, HeartbeatAfter(id))
       THEN /\ REWARDS!PayReward(op)
            /\ completed' = [completed EXCEPT ![id] =
                  [operator |-> op, reward |-> REWARDS!CappedReward]]
       ELSE /\ completed' = [completed EXCEPT ![id] = [operator |-> op, reward |-> 0]]
            /\ UNCHANGED <<mktb, totalDistributed, rewardsEarned>>
    /\ UNCHANGED <<stakes, totalStaked, minimumStake, rewardPerExecution,
                   paused, maktubCore, roles, staked>>

\* A transaction to the core that does not go through the relay, whose code
\* has no other call to it.
CoreStep ==
    /\ \/ CORE!Create \/ CORE!OwnerStep \/ CORE!CallReturns
       \/ \E a \in Address \ {Relay}, id \in CORE!Id : CORE!Execute(a, id)
       \/ \E a \in Registrant : CORE!Register(a)
    /\ UNCHANGED <<rewardsVars, relayVars>>

\* A transaction to the rewards contract.  The relay's code has no other call
\* to it, and governance acts through the timelock.
RewardsStep ==
    /\ CORE!Idle
    /\ \/ \E a \in Staker, amount \in Amounts :
             REWARDS!Stake(a, amount) \/ REWARDS!Unstake(a, amount)
       \/ REWARDS!GovernanceStep
       \/ REWARDS!AdminStep
    /\ UNCHANGED <<coreVars, relayVars>>

RelayStep ==
    \/ \E a \in Address, amount \in Amounts : InitialStake(a, amount)
    \/ \E op \in Staker, id \in CORE!Id : ExecuteAndReward(op, id)

\* The clock of all three contracts.
Tick == CORE!Tick /\ UNCHANGED <<rewardsVars, relayVars>>

Next == CoreStep \/ RewardsStep \/ RelayStep \/ Tick

Spec == Init /\ [][Next]_vars

\* Blocks keep coming, calls return, and an active operator who may deliver
\* through the relay does.  Nobody else is assumed to act.
FairSpec ==
    /\ Spec
    /\ SF_vars(Tick)
    /\ WF_vars(CORE!CallReturns /\ UNCHANGED <<rewardsVars, relayVars>>)
    /\ \A id \in CORE!Id : WF_vars(\E op \in Staker : ExecuteAndReward(op, id))

------------------------------------------------------------------------------
(***************************************************************************)
(* Properties                                                              *)
(***************************************************************************)
\* distributeReward has no guard against paying twice for one heartbeat
\* (ExecutorRewards.sol:313-358): that the core executes it once is what makes
\* the rewards paid the sum of one amount for each delivery by the relay.
OneRewardPerDelivery ==
    /\ totalDistributed = SumFunction([id \in CORE!Id |-> completed[id].reward])
    /\ \A id \in CORE!Id : completed[id] # NotCompleted <=> executedBy[id] = Relay

\* A reward is paid only in the transaction that delivers a beat, and only to
\* an operator that is staked in its own name, for a beat old enough that its
\* owner has checked in on (ExecutionRelay.sol:284-313).
PaidOnlyForEligibleDelivery ==
    [][\A a \in Address : rewardsEarned'[a] > rewardsEarned[a] =>
          /\ isActiveExecutor[a] /\ a # Relay
          /\ \E id \in CORE!Id :
                /\ ~beats[id].executed /\ beats'[id].executed
                /\ executedBy'[id] = Relay
                /\ beats[id].checkInCount >= MIN_CHECKINS_FOR_REWARD
                /\ now - beats[id].createdAt >= MIN_HEARTBEAT_AGE]_vars

\* The relay's stake is not a free gateway (ExecutionRelay.sol:71-74): before
\* the grace is over a beat is delivered at the wish of an account that is
\* staked in its own name, whether it calls the core or the relay.
RelayIsNoGateway ==
    [][\A id \in CORE!Id :
          /\ ~beats[id].executed /\ beats'[id].executed
          /\ now <= CORE!Expiry(id) + EXECUTION_GRACE
          => \E a \in Address \ {Relay} :
                /\ isActiveExecutor[a]
                /\ a = executedBy'[id] \/ a = completed'[id].operator]_vars

\* While there is an active operator to call the relay, every overdue beat is
\* delivered, with the rewards paused, unset, exhausted or not yet earned, and
\* with the relay itself slashed (ExecutionRelay.sol:260-264).
RewardsNeverBlockDelivery ==
    <>[](\E op \in Staker : isActiveExecutor[op]) =>
        \A id \in CORE!Id : CORE!CommittedPhase(id) = "armed"
                            ~> CORE!CommittedPhase(id) \in {"delivered", "cancelled"}
==============================================================================
