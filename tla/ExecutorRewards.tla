---------------------------- MODULE ExecutorRewards ----------------------------
(***************************************************************************)
(* contracts/v3/governance/ExecutorRewards.sol: the stakes of the          *)
(* executors, the rewards paid from the same MKTB balance, the parameters  *)
(* governance sets and the roles of OpenZeppelin's AccessControl.  Every   *)
(* external function is nonReentrant or makes no call before its writes,   *)
(* and the token has no transfer hook, so each is one action.  Arithmetic  *)
(* is checked (Solidity 0.8): a subtraction that would go below zero       *)
(* reverts, which is a conjunct of the action that makes it.               *)
(***************************************************************************)
EXTENDS Integers, FiniteSets, Functions

CONSTANTS
    Account,            \* the accounts that hold MKTB, stake and call
    Self,               \* address(this)
    Timelock,           \* the account that first holds GOVERNANCE_ROLE
    Deployer,           \* the account that first holds DEFAULT_ADMIN_ROLE
    Core, NoCore,       \* the cores maktubCore may point to; its zero value
    TOTAL_REWARD_POOL,
    HALVING_PERIOD, TOTAL_PERIODS,
    MIN_HEARTBEAT_AGE, MIN_CHECKINS_FOR_REWARD,
    InitialMinimumStake, InitialReward,
    Grantees,           \* the accounts the admin may grant or revoke each role
    InitialBalance,     \* the MKTB of every account, and of this contract, at first
    Amounts,            \* the amounts that calls name
    MaxNow              \* bound on the clock

Holder == Account \cup {Self}
Role == {"ADMIN", "GOVERNANCE", "CORE"}

ASSUME RewardsAssumption ==
    /\ IsFiniteSet(Account) /\ Self \notin Account
    /\ Timelock \in Account /\ Deployer \in Account
    /\ NoCore \notin Core
    /\ TOTAL_REWARD_POOL \in Nat
    /\ HALVING_PERIOD \in Nat \ {0} /\ TOTAL_PERIODS \in Nat
    /\ MIN_HEARTBEAT_AGE \in Nat /\ MIN_CHECKINS_FOR_REWARD \in Nat
    /\ InitialMinimumStake \in Nat /\ InitialReward \in Nat
    /\ InitialBalance \in [Holder -> Nat]
    /\ Grantees \in [Role -> SUBSET Account]
    /\ Amounts \subseteq Nat
    /\ MaxNow \in Nat

VARIABLES
    now,                \* block.timestamp, counted from emissionStart
    mktb,               \* the token balances
    stakes, totalStaked, isActiveExecutor,
    minimumStake, rewardPerExecution,
    totalDistributed, rewardsEarned,
    paused,
    maktubCore,
    roles               \* the holders of each role

staking == <<stakes, totalStaked, isActiveExecutor>>
rewarding == <<totalDistributed, rewardsEarned>>
parameters == <<minimumStake, rewardPerExecution, paused, maktubCore>>
vars == <<now, mktb, staking, rewarding, parameters, roles>>

emissionStart == 0
maxRewardPerExecution == InitialReward * 10

Init ==
    /\ now = emissionStart
    /\ mktb = InitialBalance
    /\ stakes = [a \in Account |-> 0]
    /\ totalStaked = 0
    /\ isActiveExecutor = [a \in Account |-> FALSE]
    /\ minimumStake = InitialMinimumStake
    /\ rewardPerExecution = InitialReward
    /\ totalDistributed = 0
    /\ rewardsEarned = [a \in Account |-> 0]
    /\ paused = FALSE
    /\ maktubCore = NoCore
    /\ roles = [r \in Role |-> IF r = "ADMIN" THEN {Deployer}
                               ELSE IF r = "GOVERNANCE" THEN {Timelock}
                               ELSE {}]

HasRole(r, a) == a \in roles[r]

\* ERC20 transfer of amount from one holder to another.
Transferred(from, to, amount) ==
    /\ mktb[from] >= amount
    /\ mktb' = [h \in Holder |->
          mktb[h] + (IF h = to THEN amount ELSE 0) - (IF h = from THEN amount ELSE 0)]

------------------------------------------------------------------------------
\* Mutant of Stake: any stake makes an active executor.
StakeActivates(a, amount) ==
    /\ amount > 0
    /\ Transferred(a, Self, amount)
    /\ stakes' = [stakes EXCEPT ![a] = @ + amount]
    /\ totalStaked' = totalStaked + amount
    /\ isActiveExecutor' = [isActiveExecutor EXCEPT ![a] = TRUE]
    /\ UNCHANGED <<now, rewarding, parameters, roles>>

\* stake: the flag is raised at the minimum, and never lowered here.
Stake(a, amount) ==
    /\ amount > 0
    /\ Transferred(a, Self, amount)
    /\ stakes' = [stakes EXCEPT ![a] = @ + amount]
    /\ totalStaked' = totalStaked + amount
    /\ isActiveExecutor' =
          [isActiveExecutor EXCEPT ![a] = @ \/ stakes[a] + amount >= minimumStake]
    /\ UNCHANGED <<now, rewarding, parameters, roles>>

\* Mutant of Unstake: the caller's own stake is not looked at.
UnstakeUnchecked(a, amount) ==
    /\ amount > 0
    /\ totalStaked >= amount
    /\ stakes' = [stakes EXCEPT ![a] = @ - amount]
    /\ totalStaked' = totalStaked - amount
    /\ isActiveExecutor' =
          [isActiveExecutor EXCEPT ![a] = @ /\ ~(stakes[a] - amount < minimumStake)]
    /\ Transferred(Self, a, amount)
    /\ UNCHANGED <<now, rewarding, parameters, roles>>

\* unstake
Unstake(a, amount) ==
    /\ amount > 0
    /\ stakes[a] >= amount
    /\ totalStaked >= amount
    /\ stakes' = [stakes EXCEPT ![a] = @ - amount]
    /\ totalStaked' = totalStaked - amount
    /\ isActiveExecutor' =
          [isActiveExecutor EXCEPT ![a] = @ /\ ~(stakes[a] - amount < minimumStake)]
    /\ Transferred(Self, a, amount)
    /\ UNCHANGED <<now, rewarding, parameters, roles>>

\* Mutant of Slash: the total keeps counting the slashed stake.
SlashKeepingTotal(g, a, amount) ==
    /\ HasRole("GOVERNANCE", g)
    /\ amount > 0
    /\ stakes[a] >= amount
    /\ stakes' = [stakes EXCEPT ![a] = @ - amount]
    /\ totalStaked' = totalStaked
    /\ isActiveExecutor' = [isActiveExecutor EXCEPT ![a] = FALSE]
    /\ Transferred(Self, g, amount)
    /\ UNCHANGED <<now, rewarding, parameters, roles>>

\* Mutant of Slash: the slashed tokens stay behind and feed the rewards.
SlashIntoPool(g, a, amount) ==
    /\ HasRole("GOVERNANCE", g)
    /\ amount > 0
    /\ stakes[a] >= amount
    /\ totalStaked >= amount
    /\ stakes' = [stakes EXCEPT ![a] = @ - amount]
    /\ totalStaked' = totalStaked - amount
    /\ isActiveExecutor' = [isActiveExecutor EXCEPT ![a] = FALSE]
    /\ UNCHANGED <<now, mktb, rewarding, parameters, roles>>

\* slash: governance confiscates, and the executor is inactive whatever is left.
Slash(g, a, amount) ==
    /\ HasRole("GOVERNANCE", g)
    /\ amount > 0
    /\ stakes[a] >= amount
    /\ totalStaked >= amount
    /\ stakes' = [stakes EXCEPT ![a] = @ - amount]
    /\ totalStaked' = totalStaked - amount
    /\ isActiveExecutor' = [isActiveExecutor EXCEPT ![a] = FALSE]
    /\ Transferred(Self, g, amount)
    /\ UNCHANGED <<now, rewarding, parameters, roles>>

------------------------------------------------------------------------------
\* currentRewardAmount
currentRewardAmount ==
    IF \/ totalDistributed >= TOTAL_REWARD_POOL
       \/ (now - emissionStart) \div HALVING_PERIOD >= TOTAL_PERIODS
    THEN 0
    ELSE rewardPerExecution

Smaller(x, y) == IF x <= y THEN x ELSE y

\* Mutant of CappedReward: the balance is counted with the stakes in it.
RewardFromWholeBalance ==
    Smaller(Smaller(currentRewardAmount, TOTAL_REWARD_POOL - totalDistributed), mktb[Self])

\* The reward after both caps: what is left of the pool, and what the balance
\* holds beyond the stakes.
CappedReward ==
    Smaller(Smaller(currentRewardAmount, TOTAL_REWARD_POOL - totalDistributed),
            mktb[Self] - totalStaked)

\* Mutant of MayDistribute: the age of the heartbeat is not looked at.
MayDistributeYoung(c, a, hb) ==
    /\ HasRole("CORE", c)
    /\ ~paused
    /\ maktubCore # NoCore
    /\ isActiveExecutor[a]
    /\ hb.executed
    /\ hb.checkInCount >= MIN_CHECKINS_FOR_REWARD
    /\ mktb[Self] >= totalStaked
    /\ CappedReward > 0

\* Everything distributeReward requires, of its caller c, of the executor a
\* and of the heartbeat hb that maktubCore.getHeartbeat returns.
MayDistribute(c, a, hb) ==
    /\ HasRole("CORE", c)
    /\ ~paused
    /\ maktubCore # NoCore
    /\ isActiveExecutor[a]
    /\ hb.executed
    /\ now - hb.createdAt >= MIN_HEARTBEAT_AGE
    /\ hb.checkInCount >= MIN_CHECKINS_FOR_REWARD
    /\ mktb[Self] >= totalStaked
    /\ CappedReward > 0

\* Mutant of PayReward: the executor is credited with the reward before the caps.
CreditUncapped(a) ==
    /\ totalDistributed' = totalDistributed + CappedReward
    /\ rewardsEarned' = [rewardsEarned EXCEPT ![a] = @ + currentRewardAmount]
    /\ Transferred(Self, a, CappedReward)

\* Everything distributeReward does.
PayReward(a) ==
    /\ totalDistributed' = totalDistributed + CappedReward
    /\ rewardsEarned' = [rewardsEarned EXCEPT ![a] = @ + CappedReward]
    /\ Transferred(Self, a, CappedReward)

DistributeReward(c, a, hb) ==
    /\ MayDistribute(c, a, hb)
    /\ PayReward(a)
    /\ UNCHANGED <<now, staking, parameters, roles>>

------------------------------------------------------------------------------
SetMinimumStake(g, newMinimum) ==
    /\ HasRole("GOVERNANCE", g)
    /\ minimumStake' = newMinimum
    /\ UNCHANGED <<now, mktb, staking, rewarding, rewardPerExecution, paused,
                   maktubCore, roles>>

SetRewardPerExecution(g, newReward) ==
    /\ HasRole("GOVERNANCE", g)
    /\ newReward <= maxRewardPerExecution
    /\ rewardPerExecution' = newReward
    /\ UNCHANGED <<now, mktb, staking, rewarding, minimumStake, paused,
                   maktubCore, roles>>

\* pause and unpause: each only from the other state.
SetPaused(g, value) ==
    /\ HasRole("GOVERNANCE", g)
    /\ paused # value
    /\ paused' = value
    /\ UNCHANGED <<now, mktb, staking, rewarding, minimumStake,
                   rewardPerExecution, maktubCore, roles>>

\* setMaktubCore: by the admin or by governance, as often as they like.
SetMaktubCore(c, core) ==
    /\ HasRole("ADMIN", c) \/ HasRole("GOVERNANCE", c)
    /\ maktubCore' = core
    /\ UNCHANGED <<now, mktb, staking, rewarding, minimumStake,
                   rewardPerExecution, paused, roles>>

\* AccessControl.grantRole and revokeRole.  The constructor leaves the admin
\* of every role at its default, DEFAULT_ADMIN_ROLE.
GrantRole(c, r, a) ==
    /\ HasRole("ADMIN", c)
    /\ roles' = [roles EXCEPT ![r] = @ \cup {a}]
    /\ UNCHANGED <<now, mktb, staking, rewarding, parameters>>

RevokeRole(c, r, a) ==
    /\ HasRole("ADMIN", c)
    /\ roles' = [roles EXCEPT ![r] = @ \ {a}]
    /\ UNCHANGED <<now, mktb, staking, rewarding, parameters>>

\* AccessControl.renounceRole: a holder gives up its own role.
RenounceRole(c, r) ==
    /\ HasRole(r, c)
    /\ roles' = [roles EXCEPT ![r] = @ \ {c}]
    /\ UNCHANGED <<now, mktb, staking, rewarding, parameters>>

\* renounceAdmin
RenounceAdmin(c) == RenounceRole(c, "ADMIN")

\* MKTB moves between holders, donations to this contract included.
Transfer(a, h, amount) ==
    /\ amount > 0
    /\ Transferred(a, h, amount)
    /\ UNCHANGED <<now, staking, rewarding, parameters, roles>>

Tick ==
    /\ now < MaxNow
    /\ now' = now + 1
    /\ UNCHANGED <<mktb, staking, rewarding, parameters, roles>>

------------------------------------------------------------------------------
StakerStep ==
    \E a \in Account, amount \in Amounts : Stake(a, amount) \/ Unstake(a, amount)

GovernanceStep ==
    \E g \in Account :
        \/ \E a \in Account, amount \in Amounts : Slash(g, a, amount)
        \/ \E amount \in Amounts : SetMinimumStake(g, amount) \/ SetRewardPerExecution(g, amount)
        \/ \E value \in BOOLEAN : SetPaused(g, value)
        \/ \E core \in Core : SetMaktubCore(g, core)

AdminStep ==
    \E c \in Account :
        \/ \E r \in Role : \E a \in Grantees[r] : GrantRole(c, r, a) \/ RevokeRole(c, r, a)
        \/ \E r \in Role : RenounceRole(c, r)
        \/ RenounceAdmin(c)

\* What a getHeartbeat call can return of a beat, with createdAt not after now.
HeartbeatView ==
    [createdAt : 0..now, checkInCount : 0..MIN_CHECKINS_FOR_REWARD, executed : BOOLEAN]

RewardStep ==
    \E c, a \in Account, hb \in HeartbeatView : DistributeReward(c, a, hb)

TransferStep ==
    \E a \in Account, h \in Holder, amount \in Amounts : Transfer(a, h, amount)

Next ==
    \/ StakerStep
    \/ GovernanceStep
    \/ AdminStep
    \/ RewardStep
    \/ TransferStep
    \/ Tick

Spec == Init /\ [][Next]_vars

------------------------------------------------------------------------------
(***************************************************************************)
(* Properties                                                              *)
(***************************************************************************)
\* Every variable holds a value of the type the contract declares for it.
TypeOK ==
    /\ now \in Nat
    /\ mktb \in [Holder -> Nat]
    /\ stakes \in [Account -> Nat]
    /\ totalStaked \in Nat
    /\ isActiveExecutor \in [Account -> BOOLEAN]
    /\ minimumStake \in Nat
    /\ rewardPerExecution \in Nat
    /\ totalDistributed \in Nat
    /\ rewardsEarned \in [Account -> Nat]
    /\ paused \in BOOLEAN
    /\ maktubCore \in Core \cup {NoCore}
    /\ roles \in [Role -> SUBSET Account]

\* Rewards come out of the same balance as the stakes and never out of the
\* stakes (ExecutorRewards.sol:344-348), and the pool's cap is hard.
StakeBacked ==
    /\ totalStaked <= mktb[Self]
    /\ totalDistributed <= TOTAL_REWARD_POOL

\* Nothing that unstake checks can stop a staker from taking out all it has:
\* the two totals it subtracts from cover every stake, and all of them at once.
StakesWithdrawable ==
    /\ SumFunction(stakes) = totalStaked
    /\ totalStaked <= mktb[Self]

\* No MKTB is made or lost, and every reward paid is credited to an executor.
RewardsAccounted ==
    /\ SumFunction(rewardsEarned) = totalDistributed
    /\ SumFunction(mktb) = SumFunction(InitialBalance)

\* Stake leaves an account only into that account's own balance, by unstake,
\* or into the balance of a holder of GOVERNANCE_ROLE, by slash.
LawfulTaking ==
    \A a \in Account : stakes'[a] < stakes[a] =>
        \E h \in roles["GOVERNANCE"] \cup {a} :
            mktb'[h] = mktb[h] + stakes[a] - stakes'[a]

StakeLeavesLawfully == [][LawfulTaking]_vars

\* The active flag is raised only by the executor adding to its stake up to the
\* minimum of that moment, and lowered only by a call that takes stake away: a
\* change of parameters, a pause or a reward flips nobody.
FlagChange ==
    \A a \in Account :
        /\ ~isActiveExecutor[a] /\ isActiveExecutor'[a] =>
              stakes'[a] > stakes[a] /\ stakes'[a] >= minimumStake
        /\ isActiveExecutor[a] /\ ~isActiveExecutor'[a] => stakes'[a] < stakes[a]

ActivityFollowsStake == [][FlagChange]_vars

\* ExecutorRewards.sol:211-219 has governance move CORE_ROLE from the old relay
\* to the new one in one batch, and lines 474-480 say that once the admin has
\* renounced, roles change through governance: a holder of GOVERNANCE_ROLE
\* would be able to grant CORE_ROLE.
GovernanceCanMigrate ==
    roles["ADMIN"] = {} =>
        \A g \in roles["GOVERNANCE"], a \in Account : ENABLED GrantRole(g, "CORE", a)
==============================================================================
