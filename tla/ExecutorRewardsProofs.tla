------------------------- MODULE ExecutorRewardsProofs -------------------------
(***************************************************************************)
(* What holds of ExecutorRewards for every set of accounts, every initial  *)
(* distribution of MKTB and every value of the parameters: its types, that *)
(* stakes are backed, and the two rules about how a stake and its flag     *)
(* change.  The argument is one inductive invariant.  It needs the types   *)
(* because the cap on a reward is a subtraction, which bounds the reward   *)
(* only because both of its sides are natural numbers.                     *)
(***************************************************************************)
EXTENDS ExecutorRewards, FunctionSums, TLAPS

IInv == TypeOK /\ StakeBacked

\* A transfer from a holder to a holder keeps every balance a natural number,
\* takes amount from the one and gives it to the other (MktbToken transfer).
LEMMA TransferFacts ==
    ASSUME TypeOK, NEW from \in Holder, NEW to \in Holder, NEW amount \in Nat,
           Transferred(from, to, amount)
    PROVE  /\ mktb' \in [Holder -> Nat]
           /\ \A h \in Holder : h # from /\ h # to => mktb'[h] = mktb[h]
           /\ from # to => mktb'[from] = mktb[from] - amount
           /\ from # to => mktb'[to] = mktb[to] + amount
<1> DEFINE Amount(h) == mktb[h] + (IF h = to THEN amount ELSE 0)
                                - (IF h = from THEN amount ELSE 0)
<1>1. mktb \in [Holder -> Nat] /\ mktb[from] >= amount
  BY DEF TypeOK, Transferred
<1>2. \A h \in Holder : Amount(h) \in Nat
  BY <1>1
<1>3. mktb' = [h \in Holder |-> Amount(h)]
  BY DEF Transferred
<1> QED
  BY <1>1, <1>2, <1>3

\* A reward that distributeReward pays fits the pool and the balance that the
\* stakes leave (ExecutorRewards.sol:337-350).
LEMMA RewardFits ==
    ASSUME TypeOK, StakeBacked, CappedReward > 0
    PROVE  /\ CappedReward \in Nat
           /\ totalDistributed + CappedReward <= TOTAL_REWARD_POOL
           /\ totalStaked + CappedReward <= mktb[Self]
<1>1. currentRewardAmount \in Nat
  BY DEF currentRewardAmount, TypeOK
<1>2. /\ TOTAL_REWARD_POOL - totalDistributed \in Int
      /\ mktb[Self] - totalStaked \in Int
      /\ totalDistributed \in Nat /\ totalStaked \in Nat /\ mktb[Self] \in Nat
  BY RewardsAssumption DEF TypeOK, Holder
<1>3. /\ CappedReward \in Int
      /\ CappedReward <= TOTAL_REWARD_POOL - totalDistributed
      /\ CappedReward <= mktb[Self] - totalStaked
  BY <1>1, <1>2 DEF CappedReward, Smaller
<1> QED
  BY <1>2, <1>3, RewardsAssumption

LEMMA InitIInv == Init => IInv
<1> SUFFICES ASSUME Init PROVE IInv
  OBVIOUS
<1>1. TypeOK
  BY RewardsAssumption DEF Init, TypeOK, emissionStart, Role, Holder
<1>2. StakeBacked
  BY RewardsAssumption DEF Init, StakeBacked, Holder
<1> QED
  BY <1>1, <1>2 DEF IInv

\* stake
LEMMA StakeIInv ==
    ASSUME IInv, NEW a \in Account, NEW amount \in Amounts, Stake(a, amount)
    PROVE  IInv'
<1>1. amount \in Nat /\ a \in Holder /\ Self \in Holder /\ a # Self
  BY RewardsAssumption DEF Holder
<1>2. mktb' \in [Holder -> Nat] /\ mktb'[Self] = mktb[Self] + amount
  BY <1>1, TransferFacts DEF IInv, Stake
<1>3. TypeOK'
  <2>1. stakes' \in [Account -> Nat] /\ totalStaked' \in Nat
    BY <1>1 DEF IInv, TypeOK, Stake
  <2>2. isActiveExecutor' \in [Account -> BOOLEAN]
    <3>1. (isActiveExecutor[a] \/ stakes[a] + amount >= minimumStake) \in BOOLEAN
      OBVIOUS
    <3> QED
      BY <3>1, Zenon DEF IInv, TypeOK, Stake
  <2> QED
    BY <1>2, <2>1, <2>2 DEF IInv, TypeOK, Stake, rewarding, parameters
<1>4. StakeBacked'
  BY <1>1, <1>2, RewardsAssumption DEF IInv, TypeOK, Stake, StakeBacked, rewarding, Holder
<1> QED
  BY <1>3, <1>4 DEF IInv

\* What unstake and slash share: amount leaves a stake and the contract.
LEMMA TakeStakeIInv ==
    ASSUME IInv, NEW a \in Account, NEW h \in Account, NEW amount \in Amounts,
           stakes[a] >= amount, totalStaked >= amount,
           stakes' = [stakes EXCEPT ![a] = @ - amount],
           totalStaked' = totalStaked - amount,
           isActiveExecutor' \in [Account -> BOOLEAN],
           Transferred(Self, h, amount),
           UNCHANGED <<now, rewarding, parameters, roles>>
    PROVE  IInv'
<1>1. amount \in Nat /\ h \in Holder /\ Self \in Holder /\ h # Self
  BY RewardsAssumption DEF Holder
<1>2. mktb' \in [Holder -> Nat] /\ mktb'[Self] = mktb[Self] - amount
  BY <1>1, TransferFacts DEF IInv
<1>3. TypeOK'
  <2>1. stakes' \in [Account -> Nat] /\ totalStaked' \in Nat
    BY <1>1 DEF IInv, TypeOK
  <2> QED
    BY <1>2, <2>1 DEF IInv, TypeOK, rewarding, parameters
<1>4. StakeBacked'
  BY <1>1, <1>2, RewardsAssumption DEF IInv, TypeOK, StakeBacked, rewarding, Holder
<1> QED
  BY <1>3, <1>4 DEF IInv

LEMMA UnstakeIInv ==
    ASSUME IInv, NEW a \in Account, NEW amount \in Amounts, Unstake(a, amount)
    PROVE  IInv'
<1>1. isActiveExecutor' \in [Account -> BOOLEAN]
  <2>1. (isActiveExecutor[a] /\ ~(stakes[a] - amount < minimumStake)) \in BOOLEAN
    OBVIOUS
  <2> QED
    BY <2>1, Zenon DEF IInv, TypeOK, Unstake
<1> QED
  BY <1>1, TakeStakeIInv DEF Unstake

LEMMA SlashIInv ==
    ASSUME IInv, NEW g \in Account, NEW a \in Account, NEW amount \in Amounts,
           Slash(g, a, amount)
    PROVE  IInv'
<1>1. isActiveExecutor' \in [Account -> BOOLEAN]
  BY DEF IInv, TypeOK, Slash
<1> QED
  BY <1>1, TakeStakeIInv DEF Slash

\* distributeReward
LEMMA DistributeIInv ==
    ASSUME IInv, NEW c \in Account, NEW a \in Account, NEW hb,
           DistributeReward(c, a, hb)
    PROVE  IInv'
<1>1. CappedReward > 0 /\ PayReward(a) /\ UNCHANGED <<now, staking, parameters, roles>>
  BY DEF DistributeReward, MayDistribute
<1>2. /\ CappedReward \in Nat
      /\ totalDistributed + CappedReward <= TOTAL_REWARD_POOL
      /\ totalStaked + CappedReward <= mktb[Self]
  BY <1>1, RewardFits DEF IInv
<1>3. a \in Holder /\ Self \in Holder /\ a # Self
  BY RewardsAssumption DEF Holder
<1>4. mktb' \in [Holder -> Nat] /\ mktb'[Self] = mktb[Self] - CappedReward
  BY <1>1, <1>2, <1>3, TransferFacts DEF IInv, PayReward
<1>5. /\ totalDistributed' = totalDistributed + CappedReward
      /\ rewardsEarned' = [rewardsEarned EXCEPT ![a] = @ + CappedReward]
  BY <1>1 DEF PayReward
<1>6. TypeOK'
  <2>1. rewardsEarned' \in [Account -> Nat] /\ totalDistributed' \in Nat
    BY <1>2, <1>5 DEF IInv, TypeOK
  <2> QED
    BY <1>1, <1>4, <2>1 DEF IInv, TypeOK, staking, parameters
<1>7. StakeBacked'
  BY <1>1, <1>2, <1>3, <1>4, <1>5, RewardsAssumption DEF IInv, TypeOK, StakeBacked, staking
<1> QED
  BY <1>6, <1>7 DEF IInv

\* The calls that change neither a balance nor a stake.
LEMMA ParametersIInv ==
    ASSUME IInv, NEW c \in Account,
           \/ \E amount \in Amounts : SetMinimumStake(c, amount) \/ SetRewardPerExecution(c, amount)
           \/ \E value \in BOOLEAN : SetPaused(c, value)
           \/ \E core \in Core : SetMaktubCore(c, core)
    PROVE  IInv' /\ UNCHANGED staking
<1> USE RewardsAssumption DEF IInv, TypeOK, StakeBacked, staking, rewarding
<1>1. CASE \E amount \in Amounts : SetMinimumStake(c, amount)
  BY <1>1 DEF SetMinimumStake
<1>2. CASE \E amount \in Amounts : SetRewardPerExecution(c, amount)
  BY <1>2 DEF SetRewardPerExecution
<1>3. CASE \E value \in BOOLEAN : SetPaused(c, value)
  BY <1>3 DEF SetPaused
<1>4. CASE \E core \in Core : SetMaktubCore(c, core)
  BY <1>4 DEF SetMaktubCore
<1> QED
  BY <1>1, <1>2, <1>3, <1>4

LEMMA AdminIInv ==
    ASSUME IInv, AdminStep
    PROVE  IInv' /\ UNCHANGED staking
<1> USE RewardsAssumption DEF IInv, TypeOK, StakeBacked, staking, rewarding, parameters
<1> PICK c \in Account :
        \/ \E r \in Role : \E a \in Grantees[r] : GrantRole(c, r, a) \/ RevokeRole(c, r, a)
        \/ \E r \in Role : RenounceRole(c, r)
        \/ RenounceAdmin(c)
  BY DEF AdminStep
<1>1. ASSUME NEW r \in Role, NEW a \in Grantees[r], GrantRole(c, r, a)
      PROVE  IInv' /\ UNCHANGED staking
  <2>1. a \in Account
    OBVIOUS
  <2> QED
    BY <1>1, <2>1 DEF GrantRole
<1>2. ASSUME NEW r \in Role, NEW a \in Grantees[r], RevokeRole(c, r, a)
      PROVE  IInv' /\ UNCHANGED staking
  BY <1>2 DEF RevokeRole
<1>3. ASSUME NEW r \in Role, RenounceRole(c, r)
      PROVE  IInv' /\ UNCHANGED staking
  BY <1>3 DEF RenounceRole
<1> QED
  BY <1>1, <1>2, <1>3 DEF RenounceAdmin, Role

\* A donation, or a payment between accounts, never takes from the contract.
LEMMA TransferIInv ==
    ASSUME IInv, NEW a \in Account, NEW h \in Holder, NEW amount \in Amounts,
           Transfer(a, h, amount)
    PROVE  IInv' /\ UNCHANGED staking
<1>1. amount \in Nat /\ a \in Holder /\ Self \in Holder /\ a # Self
  BY RewardsAssumption DEF Holder
<1>2. mktb' \in [Holder -> Nat] /\ mktb'[Self] >= mktb[Self]
  <2>1. Transferred(a, h, amount)
    BY DEF Transfer
  <2>2. mktb[Self] \in Nat
    BY <1>1 DEF IInv, TypeOK
  <2>3. CASE h = Self
    BY <1>1, <2>1, <2>2, <2>3, TransferFacts DEF IInv
  <2>4. CASE h # Self
    BY <1>1, <2>1, <2>2, <2>4, TransferFacts DEF IInv
  <2> QED
    BY <2>3, <2>4
<1>3. TypeOK' /\ UNCHANGED staking
  BY <1>2 DEF IInv, TypeOK, Transfer, staking, rewarding, parameters
<1>4. StakeBacked'
  BY <1>1, <1>2, RewardsAssumption DEF IInv, TypeOK, StakeBacked, Transfer, staking, rewarding
<1> QED
  BY <1>3, <1>4 DEF IInv

LEMMA NextIInv ==
    ASSUME IInv, [Next]_vars
    PROVE  IInv'
<1>1. CASE StakerStep
  BY <1>1, StakeIInv, UnstakeIInv DEF StakerStep
<1>2. CASE GovernanceStep
  BY <1>2, SlashIInv, ParametersIInv DEF GovernanceStep
<1>3. CASE AdminStep
  BY <1>3, AdminIInv
<1>4. CASE RewardStep
  BY <1>4, DistributeIInv DEF RewardStep
<1>5. CASE TransferStep
  BY <1>5, TransferIInv DEF TransferStep
<1>6. CASE Tick
  BY <1>6, RewardsAssumption
  DEF Tick, IInv, TypeOK, StakeBacked, staking, rewarding, parameters
<1>7. CASE UNCHANGED vars
  BY <1>7 DEF vars, IInv, TypeOK, StakeBacked, staking, rewarding, parameters
<1> QED
  BY <1>1, <1>2, <1>3, <1>4, <1>5, <1>6, <1>7 DEF Next

\* The inductive invariant.
THEOREM Invariance == Spec => []IInv
<1> QED
  BY InitIInv, NextIInv, PTL DEF Spec

\* Every variable keeps the type that the contract declares: no checked
\* subtraction of a call that succeeds goes below zero.
THEOREM TypeCorrect == Spec => []TypeOK
<1>1. IInv => TypeOK
  BY DEF IInv
<1> QED
  BY <1>1, Invariance, PTL

\* Rewards never come out of stakes, and never exceed the pool.
THEOREM StakesAreBacked == Spec => []StakeBacked
<1>1. IInv => StakeBacked
  BY DEF IInv
<1> QED
  BY <1>1, Invariance, PTL

------------------------------------------------------------------------------
\* What each total of the contract is the sum of.
Accounted ==
    /\ SumFunction(stakes) = totalStaked
    /\ SumFunction(rewardsEarned) = totalDistributed
    /\ SumFunction(mktb) = SumFunction(InitialBalance)

LEMMA FiniteHolders == IsFiniteSet(Account) /\ IsFiniteSet(Holder)
<1>1. IsFiniteSet(Account)
  BY RewardsAssumption
<1> QED
  BY <1>1, FS_AddElement DEF Holder

\* An ERC20 transfer neither makes nor loses tokens.
LEMMA TransferKeepsSupply ==
    ASSUME TypeOK, NEW from \in Holder, NEW to \in Holder, NEW amount \in Nat,
           Transferred(from, to, amount)
    PROVE  SumFunction(mktb') = SumFunction(mktb)
<1>1. mktb \in [Holder -> Int] /\ mktb' \in [Holder -> Int] /\ amount \in Int
  BY DEF TypeOK, Transferred
<1>2. Moved(mktb', mktb, Holder, from, to, amount)
  BY DEF Transferred, Moved
<1>3. IsFiniteSet(Holder)
  BY FiniteHolders
<1> QED
  BY <1>1, <1>2, <1>3, SumOfMove

\* Adding to, or taking from, one account's entry does the same to the sum.
LEMMA EntryChange ==
    ASSUME NEW f \in [Account -> Nat], NEW a \in Account, NEW amount \in Nat
    PROVE  /\ SumFunction([f EXCEPT ![a] = @ + amount]) = SumFunction(f) + amount
           /\ SumFunction([f EXCEPT ![a] = @ - amount]) = SumFunction(f) - amount
<1> DEFINE more == [f EXCEPT ![a] = @ + amount]
           less == [f EXCEPT ![a] = @ - amount]
<1>1. f \in [Account -> Int] /\ amount \in Int /\ -amount \in Int
  OBVIOUS
<1>2. more \in [Account -> Int] /\ Added(more, f, Account, a, amount)
  BY DEF Added
<1>3. less \in [Account -> Int] /\ Added(less, f, Account, a, -amount)
  BY DEF Added
<1> HIDE DEF more, less
<1>4. SumFunction(more) = SumFunction(f) + amount
  BY <1>1, <1>2, FiniteHolders, SumOfDifference
<1>5. SumFunction(less) = SumFunction(f) + (-amount)
  BY <1>1, <1>3, FiniteHolders, SumOfDifference
<1>6. SumFunction(f) \in Int
  BY <1>1, FiniteHolders, SumIsInt
<1>7. SumFunction(less) = SumFunction(f) - amount
  BY <1>5, <1>6
<1> QED
  BY <1>4, <1>7 DEF more, less

LEMMA InitAccounted == Init => Accounted
<1> SUFFICES ASSUME Init PROVE Accounted
  OBVIOUS
<1>1. SumFunction([a \in Account |-> 0]) = 0
  BY FiniteHolders, SumOfZeros
<1> QED
  BY <1>1 DEF Init, Accounted

\* stake, unstake and slash: the entry and the total move by the same amount.
LEMMA StakingAccounted ==
    ASSUME IInv, Accounted, NEW a \in Account, NEW from \in Holder, NEW to \in Holder,
           NEW amount \in Nat, Transferred(from, to, amount), UNCHANGED rewarding,
           \/ /\ stakes' = [stakes EXCEPT ![a] = @ + amount]
              /\ totalStaked' = totalStaked + amount
           \/ /\ stakes' = [stakes EXCEPT ![a] = @ - amount]
              /\ totalStaked' = totalStaked - amount
    PROVE  Accounted'
<1>1. stakes \in [Account -> Nat] /\ TypeOK
  BY DEF IInv, TypeOK
<1>2. SumFunction(mktb') = SumFunction(mktb)
  BY <1>1, TransferKeepsSupply
<1>3. SumFunction(stakes') = totalStaked'
  <2>1. /\ SumFunction([stakes EXCEPT ![a] = @ + amount]) = SumFunction(stakes) + amount
        /\ SumFunction([stakes EXCEPT ![a] = @ - amount]) = SumFunction(stakes) - amount
    BY <1>1, EntryChange
  <2> QED
    BY <2>1 DEF Accounted
<1> QED
  BY <1>2, <1>3 DEF Accounted, rewarding

\* distributeReward: what the executor is credited with is what is counted.
LEMMA RewardAccounted ==
    ASSUME IInv, Accounted, NEW c \in Account, NEW a \in Account, NEW hb,
           DistributeReward(c, a, hb)
    PROVE  Accounted'
<1>1. CappedReward > 0 /\ PayReward(a) /\ UNCHANGED staking
  BY DEF DistributeReward, MayDistribute
<1>2. TypeOK /\ CappedReward \in Nat /\ a \in Holder /\ Self \in Holder
  BY <1>1, RewardFits DEF IInv, Holder
<1>3. SumFunction(mktb') = SumFunction(mktb)
  BY <1>1, <1>2, TransferKeepsSupply DEF PayReward
<1>4. SumFunction(rewardsEarned') = totalDistributed'
  <2>1. /\ rewardsEarned \in [Account -> Nat]
        /\ rewardsEarned' = [rewardsEarned EXCEPT ![a] = @ + CappedReward]
        /\ totalDistributed' = totalDistributed + CappedReward
    BY <1>1, <1>2 DEF PayReward, TypeOK
  <2> HIDE DEF CappedReward
  <2> QED
    BY <1>2, <2>1, EntryChange DEF Accounted
<1> QED
  BY <1>1, <1>3, <1>4 DEF Accounted, staking

LEMMA NextAccounted ==
    ASSUME IInv, Accounted, [Next]_vars
    PROVE  Accounted'
<1>1. Amounts \subseteq Nat /\ Self \in Holder /\ Account \subseteq Holder
  BY RewardsAssumption DEF Holder
<1>2. ASSUME NEW a \in Account, NEW amount \in Amounts, Stake(a, amount) \/ Unstake(a, amount)
      PROVE  Accounted'
  BY <1>1, <1>2, StakingAccounted DEF Stake, Unstake
<1>3. ASSUME NEW g \in Account, NEW a \in Account, NEW amount \in Amounts, Slash(g, a, amount)
      PROVE  Accounted'
  BY <1>1, <1>3, StakingAccounted DEF Slash
<1>4. ASSUME NEW a \in Account, NEW h \in Holder, NEW amount \in Amounts, Transfer(a, h, amount)
      PROVE  Accounted'
  <2>1. SumFunction(mktb') = SumFunction(mktb) /\ UNCHANGED <<staking, rewarding>>
    BY <1>1, <1>4, TransferKeepsSupply DEF Transfer, IInv
  <2> QED
    BY <2>1 DEF Accounted, staking, rewarding
<1>5. CASE UNCHANGED <<mktb, staking, rewarding>>
  BY <1>5 DEF Accounted, staking, rewarding
<1>6. CASE GovernanceStep
  BY <1>3, <1>5, <1>6
  DEF GovernanceStep, SetMinimumStake, SetRewardPerExecution, SetPaused, SetMaktubCore
<1>7. CASE AdminStep \/ Tick \/ UNCHANGED vars
  BY <1>5, <1>7 DEF AdminStep, GrantRole, RevokeRole, RenounceRole, RenounceAdmin, Tick, vars
<1> QED
  BY <1>2, <1>4, <1>6, <1>7, RewardAccounted DEF Next, StakerStep, TransferStep, RewardStep

\* Every stake can be taken out, all of them at once: the balance covers the
\* total, which is the sum of the stakes (stake, unstake, slash).
THEOREM StakesAreWithdrawable == Spec => []StakesWithdrawable
<1>1. IInv /\ Accounted => StakesWithdrawable
  BY DEF IInv, StakeBacked, Accounted, StakesWithdrawable
<1>2. Spec => []Accounted
  BY Invariance, InitAccounted, NextAccounted, PTL DEF Spec
<1> QED
  BY <1>1, <1>2, Invariance, PTL

\* No call makes or loses MKTB, and what the executors have earned adds up to
\* what has been distributed.
THEOREM RewardsAreAccounted == Spec => []RewardsAccounted
<1>1. Accounted => RewardsAccounted
  BY DEF Accounted, RewardsAccounted
<1>2. Spec => []Accounted
  BY Invariance, InitAccounted, NextAccounted, PTL DEF Spec
<1> QED
  BY <1>1, <1>2, PTL

------------------------------------------------------------------------------
\* Only a call that stakes, unstakes or slashes changes a stake or a flag.
LEMMA StakingUnchanged ==
    ASSUME IInv, UNCHANGED staking
    PROVE  LawfulTaking /\ FlagChange
<1>1. \A a \in Account : ~(stakes'[a] < stakes[a])
  BY DEF staking, IInv, TypeOK
<1>2. isActiveExecutor' = isActiveExecutor
  BY DEF staking
<1> QED
  BY <1>1, <1>2, Zenon DEF LawfulTaking, FlagChange

LEMMA StakeRules ==
    ASSUME IInv, NEW a \in Account, NEW amount \in Amounts, Stake(a, amount)
    PROVE  LawfulTaking /\ FlagChange
<1>1. /\ amount \in Nat /\ amount > 0
      /\ stakes \in [Account -> Nat] /\ minimumStake \in Nat
      /\ isActiveExecutor \in [Account -> BOOLEAN]
      /\ stakes' = [stakes EXCEPT ![a] = @ + amount]
      /\ isActiveExecutor' = [isActiveExecutor EXCEPT
                                 ![a] = @ \/ stakes[a] + amount >= minimumStake]
  BY RewardsAssumption DEF IInv, TypeOK, Stake
<1>2. \A b \in Account : ~(stakes'[b] < stakes[b])
  BY <1>1
<1>3. \A b \in Account : b # a => (isActiveExecutor'[b] <=> isActiveExecutor[b])
  BY <1>1, Zenon
<1>4. isActiveExecutor'[a] <=> isActiveExecutor[a] \/ stakes[a] + amount >= minimumStake
  BY <1>1, Zenon
<1>5. stakes'[a] = stakes[a] + amount
  BY <1>1
<1>6. stakes'[a] > stakes[a]
  BY <1>1, <1>5
<1> QED
  BY <1>2, <1>3, <1>4, <1>5, <1>6 DEF LawfulTaking, FlagChange

\* What unstake and slash share.
LEMMA TakeStakeRules ==
    ASSUME IInv, NEW a \in Account, NEW h \in Account, NEW amount \in Amounts,
           h \in roles["GOVERNANCE"] \cup {a}, amount > 0,
           stakes' = [stakes EXCEPT ![a] = @ - amount],
           \A b \in Account : b # a => isActiveExecutor'[b] = isActiveExecutor[b],
           isActiveExecutor'[a] => isActiveExecutor[a],
           Transferred(Self, h, amount)
    PROVE  LawfulTaking /\ FlagChange
<1>1. amount \in Nat /\ h \in Holder /\ Self \in Holder /\ h # Self
  BY RewardsAssumption DEF Holder
<1>2. stakes \in [Account -> Nat] /\ mktb \in [Holder -> Nat]
  BY DEF IInv, TypeOK
<1>3. mktb'[h] = mktb[h] + amount
  BY <1>1, TransferFacts DEF IInv
<1>4. /\ stakes'[a] = stakes[a] - amount
      /\ \A b \in Account : b # a => stakes'[b] = stakes[b]
  BY <1>1, <1>2
<1>5. /\ stakes'[a] < stakes[a]
      /\ mktb'[h] = mktb[h] + stakes[a] - stakes'[a]
      /\ \A b \in Account : stakes'[b] < stakes[b] => b = a
  BY <1>1, <1>2, <1>3, <1>4
<1>6. LawfulTaking
  BY <1>5 DEF LawfulTaking
<1>7. FlagChange
  BY <1>5 DEF FlagChange
<1> QED
  BY <1>6, <1>7

LEMMA UnstakeRules ==
    ASSUME IInv, NEW a \in Account, NEW amount \in Amounts, Unstake(a, amount)
    PROVE  LawfulTaking /\ FlagChange
<1>1. isActiveExecutor \in [Account -> BOOLEAN]
  BY DEF IInv, TypeOK
<1>2. /\ \A b \in Account : b # a => isActiveExecutor'[b] = isActiveExecutor[b]
      /\ isActiveExecutor'[a] => isActiveExecutor[a]
  BY <1>1, Zenon DEF Unstake
<1> QED
  BY <1>2, TakeStakeRules DEF Unstake

LEMMA SlashRules ==
    ASSUME IInv, NEW g \in Account, NEW a \in Account, NEW amount \in Amounts,
           Slash(g, a, amount)
    PROVE  LawfulTaking /\ FlagChange
<1>1. isActiveExecutor \in [Account -> BOOLEAN]
  BY DEF IInv, TypeOK
<1>2. /\ \A b \in Account : b # a => isActiveExecutor'[b] = isActiveExecutor[b]
      /\ isActiveExecutor'[a] => isActiveExecutor[a]
  BY <1>1, Zenon DEF Slash
<1> QED
  BY <1>2, TakeStakeRules DEF Slash, HasRole

LEMMA NextRules ==
    ASSUME IInv, [Next]_vars
    PROVE  [LawfulTaking /\ FlagChange]_vars
<1>1. CASE StakerStep
  BY <1>1, StakeRules, UnstakeRules DEF StakerStep
<1>2. CASE GovernanceStep
  BY <1>2, SlashRules, ParametersIInv, StakingUnchanged DEF GovernanceStep
<1>3. CASE AdminStep
  BY <1>3, AdminIInv, StakingUnchanged
<1>4. CASE RewardStep
  BY <1>4, StakingUnchanged DEF RewardStep, DistributeReward
<1>5. CASE TransferStep
  BY <1>5, TransferIInv, StakingUnchanged DEF TransferStep
<1>6. CASE Tick
  BY <1>6, StakingUnchanged DEF Tick
<1> QED
  BY <1>1, <1>2, <1>3, <1>4, <1>5, <1>6 DEF Next

\* Nobody's stake can be taken except by its owner or by governance, which get
\* exactly what was taken (unstake and slash).
THEOREM StakeIsLawful == Spec => StakeLeavesLawfully
<1>1. IInv /\ [Next]_vars => [LawfulTaking]_vars
  BY NextRules
<1> QED
  BY <1>1, Invariance, PTL DEF Spec, StakeLeavesLawfully

\* The flag that opens MaktubCore.execute changes with the stake and not otherwise.
THEOREM ActivityIsEarned == Spec => ActivityFollowsStake
<1>1. IInv /\ [Next]_vars => [FlagChange]_vars
  BY NextRules
<1> QED
  BY <1>1, Invariance, PTL DEF Spec, ActivityFollowsStake
==============================================================================
