------------------------ MODULE ExecutorStakingProofs ------------------------
(***************************************************************************)
(* What the node sends as a stake is covered, for every balance, minimum,  *)
(* environment and number of faults.  A boot or a restake that found no    *)
(* transaction on the way is the only sender until it ends, so the queue   *)
(* holds at most its own approval, nothing takes tokens from the wallet,   *)
(* and nothing uses the allowance up.                                      *)
(***************************************************************************)
EXTENDS ExecutorStaking, TLAPS

\* The integers the decisions compare.
ChainTypes ==
    /\ mktb \in [REWARDS!Holder -> Int]
    /\ stakes \in [{bot, Funder, Timelock} -> Int]
    /\ minimumStake \in Int
    /\ allowance \in Int
    /\ pending \in Seq({"approve", "stake"} \X Int)

NumberField == {"balance", "staked", "minimum"}

NodeTypes ==
    /\ amount \in Int
    /\ DOMAIN snap \subseteq Field
    /\ \A f \in NumberField \cap DOMAIN snap : snap[f] \in Int
    /\ pc = "connect" => snap = Unread

\* A boot or a restake that began with an empty queue.
OnlySender ==
    /\ pc \in {"snapshot", "allowance", "approve", "stake"} => pending = <<>>
    /\ pc = "snapshot" /\ "balance" \in DOMAIN snap => mktb[bot] >= snap["balance"]
    /\ pc \in {"allowance", "approve", "waitApprove", "stake"} => mktb[bot] >= amount
    /\ pc = "waitApprove" =>
          \/ pending = << <<"approve", amount>> >>
          \/ pending = <<>> /\ allowance >= amount
    /\ pc = "stake" => allowance >= amount

StakingIInv == ChainTypes /\ NodeTypes /\ (~inherited => OnlySender)

LEMMA Wallets ==
    /\ bot \in REWARDS!Holder /\ Self \in REWARDS!Holder
    /\ Funder \in REWARDS!Holder /\ Timelock \in REWARDS!Holder
    /\ bot \notin {Funder, Timelock, Self}
    /\ REWARDS!Holder = {bot, Funder, Timelock, Self}
BY StakingAssumption DEF REWARDS!Holder

LEMMA InitStaking == Init => StakingIInv
<1> SUFFICES ASSUME Init PROVE StakingIInv
  OBVIOUS
<1>1. ChainTypes
  BY StakingAssumption, Wallets DEF Init, REWARDS!Init, ChainTypes
<1>2. NodeTypes
  BY DEF Init, Unread, NodeTypes
<1>3. OnlySender
  BY DEF Init, OnlySender
<1> QED
  BY <1>1, <1>2, <1>3 DEF StakingIInv

(* -------------------------------- The node ------------------------------ *)

\* Of the chain, what the node's own steps leave alone.
ChainSame == UNCHANGED <<mktb, stakes, minimumStake, allowance, pending>>

LEMMA NodeOnlyKeepsChain == NodeOnly => ChainSame
BY DEF NodeOnly, ChainSame, chainVars, txVars

LEMMA ChainTypesSame ==
    ASSUME ChainTypes, ChainSame
    PROVE  ChainTypes'
BY DEF ChainTypes, ChainSame

\* Reading one field more, as the chain has it now.
LEMMA ReadStaking ==
    ASSUME StakingIInv, Read
    PROVE  StakingIInv'
<1>1. PICK f \in Field \ DOMAIN snap :
          snap' = [g \in DOMAIN snap \cup {f} |-> IF g = f THEN OnChain[f] ELSE snap[g]]
  BY DEF Read
<1>2. ChainSame /\ UNCHANGED <<pc, amount, inherited>> /\ pc = "snapshot"
  BY NodeOnlyKeepsChain DEF Read
<1>3. ChainTypes /\ NodeTypes /\ (~inherited => OnlySender)
  BY DEF StakingIInv
<1>4. /\ OnChain["balance"] = mktb[bot] /\ OnChain["balance"] \in Int
      /\ OnChain["staked"] \in Int /\ OnChain["minimum"] \in Int
  BY <1>3, Wallets DEF OnChain, ChainTypes
<1>5. DOMAIN snap' = DOMAIN snap \cup {f}
  BY <1>1
<1>6. NodeTypes'
  <2>1. ASSUME NEW g \in NumberField, g \in DOMAIN snap'
        PROVE  snap'[g] \in Int
    <3>1. CASE g = f
      BY <1>1, <1>4, <2>1, <3>1 DEF NumberField
    <3>2. CASE g # f
      BY <1>1, <1>3, <1>5, <2>1, <3>2 DEF NodeTypes
    <3> QED
      BY <3>1, <3>2
  <2> QED
    BY <1>2, <1>3, <1>5, <2>1 DEF NodeTypes
<1>7. ASSUME ~inherited'
      PROVE  OnlySender'
  <2>1. ASSUME "balance" \in DOMAIN snap'
        PROVE  mktb[bot] >= snap'["balance"]
    <3>1. CASE f = "balance"
      BY <1>1, <1>4, <3>1
    <3>2. CASE f # "balance"
      BY <1>1, <1>2, <1>3, <1>5, <1>7, <2>1, <3>2 DEF OnlySender
    <3> QED
      BY <3>1, <3>2
  <2> QED
    BY <1>2, <1>3, <1>7, <2>1 DEF OnlySender, ChainSame
<1> QED
  BY <1>2, <1>3, <1>6, <1>7, ChainTypesSame DEF StakingIInv

\* What it decides to stake it holds, as far as a snapshot of its own can tell.
LEMMA DecidesStaking ==
    ASSUME StakingIInv, DecidesToStake
    PROVE  StakingIInv'
<1>1. /\ pc = "snapshot" /\ pc' = "allowance" /\ DOMAIN snap = Field
      /\ snap["balance"] >= Shortfall /\ amount' = Shortfall
      /\ UNCHANGED <<snap, inherited>>
  BY DEF DecidesToStake, HasSnapshot, Goto
<1>2. ChainSame
  BY NodeOnlyKeepsChain DEF DecidesToStake
<1>3. ChainTypes /\ NodeTypes /\ (~inherited => OnlySender)
  BY DEF StakingIInv
<1>4. /\ snap["balance"] \in Int /\ snap["staked"] \in Int /\ snap["minimum"] \in Int
  BY <1>1, <1>3 DEF NodeTypes, NumberField, Field
<1>5. Shortfall \in Int
  BY <1>4 DEF Shortfall
<1>6. NodeTypes'
  BY <1>1, <1>3, <1>5 DEF NodeTypes
<1>7. ASSUME ~inherited'
      PROVE  OnlySender'
  <2>1. pending = <<>> /\ mktb[bot] >= snap["balance"] /\ mktb[bot] \in Int
    BY <1>1, <1>3, <1>7, Wallets DEF OnlySender, Field, ChainTypes
  <2>2. mktb[bot] >= Shortfall
    BY <1>1, <1>4, <1>5, <2>1
  <2> QED
    BY <1>1, <1>2, <2>1, <2>2 DEF OnlySender, ChainSame
<1> QED
  BY <1>2, <1>3, <1>6, <1>7, ChainTypesSame DEF StakingIInv

LEMMA ReadAllowanceStaking ==
    ASSUME StakingIInv, ReadAllowance
    PROVE  StakingIInv'
<1>1. /\ pc = "allowance"
      /\ pc' = IF allowance < amount THEN "approve" ELSE "stake"
      /\ UNCHANGED <<snap, amount, inherited>>
  BY DEF ReadAllowance, Goto
<1>2. ChainSame
  BY NodeOnlyKeepsChain DEF ReadAllowance
<1>3. ChainTypes /\ NodeTypes /\ (~inherited => OnlySender)
  BY DEF StakingIInv
<1>4. NodeTypes' /\ allowance \in Int /\ amount \in Int
  BY <1>1, <1>3 DEF NodeTypes, ChainTypes
<1>5. ASSUME ~inherited'
      PROVE  OnlySender'
  BY <1>1, <1>2, <1>3, <1>4, <1>5 DEF OnlySender, ChainSame
<1> QED
  BY <1>2, <1>3, <1>4, <1>5, ChainTypesSame DEF StakingIInv

\* What joins the queue when the node sends, or may have sent.
LEMMA SentTypes ==
    ASSUME ChainTypes, NodeTypes, pc \in {"approve", "stake"}
    PROVE  Append(pending, <<pc, amount>>) \in Seq({"approve", "stake"} \X Int)
BY DEF ChainTypes, NodeTypes

LEMMA SendStaking ==
    ASSUME StakingIInv, Send
    PROVE  StakingIInv'
<1>1. /\ pc \in {"approve", "stake"}
      /\ pending' = Append(pending, <<pc, amount>>)
      /\ pc' = IF pc = "approve" THEN "waitApprove" ELSE "waitStake"
      /\ UNCHANGED <<mktb, stakes, minimumStake, allowance, snap, amount, inherited>>
  BY DEF Send, Goto, chainVars
<1>2. ChainTypes /\ NodeTypes /\ (~inherited => OnlySender)
  BY DEF StakingIInv
<1>3. ChainTypes' /\ NodeTypes'
  BY <1>1, <1>2, SentTypes DEF ChainTypes, NodeTypes
<1>4. ASSUME ~inherited'
      PROVE  OnlySender'
  <2>1. pending = <<>> /\ mktb[bot] >= amount
    BY <1>1, <1>2, <1>4 DEF OnlySender
  <2>2. pending' = << <<pc, amount>> >>
    BY <1>1, <2>1
  <2> QED
    BY <1>1, <2>1, <2>2 DEF OnlySender
<1> QED
  BY <1>3, <1>4 DEF StakingIInv

LEMMA WaitReturnsStaking ==
    ASSUME StakingIInv, WaitReturns
    PROVE  StakingIInv'
<1>1. /\ pc \in {"waitApprove", "waitStake"} /\ pending = <<>>
      /\ pc' \in {"stake", "after", "running", "down", "stopped"}
      /\ pc' = "stake" => pc = "waitApprove"
      /\ UNCHANGED <<snap, amount, inherited>>
  BY DEF WaitReturns, Goto, Leave, Exits
<1>2. ChainSame
  BY NodeOnlyKeepsChain DEF WaitReturns
<1>3. ChainTypes /\ NodeTypes /\ (~inherited => OnlySender)
  BY DEF StakingIInv
<1>4. NodeTypes'
  BY <1>1, <1>3 DEF NodeTypes
<1>5. ASSUME ~inherited'
      PROVE  OnlySender'
  BY <1>1, <1>2, <1>3, <1>5 DEF OnlySender, ChainSame
<1> QED
  BY <1>2, <1>3, <1>4, <1>5, ChainTypesSame DEF StakingIInv

\* Where the node is not between its snapshot and its stake.
Outside == {"stopped", "down", "connect", "after", "schedule", "running", "waitStake"}

LEMMA OutsideStaking ==
    ASSUME ChainTypes', NodeTypes', pc' \in Outside
    PROVE  StakingIInv'
BY DEF StakingIInv, OnlySender, Outside

LEMMA LeaveGoesOutside ==
    ASSUME Leave
    PROVE  pc' \in Outside \ {"connect"}
BY DEF Leave, Exits, Goto, Outside

LEMMA ConnectStaking ==
    ASSUME StakingIInv, Connect
    PROVE  StakingIInv'
<1>1. /\ pc = "connect" /\ pc' \in {"snapshot", "down", "stopped"}
      /\ inherited' = (pending # <<>>)
      /\ UNCHANGED <<snap, amount>>
  BY DEF Connect, Goto, Exits
<1>2. ChainSame
  BY NodeOnlyKeepsChain DEF Connect
<1>3. ChainTypes /\ NodeTypes
  BY DEF StakingIInv
<1>4. NodeTypes' /\ DOMAIN snap' = {}
  BY <1>1, <1>3 DEF NodeTypes, Unread
<1>5. ASSUME ~inherited'
      PROVE  OnlySender'
  BY <1>1, <1>2, <1>4, <1>5 DEF OnlySender, ChainSame
<1> QED
  BY <1>2, <1>3, <1>4, <1>5, ChainTypesSame DEF StakingIInv

LEMMA BeginRestakeStaking ==
    ASSUME StakingIInv, BeginRestake
    PROVE  StakingIInv'
<1>1. /\ pc' = "snapshot" /\ snap' = Unread
      /\ inherited' = (pending # <<>>)
      /\ UNCHANGED amount
  BY DEF BeginRestake, Goto
<1>2. ChainSame
  BY NodeOnlyKeepsChain DEF BeginRestake
<1>3. ChainTypes /\ NodeTypes
  BY DEF StakingIInv
<1>4. NodeTypes' /\ DOMAIN snap' = {}
  BY <1>1, <1>3 DEF NodeTypes, Unread
<1>5. ASSUME ~inherited'
      PROVE  OnlySender'
  BY <1>1, <1>2, <1>4, <1>5 DEF OnlySender, ChainSame
<1> QED
  BY <1>2, <1>3, <1>4, <1>5, ChainTypesSame DEF StakingIInv

\* The steps that end outside and touch neither the chain nor what was decided.
LEMMA LeavingStaking ==
    ASSUME StakingIInv,
           AlreadyActive \/ StakesNothing \/ After \/ Schedule \/ Start \/ Crash \/ Shutdown
    PROVE  StakingIInv'
<1>1. ChainSame /\ UNCHANGED <<snap, amount>>
  BY NodeOnlyKeepsChain
  DEF AlreadyActive, StakesNothing, After, Schedule, Start, Crash, Shutdown, Operate,
      ChainSame, chainVars, txVars
<1>2. pc' \in Outside \ {"connect"}
  BY LeaveGoesOutside
  DEF AlreadyActive, StakesNothing, After, Schedule, Start, Crash, Shutdown, Operate,
      Goto, Exits, Outside
<1>3. ChainTypes /\ NodeTypes
  BY DEF StakingIInv
<1>4. ChainTypes' /\ NodeTypes'
  BY <1>1, <1>2, <1>3, ChainTypesSame DEF NodeTypes
<1> QED
  BY <1>2, <1>4, OutsideStaking

LEMMA BootStaking ==
    ASSUME StakingIInv, Restart \/ Status
    PROVE  StakingIInv'
<1>1. /\ ChainSame
      /\ pc' = "connect" /\ snap' = Unread /\ UNCHANGED amount
  BY NodeOnlyKeepsChain
  DEF Restart, Status, Operate, Boot, Goto, ChainSame, chainVars, txVars
<1>2. ChainTypes /\ NodeTypes
  BY DEF StakingIInv
<1>3. ChainTypes' /\ NodeTypes'
  BY <1>1, <1>2, ChainTypesSame DEF NodeTypes, Unread
<1> QED
  BY <1>1, <1>3, OutsideStaking DEF Outside

\* A failing call leaves a transaction behind, perhaps, and the node goes.
LEMMA CallFailsStaking ==
    ASSUME StakingIInv, CallFails
    PROVE  StakingIInv'
<1>1. /\ UNCHANGED <<mktb, stakes, minimumStake, allowance, snap, amount>>
      /\ pending' \in {pending} \cup
            (IF pc \in {"approve", "stake"} THEN {Append(pending, <<pc, amount>>)} ELSE {})
      /\ pc' \in Outside \ {"connect"}
  BY LeaveGoesOutside DEF CallFails, chainVars
<1>2. ChainTypes /\ NodeTypes
  BY DEF StakingIInv
<1>3. pending' \in Seq({"approve", "stake"} \X Int)
  BY <1>1, <1>2, SentTypes DEF ChainTypes
<1>4. ChainTypes' /\ NodeTypes'
  BY <1>1, <1>2, <1>3 DEF ChainTypes, NodeTypes
<1> QED
  BY <1>1, <1>4, OutsideStaking

(* ------------------------------- The chain ------------------------------ *)

LEMMA TransferStaking ==
    ASSUME ChainTypes, NEW from \in REWARDS!Holder, NEW to \in REWARDS!Holder, NEW n \in Int,
           REWARDS!Transferred(from, to, n)
    PROVE  /\ mktb' \in [REWARDS!Holder -> Int]
           /\ n >= 0 /\ from # bot => mktb'[bot] >= mktb[bot]
<1>1. mktb \in [REWARDS!Holder -> Int]
  BY DEF ChainTypes
<1>2. mktb' = [h \in REWARDS!Holder |->
          mktb[h] + (IF h = to THEN n ELSE 0) - (IF h = from THEN n ELSE 0)]
  BY DEF REWARDS!Transferred
<1> QED
  BY <1>1, <1>2, Wallets

\* A transaction that neither takes the wallet's tokens nor touches its
\* allowance and its queue.
LEMMA MoveStaking ==
    ASSUME StakingIInv, SetMinimumStake \/ Slash \/ Fund
    PROVE  StakingIInv'
<1>1. ChainTypes /\ NodeTypes /\ (~inherited => OnlySender)
  BY DEF StakingIInv
<1>2. UNCHANGED <<allowance, pending, pc, snap, amount, inherited>>
  BY DEF SetMinimumStake, Slash, Fund, Move, txVars, nodeVars
<1>3. /\ mktb' \in [REWARDS!Holder -> Int] /\ mktb'[bot] >= mktb[bot]
      /\ stakes' \in [{bot, Funder, Timelock} -> Int] /\ minimumStake' \in Int
  <2>1. CASE SetMinimumStake
    BY <1>1, <2>1, StakingAssumption, Wallets
    DEF SetMinimumStake, Move, REWARDS!SetMinimumStake, REWARDS!staking, ChainTypes
  <2>2. CASE Slash
    <3>1. PICK n \in Amounts : REWARDS!Slash(Timelock, bot, n)
      BY <2>2 DEF Slash, Move
    <3>2. /\ REWARDS!Transferred(Self, Timelock, n)
          /\ stakes' = [stakes EXCEPT ![bot] = @ - n]
          /\ minimumStake' = minimumStake
      BY <3>1 DEF REWARDS!Slash, REWARDS!parameters
    <3>3. n \in Int /\ n >= 0
      BY StakingAssumption
    <3>4. stakes' \in [{bot, Funder, Timelock} -> Int]
      BY <1>1, <3>2, <3>3 DEF ChainTypes
    <3>5. mktb' \in [REWARDS!Holder -> Int] /\ mktb'[bot] >= mktb[bot]
      BY <1>1, <3>2, <3>3, Wallets, TransferStaking
    <3> QED
      BY <1>1, <3>2, <3>4, <3>5 DEF ChainTypes
  <2>3. CASE Fund
    <3>1. PICK n \in Amounts : REWARDS!Transfer(Funder, bot, n)
      BY <2>3 DEF Fund, Move
    <3>2. REWARDS!Transferred(Funder, bot, n) /\ UNCHANGED <<stakes, minimumStake>>
      BY <3>1 DEF REWARDS!Transfer, REWARDS!parameters, REWARDS!staking
    <3>3. n \in Int /\ n >= 0
      BY StakingAssumption
    <3>4. mktb' \in [REWARDS!Holder -> Int] /\ mktb'[bot] >= mktb[bot]
      BY <1>1, <3>2, <3>3, Wallets, TransferStaking
    <3> QED
      BY <1>1, <3>2, <3>4 DEF ChainTypes
  <2> QED
    BY <2>1, <2>2, <2>3
<1>4. ChainTypes' /\ NodeTypes'
  BY <1>1, <1>2, <1>3 DEF ChainTypes, NodeTypes
<1>5. ASSUME ~inherited'
      PROVE  OnlySender'
  <2>1. mktb[bot] \in Int /\ mktb'[bot] \in Int /\ amount \in Int
    BY <1>1, <1>3, Wallets DEF ChainTypes, NodeTypes
  <2>2. "balance" \in DOMAIN snap => snap["balance"] \in Int
    BY <1>1 DEF NodeTypes, NumberField
  <2> QED
    BY <1>1, <1>2, <1>3, <1>5, <2>1, <2>2 DEF OnlySender
<1> QED
  BY <1>4, <1>5 DEF StakingIInv

LEMMA HeadTypes ==
    ASSUME ChainTypes, pending # <<>>
    PROVE  /\ Head(pending) \in {"approve", "stake"} \X Int
           /\ Tail(pending) \in Seq({"approve", "stake"} \X Int)
BY DEF ChainTypes

LEMMA MineApproveStaking ==
    ASSUME StakingIInv, MineApprove
    PROVE  StakingIInv'
<1>1. /\ pending # <<>> /\ Head(pending)[1] = "approve"
      /\ allowance' = Head(pending)[2] /\ pending' = Tail(pending)
      /\ UNCHANGED <<mktb, stakes, minimumStake, pc, snap, amount, inherited>>
  BY DEF MineApprove, chainVars, nodeVars
<1>2. ChainTypes /\ NodeTypes /\ (~inherited => OnlySender)
  BY DEF StakingIInv
<1>3. ChainTypes' /\ NodeTypes'
  BY <1>1, <1>2, HeadTypes DEF ChainTypes, NodeTypes
<1>4. ASSUME ~inherited'
      PROVE  OnlySender'
  <2>1. pc \notin {"snapshot", "allowance", "approve", "stake"}
    BY <1>1, <1>2, <1>4 DEF OnlySender
  <2>2. ASSUME pc = "waitApprove"
        PROVE  pending' = <<>> /\ allowance' = amount
    <3>1. pending = << <<"approve", amount>> >>
      BY <1>1, <1>2, <1>4, <2>2 DEF OnlySender
    <3> QED
      BY <1>1, <3>1
  <2>3. amount \in Int
    BY <1>2 DEF NodeTypes
  <2> QED
    BY <1>1, <1>2, <1>4, <2>1, <2>2, <2>3 DEF OnlySender
<1> QED
  BY <1>3, <1>4 DEF StakingIInv

LEMMA MineStakeStaking ==
    ASSUME StakingIInv, MineStake
    PROVE  StakingIInv'
<1> DEFINE x == Head(pending)[2]
<1>1. /\ pending # <<>> /\ Head(pending)[1] = "stake"
      /\ pending' = Tail(pending)
      /\ UNCHANGED <<pc, snap, amount, inherited>>
  BY DEF MineStake, nodeVars
<1>2. ChainTypes /\ NodeTypes /\ (~inherited => OnlySender)
  BY DEF StakingIInv
<1>3. x \in Int /\ pending' \in Seq({"approve", "stake"} \X Int)
  BY <1>1, <1>2, HeadTypes
<1>4. \/ REWARDS!Stake(bot, x) /\ allowance' = allowance - x
      \/ UNCHANGED <<mktb, stakes, minimumStake, allowance>>
  BY DEF MineStake, chainVars
<1> HIDE DEF x
<1>5. /\ mktb' \in [REWARDS!Holder -> Int] /\ allowance' \in Int
      /\ stakes' \in [{bot, Funder, Timelock} -> Int] /\ minimumStake' \in Int
  <2>1. CASE REWARDS!Stake(bot, x) /\ allowance' = allowance - x
    <3>1. /\ REWARDS!Transferred(bot, Self, x)
          /\ stakes' = [stakes EXCEPT ![bot] = @ + x]
          /\ minimumStake' = minimumStake
      BY <2>1 DEF REWARDS!Stake, REWARDS!parameters
    <3>2. stakes' \in [{bot, Funder, Timelock} -> Int]
      BY <1>2, <1>3, <3>1 DEF ChainTypes
    <3>3. mktb' \in [REWARDS!Holder -> Int]
      BY <1>2, <1>3, <3>1, Wallets, TransferStaking
    <3> QED
      BY <1>2, <1>3, <2>1, <3>1, <3>2, <3>3 DEF ChainTypes
  <2>2. CASE UNCHANGED <<mktb, stakes, minimumStake, allowance>>
    BY <1>2, <2>2 DEF ChainTypes
  <2> QED
    BY <1>4, <2>1, <2>2
<1>6. ChainTypes' /\ NodeTypes'
  BY <1>1, <1>2, <1>3, <1>5 DEF ChainTypes, NodeTypes
<1>7. ASSUME ~inherited'
      PROVE  OnlySender'
  <2>1. pc \notin {"snapshot", "allowance", "approve", "stake"}
    BY <1>1, <1>2, <1>7 DEF OnlySender
  <2>2. pc # "waitApprove"
    <3>1. ASSUME pc = "waitApprove"
          PROVE  FALSE
      <4>1. pending = << <<"approve", amount>> >>
        BY <1>1, <1>2, <1>7, <3>1 DEF OnlySender
      <4> QED
        BY <1>1, <4>1
    <3> QED
      BY <3>1
  <2> QED
    BY <1>1, <2>1, <2>2 DEF OnlySender
<1> QED
  BY <1>6, <1>7 DEF StakingIInv

(* ------------------------------- Together ------------------------------- *)

LEMMA NextStaking ==
    ASSUME StakingIInv, [Next]_vars
    PROVE  StakingIInv'
<1>1. CASE NodeStep
  BY <1>1, ReadStaking, DecidesStaking, ReadAllowanceStaking, SendStaking,
     WaitReturnsStaking, ConnectStaking, LeavingStaking, BootStaking
  DEF NodeStep
<1>2. CASE BeginRestake
  BY <1>2, BeginRestakeStaking
<1>3. CASE CallFails
  BY <1>3, CallFailsStaking
<1>4. CASE Crash \/ Start \/ Shutdown
  BY <1>4, LeavingStaking
<1>5. CASE Status
  BY <1>5, BootStaking
<1>6. CASE MineApprove \/ MineStake
  BY <1>6, MineApproveStaking, MineStakeStaking
<1>7. CASE SetMinimumStake \/ Slash \/ Fund
  BY <1>7, MoveStaking
<1>8. CASE UNCHANGED vars
  <2>1. UNCHANGED <<mktb, stakes, minimumStake, allowance, pending, amount, snap, pc, inherited>>
    BY <1>8 DEF vars, chainVars, txVars, nodeVars
  <2> QED
    BY <2>1 DEF StakingIInv, ChainTypes, NodeTypes, OnlySender
<1> QED
  BY <1>1, <1>2, <1>3, <1>4, <1>5, <1>6, <1>7, <1>8 DEF Next

\* The inductive invariant.
THEOREM StakingInvariance == Spec => []StakingIInv
<1> QED
  BY InitStaking, NextStaking, PTL DEF Spec

\* A stake the node sends is covered by its tokens and by its allowance, for
\* every environment, every balance and minimum, and any number of crashes,
\* failing calls and moves of governance, unless a transaction was on the way
\* when its snapshot began (staking.js:118-127, 155-160).
THEOREM SentStakeIsCovered == Spec => []StakeIsCovered
<1>1. StakingIInv => StakeIsCovered
  BY DEF StakingIInv, OnlySender, StakeIsCovered, Covered
<1> QED
  BY <1>1, StakingInvariance, PTL
=============================================================================
