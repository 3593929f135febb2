--------------------------- MODULE ExecutorStaking ----------------------------
(***************************************************************************)
(* The executor node's staking (executor/src/staking.js, config.js and     *)
(* main in index.js) as a client of the ExecutorRewards contract.          *)
(*                                                                         *)
(* At the boot the node loads its configuration from the environment,      *)
(* checks the chain, reads a snapshot, stakes what is missing to the       *)
(* minimum and exits unless it is active; start.sh starts it again after   *)
(* every failure.  A status run (--status) goes the same way and exits.    *)
(* While it runs the node may stake what it has earned.  The reads of a snapshot *)
(* are separate calls (Promise.all), and between any two awaits governance *)
(* may move the minimum or slash, tokens may arrive, and the process may   *)
(* die with transactions pending, which land all the same.                 *)
(***************************************************************************)
EXTENDS Integers, Sequences, Functions

CONSTANTS
    bot,                \* the wallet of the node
    Funder,             \* an account tokens come from, rewards included
    Timelock, Self, NoCore,
    InitialMinimumStake, InitialBalance, Amounts,
    Environments,       \* what .env and the RPC behind it may say
    MaxMoves,           \* bound on what governance, the funder and the operator do
    MaxFaults           \* bound on crashes and failing calls

ASSUME StakingAssumption ==
    /\ bot \notin {Funder, Timelock} /\ Self \notin {bot, Funder, Timelock}
    /\ InitialMinimumStake \in Nat /\ Amounts \subseteq Nat
    /\ InitialBalance \in [{bot, Funder, Timelock, Self} -> Nat]

VARIABLES
    mktb, stakes, totalStaked, isActiveExecutor, minimumStake,
    now, rewardPerExecution, totalDistributed, rewardsEarned, paused, maktubCore, roles,
    allowance,          \* MktbToken.allowance(bot, ExecutorRewards)
    pending,            \* the transactions sent and not mined, by nonce
    lastMined,          \* how the last one ended: TRUE, or FALSE if reverted
    env,                \* the environment of this node
    pc, task,           \* where the node is; what it is staking for
    snap,               \* what it has read
    amount,             \* what it is going to stake
    inherited,          \* the snapshot began with transactions on the way
    moves, faults

REWARDS == INSTANCE ExecutorRewards WITH
    Account <- {bot, Funder, Timelock}, Deployer <- Funder, Core <- {},
    TOTAL_REWARD_POOL <- 0, HALVING_PERIOD <- 1, TOTAL_PERIODS <- 0,
    MIN_HEARTBEAT_AGE <- 0, MIN_CHECKINS_FOR_REWARD <- 0, InitialReward <- 0,
    Grantees <- [r \in {"ADMIN", "GOVERNANCE", "CORE"} |-> {}], MaxNow <- 0

chainVars == <<mktb, stakes, totalStaked, isActiveExecutor, minimumStake, now,
               rewardPerExecution, totalDistributed, rewardsEarned, paused,
               maktubCore, roles>>
txVars == <<allowance, pending, lastMined>>
nodeVars == <<env, pc, task, snap, amount, inherited>>
vars == <<chainVars, txVars, nodeVars, moves, faults>>

\* The fields of a snapshot that decide anything; the others are printed.
Field == {"balance", "staked", "active", "minimum"}
OnChain == [balance |-> mktb[bot], staked |-> stakes[bot],
            active |-> isActiveExecutor[bot], minimum |-> minimumStake]
Unread == [f \in {} |-> 0]

Init ==
    /\ REWARDS!Init
    /\ allowance = 0 /\ pending = <<>> /\ lastMined = TRUE
    /\ env \in Environments
    /\ pc = "stopped" /\ task = "start" /\ snap = Unread /\ amount = 0 /\ inherited = FALSE
    /\ moves = 0 /\ faults = 0

-------------------------------------------------------------------------------
(***************************************************************************)
(* The configuration                                                       *)
(***************************************************************************)
\* A deployment is known by its chain, and the one of base has no addresses yet.
DEPLOYMENTS == [baseSepolia |-> 84532, base |-> 8453, localhost |-> 31337]
Deployed == {"baseSepolia", "localhost"}

bool(v, fallback) == IF v = "" THEN fallback ELSE v \in {"true", "True", "TRUE", "1"}

\* v.text tells nothing, words or a number; times are in half milliseconds.
num(v, fallback) == IF v.text = "number" THEN v.halfMs ELSE fallback

\* The length a key has once its 0x is there, if any key is given.
normalizePrivateKey(key) == IF key.given THEN 2 + key.digits ELSE 0

\* The block the scan starts at, which no part of the staking reads, is left to
\* ExecutorNode (StartBlocks).
load(e) ==
    LET chainId == DEPLOYMENTS[e.network]
    IN  IF /\ e.network \in DOMAIN DEPLOYMENTS
           /\ normalizePrivateKey(e.key) = 66
           /\ e.network = "base" => e.network \in Deployed
        THEN [ok |-> TRUE, chainId |-> chainId,
              pollIntervalMs |-> num(e.poll, 120000),
              autoStake |-> bool(e.autoStake, TRUE),
              autoRestake |-> bool(e.autoRestake, FALSE)]
        ELSE [ok |-> FALSE]

\* addrHash % BigInt(cfg.pollIntervalMs) takes a whole number, and not zero.
Schedulable(cfg) == cfg.pollIntervalMs # 0 /\ cfg.pollIntervalMs % 2 = 0

-------------------------------------------------------------------------------
(***************************************************************************)
(* The node                                                                *)
(***************************************************************************)
Goto(label) == pc' = label
NodeOnly == UNCHANGED <<env, chainVars, txVars, moves, faults>>

\* start.sh starts a node again that exits with an error, and nobody a status run.
Exits == Goto(IF task = "status" THEN "stopped" ELSE "down")

\* A thrown error or an inactive return ends a boot; a failed restake is
\* logged by the tick, which goes on.
Leave == IF task = "restake" THEN Goto("running") ELSE Exits

Boot(t) ==
    /\ load(env).ok
    /\ Goto("connect") /\ task' = t /\ snap' = Unread
    /\ UNCHANGED <<amount, inherited>>

\* start.sh; a configuration that cannot be loaded fails at every turn of its loop.
Start ==
    /\ pc = "stopped" /\ Goto("down")
    /\ UNCHANGED <<task, snap, amount, inherited>> /\ NodeOnly

Restart == pc = "down" /\ Boot("start") /\ NodeOnly

Connect ==
    /\ pc = "connect"
    /\ IF env.rpcChainId = load(env).chainId THEN Goto("snapshot") ELSE Exits
    /\ inherited' = (pending # <<>>)
    /\ UNCHANGED <<task, snap, amount>> /\ NodeOnly

\* In a tick, after the batch (index.js:176).
BeginRestake ==
    /\ pc = "running" /\ load(env).autoRestake
    /\ Goto("snapshot") /\ task' = "restake" /\ snap' = Unread
    /\ inherited' = (pending # <<>>)
    /\ UNCHANGED amount /\ NodeOnly

Read ==
    /\ pc = "snapshot"
    /\ \E f \in Field \ DOMAIN snap :
          snap' = [g \in DOMAIN snap \cup {f} |-> IF g = f THEN OnChain[f] ELSE snap[g]]
    /\ UNCHANGED <<pc, task, amount, inherited>> /\ NodeOnly

HasSnapshot == pc = "snapshot" /\ DOMAIN snap = Field

\* Mutant of Shortfall: what is staked already is not taken off.
WholeMinimum == IF task = "restake" THEN snap.balance ELSE snap.minimum

\* ensureStaked, and restakeRewards with everything it holds for a shortfall.
Shortfall == IF task = "restake" THEN snap.balance ELSE snap.minimum - snap.staked

Booting == task # "restake"

AlreadyActive ==
    /\ HasSnapshot /\ Booting /\ snap.active
    /\ Goto("schedule")
    /\ UNCHANGED <<task, snap, amount, inherited>> /\ NodeOnly

\* Refused, nothing to stake although inactive, or not enough to stake.
StakesNothing ==
    /\ HasSnapshot /\ ~(Booting /\ snap.active)
    /\ (Booting /\ ~load(env).autoStake) \/ Shortfall <= 0 \/ snap.balance < Shortfall
    /\ Leave
    /\ UNCHANGED <<task, snap, amount, inherited>> /\ NodeOnly

DecidesToStake ==
    /\ HasSnapshot /\ ~(Booting /\ (snap.active \/ ~load(env).autoStake))
    /\ Shortfall > 0 /\ snap.balance >= Shortfall
    /\ Goto("allowance") /\ amount' = Shortfall
    /\ UNCHANGED <<task, snap, inherited>> /\ NodeOnly

\* Mutant of ReadAllowance: any allowance will do.
ReadAllowanceAny ==
    /\ pc = "allowance"
    /\ Goto(IF allowance = 0 THEN "approve" ELSE "stake")
    /\ UNCHANGED <<task, snap, amount, inherited>> /\ NodeOnly

ReadAllowance ==
    /\ pc = "allowance"
    /\ Goto(IF allowance < amount THEN "approve" ELSE "stake")
    /\ UNCHANGED <<task, snap, amount, inherited>> /\ NodeOnly

Send ==
    /\ pc \in {"approve", "stake"}
    /\ pending' = Append(pending, <<pc, amount>>)
    /\ Goto(IF pc = "approve" THEN "waitApprove" ELSE "waitStake")
    /\ UNCHANGED <<env, chainVars, allowance, lastMined, task, snap, amount, inherited, moves, faults>>

\* tx.wait(): the node's own transaction is the last by nonce.
WaitReturns ==
    /\ pc \in {"waitApprove", "waitStake"} /\ pending = <<>>
    /\ IF lastMined
       THEN Goto(IF pc = "waitApprove" THEN "stake" ELSE IF Booting THEN "after" ELSE "running")
       ELSE Leave
    /\ UNCHANGED <<task, snap, amount, inherited>> /\ NodeOnly

\* The second snapshot, and the exit of an executor that is not active.
After ==
    /\ pc = "after"
    /\ IF isActiveExecutor[bot] THEN Goto("schedule") ELSE Exits
    /\ UNCHANGED <<task, snap, amount, inherited>> /\ NodeOnly

\* The monitor is up (ExecutorNode): a status run reports and exits, a node
\* spreads its ticks over the poll interval, by a remainder of whole numbers.
Schedule ==
    /\ pc = "schedule"
    /\ IF task = "status" \/ ~Schedulable(load(env)) THEN Exits ELSE Goto("running")
    /\ UNCHANGED <<task, snap, amount, inherited>> /\ NodeOnly

\* A call fails; one that sends may have been sent.
CallFails ==
    /\ faults < MaxFaults /\ faults' = faults + 1
    /\ pc \notin {"stopped", "down", "running"}
    /\ pending' \in {pending} \cup
          (IF pc \in {"approve", "stake"} THEN {Append(pending, <<pc, amount>>)} ELSE {})
    /\ Leave
    /\ UNCHANGED <<env, chainVars, allowance, lastMined, task, snap, amount, inherited, moves>>

Crash ==
    /\ faults < MaxFaults /\ faults' = faults + 1
    /\ pc \notin {"stopped", "down"} /\ Exits
    /\ UNCHANGED <<env, chainVars, txVars, task, snap, amount, inherited, moves>>

\* The operator: a status run, and a signal, which also cuts a tick short.
Operate(A) ==
    /\ moves < MaxMoves /\ moves' = moves + 1
    /\ A
    /\ UNCHANGED <<env, chainVars, txVars, faults>>

Status == Operate(pc = "stopped" /\ Boot("status"))

Shutdown ==
    Operate(/\ pc = "running" \/ (task = "restake" /\ pc \notin {"stopped", "down"})
            /\ Goto("stopped")
            /\ UNCHANGED <<task, snap, amount, inherited>>)

-------------------------------------------------------------------------------
(***************************************************************************)
(* The chain                                                               *)
(***************************************************************************)
Covered(x) == mktb[bot] >= x /\ allowance >= x

\* ERC20 approve sets the allowance, transferFrom in stake uses it up.
MineApprove ==
    /\ pending # <<>> /\ Head(pending)[1] = "approve"
    /\ allowance' = Head(pending)[2]
    /\ pending' = Tail(pending) /\ lastMined' = TRUE
    /\ UNCHANGED <<chainVars, nodeVars, moves, faults>>

MineStake ==
    /\ pending # <<>> /\ Head(pending)[1] = "stake"
    /\ LET x == Head(pending)[2]
       IN  \/ /\ Covered(x)
              /\ REWARDS!Stake(bot, x)
              /\ allowance' = allowance - x /\ lastMined' = TRUE
           \/ /\ ~Covered(x)
              /\ lastMined' = FALSE
              /\ UNCHANGED <<chainVars, allowance>>
    /\ pending' = Tail(pending)
    /\ UNCHANGED <<nodeVars, moves, faults>>

Move(A) ==
    /\ moves < MaxMoves /\ moves' = moves + 1
    /\ A
    /\ UNCHANGED <<txVars, nodeVars, faults>>

SetMinimumStake == \E n \in Amounts : Move(n # minimumStake /\ REWARDS!SetMinimumStake(Timelock, n))
Slash == \E n \in Amounts : Move(REWARDS!Slash(Timelock, bot, n))
Fund == \E n \in Amounts : Move(REWARDS!Transfer(Funder, bot, n))

NodeStep ==
    \/ Restart \/ Connect \/ Read \/ AlreadyActive \/ StakesNothing \/ DecidesToStake
    \/ ReadAllowance \/ Send \/ WaitReturns \/ After \/ Schedule

Next ==
    \/ NodeStep \/ BeginRestake \/ CallFails \/ Crash
    \/ Start \/ Status \/ Shutdown
    \/ MineApprove \/ MineStake
    \/ SetMinimumStake \/ Slash \/ Fund

Spec == Init /\ [][Next]_vars

\* The supervisor restarts the node, calls return, transactions are mined.
FairSpec == Spec /\ WF_vars(NodeStep) /\ WF_vars(MineApprove \/ MineStake)

-------------------------------------------------------------------------------
(***************************************************************************)
(* Properties                                                              *)
(***************************************************************************)
\* When the node sends a stake it still holds the tokens and the allowance for
\* it, although both were read before other awaits and the allowance may be
\* what an earlier life left behind.  Only a transaction that was on the way when
\* the snapshot began, from an earlier life or from a call that failed after it
\* had sent, can take them (staking.js:118-127, 155-160).
StakeIsCovered ==
    pc = "stake" /\ ~inherited => Covered(amount)

\* A node that start.sh keeps starting gets to run once its tokens and stake
\* together reach the minimum, whatever crashes, failing calls, signals and moves
\* of governance came first, unless its environment forbids it (a key, network,
\* chain, AUTO_STAKE or poll interval it cannot work with) or its stake reaches
\* the minimum with the flag down, which the node cannot repair
\* (staking.js:104-108, start.sh).
Funded == mktb[bot] + stakes[bot] >= minimumStake
FlagIsDown == stakes[bot] >= minimumStake /\ ~isActiveExecutor[bot]
Workable ==
    /\ env.key.given /\ env.key.digits = 64
    /\ \/ env.network = "baseSepolia" /\ env.rpcChainId = 84532
       \/ env.network = "localhost" /\ env.rpcChainId = 31337
    /\ env.autoStake \in {"", "1", "true", "TRUE"}
    /\ env.poll.text = "number" => env.poll.halfMs > 0 /\ env.poll.halfMs % 2 = 0
FundedNodeStarts ==
    pc = "down" /\ Workable ~> pc \in {"running", "stopped"} \/ ~Funded \/ FlagIsDown
===============================================================================
