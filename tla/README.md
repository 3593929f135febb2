# Maktub: verification project

Maktub is a dead man's switch on a blockchain. An owner stores an encrypted
payload for some recipients and checks in from time to time; once the owner
has been silent for an interval the payload is *executed* (delivered). Staked
executors may deliver at once and are rewarded; after a grace anybody may, so
that delivery does not depend on the market of executors. This directory holds
TLA+ models of the contracts, of the executor node, of the SDK's client and of
the scripts that deploy and try the protocol; the TLC runs that check them; and
theorems that TLAPS proves about them.

Everything is translated from the Solidity, JavaScript, TypeScript and shell
sources under `src/`. `PROJECT.json` maps each definition to the lines it stands
for.

## Inventory

| Component | State | Operations | Interacts with | What makes it correct |
|---|---|---|---|---|
| `MaktubCore.sol` | beats, count, owner index, recipient index, its ether | create, check in, execute, update recipients, update interval, deactivate | reads RecipientRegistry and `isActiveExecutor`; calls the fee receiver and refunds the sender in the middle of a creation | one-shot delivery, never early, reserved to active executors during the grace; both ends final; indexes exact or sound; no ether kept; delivery needs no executor |
| `RecipientRegistry.sol` | key of each registered account | register, update key | read by the core and the SDK | registration is never undone; a letter is sealed to keys its recipients have |
| `ExecutorRewards.sol` | stakes and their total, active flags, rewards paid, parameters, roles, one MKTB balance for stakes and rewards | stake, unstake, slash, distribute, parameters, pause, core pointer, roles | called by the relay; its flag is read by the core and the relay; governed through the timelock | rewards never come out of stakes; a stake can always be taken out; stake goes only to its owner or to governance; the flag follows stakes |
| `ExecutionRelay.sol` | `staked` | `initialStake`, `executeAndReward` | executes on the core *as itself* and distributes rewards, in one transaction | one reward for each delivery, only to an operator staked in its own name; a failed reward never undoes a delivery; its own stake opens no door for others |
| Executor node: `monitor.js`, `executor.js`, `index.js` | cache of heartbeats, last block scanned, counters, ticking flag | start-up scan, polling, tick, re-check, submit, wait | RPC calls to the core, each of which may fail; blocks arrive between any two | the watchlist is complete from the block its scan begins at, the cache only errs towards asking again, what is watched gets delivered |
| Executor node: `staking.js`, `config.js`, `start.sh` | configuration, snapshot | load, connect, snapshot, approve, stake, restake, status, restart | ExecutorRewards, MktbToken, the operator's environment | an executor that can be active becomes active, whatever fails on the way; it sends no stake it cannot cover |
| `MktbToken.sol`, `MktbGovernance.sol` | balances, votes; proposals | OpenZeppelin compositions | stakes and rewards; the timelock is `GOVERNANCE_ROLE` | balances conserved, supply capped |
| `MaktubFlash.sol`, `RecipientRegistryV2.sol` | flashes, indexes; typed keys | `flash`; register, rotate and clear keys | Flash reads eligibility of recipients and pays the fee receiver | a flash is recorded, charged and indexed exactly once, or not at all |
| SDK: `client/`, `contracts/`, `veil/` | initialization promise; calls in progress | seal, create, flash, list, open with Veil | all contracts; the Veil federation | letters open for exactly those they were sent to; an id returned is the id created; a gated letter opens when it is executed and not before |
| SDK: `crypto/` | none | envelopes, bundles, blobs, padding | called by the client and the scripts | what is sealed opens; an admitted message fits the contract |
| `scripts/` that deploy | deployments file, generated files | deploy, resume, rotate the governor, add relay and flash, generate addresses | all contracts | whatever stops a script, and whatever is deployed over a stack in use, what is reported and recorded is complete and wired together |
| `scripts/` that try the live chain | the run | register, create, check in, read back, send a user operation | contracts, RPC replicas, bundler | what is reported is true; lag does not fail a run |
| Smart wallet and factory | an owner key | initialize, execute, validate | EntryPoint, bundler | an operation runs once, or is included and reverts |
| `ignition/`, `test-heartbeat.js`, `test-app-flow.js`, `test-ecies.js` | none | | | outside this project (see the end) |

The behaviours that are hard to test, each at its line, are the `hazards` of
`PROJECT.json`. They are of eight kinds:

* **Callbacks.** `createHeartbeat` calls out twice. During a call the callee
  can re-enter `checkIn`, `updateInterval` and `deactivate`, of the new beat
  too, and a failure undoes all of it.
* **One balance, two purposes.** Stakes and rewards share the MKTB balance of
  `ExecutorRewards`, between caps, slashes and changing parameters.
* **A cached flag.** `isActiveExecutor` is written by staking, read by two
  contracts and refreshed by neither a change of the minimum nor time.
* **Two contracts in one transaction.** The core sees the relay as executor,
  `distributeReward` has no record of what it has paid for, and the reward may
  fail after the delivery has happened.
* **A client of a moving chain.** Between two awaits of the node, of the SDK or of
  a script owners check in, peers deliver, recipients change keys, governance
  moves parameters and blocks arrive. Calls fail before or after they take
  effect, the mempool loses transactions, and processes restart.
* **Snapshots made of several reads.** The node's stake, the keys a letter is sealed to
  and a paged list are each read piece by piece and used later.
* **Scripts that stop half-way.** Every deployment script is a sequence of
  transactions that stay done, and is run again by hand.
* **Replicas.** A load-balanced endpoint answers reads, nonces and estimates from
  nodes that lag behind the caller's own transactions.

## Modules

```
DeadManSwitch            what a heartbeat promises
   ^ implemented by
MaktubCore               the core and the registry  ----+
   ^ EXTENDS: MCMaktubCore                              |
   ^ EXTENDS: InboxReader <- MCInboxReader              |  INSTANCE, over shared
ExecutorRewards          stakes, rewards, roles     ----+  flag and clock
   ^ EXTENDS: MCExecutorRewards                         |
   |                                                    v
   | INSTANCE                                ExecutionRelay  <- MCExecutionRelay
ExecutorStaking          the node's staking and supervisor  <- MCExecutorStaking
ExecutorNode             the node's loop, with the chain as it sees it
   ^ EXTENDS: MCExecutorNode
Payloads                 envelopes and padding    --+
MaktubFlash              flashes, both registries --+--> MaktubClient <- MCMaktubClient
Deployment               the scripts that deploy      <- MCDeployment
LiveScripts              the scripts that try it out  <- MCLiveScripts
```

The proofs are in modules beside these, each extending the module it is about:

```
FunctionSums             what SumFunction adds up to
   ^ EXTENDS: ExecutorRewardsProofs, ExecutorNodeProofs, MaktubClientProofs, ScriptsProofs
MaktubCoreProofs         extends InboxReader: the core's types, deliveries, indexes and fees;
                         it implements DeadManSwitch; the listing
ExecutionRelayProofs     INSTANCEs MaktubCoreProofs and ExecutorRewardsProofs
ExecutorStakingProofs    what the node stakes is covered
MaktubClientProofs       calls, letters, flashes, lengths, the reader of a gated letter
ScriptsProofs            extends Deployment and INSTANCEs LiveScripts (Live)
```

### MaktubCore

One action per external function, except `createHeartbeat`, which is a
sequence: `CreateHeartbeat` validates, writes and pays the fee receiver, which
is then in control (`frame.stage = "fee"`). `FeeAccepted` or `RefundExcess`
follows, and after a refund the sender is in control (`"refund"`) until
`RefundAccepted`. `CallFails` ends either call by restoring the storage saved
in `frame`. The ether sent leaves `coreBalance` when the call is made, as the
EVM moves it. While a frame is open `Unlocked` is false: the nonReentrant
functions (`execute`, `updateRecipients`, another creation) are blocked, the
other three are not. A transaction runs alone, so the clock, registrations and
staking wait for the frame to close.

`Create` repeats two guards of `CreateHeartbeat` in front of its inputs, so that
TLC does not enumerate them in vain.

Data: an identifier is the pair of creator and salt that the contract hashes
(distinct pairs, distinct identifiers: no hash collision); a payload is its
length; a recipient list keeps its order and repetitions until it has been
validated and charged for, and is a set in storage. Inputs include the
illegal ones next to each boundary (empty and too long lists, duplicates,
intervals and payloads out of range, too little ether). `registered` only
grows. Three things are bounds of the model: `MaxTime`, `MaxCheckIns`, and
`OwnersActUntil`, after which owners are silent.

### DeadManSwitch

The abstract specification: a beat is armed, kept, cancelled or delivered. It
knows nothing of indexes, fees, frames or reverts. `MaktubCore` implements it
under the mapping `Promise`, in which an open creation *has not happened yet*:
the abstract state is the saved storage until the frame closes, and at that
moment everything the callbacks did becomes visible in one transaction. This is
what makes a reverted creation a stutter, and what lets `Arm` end in
`"cancelled"`: a creator can deactivate the new beat from within the creation.

### ExecutorRewards

One action per function; all are atomic, since each is either nonReentrant or
calls nothing before its writes, and MKTB has no transfer hook. Checked
arithmetic is a conjunct (`totalStaked >= amount`). The heartbeat that
`distributeReward` reads through `getHeartbeat` is a parameter, left open here
(any age, any number of check-ins) and given by the core in `ExecutionRelay`.
Roles follow OpenZeppelin's `AccessControl`: the constructor leaves
`DEFAULT_ADMIN_ROLE` the admin of every role. What `distributeReward`
requires and what it does are operators of their own (`MayDistribute`,
`PayReward`), which the relay reuses inside its transaction.

### ExecutionRelay

Composes the two contracts by instantiation over shared variables: staking
writes the flag that `execute` reads, and they have one clock. The relay is an
address. `executeAndReward` is the conjunction of the core's `Execute` with the
relay as the caller and, if `MayDistribute` holds of the beat as it is *after*
the execution, of `PayReward`; otherwise the delivery alone. `CORE_ROLE` can
only be given to the relay, and direct calls of `execute` and `stake` are made
by every address except the relay, whose code has no others. `completed` keeps
what each `ExecutionCompleted` event says.

### ExecutorNode

Each step is the code between two awaits, `pc` names the await, and any RPC
call may fail. The chain is reduced to what the node can see: the timer and
status of each heartbeat and a log with one event in each block, so that a
block range is a range of positions in the log. The scan at the start has a first
block (`FirstBlock`): the one that `START_BLOCK` names, or, if that is 0, one
500,000 blocks back (the constant `ScanWindow`), computed when the node connects
(`Connect`, `index.js:98-101`) and, if the chain was shorter than that, again when
the scan reads the block number (`Bootstrap`, `monitor.js:48-56`): the stakes are
seen to in between. The scan queries creations from there on (a query that fails twice
loses what it covered, remembered in the history variable `unseen`) and hydrates
entries one await at a time. `pollEvents` handles creations with a hydration each and then check-ins and
ends, in the order of the code, even though hydration sees a later chain. Selection is from
the cache; `executeOne` asks the chain again, submits and waits. A submission
may fail after the transaction was sent, `tx.wait()` may throw while it is
pending, the mempool may lose it, and a restart forgets everything.

Not in the model: chain reorganisations; the nonces of restaking; the legacy
self-distribution after a direct `execute`; the length of the random jitter; a
clock of the node that drifts from the chain's (one clock serves both).

### InboxReader

A client that lists what it owns or what is addressed to it, as
`readOps.ts:154-180` tells it to: `Count` asks for the length, `ReadPage` for one
page, `Confirm` calls `getHeartbeat` for an identifier and drops it if it is stale.
Each is a request between two transactions. The loop over the pages is the
caller's: `src/` offers the three reads and their contract, not the loop.
`owed` is a history variable, the beats that belonged in the list ever since it
began. The mutant tidies up the inboxes of removed recipients, an
optimisation that looks harmless and makes a page skip a beat.

### ExecutorStaking

`staking.js`, `config.js`, the start of `index.js` and `start.sh`. `load` is a pure
operator from an environment to a configuration or a refusal, with the parsing
as the code does it (`AUTO_STAKE=yes` means *no*; times keep half milliseconds,
because `index.js:199` converts the interval to a BigInt). A snapshot is four reads in any
order; then `AlreadyActive`, `StakesNothing` or `DecidesToStake`; then the
allowance, approve, stake, each with its wait. Transactions are mined in the order of their nonces
and survive the process that sent them. `Exits` leads to `down`, from which the
supervisor starts the node again. Stakes, slashes and the minimum are actions of `ExecutorRewards`
itself, instantiated with three accounts and without rewards. Left out: the
printing of status; a status run while the node runs
(it is started when the node is stopped, a bound).

### Payloads

The formats of `sdk/src/crypto`, with their real lengths. Encryption is ideal: a box
opens with the key it was closed with. `coerceBytes` says what a message becomes: a text that reads as
hexadecimal digits is taken for the bytes it spells. `chooseBucket`,
`hybridOverhead` and `maxInlineMessageBytes` are the arithmetic that has to agree
with the contract's limit.

### MaktubFlash

The contract and the two registries, as operators and actions without a
next-state relation of their own. `flash` is one action: it calls the fee
receiver last, after every write, and a refusal reverts it all (`FeeRefused` in
`MaktubClient`). V2 keys decide eligibility, so an opt-out between the client's
reading and the block makes the call revert.

### MaktubClient

Each call of the SDK is a record with the await it is at: `init`, `keys`, `send`, `wait`. The
first calls share one initialization (`_initPromise`), which is cleared when it fails. Keys are read one by
one; sending estimates first, as ethers does; the answer may be lost
(`AnswerLost`), the wait may fail (`WaitFails`), and a call may be made again
with the same salt. Nonces order the sender's transactions. Recipients make
keys, lose devices, publish, opt in and out. `veilOpen` polls a federation of
which `Faulty` nodes answer whatever they like. The two-wallet script's creation,
which uses no client, is the kind `script`.

### Deployment

A script is the sequence of its transactions and file writes, executed one at a
time; `Abort` stops it after any of them, and what is done stays done. Guards
of the start are what the script checks before it spends anything.

Contracts that are deployed again are numbered. `stacks` is the sequence of the
stacks of `deploy.js`, which looks at no record and may be run over a stack that is
recorded, rotated and in use (`deployments/base-sepolia.json` lists several such
stacks under `stale`). A stack carries its roles, its governors, its mints and its
minimum; a relay carries the stack it was made for. What is recorded of the stack
before, its relay above all, stays in the record until the script that replaces it
is run, and `gen-addresses.mjs` compares no two addresses: between `deploy.js` and
`deploy-execution-relay.js` the generated files name a new core with an old relay.
`RecordedRelayReady` says in which stack the relay is ready.

Governance moves the minimum and slashes; the admin of a stack revokes `CORE_ROLE`
from any relay of it, as the checklist of `ExecutorRewards.sol:211-219` demands for
one that is superseded and no script does (`AdminRevokes`), and renounces; all of it
between any two steps. The operator copies the addresses `deploy.js` prints
(`RecordStack`) and marks the governor to be replaced (`MarkStale`), both of which
the scripts only document. After a redeployment the governor under `stale` may be that
of another stack (`Elsewhere`), from which a rotation then revokes in vain.

Taken for granted: `resume-deploy.js`, whose addresses are written into it by hand,
is run for a `deploy.js` that got as far as its mints; it does not look at that, nor at
which of the mints had landed. Bounds and omissions: a stack that was not recorded
is abandoned by the next `deploy.js`; the addresses `deploy.js` printed are recorded
as a whole; `setMaktubCore` on a stack in use, revoking the role from anybody but a relay and granting
it again by hand are left out; `deploy-flash-e2e.js`, with the network it can be
pointed at by mistake, is run before there is a record.

### LiveScripts

The three acceptance scripts that run against these contracts (the two wallets,
wallet C, the user operation) as lists of steps over a chain and a replica that
lags: each read, nonce and gas estimate is answered from either. A step that
finds something missing puts what supplies it in front. Pauses and retries let the replica catch
up. A run is *calm* if no call fails, nobody else acts and no lag outlasts a
pause; the others are disturbed by crashes, key rotations and
a `createAccount` by somebody else, which makes the user operation impossible to
include. An operation that is included deploys the wallet and pays the prefund, and
then either executes or reverts: ERC-4337 includes both, and `MaktubSmartWallet._call`
passes a failure on. The bundler's receipt comes in both cases, and only its
`success` and the code together let the script exit with 0 (`GetCode`). Bounds: one
script at a time, started when the replica has caught
up; the hour of a beat does not run out; two runs; two disturbances.

## Runs

| Run | Question | Bounds, and why they are enough |
|---|---|---|
| `core_one_beat` | Types, recipient index, ether, `DeliveredOverdue`, `ImplementsDeadManSwitch`, `SilenceDelivers` | One beat, two accounts, up to two recipients (so that one is removed and added again), values around every boundary, two check-ins. The clock runs past the last act plus the longest interval plus the grace. Every rule of a beat concerns that beat alone |
| `core_two_beats` | Owner index, inbox metering, `PagedListComplete` | Two salts of one creator, the least with which the creation of one beat has the other one to touch, a revert has one to restore, and a list has a second page. Pages of one entry. No grace and no executors, which `core_one_beat` covers; the behaviour ends with the listing. 434k states |
| `rewards` | Stakes backed and withdrawable, rewards accounted, who takes stake, what moves the flag | Two executors, one with `CORE_ROLE` and the first admin; a pool of 2, a reward of up to 2 and a balance of 1 beside the stakes, so that each cap cuts, two emission periods of one tick; donations and a changing minimum. 234k states |
| `rewards_migrate` | Violation: can governance move `CORE_ROLE` after `renounceAdmin`? | |
| `relay` | One reward for each delivery, only when eligible; the relay is no gateway; a reward that cannot be paid never blocks a delivery | One beat, two operators that race through and around the relay, all of governance, a beat old enough to be rewarded, time for the grace to run out |
| `node` | Watchlist, cached check-ins, staleness, counting | Two heartbeats, three events by others, two pending transactions, one loss of them, one restart; a start block of 0 or 1 and a window shorter than the log, so that the scan starts at the first block, at a later one, and at block 0. The clock goes one tick past the shorter interval, so that owners, peers and the node race for an overdue heartbeat. Two heartbeats let one hydration overlap events of the other; three events suffice for create, check in, and an event that arrives within a poll |
| `node_live` | What is watched gets delivered | One heartbeat, no loss and no restart |
| `node_interval` | Violation: is a heartbeat whose interval was shortened seen as expired? | |
| `staking` | Is a stake covered when it is sent; does a funded node start | Eight environments, one that differs from the defaults where it may, and one for each way in which the node cannot work. A minimum of 1 or 2, three moves of governance, funder and operator, two faults: a slash, a raise and a top-up, and an approval and a stake left behind by two lives. 798k states |
| `messaging` | Flash ledger, letters open for their recipients, ids, lengths, Veil, every call ends | Two calls (so that they share an initialization, a salt and the nonces), two recipients of whom one is registered, letters of every kind at the longest lengths the SDK admits, with a duplicated recipient and a text of digits; two moves, one fault, three nodes with one faulty |
| `deployment` | Types and the cap, reported stacks, the governed timelock, recorded and generated relays, flashes and registries | Three deployments of any kind (a stack, a rotation, a relay, a flash), so that any of them meets a redeployed stack, a second of its kind, or one of each kind of which files are generated; two values of the minimum; every script stopped after every step, the chain acting between any two. 624k states. Files generated after a redeployment take a fourth; they hold what the record held, which is checked, and the theorems have no bound |
| `live_scripts` | Are reports true; do pauses cover the lag | Two runs of any scripts, so that the second finds what the first has left; every initial key of wallet B; operations that execute, revert, come late or never. 50k states |

Deadlock is checked in `core_one_beat` and the runs of the node. Elsewhere the
configuration says `CHECK_DEADLOCK FALSE` and why: the clock is at its bound,
all roles are renounced and all MKTB is given away (rewards, relay); the listing has
ended (core_two_beats); a node runs and nobody acts (staking); all calls have
ended (messaging); every bound is used up (deployment, live_scripts). Sets of
accounts are not declared symmetric: most of them contain accounts with a
special part, and the runs are small without it.

`ExecutionRelay`, `ExecutorNode` and `ExecutorStaking` state no type invariant of their own: the
contracts they compose are typed in their own runs and by theorem. Nor does
`LiveScripts`: its types are part of the invariant of `ScriptsProofs`.

### Fairness

* `MaktubCore!FairSpec`: blocks keep coming (`SF(Tick)`; strong, because open
  calls suspend the clock again and again), a called account returns or fails
  since a transaction has finite gas (`WF(CallReturns)`), and a recipient that
  may collect does (`WF(SelfRescue)`). No executor is assumed to act: this is
  the backstop `MaktubCore.sol` documents.
* `ExecutionRelay!FairSpec`: the same for blocks and calls, and an active operator
  that can deliver through the relay does. `RewardsNeverBlockDelivery` assumes in
  its own text that some operator stays active.
* `ExecutorNode!FairSpec`: the process goes on (`WF(NodeStep)`) *except* while its
  receipt is outstanding, because `tx.wait()` has no timeout; transactions in the
  mempool are mined (`WF(Mine)`); an RPC call that is retried in every tick
  succeeds infinitely often (`SF` of `Select`, `Submit` and the re-check of each
  heartbeat). No fairness is assumed of owners or peers.
* `ExecutorStaking!FairSpec`: the supervisor starts the node again and calls return
  (`WF(NodeStep)`), and transactions are mined. The wrapper's loop
  (`start.sh:18-27`) and `executor/README.md:80-84, 191-193` justify the restart;
  the number of failing calls is a bound of the model. No fairness of operator,
  funder or governance.
* `MaktubClient!FairSpec`: as long as a request can be answered, a transaction mined,
  a poll made or a settled promise continued, one of these happens
  (`WF(Progress)`). Users, owners and recipients need never act.
* `LiveScripts!Spec`: a script's awaits return (`WF(ScriptStep)`) and the bundler includes
  an operation it has accepted and can include (`WF(Include)`), be it to execute or to revert. No transaction is
  lost by the mempool here: `tx.wait()` has no timeout, and a script would wait for ever.

## What the runs show about the code

All passing runs hold. Two runs expect a violation, and are reported as findings:

1. **After `renounceAdmin()` nobody can move a role.** `ExecutorRewards.sol:476-479`
   and the checklist at 211-219 have governance grant and revoke `CORE_ROLE`, but
   its admin is `DEFAULT_ADMIN_ROLE`, which has then no holder.
2. **The node never learns of `IntervalUpdated`.** A shortened interval leaves an
   overdue heartbeat out of `expired()` until the old interval has run out.
   `StaleCacheIsEarly` shows that this is the only way the cache is late.

Other disagreements between the code and what is said of it, met while
modelling; the models follow the code:

* `START_BLOCK=0` is not the deployment. `.env.example:23-25` recommends it "to start
  from the contract deployment", and `running-a-node.md:79` says nearly the same; the code
  starts 500,000 blocks back (`index.js:98-101`, `monitor.js:50-56`), about eleven days on
  Base. A live heartbeat that is older is never watched, without any error.
  `WatchlistExact` shows that from the first block of the scan on nothing is lost.
* `initialStake` accepts less than the minimum, which its comment requires
  (`ExecutionRelay.sol:217-221`), and can be called once. `deploy-execution-relay.js`
  checks the flag afterwards, so that no relay is *recorded* without having been active
  (`RecordedRelayReady`); the relay itself is spent. The same script prints that a
  reverting reward reverts the whole transaction (line 282), which the relay avoids.
* `updateRecipients` changes no payload (`MaktubCore.sol:472`): a newly named recipient cannot
  open a letter sealed to the old ones. `docs/user/safety-guide.md:57` and
  `digital-estate.md` recommend it for a recipient who has lost a wallet.
* A recipient who rotates or loses a key between the sender's reading and the block
  cannot open the letter: `LettersOpen` says so of the keys its recipients still have.
* A message that reads as hexadecimal digits is sealed as bytes (`bytes.ts:44-53`)
  and comes back as those.
* An active executor is one whose *flag* is up. `docs/executor/faq.md:31` calls
  `stakes >= minimumStake` "the only condition". With the flag down and enough
  stake (a slash that leaves the minimum, a lowered minimum) the node stakes nothing and exits,
  for ever under `start.sh`: the exemption `FlagIsDown` of `FundedNodeStarts`.
* `POLL_INTERVAL_SECONDS=0`, or one that is no whole number of milliseconds, makes
  `index.js:199` throw after the stake; `AUTO_STAKE=yes` means false. The
  one-shot `npm run status` (`executor/README.md:86-90`, "just print a one-shot status snapshot and exit")
  goes through the same start and stakes unless `AUTO_STAKE` is false.
* `two-wallet/verify.js:39-47` reads right after the check-in: a lagging replica
  makes it print that the count has not moved, and a payload that does not decrypt
  is only printed; the script exits with 0. `ReportsAreTrue` takes neither print for a report of success.
* `test-smart-wallet-userop.js:182` reads the code right after the bundler's
  receipt and may fail although the operation ran. Its comment "a failed run strands nothing" (line 118) holds up
  to the funding: the passkey lives in memory.
* `_page` is called bounds-safe; `start + count` is checked arithmetic and reverts for
  a `count` near `2^256`.
* The Ignition module passes four arguments to the five-parameter
  constructor of `MaktubCore` (`Maktub.js:121-123`); `test-app-flow.js:290` calls a
  function the core no longer has; `test-heartbeat.js:16-21` names the stack of
  2026-04-14, superseded since (`base-sepolia.json:45-55`), whose core has not the
  `createHeartbeat` with a salt that line 104 calls. `docs/executor/faq.md:85` has a failed reward "retried on
  the next relay cycle", which nothing does; `ExecutorRewards.sol:207` says
  identifiers restart at 0, and they are hashes.

Four properties deserve a word on what they leave out.

* `WatchlistExact` leaves out the heartbeats created before the first block of the scan
  (see `START_BLOCK` above) and those in queries that failed twice at the start (the
  code logs and goes on).
* `WatchedIsDelivered` speaks of entries with a timer: an entry whose hydration failed has
  none, and `expired()` skips it. Its node is an active executor with gas, which
  `index.js:103-108` makes sure of at the start and `index.js:58-71` warns about later.
* `PausesCoverLag` asks of a calm run of the user operation's script only that it gets as
  far as its receipt: the operation may have reverted, and the code is read without a
  pause.
* `RecordedRelayReady` lets a slash take the flag of a relay and the admin of its stack take
  its role, and nothing else; and the relay of the stack before stays recorded until it is
  replaced.

## Proofs

TLAPS proves these for every set of accounts, salts, heartbeats, letters or
calls, every initial distribution of MKTB and every value of the parameters that
satisfies the named assumption of the module (`CoreAssumption`, `ReaderAssumption`,
`RewardsAssumption`, `RelayAssumption`, `NodeAssumption`, `StakingAssumption`,
`FlashAssumption`, `ClientAssumption`, `PayloadAssumption`, `DeploymentAssumption`,
`LiveAssumption`). Besides what constructors check, these assume that

* the accounts, salts, heartbeats and calls are finitely many, as addresses of 20 bytes
  and words of 32 are; calls are numbered in the order in which they can be made;
* the node's wallet is none of the contracts it calls nor the account that funds it;
* fewer nodes of the Veil federation are faulty than its threshold, the premise of its
  design, and a failed decryption (`Failure`) is no content key;
* the cap of the token is less than 125 million. It is 100; the allocation is 35, 25
  and 40, and with a cap that left room for a part minted twice on top of it a
  resumed deployment could report a stack with more than its allocation.

Nothing is assumed of the bounds but that they are numbers, and that one governor
may be deployed. Every assumption is evaluated by the runs of its module.

| Theorem | Statement |
|---|---|
| `MaktubCoreProofs!TypeCorrect` | `Spec => []TypeOK`; no balance goes below zero, a refund included |
| `MaktubCoreProofs!DeliveryIsOverdue` | `Spec => []DeliveredOverdue` |
| `MaktubCoreProofs!PromiseIsKept` | `Spec => ImplementsDeadManSwitch`, the refinement |
| `MaktubCoreProofs!OwnerIndexIsExact` | `Spec => []OwnerIndexExact` |
| `MaktubCoreProofs!RecipientIndexIsSound` | `Spec => []RecipientIndexSound` |
| `MaktubCoreProofs!NothingIsRetained` | `Spec => []NoEtherRetained` |
| `MaktubCoreProofs!InboxIsMetered` | `Spec => []InboxFeeMetered` |
| `MaktubCoreProofs!ListingIsComplete` | `ReaderSpec => []PagedListComplete`, for every page size |
| `ExecutorRewardsProofs!TypeCorrect` | `Spec => []TypeOK` |
| `ExecutorRewardsProofs!StakesAreBacked` | `Spec => []StakeBacked`: stakes are never paid out as rewards, the pool is a hard cap |
| `ExecutorRewardsProofs!StakesAreWithdrawable` | `Spec => []StakesWithdrawable` |
| `ExecutorRewardsProofs!RewardsAreAccounted` | `Spec => []RewardsAccounted` |
| `ExecutorRewardsProofs!StakeIsLawful` | `Spec => StakeLeavesLawfully` |
| `ExecutorRewardsProofs!ActivityIsEarned` | `Spec => ActivityFollowsStake` |
| `ExecutionRelayProofs!RewardsAreOneEach` | `Spec => []OneRewardPerDelivery` |
| `ExecutionRelayProofs!RewardsAreEarned` | `Spec => PaidOnlyForEligibleDelivery` |
| `ExecutionRelayProofs!RelayGivesNoAccess` | `Spec => RelayIsNoGateway` |
| `ExecutionRelayProofs!ComponentsKeepTheirs` | the core's `DeliveredOverdue` and the rewards' `StakeBacked` hold of the composition |
| `ExecutorNodeProofs!WatchlistIsExact` | `Spec => []WatchlistExact`, whatever block the scan begins at |
| `ExecutorNodeProofs!CheckInsAreSeen` | `Spec => []CheckInsSeen` |
| `ExecutorNodeProofs!StaleIsEarly` | `Spec => []StaleCacheIsEarly` |
| `ExecutorNodeProofs!CountIsDelivered` | `Spec => []CountedAreDelivered` |
| `ExecutorStakingProofs!SentStakeIsCovered` | `Spec => []StakeIsCovered` |
| `MaktubClientProofs!ClientTypeCorrect` | `Spec => []TypeOK` |
| `MaktubClientProofs!FlashLedgerIsExact` | `Spec => []FlashLedgerExact` |
| `MaktubClientProofs!ReturnedWasCreated` | `Spec => []ReturnedIsCreated` |
| `MaktubClientProofs!LettersAlwaysOpen` | `Spec => []LettersOpen` |
| `MaktubClientProofs!SealedOpens` | what is sealed to a list of keys opens with a key pair exactly at the index of its key, and to the message |
| `MaktubClientProofs!PayloadAlwaysFits` | `Spec => []PayloadFits`, for messages of every admitted length and any number of recipients |
| `MaktubClientProofs!VeilIsNeverEarly` | `Spec => []VeilNeverEarly`, for every federation |
| `ScriptsProofs!DeploymentTypeCorrect` | `Spec => []TypeOK` |
| `ScriptsProofs!ReportedIsComplete` | `Spec => []ReportedStackIsComplete`, for any number of stacks |
| `ScriptsProofs!TimelockIsGoverned` | `Spec => []TimelockAlwaysGoverned`, for any number of stacks and rotations |
| `ScriptsProofs!RecordedRelayIsReady` | `Spec => []RecordedRelayReady`, through redeployments, later relays, slashes and revocations |
| `ScriptsProofs!FlashAndRegistryAgree` | `Spec => []FlashReadsItsRegistry` |
| `ScriptsProofs!ReportsAreTrueAlways` | `Live!Spec => []Live!ReportsAreTrue`, for any number of runs, reverted operations included |
| `FunctionSums!SumOfChange`, `SumOfMove`, `SumOfNewTerm` | what a sum over a finite domain does when a term changes, or two do, or one is added |

**The core.** `DeliveredOverdue` is not inductive: a creation that fails restores
its saved storage, of which the invariant of the current storage says nothing.
`IInv` says the same of `frame.saved`, with `now` unchanged since because the
clock stands while a frame is open. For the type, `Settled` fixes the balance in
each stage: without it the subtraction of a refund may leave the naturals. The
proof has one lemma for each group of actions (`CreateIInv`, `OwnerStepIInv`,
`ExecuteIInv`, `CallReturnsIInv`, `EnvironmentIInv`). `DeliveredOverdue` survives
the owner's functions because `isActive` keeps them from executed beats, and the
registry and staking because no delivered beat depends on them.

**The promise.** A return from an open creation is *one* step of `DeadManSwitch`,
so the proof has to know what the creation and its callbacks have done together.
`Pending` says it: inside a frame each beat is as it was saved, or was created
in this transaction, or is an active beat its owner has kept or cancelled, and
nothing was delivered. Each of these is then one action of the promise, or a
stutter if the frame is undone. The clock has to stand still in a frame, and a
beat's timer never to be ahead of it, which `IInv` provides.

**The indexes.** The invariant `IndexIInv` is about *storages*, the current one
and the one saved (`Indexed(s, reg)`), for the reason given above. The owner index
needs, beside itself, that an identifier is derived from its creator. The inbox is metered
by counting: the beats that exist are finitely many, `heartbeatCount` of them,
an inbox lists existing beats without repetition, and so it is no longer than
that; `RecipientIndexSound` is a lemma of the fee property.

**The listing.** A client's reads and the contract's transactions interleave,
so the invariant is about a prefix: `ReadUpTo(r, list)` says that the first `r` entries of the
list have been read and those no longer queued were confirmed or were stale. It is kept because a
committed list only ever grows at its end (`Grown` says the same of an open
creation, which may commit or be undone). That every beat that belongs from the start
lies in the first `total` entries is `RecipientIndexSound` at the moment of `Count`.

**The rewards.** `IInv == TypeOK /\ StakeBacked`. The two depend on each other:
the capped reward is a natural number only if the stakes are backed, and they stay
backed because the reward is at most the balance beyond them (`RewardFits`).
`slash` and `unstake` share a lemma (`TakeStakeIInv`), as both move an amount of one stake
out of the contract. The two action properties follow from `IInv` and one lemma
per group of actions (`StakeRules`, `TakeStakeRules`, `StakingUnchanged`). The sums
are inductive together with `IInv` (`Accounted`): each function changes one term of a sum and its total by the
same amount, or moves an amount between two terms.

**Sums.** `SumFunction` is a fold, defined by a recursive function on sets with
a choice in it. `FunctionSums` shows that the function exists and does not
depend on the choices, and has no induction principle to do it with: each lemma takes a smallest
set that refutes it, which exists because set inclusion on finite sets is
well-founded (`FS_StrictSubsetOrderingWellFounded`, `WFMin`).

**The relay.** Nothing is proved again: the lemmas of the two components are
cited from instances of their proof modules over the shared variables
(`COREP`, `REWARDSP`), since every step of the composition is a step of the one that changes the
other in its flags and clock at most, or is `executeAndReward`, which is a step of both. The
ledger `OneRewardPerDelivery` is inductive with both components' invariants: the
core delivers an identifier once, a delivery is never unwound (`Pending`: an open creation delivers
nothing), and the amount credited is the amount
recorded. The two action properties follow from it action by action.

**The node.** None of the cache's properties is inductive, as the cache is
compared to a log that goes on growing. `IInv` has three parts. `LogFits` is what
the log says of the timers, which is why the node may read either: time does not run back,
no event of a heartbeat precedes its creation, no end is taken back, a
check-in moves the timer. `CacheFits` says what an entry is worth at any
await: never later than the chain's timer, nothing missed up to `Scanned`, which is the
block the scan started at until the start is over; and, in the middle of a
poll, every creation in the range is on the watchlist *or still queued*. The range begins
at the first block of the scan (`from`), whichever that is. `Types`
holds what the queues contain. A heartbeat's timer only moves forward, so that a stale entry
errs to the early side; the changed interval is the exception that `StaleCacheIsEarly`
names. `CountFits` relates the count to the set of heartbeats delivered:
a receipt of success that was not yet counted is one more.

**The staking.** A boot or a restake that finds the queue empty (`~inherited`) is the only
sender until it ends. `OnlySender` says what that is worth at each await: nothing leaves the
wallet, so it holds what the snapshot read, or more, and then the amount decided on; the
queue holds nothing, or its own approval; once that is mined the allowance is exactly the amount,
and nothing uses it up before the stake. A call that fails after it has sent leaves a transaction
behind, and leads out of every state `OnlySender` speaks of; the next snapshot sees the queue.
Governance moves the minimum and the stake meanwhile, and neither is covered by what was read:
the property says nothing of them.

**The client.** The invariant (`IInv` of `MaktubClientProofs`) relates what is on the
chain to the calls that put it there. From the moment a call has sent, nothing
changes its letter, its salt or the keys it has read any more (`Quiet`), although
the call may fail, be waited for, and be made again; so a beat or a flash is at every
later time the payload of the mined call it names (`RecordsInv`), and an id that is
returned leads back to the very call (`OutcomeInv`). The queue of nonces holds each
pending call once (`QueueInv`), so that each is mined once. For `LettersOpen` the i-th key of a
call must have been made by its i-th recipient (`KeysMatch`), in the middle of the
reading too, when recipients go on making, publishing and losing keys: an account adds to
the keys it has made and never forgets that it has made one. `SealedOpens` is the
lemma about the envelopes alone: opening tries the key pair at each wrapped key and
succeeds at the index of its own. `FlashLedgerExact` counts: a new flash has a number
that no list holds yet, so each list grows by one entry or none, and the fees by one
for each recipient (`SumOfNewTerm`). `PayloadFits` is arithmetic over the buckets and
the overheads, case by case. `VeilNeverEarly` is inductive once an opener's beat is known to be
a sealed one that exists: a threshold of shares contains an honest one.

**The deployment.** What holds between two scripts is `StateInv`; in the middle of
a script it is not enough, since every step relies on those before it. `Running`
says which script runs and for which stack, that what it has left is what follows its first `n` steps
(`Rest(script, n)`), and what these are worth (`Deployed(s, n)`, `Rotated(s, n, new)`,
`Relaying(n, k)` and so on). Each step moves `n` by one, the last one establishes
what the property says of a report, a record or a file, and `Abort` keeps `StateInv`
wherever it happens, because no step ever breaks it half-way: the new governor has all three roles
before the old one loses any, and a governor of another stack loses what it never had.
A redeployment touches the stack it makes and no other: at most one stack is beyond the record
(`RecordInv`), and neither a relay nor a reported stack is among those it throws away.
What is recorded must survive all later
scripts, so the addresses are `Lasting`: the relay is staked unless slashed (`Staked`) and keeps
its role unless it was revoked (`Trusted`), the flash keeps its registry. The mints are multiples of the parts under the cap
(`Mints`), which is why an exact allocation is what a complete one must be.

**The live scripts.** The replica is an earlier head, and `Later(c, d)` says what is
still true at a later one: a registered account stays registered, a beat keeps its place and key. So what
any node has answered, the head confirms. Of a running script `Remains` says that its first `k` steps are done,
with `j` more in front that some step has put there, and `Reached(k)` what these are worth to its
report. Only six kinds of step move that (`Special`), and each occurs at one place of one or two scripts (`Places`); all others,
the retries and everything that others do only have to take nothing back (`StillReached`). That a
user operation is executed once is a matter of `OpsInv`: it is sent by the run that owns its wallet,
which has not sent one before, and included from `"sent"` only; what it has become is final, and the wallet
has executed exactly if it is `"executed"`, which is what the script finds in `success`. The lemmas are about
the actions of `LiveScripts` through the instance `Live`, with its assumption as a hypothesis.

**Only model-checked.** Liveness under fairness (`SilenceDelivers`, `RewardsNeverBlockDelivery`,
`WatchedIsDelivered`, `FundedNodeStarts`, `EveryCallEnds`, `PausesCoverLag`) and `ENABLED`
(`GovernanceCanMigrate`), which are out of the provers' reach; and the two
violations, which are counterexamples. Every invariant and every action property that a
passing run checks is also a theorem.

## Not modelled, and why

* Votes, permit and burn of MKTB and the governor: compositions of library
  contracts that add no code of their own to what they inherit; the governor's effect is `Timelock`.
* Signature checking, ERC-1271 and `executeBatch` of the smart wallet:
  cryptography and the EntryPoint, a contract outside the repository.
* In the SDK: the derivation of reading keys, the WebAssembly module (generated),
  error classes and types, and the wrappers that pass their arguments through to
  governance, token and rewards.
* The rotation of the encryption key and the viewing key in `RecipientRegistryV2`: nothing
  modelled reads them.
* The Ignition module, `test-heartbeat.js` and `test-app-flow.js`, which do not run against
  these contracts, and `test-ecies.js`, a unit test.
* Of a migration only the revocation of a relay's role: `setMaktubCore` on a stack in
  use has no script.
* A second core for `setMaktubCore`: it doubles the largest part of the relay's run.
* In the node: reorganisations, restaking nonces, the legacy
  self-distribution. After a transaction that the mempool lost the node makes no
  progress, and an entry whose hydration failed is never executed: both are in
  the model, no property claims otherwise, and the hazards say so.

The counters of Solidity are 256 bits wide and are never near a bound, so they
are natural numbers.

## What could come next

Every invariant and action property of the runs is proved. What is left is
breadth: reorganisations of the chain under the node, a second core behind
`setMaktubCore`, and the rotation of the viewing key once something reads it; and the
liveness properties, if a prover learns to handle fairness.
