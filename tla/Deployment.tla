------------------------------ MODULE Deployment ------------------------------
(***************************************************************************)
(* The scripts that put the protocol on a chain: deploy.js,                *)
(* resume-deploy.js, redeploy-governance.js, deploy-execution-relay.js,    *)
(* deploy-flash.js, deploy-flash-only.js and gen-addresses.mjs; and        *)
(* deploy-flash-e2e.js, which is for a devnet of the same chain id.        *)
(*                                                                         *)
(* A script is the sequence of the transactions and file writes it still   *)
(* has to make.  It makes them one at a time and waits for each, so that   *)
(* it can stop after any of them (a revert, an RPC error, no gas, Ctrl-C), *)
(* and what it has done by then stays done.  The scripts share one         *)
(* deployer account and its nonces: one runs at a time.  What a script     *)
(* reads before its first transaction is fixed in its steps; what it reads *)
(* later is a guard of the step.                                           *)
(*                                                                         *)
(* Contracts that are deployed again and again are numbered: the stacks of *)
(* deploy.js, which can be run over a stack that is recorded and in use,   *)
(* the governors of each stack, and the relays, registries and flashes.    *)
(* Token amounts are in millions.                                          *)
(***************************************************************************)
EXTENDS Integers, Sequences, FiniteSets, Functions

CONSTANTS
    MAX_SUPPLY,         \* MktbToken.sol
    Minimums,           \* what governance may set minimumStake to
    Network,            \* where hardhat is pointed: "baseSepolia", "devnet", "devnet31337"
    MaxStacks, MaxGovernors, MaxRelays, MaxFlashes,     \* bounds of the model, on each
    MaxDeployments                                      \* and on all of them together

\* The cap is less than what deploy.js mints and its smallest part once more;
\* deploy.js creates a governor, whatever the bound.
ASSUME DeploymentAssumption ==
    /\ MAX_SUPPLY \in 0..124 /\ Minimums \subseteq Nat /\ Minimums # {}
    /\ MaxStacks \in Nat /\ MaxGovernors \in Nat \ {0}
    /\ MaxRelays \in Nat /\ MaxFlashes \in Nat /\ MaxDeployments \in Nat

VARIABLES
    todo,       \* the steps the running script has left
    stacks,     \* the stacks of six contracts that deploy.js has made, in order
    relays,     \* the ExecutionRelays deployed, in order, each for a stack
    flashes,    \* the MaktubFlashes deployed: the registry each one reads
    registries, \* the number of RecipientRegistryV2s deployed
    record,     \* deployments/base-sepolia.json
    files,      \* the three files generated from it
    local       \* addresses.local.json: the network of its contracts

scripted == <<stacks, relays, flashes, registries, record, files>>
vars == <<todo, scripted, local>>

Contracts == <<"RecipientRegistry", "MktbToken", "TimelockController",
               "MktbGovernance", "ExecutorRewards", "MaktubCore">>
Role == {"PROPOSER", "EXECUTOR", "CANCELLER"}
\* The holder of CORE_ROLE that is no relay.
CORE == 0
Holder == {"rewards", "timelock", "deployer"}
File == {"carrier", "sdk", "executor"}

\* The devnet is started with the chain id of the public network, or hardhat's own.
ChainId == [n \in Network |-> IF n = "devnet31337" THEN 31337 ELSE 84532]
NoFile == "no file"

\* Who gets the 100M MKTB.
Allocation == [rewards |-> 35, timelock |-> 25, deployer |-> 40]

\* The addresses a client is given; 0 is an address that is not there.
NoAddresses == [stack |-> 0, governance |-> 0, relay |-> 0, registryV2 |-> 0, flash |-> 0]
Addresses == [f \in DOMAIN NoAddresses |-> record[f]]

\* A governor of another stack than the one whose timelock it is looked for in.
Elsewhere == -1

\* The six contracts as far as they got, who holds each role in the timelock,
\* and whether a script has printed the summary of them.
NoStack == [live |-> {}, maktubCore |-> FALSE, coreRole |-> {}, admin |-> TRUE,
            minimumStake |-> CHOOSE n \in Minimums : \A k \in Minimums : n <= k,
            minted |-> [h \in Holder |-> 0],
            governors |-> 0, has |-> [r \in Role |-> {}], reported |-> FALSE]

NewRelay(k) == [stack |-> k, funded |-> 0, staked |-> FALSE, active |-> FALSE,
                slashed |-> FALSE, revoked |-> FALSE]

Init ==
    /\ todo = <<>>
    /\ stacks = <<>> /\ relays = <<>> /\ flashes = <<>> /\ registries = 0
    /\ record = [stack |-> 0, stale |-> 0,
                 governance |-> 0, relay |-> 0, registryV2 |-> 0, flash |-> 0]
    /\ files = [f \in File |-> NoAddresses]
    /\ local = NoFile

Newest == Len(stacks)
Latest == Len(relays)

Wired(stack) ==
    /\ stack.live = Range(Contracts)
    /\ stack.maktubCore /\ CORE \in stack.coreRole
    /\ \A r \in Role : 1 \in stack.has[r]

\* What the deployer still holds of a stack's token, after funding its relays.
DeployerBalance(k) ==
    stacks[k].minted["deployer"]
    - SumFunction([i \in DOMAIN relays |-> IF relays[i].stack = k THEN relays[i].funded ELSE 0])

-------------------------------------------------------------------------------
(***************************************************************************)
(* The scripts                                                             *)
(***************************************************************************)
\* The steps on a stack name it second.
Each(op, k, who) ==
    << <<op, k, "PROPOSER", who>>, <<op, k, "EXECUTOR", who>>, <<op, k, "CANCELLER", who>> >>
Mint(k, h) == <<"mint", k, h>>

DeployScript(k) ==
    [i \in DOMAIN Contracts |-> <<"create", k, Contracts[i]>>]
    \o << <<"setMaktubCore", k>>, <<"grantCoreRole", k>> >>
    \o Each("grantRole", k, 1)
    \o << Mint(k, "rewards"), Mint(k, "timelock"), Mint(k, "deployer"), <<"report", k>> >>

ResumeScript(k) == << Mint(k, "timelock"), Mint(k, "deployer"), <<"report", k>> >>

\* Mutant of RotateScript: role by role, the old governor loses what the new one is about to get.
RotateRoleByRole(k, new, old) ==
    << <<"createGovernor", k>> >>
    \o << <<"revokeRole", k, "PROPOSER", old>>, <<"grantRole", k, "PROPOSER", new>>,
          <<"revokeRole", k, "EXECUTOR", old>>, <<"grantRole", k, "EXECUTOR", new>>,
          <<"revokeRole", k, "CANCELLER", old>>, <<"grantRole", k, "CANCELLER", new>> >>
    \o << <<"persistGovernance", new>> >>

RotateScript(k, new, old) ==
    << <<"createGovernor", k>> >>
    \o Each("grantRole", k, new) \o Each("revokeRole", k, old)
    \o << <<"persistGovernance", new>> >>

\* Mutant of RelayScript: nothing looks at the relay between its stake and its record.
RelayUnverified(k, amount) ==
    << <<"createRelay", k>>, <<"fund", amount>>, <<"grantRelay">>,
       <<"initialStake", amount>>, <<"persistRelay">> >>

RelayScript(k, amount) ==
    << <<"createRelay", k>>, <<"fund", amount>>, <<"grantRelay">>,
       <<"initialStake", amount>>, <<"verifyActive">>, <<"persistRelay">> >>

\* Its sanity checks compare what it has just passed to the constructors.
FlashScript(v2) ==
    << <<"createRegistry">>, <<"createFlash", v2>>, <<"persistFlash", v2>> >>

\* Mutant of FlashOnlyScript: deploy-flash.js again, of which only the flash is recorded.
FlashWithNewRegistry(v2) ==
    << <<"createRegistry">>, <<"createFlash", v2 + 1>>, <<"persistFlash", v2>> >>

FlashOnlyScript(v2) ==
    << <<"createFlash", v2>>, <<"checkWiring", v2>>, <<"persistFlash", v2>> >>

LocalContracts == <<"RecipientRegistry", "RecipientRegistryV2", "MaktubFlash",
                    "MktbToken", "ExecutorRewards", "MaktubCore">>

\* Funds the participants with a method that only a devnet has.
LocalScript(network) ==
    [i \in DOMAIN LocalContracts |-> <<"createLocal", LocalContracts[i]>>]
    \o << <<"setBalance", network>>, <<"writeLocal", network>> >>

GenerateScript ==
    << <<"write", "carrier", Addresses>>, <<"write", "sdk", Addresses>>,
       <<"write", "executor", Addresses>> >>

-------------------------------------------------------------------------------
(***************************************************************************)
(* Starting one.  The guards are what the script checks before it spends   *)
(* anything, and what it takes for granted.                                *)
(***************************************************************************)
Start(script) ==
    /\ todo = <<>>
    /\ todo' = script

\* Every stack, rotation, relay and flash counts (a bound of the model).
Deployments == SumFunction([k \in DOMAIN stacks |-> stacks[k].governors])
               + Len(relays) + Len(flashes)
MoreAdmitted == Deployments < MaxDeployments

\* Everything afresh, over a record too: nothing looks at it.  A stack that is
\* not recorded is abandoned.
StartDeploy ==
    /\ record.stack < MaxStacks /\ MoreAdmitted
    /\ Start(DeployScript(record.stack + 1))
    /\ stacks' = Append(SubSeq(stacks, 1, record.stack), NoStack)
    /\ UNCHANGED <<relays, flashes, registries, record, files, local>>

\* Written for the addresses of a deploy.js that got as far as its mints, which
\* is taken for granted.  Which of the mints it had made is not looked at, and
\* the script may be run again.
StartResume ==
    /\ stacks # <<>>
    /\ Wired(stacks[Newest]) /\ stacks[Newest].minted["rewards"] = Allocation["rewards"]
    /\ Start(ResumeScript(Newest))
    /\ UNCHANGED <<scripted, local>>

StartRotate ==
    LET k == record.stack
    IN  /\ k # 0 /\ record.stale # 0
        /\ stacks[k].governors < MaxGovernors /\ MoreAdmitted
        /\ Start(RotateScript(k, stacks[k].governors + 1, record.stale))
        /\ UNCHANGED <<scripted, local>>

StartRelay ==
    LET k == record.stack
    IN  /\ k # 0 /\ stacks[k].admin
        /\ DeployerBalance(k) >= stacks[k].minimumStake
        /\ Len(relays) < MaxRelays /\ MoreAdmitted
        /\ Start(RelayScript(k, stacks[k].minimumStake))
        /\ UNCHANGED <<scripted, local>>

StartFlash ==
    /\ record.stack # 0
    /\ Len(flashes) < MaxFlashes /\ registries < MaxFlashes /\ MoreAdmitted
    /\ Start(FlashScript(registries + 1))
    /\ UNCHANGED <<scripted, local>>

StartFlashOnly ==
    /\ record.registryV2 # 0
    /\ Len(flashes) < MaxFlashes /\ MoreAdmitted
    /\ Start(FlashOnlyScript(record.registryV2))
    /\ UNCHANGED <<scripted, local>>

\* Every address is looked up before the first file is written, and no two of them
\* are compared: the relay may still be that of the stack before.  Generating what
\* is there already changes nothing.
StartGenerate ==
    /\ \A f \in DOMAIN Addresses : Addresses[f] # 0
    /\ \E f \in File : files[f] # Addresses
    /\ Start(GenerateScript)
    /\ UNCHANGED <<scripted, local>>

\* The one thing it asks of the network is the chain id.  It reads and writes
\* nothing of the rest, and is run while there is no record, to bound the states.
StartLocal ==
    /\ local = NoFile /\ record.stack = 0
    /\ \E network \in Network :
          ChainId[network] = 84532 /\ Start(LocalScript(network))
    /\ UNCHANGED <<scripted, local>>

-------------------------------------------------------------------------------
(***************************************************************************)
(* The steps                                                               *)
(***************************************************************************)
Supply(stack) == SumFunction(stack.minted)

\* Mutant of MintTo: the token has no cap.
MintUncapped(k, h) ==
    stacks' = [stacks EXCEPT ![k].minted[h] = @ + Allocation[h]]

\* MktbToken.mint reverts beyond MAX_SUPPLY.
MintTo(k, h) ==
    /\ Supply(stacks[k]) + Allocation[h] <= MAX_SUPPLY
    /\ stacks' = [stacks EXCEPT ![k].minted[h] = @ + Allocation[h]]

Create(k, contract) ==
    stacks' = [stacks EXCEPT ![k].live = @ \cup {contract},
                             ![k].governors = IF contract = "MktbGovernance" THEN 1 ELSE @]

StackStep(s) ==
    /\ \/ s[1] = "create" /\ Create(s[2], s[3])
       \/ s[1] = "setMaktubCore" /\ stacks' = [stacks EXCEPT ![s[2]].maktubCore = TRUE]
       \/ s[1] = "grantCoreRole" /\ stacks' = [stacks EXCEPT ![s[2]].coreRole = @ \cup {CORE}]
       \/ s[1] = "mint" /\ MintTo(s[2], s[3])
       \/ s[1] = "report" /\ stacks' = [stacks EXCEPT ![s[2]].reported = TRUE]
    /\ UNCHANGED <<relays, flashes, registries, record, files>>

\* The deployer is the timelock's admin.
RoleStep(s) ==
    /\ \/ /\ s[1] = "createGovernor"
          /\ stacks' = [stacks EXCEPT ![s[2]].governors = @ + 1]
       \/ /\ s[1] = "grantRole"
          /\ stacks' = [stacks EXCEPT ![s[2]].has[s[3]] = @ \cup {s[4]}]
       \/ /\ s[1] = "revokeRole"
          /\ stacks' = [stacks EXCEPT ![s[2]].has[s[3]] = @ \ {s[4]}]
    /\ UNCHANGED <<relays, flashes, registries, record, files>>

\* The old governor stays the one recorded as stale.
PersistGovernance(s) ==
    /\ s[1] = "persistGovernance"
    /\ record' = [record EXCEPT !.governance = s[2]]
    /\ UNCHANGED <<stacks, relays, flashes, registries, files>>

\* initialStake raises the flag only if the amount, which was the minimum when
\* the script began, still is.
RelayStep(s) ==
    LET k == relays[Latest].stack
    IN  /\ \/ /\ s[1] = "createRelay"
              /\ relays' = Append(relays, NewRelay(s[2])) /\ stacks' = stacks
           \/ /\ s[1] = "fund" /\ DeployerBalance(k) >= s[2]
              /\ relays' = [relays EXCEPT ![Latest].funded = s[2]] /\ stacks' = stacks
           \/ /\ s[1] = "grantRelay" /\ stacks[k].admin
              /\ stacks' = [stacks EXCEPT ![k].coreRole = @ \cup {Latest}] /\ relays' = relays
           \/ /\ s[1] = "initialStake"
              /\ ~relays[Latest].staked /\ relays[Latest].funded >= s[2]
              /\ relays' = [relays EXCEPT ![Latest].staked = TRUE,
                                          ![Latest].active = s[2] >= stacks[k].minimumStake]
              /\ stacks' = stacks
           \/ /\ s[1] = "verifyActive" /\ relays[Latest].active /\ relays[Latest].staked
              /\ UNCHANGED <<relays, stacks>>
        /\ UNCHANGED <<flashes, registries, record, files>>

\* The relay before it keeps CORE_ROLE.
PersistRelay(s) ==
    /\ s[1] = "persistRelay"
    /\ record' = [record EXCEPT !.relay = Latest]
    /\ UNCHANGED <<stacks, relays, flashes, registries, files>>

FlashStep(s) ==
    /\ \/ s[1] = "createRegistry" /\ registries' = registries + 1 /\ flashes' = flashes
       \/ s[1] = "createFlash" /\ flashes' = Append(flashes, s[2]) /\ registries' = registries
       \/ /\ s[1] = "checkWiring" /\ flashes[Len(flashes)] = s[2]
          /\ UNCHANGED <<registries, flashes>>
    /\ UNCHANGED <<stacks, relays, record, files>>

PersistFlash(s) ==
    /\ s[1] = "persistFlash"
    /\ record' = [record EXCEPT !.registryV2 = s[2], !.flash = Len(flashes)]
    /\ UNCHANGED <<stacks, relays, flashes, registries, files>>

WriteFile(s) ==
    /\ s[1] = "write"
    /\ files' = [files EXCEPT ![s[2]] = s[3]]
    /\ UNCHANGED <<stacks, relays, flashes, registries, record>>

LocalStep(s) ==
    /\ \/ s[1] = "createLocal" /\ local' = local
       \/ s[1] = "setBalance" /\ s[2] # "baseSepolia" /\ local' = local
       \/ s[1] = "writeLocal" /\ local' = s[2]
    /\ UNCHANGED scripted

RunStep ==
    /\ todo # <<>>
    /\ todo' = Tail(todo)
    /\ LET s == Head(todo)
       IN  \/ LocalStep(s)
           \/ /\ \/ StackStep(s) \/ RoleStep(s) \/ PersistGovernance(s)
                 \/ RelayStep(s) \/ PersistRelay(s)
                 \/ FlashStep(s) \/ PersistFlash(s) \/ WriteFile(s)
              /\ local' = local

\* A step throws, or the process ends, and main().catch ends the script.
Abort ==
    /\ todo # <<>>
    /\ todo' = <<>>
    /\ UNCHANGED <<scripted, local>>

-------------------------------------------------------------------------------
(***************************************************************************)
(* Everybody else                                                          *)
(***************************************************************************)
\* deploy.js writes no file: the operator copies the addresses it printed.  What
\* other scripts recorded of the stack before stays, until they are run again.
RecordStack ==
    /\ todo = <<>> /\ Newest > record.stack /\ stacks[Newest].reported
    /\ record' = [record EXCEPT !.stack = Newest, !.governance = 1,
                                !.stale = IF @ = 0 THEN 0 ELSE Elsewhere]
    /\ UNCHANGED <<todo, stacks, relays, flashes, registries, files, local>>

\* redeploy-governance.js wants the governor it replaces under "stale".  It is put
\* there for a rotation, so only while the bounds admit one.
MarkStale ==
    /\ todo = <<>> /\ record.stack # 0 /\ record.stale # record.governance
    /\ stacks[record.stack].governors < MaxGovernors /\ MoreAdmitted
    /\ record' = [record EXCEPT !.stale = record.governance]
    /\ UNCHANGED <<todo, stacks, relays, flashes, registries, files, local>>

\* The relay script is the only one that reads it, of the stack in use.
GovernanceSetsMinimum ==
    LET k == record.stack
    IN  /\ k # 0
        /\ \E n \in Minimums \ {stacks[k].minimumStake} :
              stacks' = [stacks EXCEPT ![k].minimumStake = n]
        /\ UNCHANGED <<todo, relays, flashes, registries, record, files, local>>

GovernanceSlashes ==
    /\ \E i \in DOMAIN relays :
          /\ relays[i].staked /\ ~relays[i].slashed
          /\ relays' = [relays EXCEPT ![i].active = FALSE, ![i].slashed = TRUE]
    /\ UNCHANGED <<todo, stacks, flashes, registries, record, files, local>>

\* The admin of a stack takes CORE_ROLE from a relay, as a migration demands of
\* the one it supersedes: none of the scripts does.
AdminRevokes ==
    /\ \E i \in DOMAIN relays :
          LET k == relays[i].stack
          IN  /\ stacks[k].admin /\ i \in stacks[k].coreRole
              /\ stacks' = [stacks EXCEPT ![k].coreRole = @ \ {i}]
              /\ relays' = [relays EXCEPT ![i].revoked = TRUE]
    /\ UNCHANGED <<todo, flashes, registries, record, files, local>>

AdminRenounces ==
    /\ \E k \in 1..record.stack :
          stacks[k].admin /\ stacks' = [stacks EXCEPT ![k].admin = FALSE]
    /\ UNCHANGED <<todo, relays, flashes, registries, record, files, local>>

Next ==
    \/ StartDeploy \/ StartResume \/ StartRotate \/ StartRelay
    \/ StartFlash \/ StartFlashOnly \/ StartGenerate \/ StartLocal
    \/ RunStep \/ Abort
    \/ RecordStack \/ MarkStale
    \/ GovernanceSetsMinimum \/ GovernanceSlashes
    \/ AdminRevokes \/ AdminRenounces

Spec == Init /\ [][Next]_vars

-------------------------------------------------------------------------------
(***************************************************************************)
(* Properties                                                              *)
(***************************************************************************)
\* The chain and the files hold what the scripts can have put there, and no
\* script has minted more than there is (MktbToken.sol, MAX_SUPPLY).
TypeOK ==
    /\ record.stack \in 0..Newest /\ Newest <= MaxStacks
    /\ \A k \in DOMAIN stacks :
          /\ stacks[k].live \subseteq Range(Contracts)
          /\ stacks[k].minted \in [Holder -> 0..MAX_SUPPLY] /\ Supply(stacks[k]) <= MAX_SUPPLY
          /\ stacks[k].coreRole \subseteq {CORE} \cup {i \in DOMAIN relays : relays[i].stack = k}
          /\ DeployerBalance(k) >= 0
          /\ stacks[k].governors \in 0..MaxGovernors
          /\ stacks[k].has \in [Role -> SUBSET (1..stacks[k].governors)]
    /\ \A i \in DOMAIN flashes : flashes[i] \in 1..registries
    /\ \A f \in File : files[f] \in [DOMAIN NoAddresses -> Nat]
    /\ local \in {NoFile} \cup Network

\* A stack whose summary was printed has all six contracts, the wiring of
\* deploy.js:107-122 and the allocation of deploy.js:129-135, exactly, also if
\* the summary is that of resume-deploy.js, whichever of the mints the run it
\* resumes had made and however often it was run, recorded stacks included.
ReportedStackIsComplete ==
    \A k \in DOMAIN stacks : stacks[k].reported =>
        /\ stacks[k].live = Range(Contracts)
        /\ stacks[k].maktubCore /\ CORE \in stacks[k].coreRole
        /\ stacks[k].minted = Allocation

\* From its first summary on a stack always has one governor that can propose,
\* execute and cancel, wherever a rotation of governors stops, be it one that
\* revokes from a governor of another stack (redeploy-governance.js:71-72).
TimelockAlwaysGoverned ==
    \A k \in DOMAIN stacks : stacks[k].reported =>
        \E g \in 1..stacks[k].governors : \A r \in Role : g \in stacks[k].has[r]

\* A relay that the record or a generated file names was an active executor with
\* CORE_ROLE in its stack when the script ended (deploy-execution-relay.js:212-228).
\* It can have lost the flag only to a slash and the role only to the admin of its
\* stack: no minimum that governance sets while a script runs or after, no later
\* relay, no new stack and no script that stops takes either from it.  Its stack is
\* the one named with it, or, until the script is run again, one before that.
RecordedRelayReady ==
    \A a \in {Addresses} \cup Range(files) : a.relay # 0 =>
        LET relay == relays[a.relay]
        IN  /\ relay.stack \in 1..a.stack
            /\ relay.staked
            /\ relay.active \/ relay.slashed
            /\ a.relay \in stacks[relay.stack].coreRole \/ relay.revoked

\* The flash and the key registry that the record or a generated file names
\* belong together: a sender looks keys up where the flash checks them
\* (deploy-flash-only.js:4-8, 86-88).  And the app's tests are never pointed at
\* a flash of the public network, although that has the chain id their devnet
\* must have (deploy-flash-e2e.js:4-10).
FlashReadsItsRegistry ==
    /\ \A a \in {Addresses} \cup Range(files) :
          a.flash # 0 => flashes[a.flash] = a.registryV2
    /\ local # "baseSepolia"
===============================================================================
