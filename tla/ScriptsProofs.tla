----------------------------- MODULE ScriptsProofs -----------------------------
(***************************************************************************)
(* What holds of the deployment for every number of stacks, governors,     *)
(* relays and flashes and every minimum stake, wherever a script stops and *)
(* in whatever order the scripts are run; and of the reports of the        *)
(* acceptance scripts, for every number of runs.  Neither is inductive: a  *)
(* script that runs relies on what its earlier steps have done.  Both      *)
(* invariants therefore say of the running script which it is, how far it  *)
(* has got, and what that is worth.  For the deployment, the end of every  *)
(* script and its abort anywhere keep the rest, and what is recorded of an *)
(* earlier stack stays true when another is deployed over it.              *)
(***************************************************************************)
EXTENDS Deployment, FunctionSums, SequenceTheorems, FiniteSetTheorems

\* What a script has left after its first n steps.
Rest(script, n) == SubSeq(script, n + 1, Len(script))

------------------------------------------------------------------------------
(***************************************************************************)
(* The deployment: the inductive invariant                                 *)
(***************************************************************************)
Stack == [live : SUBSET Range(Contracts), maktubCore : BOOLEAN, coreRole : SUBSET Nat,
          admin : BOOLEAN, minimumStake : Minimums, minted : [Holder -> Nat],
          governors : 0..MaxGovernors, has : [Role -> SUBSET Nat], reported : BOOLEAN]
Relay == [stack : Nat, funded : Nat, staked : BOOLEAN, active : BOOLEAN,
          slashed : BOOLEAN, revoked : BOOLEAN]
Record == [stack : Nat, stale : Int, governance : Nat, relay : Nat,
           registryV2 : Nat, flash : Nat]
AddressBook == [DOMAIN NoAddresses -> Nat]

\* The mints were made as often as the cap admits, the rewards' only once.
Mints(s) ==
    /\ s.minted["rewards"] \in {0, 35}
    /\ s.minted["timelock"] \in {0, 25, 50, 75, 100}
    /\ s.minted["deployer"] \in {0, 40, 80, 120}
    /\ s.minted["rewards"] + s.minted["timelock"] + s.minted["deployer"] <= MAX_SUPPLY

Governs(s, g) == \A r \in Role : g \in s.has[r]

Complete(s) ==
    /\ s.live = Range(Contracts)
    /\ s.maktubCore /\ CORE \in s.coreRole
    /\ s.minted = Allocation

\* What holds of every stack, and of one that was reported.
Fit(s) ==
    /\ s \in Stack /\ Mints(s)
    /\ \A r \in Role : s.has[r] \subseteq 1..s.governors
    /\ s.reported => Complete(s) /\ \E g \in 1..s.governors : Governs(s, g)

RelaysOf(k) == {i \in DOMAIN relays : relays[i].stack = k}

StacksInv ==
    /\ stacks \in Seq(Stack) /\ Len(stacks) <= MaxStacks
    /\ \A k \in DOMAIN stacks :
          /\ Fit(stacks[k])
          /\ stacks[k].coreRole \subseteq {CORE} \cup RelaysOf(k)
          /\ DeployerBalance(k) >= 0

RelaysInv ==
    /\ relays \in Seq(Relay)
    /\ \A i \in DOMAIN relays : relays[i].stack \in 1..record.stack

FlashesInv ==
    /\ flashes \in Seq(Nat) /\ registries \in Nat
    /\ \A i \in DOMAIN flashes : flashes[i] \in 1..registries

\* The relay was an active executor with CORE_ROLE, and lost neither but to a
\* slash and to the admin.
Trusted(i) == i \in stacks[relays[i].stack].coreRole \/ relays[i].revoked
Staked(i) == relays[i].staked /\ (relays[i].active \/ relays[i].slashed)

\* The addresses are those of a relay that was ready and of a flash with its registry.
Lasting(a) ==
    /\ a.relay # 0 => /\ a.relay \in DOMAIN relays /\ relays[a.relay].stack <= a.stack
                      /\ Staked(a.relay) /\ Trusted(a.relay)
    /\ a.flash # 0 => a.flash \in DOMAIN flashes /\ flashes[a.flash] = a.registryV2

RecordInv ==
    /\ record \in Record
    /\ record.stack <= Len(stacks) /\ Len(stacks) <= record.stack + 1
    /\ \A k \in 1..record.stack : stacks[k].reported
    /\ record.stack # 0 => /\ record.governance <= stacks[record.stack].governors
                           /\ record.stale <= stacks[record.stack].governors
    /\ record.registryV2 <= registries
    /\ Lasting(record)

FilesInv ==
    /\ files \in [File -> AddressBook]
    /\ \A f \in File : Lasting(files[f])

LocalInv == local \in {NoFile} \cup Network /\ local # "baseSepolia"

StateInv == StacksInv /\ RelaysInv /\ FlashesInv /\ RecordInv /\ FilesInv /\ LocalInv

\* What the first n steps of each script are worth.
Deployed(s, n) ==
    /\ ~s.reported
    /\ s.governors = IF n >= 4 THEN 1 ELSE 0
    /\ \A i \in DOMAIN Contracts : i <= n => Contracts[i] \in s.live
    /\ n >= 7 => s.maktubCore
    /\ n >= 8 => CORE \in s.coreRole
    /\ n >= 9 => 1 \in s.has["PROPOSER"]
    /\ n >= 10 => 1 \in s.has["EXECUTOR"]
    /\ n >= 11 => 1 \in s.has["CANCELLER"]
    /\ s.minted = [rewards  |-> IF n >= 12 THEN 35 ELSE 0,
                   timelock |-> IF n >= 13 THEN 25 ELSE 0,
                   deployer |-> IF n >= 14 THEN 40 ELSE 0]

Resumed(s, n) ==
    /\ Wired(s) /\ s.minted["rewards"] = 35
    /\ n >= 1 => s.minted["timelock"] >= 25
    /\ n >= 2 => s.minted["deployer"] >= 40

Rotated(s, n, new) ==
    /\ s.reported
    /\ s.governors = IF n >= 1 THEN new ELSE new - 1
    /\ n >= 2 => new \in s.has["PROPOSER"]
    /\ n >= 3 => new \in s.has["EXECUTOR"]
    /\ n >= 4 => new \in s.has["CANCELLER"]

Relaying(n, k) ==
    /\ n >= 1 => Latest # 0 /\ relays[Latest].stack = k
    /\ n = 1 => relays[Latest].funded = 0
    /\ n >= 3 => Trusted(Latest)
    /\ n >= 4 => relays[Latest].staked
    /\ n >= 5 => Staked(Latest)

Flashing(n, v2) ==
    /\ registries = IF n >= 1 THEN v2 ELSE v2 - 1
    /\ n >= 2 => Len(flashes) # 0 /\ flashes[Len(flashes)] = v2

FlashingOnly(n, v2) ==
    n >= 1 => Len(flashes) # 0 /\ flashes[Len(flashes)] = v2

Localizing(n, network) == n >= 7 => network # "baseSepolia"

RunsDeploy ==
    \E n \in 0..14, k \in DOMAIN stacks :
        todo = Rest(DeployScript(k), n) /\ Deployed(stacks[k], n)
RunsResume ==
    \E n \in 0..2, k \in DOMAIN stacks :
        todo = Rest(ResumeScript(k), n) /\ Resumed(stacks[k], n)
RunsRotate ==
    \E n \in 0..7, k \in DOMAIN stacks, new \in 1..MaxGovernors, old \in Int :
        /\ todo = Rest(RotateScript(k, new, old), n)
        /\ k = record.stack /\ new # old /\ Rotated(stacks[k], n, new)
RunsRelay ==
    \E n \in 0..5, k \in 1..record.stack, amount \in Minimums :
        todo = Rest(RelayScript(k, amount), n) /\ Relaying(n, k)
RunsFlash ==
    \E n \in 0..2, v2 \in 1..(registries + 1) :
        todo = Rest(FlashScript(v2), n) /\ Flashing(n, v2)
RunsFlashOnly ==
    \E n \in 0..2, v2 \in 1..registries :
        todo = Rest(FlashOnlyScript(v2), n) /\ FlashingOnly(n, v2)
RunsGenerate == \E n \in 0..2 : todo = Rest(GenerateScript, n)
RunsLocal ==
    \E n \in 0..7, network \in Network :
        todo = Rest(LocalScript(network), n) /\ Localizing(n, network)

Running ==
    \/ todo = <<>>
    \/ RunsDeploy \/ RunsResume \/ RunsRotate \/ RunsRelay
    \/ RunsFlash \/ RunsFlashOnly \/ RunsGenerate \/ RunsLocal

IInv == StateInv /\ Running

------------------------------------------------------------------------------
(***************************************************************************)
(* Scripts and their steps                                                 *)
(***************************************************************************)
\* The next step of a script after its first n.
LEMMA NextStep ==
    ASSUME NEW S, NEW script \in Seq(S), NEW n \in 0..(Len(script) - 1),
           todo = Rest(script, n)
    PROVE  /\ todo # <<>> /\ Head(todo) = script[n + 1]
           /\ Tail(todo) = Rest(script, n + 1)
<1>1. n + 1 \in 1..Len(script) /\ Len(script) \in (n + 1)..Len(script)
  OBVIOUS
<1>2. Len(todo) = Len(script) - n
  BY DEF Rest
<1>3. /\ Head(SubSeq(script, n + 1, Len(script))) = script[n + 1]
      /\ Tail(SubSeq(script, n + 1, Len(script))) = SubSeq(script, n + 1 + 1, Len(script))
  BY <1>1, HeadTailOfSubSeq
<1>4. todo # <<>>
  BY <1>1, <1>2
<1> QED
  BY <1>3, <1>4 DEF Rest

LEMMA WholeScript ==
    ASSUME NEW S, NEW script \in Seq(S)
    PROVE  Rest(script, 0) = script /\ Rest(script, Len(script)) = <<>>
BY DEF Rest

LEMMA DeploySteps ==
    ASSUME NEW k
    PROVE  LET script == DeployScript(k)
           IN  /\ Len(script) = 15 /\ script \in Seq({script[i] : i \in 1..15})
               /\ \A n \in 0..5 : script[n + 1] = <<"create", k, Contracts[n + 1]>>
               /\ script[7] = <<"setMaktubCore", k>>
               /\ script[8] = <<"grantCoreRole", k>>
               /\ script[9] = <<"grantRole", k, "PROPOSER", 1>>
               /\ script[10] = <<"grantRole", k, "EXECUTOR", 1>>
               /\ script[11] = <<"grantRole", k, "CANCELLER", 1>>
               /\ script[12] = <<"mint", k, "rewards">>
               /\ script[13] = <<"mint", k, "timelock">>
               /\ script[14] = <<"mint", k, "deployer">>
               /\ script[15] = <<"report", k>>
<1>1. DOMAIN Contracts = 1..6 /\ Len(Contracts) = 6
  BY DEF Contracts
<1> QED
  BY <1>1 DEF DeployScript, Each, Mint, Contracts

LEMMA ResumeSteps ==
    ASSUME NEW k
    PROVE  LET script == ResumeScript(k)
           IN  /\ Len(script) = 3 /\ script \in Seq({script[i] : i \in 1..3})
               /\ script[1] = <<"mint", k, "timelock">>
               /\ script[2] = <<"mint", k, "deployer">>
               /\ script[3] = <<"report", k>>
BY DEF ResumeScript, Mint

LEMMA RelaySteps ==
    ASSUME NEW k, NEW amount
    PROVE  LET script == RelayScript(k, amount)
           IN  /\ Len(script) = 6 /\ script \in Seq({script[i] : i \in 1..6})
               /\ script[1] = <<"createRelay", k>>
               /\ script[2] = <<"fund", amount>>
               /\ script[3] = <<"grantRelay">>
               /\ script[4] = <<"initialStake", amount>>
               /\ script[5] = <<"verifyActive">>
               /\ script[6] = <<"persistRelay">>
BY DEF RelayScript

LEMMA FlashSteps ==
    ASSUME NEW v2
    PROVE  LET script == FlashScript(v2)
           IN  /\ Len(script) = 3 /\ script \in Seq({script[i] : i \in 1..3})
               /\ script[1] = <<"createRegistry">>
               /\ script[2] = <<"createFlash", v2>>
               /\ script[3] = <<"persistFlash", v2>>
BY DEF FlashScript

LEMMA FlashOnlySteps ==
    ASSUME NEW v2
    PROVE  LET script == FlashOnlyScript(v2)
           IN  /\ Len(script) = 3 /\ script \in Seq({script[i] : i \in 1..3})
               /\ script[1] = <<"createFlash", v2>>
               /\ script[2] = <<"checkWiring", v2>>
               /\ script[3] = <<"persistFlash", v2>>
BY DEF FlashOnlyScript

LEMMA GenerateSteps ==
    /\ Len(GenerateScript) = 3
    /\ GenerateScript \in Seq({GenerateScript[i] : i \in 1..3})
    /\ \A n \in 0..2 : \E f \in File : GenerateScript[n + 1] = <<"write", f, Addresses>>
BY DEF GenerateScript, File

LEMMA LocalSteps ==
    ASSUME NEW network
    PROVE  LET script == LocalScript(network)
           IN  /\ Len(script) = 8 /\ script \in Seq({script[i] : i \in 1..8})
               /\ \A n \in 0..5 : script[n + 1] = <<"createLocal", LocalContracts[n + 1]>>
               /\ script[7] = <<"setBalance", network>>
               /\ script[8] = <<"writeLocal", network>>
<1>1. DOMAIN LocalContracts = 1..6 /\ Len(LocalContracts) = 6
  BY DEF LocalContracts
<1> QED
  BY <1>1 DEF LocalScript, LocalContracts

\* Only the kind of step that its first word names can be made.
LEMMA StepMade ==
    ASSUME RunStep, NEW s, s = Head(todo)
    PROVE  /\ todo' = Tail(todo)
           /\ s[1] \in {"create", "setMaktubCore", "grantCoreRole", "mint", "report"} =>
                 StackStep(s) /\ local' = local
           /\ s[1] \in {"createGovernor", "grantRole", "revokeRole"} =>
                 RoleStep(s) /\ local' = local
           /\ s[1] = "persistGovernance" => PersistGovernance(s) /\ local' = local
           /\ s[1] \in {"createRelay", "fund", "grantRelay", "initialStake", "verifyActive"} =>
                 RelayStep(s) /\ local' = local
           /\ s[1] = "persistRelay" => PersistRelay(s) /\ local' = local
           /\ s[1] \in {"createRegistry", "createFlash", "checkWiring"} =>
                 FlashStep(s) /\ local' = local
           /\ s[1] = "persistFlash" => PersistFlash(s) /\ local' = local
           /\ s[1] = "write" => WriteFile(s) /\ local' = local
           /\ s[1] \in {"createLocal", "setBalance", "writeLocal"} => LocalStep(s)
<1>1. /\ todo' = Tail(todo)
      /\ \/ LocalStep(s)
         \/ /\ \/ StackStep(s) \/ RoleStep(s) \/ PersistGovernance(s)
               \/ RelayStep(s) \/ PersistRelay(s)
               \/ FlashStep(s) \/ PersistFlash(s) \/ WriteFile(s)
            /\ local' = local
  BY DEF RunStep
<1>2. /\ LocalStep(s) => s[1] \in {"createLocal", "setBalance", "writeLocal"}
      /\ StackStep(s) => s[1] \in {"create", "setMaktubCore", "grantCoreRole", "mint", "report"}
      /\ RoleStep(s) => s[1] \in {"createGovernor", "grantRole", "revokeRole"}
      /\ PersistGovernance(s) => s[1] = "persistGovernance"
      /\ RelayStep(s) =>
            s[1] \in {"createRelay", "fund", "grantRelay", "initialStake", "verifyActive"}
      /\ PersistRelay(s) => s[1] = "persistRelay"
      /\ FlashStep(s) => s[1] \in {"createRegistry", "createFlash", "checkWiring"}
      /\ PersistFlash(s) => s[1] = "persistFlash"
      /\ WriteFile(s) => s[1] = "write"
  BY DEF LocalStep, StackStep, RoleStep, PersistGovernance, RelayStep, PersistRelay,
         FlashStep, PersistFlash, WriteFile
<1> QED
  BY <1>1, <1>2

------------------------------------------------------------------------------
(***************************************************************************)
(* Sums                                                                    *)
(***************************************************************************)
LEMMA HoldersFinite == IsFiniteSet(Holder)
<1>1. Holder = (({} \cup {"rewards"}) \cup {"timelock"}) \cup {"deployer"}
  BY DEF Holder
<1> QED
  BY <1>1, FS_EmptySet, FS_AddElement

\* What was minted, holder by holder.
LEMMA SupplyIs ==
    ASSUME NEW m \in [Holder -> Nat]
    PROVE  SumFunction(m) = m["rewards"] + m["timelock"] + m["deployer"]
<1>1. IsFiniteSet(Holder) /\ \A h \in Holder : m[h] \in Int
  BY HoldersFinite
<1>2. PICK it : Sums(it, m, SUBSET Holder) /\ SumFunctionOnSet(m, Holder) = it[Holder]
  BY <1>1, SumIsSums
<1>3. TakesAny(it, m, Holder)
  BY <1>1, <1>2, SumsTakeAny
<1>4. it[{}] = 0
  BY <1>2 DEF Sums
<1> DEFINE two == {"timelock", "deployer"}
<1>5. /\ Holder \ {"rewards"} = two /\ two \ {"timelock"} = {"deployer"}
      /\ {"deployer"} \ {"deployer"} = {}
      /\ {two, {"deployer"}} \subseteq SUBSET Holder
  BY DEF Holder
<1> HIDE DEF two
<1>6. it[Holder] = m["rewards"] + it[two]
  BY <1>3, <1>5 DEF TakesAny, Holder
<1>7. it[two] = m["timelock"] + it[{"deployer"}]
  BY <1>3, <1>5 DEF TakesAny, two
<1>8. it[{"deployer"}] = m["deployer"] + it[{}]
  BY <1>3, <1>5 DEF TakesAny
<1>9. m["rewards"] \in Nat /\ m["timelock"] \in Nat /\ m["deployer"] \in Nat
  BY DEF Holder
<1> QED
  BY <1>2, <1>4, <1>6, <1>7, <1>8, <1>9 DEF SumFunction

------------------------------------------------------------------------------
(***************************************************************************)
(* What a step may do to the state, whichever script makes it              *)
(***************************************************************************)
LEMMA AllocationIs ==
    /\ Allocation \in [Holder -> Nat]
    /\ Allocation["rewards"] = 35 /\ Allocation["timelock"] = 25 /\ Allocation["deployer"] = 40
BY DEF Allocation, Holder

LEMMA StackTypes ==
    ASSUME NEW s \in Stack
    PROVE  /\ s.live \subseteq Range(Contracts) /\ s.coreRole \subseteq Nat
           /\ s.maktubCore \in BOOLEAN /\ s.admin \in BOOLEAN /\ s.reported \in BOOLEAN
           /\ s.minimumStake \in Minimums /\ s.minimumStake \in Nat
           /\ s.minted \in [Holder -> Nat] /\ s.minted["deployer"] \in Nat
           /\ s.governors \in 0..MaxGovernors /\ s.governors \in Nat
           /\ s.has \in [Role -> SUBSET Nat]
<1>1. /\ s.live \subseteq Range(Contracts) /\ s.coreRole \subseteq Nat
      /\ s.maktubCore \in BOOLEAN /\ s.admin \in BOOLEAN /\ s.reported \in BOOLEAN
      /\ s.minimumStake \in Minimums /\ s.minted \in [Holder -> Nat]
      /\ s.governors \in 0..MaxGovernors /\ s.has \in [Role -> SUBSET Nat]
  BY DEF Stack
<1>2. s.minimumStake \in Nat
  BY <1>1, DeploymentAssumption
<1>3. s.minted["deployer"] \in Nat
  BY <1>1 DEF Holder
<1>4. s.governors \in Nat
  BY <1>1, DeploymentAssumption
<1> QED
  BY <1>1, <1>2, <1>3, <1>4

\* What any step of a script leaves of a stack that is in use.
Grows(s, t) ==
    /\ s.coreRole \subseteq t.coreRole
    /\ s.minted["deployer"] <= t.minted["deployer"]
    /\ s.governors <= t.governors
    /\ s.reported => t.reported

LEMMA StateTypes ==
    ASSUME StateInv
    PROVE  /\ Len(stacks) \in Nat /\ DOMAIN stacks = 1..Len(stacks)
           /\ \A k \in DOMAIN stacks : stacks[k] \in Stack /\ Fit(stacks[k])
           /\ record \in Record /\ record.stack \in 0..Len(stacks)
           /\ 1..record.stack \subseteq DOMAIN stacks
           /\ Len(relays) \in Nat /\ DOMAIN relays = 1..Len(relays)
           /\ \A i \in DOMAIN relays : relays[i] \in Relay /\ relays[i].stack \in 1..record.stack
           /\ Len(flashes) \in Nat /\ DOMAIN flashes = 1..Len(flashes)
           /\ flashes \in Seq(Nat) /\ registries \in Nat
           /\ \A i \in DOMAIN flashes : flashes[i] \in 1..registries
<1>1. /\ Len(stacks) \in Nat /\ DOMAIN stacks = 1..Len(stacks)
      /\ \A k \in DOMAIN stacks : stacks[k] \in Stack /\ Fit(stacks[k])
  BY DEF StateInv, StacksInv
<1>2. /\ record \in Record /\ record.stack <= Len(stacks)
  BY DEF StateInv, RecordInv
<1>3. record.stack \in 0..Len(stacks) /\ 1..record.stack \subseteq DOMAIN stacks
  BY <1>1, <1>2 DEF Record
<1>4. /\ Len(relays) \in Nat /\ DOMAIN relays = 1..Len(relays)
      /\ \A i \in DOMAIN relays : relays[i] \in Relay /\ relays[i].stack \in 1..record.stack
  BY DEF StateInv, RelaysInv
<1>5. /\ Len(flashes) \in Nat /\ DOMAIN flashes = 1..Len(flashes)
      /\ flashes \in Seq(Nat) /\ registries \in Nat
      /\ \A i \in DOMAIN flashes : flashes[i] \in 1..registries
  BY DEF StateInv, FlashesInv
<1> QED
  BY <1>1, <1>2, <1>3, <1>4, <1>5

\* What the deployer gave to the relays of a stack.
Parts(k) == [i \in DOMAIN relays |-> IF relays[i].stack = k THEN relays[i].funded ELSE 0]

LEMMA PartsTypes ==
    ASSUME relays \in Seq(Relay), NEW k
    PROVE  /\ IsFiniteSet(DOMAIN relays) /\ Parts(k) \in [DOMAIN relays -> Int]
           /\ SumFunction(Parts(k)) \in Int
           /\ DeployerBalance(k) = stacks[k].minted["deployer"] - SumFunction(Parts(k))
<1>1. /\ Len(relays) \in Nat /\ DOMAIN relays = 1..Len(relays)
      /\ \A i \in DOMAIN relays : relays[i] \in Relay
  OBVIOUS
<1>2. IsFiniteSet(DOMAIN relays)
  BY <1>1, FS_Interval
<1>3. \A r \in Relay : r.funded \in Int
  BY DEF Relay
<1>4. Parts(k) \in [DOMAIN relays -> Int]
  BY <1>1, <1>3 DEF Parts
<1>5. SumFunction(Parts(k)) \in Int
  BY <1>2, <1>4, SumIsInt
<1>6. DeployerBalance(k) = stacks[k].minted["deployer"] - SumFunction(Parts(k))
  BY DEF DeployerBalance, Parts
<1> QED
  BY <1>2, <1>4, <1>5, <1>6

\* More minted and no relay funded.
LEMMA BalanceKept ==
    ASSUME StateInv, NEW k \in DOMAIN stacks,
           DOMAIN relays' = DOMAIN relays,
           \A i \in DOMAIN relays :
               relays'[i].stack = relays[i].stack /\ relays'[i].funded = relays[i].funded,
           stacks[k].minted["deployer"] <= stacks'[k].minted["deployer"],
           stacks'[k].minted["deployer"] \in Nat
    PROVE  DeployerBalance(k)' >= 0
<1>1. /\ SumFunction(Parts(k)) \in Int /\ DeployerBalance(k) >= 0
      /\ DeployerBalance(k) = stacks[k].minted["deployer"] - SumFunction(Parts(k))
      /\ stacks[k].minted["deployer"] \in Nat
  <2>1. relays \in Seq(Relay) /\ DeployerBalance(k) >= 0
    BY DEF StateInv, RelaysInv, StacksInv
  <2> QED
    BY <2>1, PartsTypes, StateTypes, StackTypes
<1>2. Parts(k)' = Parts(k)
  BY DEF Parts
<1>3. DeployerBalance(k)' = stacks'[k].minted["deployer"] - SumFunction(Parts(k))
  BY <1>2 DEF DeployerBalance, Parts
<1> QED
  BY <1>1, <1>3

\* Stacks are as fit as they were, and relays that were ready stay so.
LEMMA ChainChanges ==
    ASSUME StateInv,
           stacks' \in Seq(Stack), Len(stacks') = Len(stacks),
           \A k \in DOMAIN stacks : /\ Fit(stacks'[k])
                                    /\ stacks[k].governors <= stacks'[k].governors
                                    /\ stacks[k].reported => stacks'[k].reported
                                    /\ stacks'[k].coreRole \subseteq {CORE} \cup RelaysOf(k)'
                                    /\ DeployerBalance(k)' >= 0,
           relays' \in Seq(Relay), DOMAIN relays \subseteq DOMAIN relays',
           \A i \in DOMAIN relays' : relays'[i].stack \in 1..record.stack,
           \A i \in DOMAIN relays : /\ relays'[i].stack = relays[i].stack
                                    /\ Staked(i) => Staked(i)'
                                    /\ Trusted(i) => Trusted(i)',
           UNCHANGED <<flashes, registries, record, files, local>>
    PROVE  StateInv'
<1>1. /\ flashes' = flashes /\ registries' = registries
      /\ record' = record /\ files' = files /\ local' = local
  OBVIOUS
<1>2. /\ Len(stacks) \in Nat /\ DOMAIN stacks = 1..Len(stacks) /\ DOMAIN stacks' = 1..Len(stacks)
      /\ record \in Record /\ record.stack \in 0..Len(stacks)
      /\ 1..record.stack \subseteq DOMAIN stacks
      /\ \A k \in DOMAIN stacks : stacks[k].governors \in Nat
      /\ \A k \in DOMAIN stacks : stacks'[k].governors \in Nat
  <2>1. \A k \in DOMAIN stacks : stacks'[k] \in Stack
    BY DEF Fit
  <2> QED
    BY <2>1, StateTypes, StackTypes
<1>3. StacksInv'
  <2>1. Len(stacks) <= MaxStacks
    BY DEF StateInv, StacksInv
  <2>2. Len(stacks') <= MaxStacks
    BY <2>1
  <2>3. \A k \in DOMAIN stacks' : /\ Fit(stacks'[k])
                                  /\ stacks'[k].coreRole \subseteq {CORE} \cup RelaysOf(k)'
                                  /\ DeployerBalance(k)' >= 0
    BY <1>2
  <2>4. \A k \in DOMAIN stacks' : Fit(stacks[k])'
    BY <2>3 DEF Fit, Complete, Governs, Mints
  <2> QED
    BY <2>2, <2>3, <2>4 DEF StacksInv
<1>4. RelaysInv' /\ FlashesInv' /\ LocalInv'
  BY <1>1 DEF StateInv, RelaysInv, FlashesInv, LocalInv
<1>5. \A a : Lasting(a) => Lasting(a)'
  BY <1>1 DEF Lasting
<1>6. FilesInv'
  <2>1. FilesInv
    BY DEF StateInv
  <2>2. \A f \in File : Lasting(files[f])'
    BY <1>1, <1>5, <2>1 DEF FilesInv, Lasting
  <2> QED
    BY <1>1, <2>1, <2>2 DEF FilesInv
<1>7. RecordInv'
  <2>1. RecordInv
    BY DEF StateInv
  <2>2. Lasting(record)'
    BY <1>1, <1>5, <2>1 DEF RecordInv, Lasting
  <2>3. \A k \in 1..record.stack : stacks'[k].reported
    BY <1>2, <2>1 DEF RecordInv
  <2>4. record.stack # 0 => /\ record.governance <= stacks'[record.stack].governors
                            /\ record.stale <= stacks'[record.stack].governors
    <3> SUFFICES ASSUME record.stack # 0
                 PROVE  /\ record.governance <= stacks'[record.stack].governors
                        /\ record.stale <= stacks'[record.stack].governors
      OBVIOUS
    <3> DEFINE k == record.stack
    <3>1. k \in DOMAIN stacks /\ record.governance \in Int /\ record.stale \in Int
      BY <1>2 DEF Record
    <3>2. /\ record.governance <= stacks[k].governors /\ record.stale <= stacks[k].governors
      BY <2>1 DEF RecordInv
    <3>3. stacks[k].governors <= stacks'[k].governors
      BY <3>1
    <3>4. stacks[k].governors \in Int /\ stacks'[k].governors \in Int
      BY <1>2, <3>1
    <3> HIDE DEF k
    <3>5. record.governance <= stacks'[k].governors /\ record.stale <= stacks'[k].governors
      BY <3>1, <3>2, <3>3, <3>4
    <3> QED
      BY <3>5 DEF k
  <2>5. record.stack <= Len(stacks') /\ Len(stacks') <= record.stack + 1
    BY <2>1 DEF RecordInv
  <2>6. record \in Record /\ record.registryV2 <= registries
    BY <2>1 DEF RecordInv
  <2> QED
    BY <1>1, <2>2, <2>3, <2>4, <2>5, <2>6 DEF RecordInv
<1> QED
  BY <1>3, <1>4, <1>6, <1>7 DEF StateInv

\* A step on one stack, which is no worse for it.
LEMMA StackChanges ==
    ASSUME StateInv, NEW k \in DOMAIN stacks, NEW s, Fit(s), Grows(stacks[k], s),
           s.coreRole \subseteq stacks[k].coreRole \cup {CORE} \cup RelaysOf(k),
           stacks' = [stacks EXCEPT ![k] = s],
           UNCHANGED <<relays, flashes, registries, record, files, local>>
    PROVE  /\ StateInv' /\ DOMAIN stacks' = DOMAIN stacks /\ stacks'[k] = s
<1>1. /\ relays' = relays /\ s \in Stack
      /\ stacks \in Seq(Stack) /\ relays \in Seq(Relay)
  BY DEF StateInv, StacksInv, RelaysInv, Fit
<1>2. /\ stacks' \in Seq(Stack) /\ Len(stacks') = Len(stacks) /\ DOMAIN stacks' = DOMAIN stacks
      /\ stacks'[k] = s /\ \A j \in DOMAIN stacks \ {k} : stacks'[j] = stacks[j]
  BY <1>1
<1>3. RelaysOf(k)' = RelaysOf(k) /\ \A j : RelaysOf(j)' = RelaysOf(j)
  BY <1>1 DEF RelaysOf
<1>4. \A j \in DOMAIN stacks : /\ Fit(stacks'[j])
                               /\ stacks[j].governors <= stacks'[j].governors
                               /\ stacks[j].reported => stacks'[j].reported
                               /\ stacks[j].coreRole \subseteq stacks'[j].coreRole
                               /\ stacks'[j].coreRole \subseteq {CORE} \cup RelaysOf(j)'
                               /\ stacks[j].minted["deployer"] <= stacks'[j].minted["deployer"]
                               /\ stacks'[j].minted["deployer"] \in Nat
  <2> TAKE j \in DOMAIN stacks
  <2>1. stacks[j] \in Stack /\ Fit(stacks[j]) /\ stacks[j].coreRole \subseteq {CORE} \cup RelaysOf(j)
    BY StateTypes DEF StateInv, StacksInv
  <2>2. /\ stacks[j].governors \in Nat /\ stacks[j].minted["deployer"] \in Nat
        /\ s.minted["deployer"] \in Nat
    BY <1>1, <2>1, StackTypes
  <2>3. CASE j = k
    BY <1>2, <1>3, <2>1, <2>2, <2>3 DEF Grows
  <2>4. CASE j # k
    <3>1. stacks'[j] = stacks[j]
      BY <1>2, <2>4
    <3> QED
      BY <1>3, <2>1, <2>2, <3>1
  <2> QED
    BY <2>3, <2>4
<1>5. \A j \in DOMAIN stacks : DeployerBalance(j)' >= 0
  BY <1>1, <1>4, BalanceKept
<1>6. \A i \in DOMAIN relays : /\ Staked(i) => Staked(i)'
                               /\ Trusted(i) => Trusted(i)'
  <2> TAKE i \in DOMAIN relays
  <2>1. relays[i].stack \in DOMAIN stacks
    BY StateTypes
  <2> QED
    BY <1>1, <1>4, <2>1 DEF Staked, Trusted
<1>7. \A i \in DOMAIN relays' : relays'[i].stack \in 1..record.stack
  BY <1>1, StateTypes
<1>8. StateInv'
  BY <1>1, <1>2, <1>4, <1>5, <1>6, <1>7, ChainChanges
<1> QED
  BY <1>2, <1>8

\* Relays are only added, and a relay that was ready stays so or is slashed.
LEMMA RelaysChange ==
    ASSUME StateInv,
           relays' \in Seq(Relay), Len(relays) <= Len(relays'),
           \A k \in DOMAIN stacks : DeployerBalance(k)' >= 0,
           \A i \in DOMAIN relays' : relays'[i].stack \in 1..record.stack,
           \A i \in DOMAIN relays : /\ relays'[i].stack = relays[i].stack
                                    /\ Staked(i) => Staked(i)'
                                    /\ relays[i].revoked => relays'[i].revoked,
           UNCHANGED <<stacks, flashes, registries, record, files, local>>
    PROVE  StateInv'
<1>1. stacks' = stacks /\ stacks \in Seq(Stack) /\ relays \in Seq(Relay)
  BY DEF StateInv, StacksInv, RelaysInv
<1>2. DOMAIN relays \subseteq DOMAIN relays'
  BY <1>1
<1>3. \A k \in DOMAIN stacks : /\ Fit(stacks'[k])
                               /\ stacks[k].governors <= stacks'[k].governors
                               /\ stacks'[k].coreRole \subseteq {CORE} \cup RelaysOf(k)'
  <2> TAKE k \in DOMAIN stacks
  <2>1. RelaysOf(k) \subseteq RelaysOf(k)'
    BY <1>2 DEF RelaysOf
  <2>2. stacks[k] \in Stack /\ Fit(stacks[k]) /\ stacks[k].coreRole \subseteq {CORE} \cup RelaysOf(k)
    BY StateTypes DEF StateInv, StacksInv
  <2>3. stacks[k].governors \in Nat
    BY <2>2, StackTypes
  <2> QED
    BY <1>1, <2>1, <2>2, <2>3
<1>4. \A i \in DOMAIN relays : Trusted(i) => Trusted(i)'
  BY <1>1 DEF Trusted
<1> QED
  BY <1>1, <1>2, <1>3, <1>4, ChainChanges

LEMMA StacksKept ==
    ASSUME StacksInv, stacks' = stacks, relays' = relays
    PROVE  StacksInv'
<1>1. \A k : DeployerBalance(k)' = DeployerBalance(k) /\ RelaysOf(k)' = RelaysOf(k)
  BY DEF DeployerBalance, RelaysOf
<1>2. \A k \in DOMAIN stacks : Fit(stacks[k])'
  <2>1. \A k \in DOMAIN stacks : Fit(stacks'[k])
    BY DEF StacksInv
  <2> QED
    BY <2>1 DEF Fit, Complete, Governs, Mints
<1>3. /\ stacks \in Seq(Stack) /\ Len(stacks) <= MaxStacks
      /\ \A k \in DOMAIN stacks : /\ stacks[k].coreRole \subseteq {CORE} \cup RelaysOf(k)
                                 /\ DeployerBalance(k) >= 0
  BY DEF StacksInv
<1> QED
  BY <1>1, <1>2, <1>3 DEF StacksInv

\* Nothing on the chain changes but flashes and registries, which are only added.
LEMMA FlashesChange ==
    ASSUME StateInv, FlashesInv',
           Len(flashes) <= Len(flashes'), \A i \in DOMAIN flashes : flashes'[i] = flashes[i],
           registries <= registries',
           UNCHANGED <<stacks, relays, record, files, local>>
    PROVE  StateInv'
<1>1. /\ stacks' = stacks /\ relays' = relays
      /\ record' = record /\ files' = files /\ local' = local
  OBVIOUS
<1>2. DOMAIN flashes \subseteq DOMAIN flashes'
  BY StateTypes DEF StateInv, FlashesInv
<1>3. StacksInv' /\ RelaysInv' /\ LocalInv'
  BY <1>1, StacksKept DEF StateInv, RelaysInv, LocalInv
<1>4. RecordInv /\ FilesInv
  BY DEF StateInv
<1>5. \A a : Lasting(a) => Lasting(a)'
  BY <1>1, <1>2 DEF Lasting, Staked, Trusted
<1>6. FilesInv'
  BY <1>1, <1>4, <1>5 DEF FilesInv, Lasting
<1>7. RecordInv'
  <2>1. Lasting(record)'
    BY <1>1, <1>4, <1>5 DEF RecordInv, Lasting
  <2>2. record.registryV2 <= registries'
    BY <1>4, StateTypes DEF RecordInv, Record, FlashesInv
  <2> QED
    BY <1>1, <1>4, <2>1, <2>2 DEF RecordInv
<1> QED
  BY <1>3, <1>6, <1>7 DEF StateInv

\* Nothing changes but the record and the files, and the record keeps its stack.
LEMMA FilesChange ==
    ASSUME StateInv, record'.stack = record.stack, RecordInv', FilesInv',
           UNCHANGED <<stacks, relays, flashes, registries, local>>
    PROVE  StateInv'
<1>1. /\ stacks' = stacks /\ relays' = relays /\ flashes' = flashes
      /\ registries' = registries /\ local' = local
  OBVIOUS
<1>2. StacksInv'
  BY <1>1, StacksKept DEF StateInv
<1>3. RelaysInv' /\ FlashesInv' /\ LocalInv'
  BY <1>1 DEF StateInv, RelaysInv, FlashesInv, LocalInv
<1> QED
  BY <1>2, <1>3 DEF StateInv

LEMMA QuietStep ==
    ASSUME StateInv, UNCHANGED <<scripted, local>>
    PROVE  StateInv'
<1>1. /\ stacks' = stacks /\ relays' = relays /\ flashes' = flashes
      /\ registries' = registries /\ record' = record /\ files' = files /\ local' = local
  BY DEF scripted
<1>2. FlashesInv' /\ Len(flashes) <= Len(flashes') /\ registries <= registries'
  BY <1>1, StateTypes DEF StateInv, FlashesInv
<1> QED
  BY <1>1, <1>2, FlashesChange

------------------------------------------------------------------------------
(***************************************************************************)
(* deploy.js and resume-deploy.js                                          *)
(***************************************************************************)
Minted(s, h) == [s EXCEPT !.minted[h] = @ + Allocation[h]]
Granted(s, r, g) == [s EXCEPT !.has[r] = @ \cup {g}]

\* A mint within the cap is one more of the holder's part.
LEMMA MintOnce ==
    ASSUME NEW s, Fit(s), ~s.reported, NEW h \in Holder,
           Supply(s) + Allocation[h] <= MAX_SUPPLY,
           h = "rewards" => s.minted["rewards"] = 0,
           NEW t, t = Minted(s, h)
    PROVE  /\ Fit(t) /\ Grows(s, t) /\ ~t.reported
           /\ t.minted = [s.minted EXCEPT ![h] = @ + Allocation[h]]
           /\ t.live = s.live /\ t.maktubCore = s.maktubCore /\ t.coreRole = s.coreRole
           /\ t.governors = s.governors /\ t.has = s.has
<1> DEFINE m == s.minted
<1>1. /\ s \in Stack /\ m \in [Holder -> Nat] /\ Allocation[h] \in Nat
      /\ m["rewards"] \in {0, 35} /\ m["timelock"] \in {0, 25, 50, 75, 100}
      /\ m["deployer"] \in {0, 40, 80, 120}
      /\ MAX_SUPPLY \in 0..124
  BY StackTypes, AllocationIs, DeploymentAssumption DEF Fit, Mints
<1>2. m["rewards"] + m["timelock"] + m["deployer"] + Allocation[h] <= MAX_SUPPLY
  <2>1. SumFunction(m) = m["rewards"] + m["timelock"] + m["deployer"]
    BY <1>1, SupplyIs
  <2> QED
    BY <2>1 DEF Supply
<1>3. /\ t.minted = [m EXCEPT ![h] = @ + Allocation[h]]
      /\ t.live = s.live /\ t.maktubCore = s.maktubCore /\ t.coreRole = s.coreRole
      /\ t.admin = s.admin /\ t.minimumStake = s.minimumStake
      /\ t.governors = s.governors /\ t.has = s.has /\ t.reported = s.reported
  BY <1>1 DEF Stack, Minted
<1>4. t \in Stack
  <2>1. [m EXCEPT ![h] = @ + Allocation[h]] \in [Holder -> Nat]
    BY <1>1
  <2> DEFINE n == [m EXCEPT ![h] = @ + Allocation[h]]
  <2>2. t = [s EXCEPT !.minted = n]
    BY DEF Minted
  <2> HIDE DEF n, m
  <2>3. n \in [Holder -> Nat]
    BY <2>1 DEF n
  <2> QED
    BY <1>1, <2>2, <2>3 DEF Stack
<1>5. Holder = {"rewards", "timelock", "deployer"}
  BY DEF Holder
<1>6. \A k \in Holder : t.minted[k] = IF k = h THEN m[k] + Allocation[h] ELSE m[k]
  BY <1>1, <1>3
<1>7. /\ Mints(t) /\ s.minted["deployer"] <= t.minted["deployer"]
  <2>1. CASE h = "rewards"
    <3>1. \A k \in Holder : t.minted[k] = IF k = "rewards" THEN m[k] + 35 ELSE m[k]
      BY <1>6, <2>1, AllocationIs
    <3>2. m["rewards"] + m["timelock"] + m["deployer"] + 35 <= MAX_SUPPLY
      BY <1>2, <2>1, AllocationIs
    <3> HIDE DEF m
    <3>3. m["rewards"] + 35 = 35
      BY SMTT(30), <1>1, <3>2, <2>1 DEF m
    <3> QED
      BY <1>1, <1>5, <3>1, <3>2, <3>3 DEF m, Mints
  <2>2. CASE h = "timelock"
    <3>1. \A k \in Holder : t.minted[k] = IF k = "timelock" THEN m[k] + 25 ELSE m[k]
      BY <1>6, <2>2, AllocationIs
    <3>2. m["rewards"] + m["timelock"] + m["deployer"] + 25 <= MAX_SUPPLY
      BY <1>2, <2>2, AllocationIs
    <3> HIDE DEF m
    <3>3. m["timelock"] + 25 \in {25, 50, 75, 100}
      BY SMTT(30), <1>1, <3>2
    <3> QED
      BY <1>1, <1>5, <3>1, <3>2, <3>3 DEF m, Mints
  <2>3. CASE h = "deployer"
    <3>1. \A k \in Holder : t.minted[k] = IF k = "deployer" THEN m[k] + 40 ELSE m[k]
      BY <1>6, <2>3, AllocationIs
    <3>2. m["rewards"] + m["timelock"] + m["deployer"] + 40 <= MAX_SUPPLY
      BY <1>2, <2>3, AllocationIs
    <3> HIDE DEF m
    <3>3. m["deployer"] + 40 \in {40, 80, 120}
      BY SMTT(30), <1>1, <3>2
    <3> QED
      BY <1>1, <1>5, <3>1, <3>2, <3>3 DEF m, Mints
  <2> QED
    BY <1>5, <2>1, <2>2, <2>3
<1>8. Fit(t)
  BY <1>3, <1>4, <1>7 DEF Fit
<1>9. Grows(s, t)
  BY <1>1, <1>3, <1>7, StackTypes DEF Grows
<1> QED
  BY <1>3, <1>8, <1>9

LEMMA CreateStep ==
    ASSUME StateInv, NEW k \in DOMAIN stacks, NEW n \in 0..5, Deployed(stacks[k], n),
           local' = local, StackStep(<<"create", k, Contracts[n + 1]>>)
    PROVE  StateInv' /\ k \in DOMAIN stacks' /\ Deployed(stacks'[k], n + 1)
<1> DEFINE c == Contracts[n + 1]
           s == stacks[k]
           t == [s EXCEPT !.live = @ \cup {c}, !.governors = IF n = 3 THEN 1 ELSE @]
<1>1. /\ DOMAIN Contracts = 1..6 /\ \A i \in 1..6 : Contracts[i] \in Range(Contracts)
      /\ \A i \in 1..6 : Contracts[i] = "MktbGovernance" <=> i = 4
  BY DEF Contracts, Range
<1>2. c \in Range(Contracts) /\ (c = "MktbGovernance" <=> n = 3)
  BY <1>1
<1>3. s \in Stack /\ Fit(s)
  BY StateTypes
<1> HIDE DEF c
<1>4. /\ stacks' = [stacks EXCEPT ![k] = t]
      /\ UNCHANGED <<relays, flashes, registries, record, files>>
  BY <1>2 DEF StackStep, Create, c
<1>5. /\ t.live = s.live \cup {c} /\ t.maktubCore = s.maktubCore /\ t.admin = s.admin
      /\ t.coreRole = s.coreRole /\ t.minted = s.minted /\ t.has = s.has
      /\ t.reported = s.reported /\ t.governors = IF n = 3 THEN 1 ELSE s.governors
      /\ t.minimumStake = s.minimumStake
  BY <1>3 DEF Stack
<1>6. t \in Stack
  <2>1. s.live \cup {c} \in SUBSET Range(Contracts)
    BY <1>2, <1>3, StackTypes
  <2>2. (IF n = 3 THEN 1 ELSE s.governors) \in 0..MaxGovernors
    BY <1>3, StackTypes, DeploymentAssumption
  <2> HIDE DEF s
  <2> QED
    BY <1>3, <2>1, <2>2 DEF Stack
<1> HIDE DEF t, s
<1>7. ~s.reported /\ s.governors = IF n >= 4 THEN 1 ELSE 0
  BY DEF Deployed, s
<1>8. /\ t.governors = IF n + 1 >= 4 THEN 1 ELSE 0
      /\ s.governors <= t.governors /\ 1..s.governors \subseteq 1..t.governors
  BY <1>5, <1>7
<1>9. Fit(t) /\ Grows(s, t)
  <2>1. \A r \in Role : t.has[r] \subseteq 1..t.governors
    BY <1>3, <1>5, <1>8 DEF Fit
  <2>2. Mints(t)
    BY <1>3, <1>5 DEF Fit, Mints
  <2>3. s.minted["deployer"] \in Nat
    BY <1>3, StackTypes
  <2> QED
    BY <1>5, <1>6, <1>7, <1>8, <2>1, <2>2, <2>3 DEF Fit, Grows
<1>10. StateInv' /\ DOMAIN stacks' = DOMAIN stacks /\ stacks'[k] = t
  BY <1>4, <1>5, <1>9, StackChanges DEF s
<1>11. \A i \in DOMAIN Contracts : i <= n + 1 => Contracts[i] \in t.live
  BY <1>1, <1>5 DEF Deployed, c, s
<1>12. t.minted = [rewards  |-> IF n + 1 >= 12 THEN 35 ELSE 0,
                   timelock |-> IF n + 1 >= 13 THEN 25 ELSE 0,
                   deployer |-> IF n + 1 >= 14 THEN 40 ELSE 0]
  BY <1>5 DEF Deployed, s
<1> QED
  BY <1>5, <1>7, <1>8, <1>10, <1>11, <1>12 DEF Deployed

LEMMA WireStep ==
    ASSUME StateInv, NEW k \in DOMAIN stacks, NEW n \in 6..7, Deployed(stacks[k], n),
           local' = local,
           StackStep(IF n = 6 THEN <<"setMaktubCore", k>> ELSE <<"grantCoreRole", k>>)
    PROVE  StateInv' /\ k \in DOMAIN stacks' /\ Deployed(stacks'[k], n + 1)
<1> DEFINE s == stacks[k]
<1>1. s \in Stack /\ Fit(s)
  BY StateTypes
<1>2. PICK t \in Stack :
          /\ stacks' = [stacks EXCEPT ![k] = t]
          /\ t.live = s.live /\ t.minted = s.minted /\ t.has = s.has
          /\ t.governors = s.governors /\ t.reported = s.reported
          /\ n = 6 => t.maktubCore
          /\ n = 7 => t.maktubCore = s.maktubCore /\ CORE \in t.coreRole
          /\ s.coreRole \subseteq t.coreRole /\ t.coreRole \subseteq s.coreRole \cup {CORE}
  <2>1. CASE n = 6
    <3> DEFINE t == [s EXCEPT !.maktubCore = TRUE]
    <3>1. stacks' = [stacks EXCEPT ![k] = t]
      BY <2>1 DEF StackStep
    <3>2. /\ t.live = s.live /\ t.minted = s.minted /\ t.has = s.has
          /\ t.governors = s.governors /\ t.reported = s.reported
          /\ t.maktubCore /\ t.coreRole = s.coreRole /\ t \in Stack
      BY <1>1 DEF Stack
    <3>3. n # 7
      BY <2>1
    <3> HIDE DEF t
    <3> QED
      BY <3>1, <3>2, <3>3
  <2>2. CASE n = 7
    <3> DEFINE t == [s EXCEPT !.coreRole = @ \cup {CORE}]
    <3>1. stacks' = [stacks EXCEPT ![k] = t]
      BY <2>2 DEF StackStep
    <3>2. /\ t.live = s.live /\ t.minted = s.minted /\ t.has = s.has
          /\ t.governors = s.governors /\ t.reported = s.reported
          /\ t.maktubCore = s.maktubCore /\ t.coreRole = s.coreRole \cup {CORE} /\ t \in Stack
      BY <1>1 DEF Stack, CORE
    <3>3. n # 6
      BY <2>2
    <3> HIDE DEF t
    <3> QED
      BY <3>1, <3>2, <3>3
  <2> QED
    BY <2>1, <2>2
<1>3. UNCHANGED <<relays, flashes, registries, record, files>>
  BY DEF StackStep
<1> HIDE DEF s
<1>6. ~s.reported /\ s.governors = 1
  BY DEF Deployed, s
<1>7. Fit(t) /\ Grows(s, t)
  <2>1. s.minted["deployer"] \in Nat
    BY <1>1, StackTypes
  <2>2. Mints(t) /\ \A r \in Role : t.has[r] \subseteq 1..t.governors
    BY <1>1, <1>2 DEF Fit, Mints
  <2> QED
    BY <1>2, <1>6, <2>1, <2>2 DEF Fit, Grows
<1>8. StateInv' /\ DOMAIN stacks' = DOMAIN stacks /\ stacks'[k] = t
  BY <1>2, <1>3, <1>7, StackChanges DEF s
<1>9. \A i \in DOMAIN Contracts : i <= n + 1 => Contracts[i] \in t.live
  <2>1. DOMAIN Contracts = 1..6
    BY DEF Contracts
  <2> QED
    BY <1>2, <2>1 DEF Deployed, s
<1>10. t.minted = [rewards  |-> IF n + 1 >= 12 THEN 35 ELSE 0,
                   timelock |-> IF n + 1 >= 13 THEN 25 ELSE 0,
                   deployer |-> IF n + 1 >= 14 THEN 40 ELSE 0]
  BY <1>2 DEF Deployed, s
<1>11. (n + 1 >= 7 => t.maktubCore) /\ (n + 1 >= 8 => CORE \in t.coreRole)
  BY <1>2 DEF Deployed, s
<1> QED
  BY <1>2, <1>6, <1>8, <1>9, <1>10, <1>11 DEF Deployed

\* A role given to a governor of the stack.
LEMMA RoleGranted ==
    ASSUME NEW s, Fit(s), NEW r \in Role, NEW g \in 1..s.governors,
           NEW t, t = Granted(s, r, g)
    PROVE  /\ Fit(t) /\ Grows(s, t)
           /\ t.live = s.live /\ t.maktubCore = s.maktubCore /\ t.coreRole = s.coreRole
           /\ t.minted = s.minted /\ t.governors = s.governors /\ t.reported = s.reported
           /\ g \in t.has[r] /\ \A q \in Role : s.has[q] \subseteq t.has[q]
<1>1. /\ s \in Stack /\ s.has \in [Role -> SUBSET Nat] /\ s.governors \in Nat
      /\ s.minted["deployer"] \in Nat
  BY StackTypes DEF Fit
<1> DEFINE has == [s.has EXCEPT ![r] = @ \cup {g}]
<1>2. has \in [Role -> SUBSET Nat]
  BY <1>1
<1>3. \A q \in Role : has[q] = IF q = r THEN s.has[q] \cup {g} ELSE s.has[q]
  BY <1>1
<1>4. t = [s EXCEPT !.has = has]
  BY DEF Granted
<1> HIDE DEF has
<1>5. /\ t.has = has /\ t \in Stack
      /\ t.live = s.live /\ t.maktubCore = s.maktubCore /\ t.coreRole = s.coreRole
      /\ t.minted = s.minted /\ t.governors = s.governors /\ t.reported = s.reported
  BY <1>1, <1>2, <1>4 DEF Stack
<1>6. \A q \in Role : s.has[q] \subseteq t.has[q] /\ t.has[q] \subseteq 1..t.governors
  BY <1>3, <1>5 DEF Fit
<1>7. t.reported => Complete(t) /\ \E h \in 1..t.governors : Governs(t, h)
  BY <1>5, <1>6 DEF Fit, Complete, Governs
<1>8. Mints(t)
  BY <1>5 DEF Fit, Mints
<1>9. Fit(t)
  BY <1>5, <1>6, <1>7, <1>8 DEF Fit
<1>10. Grows(s, t)
  BY <1>1, <1>5 DEF Grows
<1>11. g \in t.has[r]
  <2>1. t.has[r] = s.has[r] \cup {g}
    BY <1>3, <1>5
  <2> QED
    BY <2>1
<1> QED
  BY <1>5, <1>6, <1>9, <1>10, <1>11

LEMMA GrantStep ==
    ASSUME StateInv, NEW k \in DOMAIN stacks, NEW n \in 8..10, Deployed(stacks[k], n),
           local' = local, NEW r \in Role,
           r = IF n = 8 THEN "PROPOSER" ELSE IF n = 9 THEN "EXECUTOR" ELSE "CANCELLER",
           RoleStep(<<"grantRole", k, r, 1>>)
    PROVE  StateInv' /\ k \in DOMAIN stacks' /\ Deployed(stacks'[k], n + 1)
<1> DEFINE s == stacks[k]
<1>1. PICK t : t = Granted(s, r, 1) /\ stacks' = [stacks EXCEPT ![k] = t]
  BY DEF RoleStep, Granted
<1>2. s \in Stack /\ Fit(s)
  BY StateTypes
<1>3. UNCHANGED <<relays, flashes, registries, record, files>>
  BY DEF RoleStep
<1> HIDE DEF s
<1>4. ~s.reported /\ s.governors = 1
  BY DEF Deployed, s
<1>5. /\ Fit(t) /\ Grows(s, t)
      /\ t.live = s.live /\ t.maktubCore = s.maktubCore /\ t.coreRole = s.coreRole
      /\ t.minted = s.minted /\ t.governors = s.governors /\ t.reported = s.reported
      /\ 1 \in t.has[r] /\ \A q \in Role : s.has[q] \subseteq t.has[q]
  BY <1>1, <1>2, <1>4, RoleGranted
<1>6. StateInv' /\ DOMAIN stacks' = DOMAIN stacks /\ stacks'[k] = t
  BY <1>1, <1>3, <1>5, StackChanges DEF s
<1>7. /\ n + 1 >= 9 => 1 \in t.has["PROPOSER"]
      /\ n + 1 >= 10 => 1 \in t.has["EXECUTOR"]
      /\ n + 1 >= 11 => 1 \in t.has["CANCELLER"]
  BY <1>5 DEF Deployed, Role, s
<1>8. t.minted = [rewards  |-> IF n + 1 >= 12 THEN 35 ELSE 0,
                  timelock |-> IF n + 1 >= 13 THEN 25 ELSE 0,
                  deployer |-> IF n + 1 >= 14 THEN 40 ELSE 0]
  BY <1>5 DEF Deployed, s
<1>9. \A i \in DOMAIN Contracts : i <= n + 1 => Contracts[i] \in t.live
  <2>1. DOMAIN Contracts = 1..6
    BY DEF Contracts
  <2> QED
    BY <1>5, <2>1 DEF Deployed, s
<1>10. t.maktubCore /\ CORE \in t.coreRole
  BY <1>5 DEF Deployed, s
<1> QED
  BY <1>4, <1>5, <1>6, <1>7, <1>8, <1>9, <1>10 DEF Deployed

LEMMA MintStep ==
    ASSUME StateInv, NEW k \in DOMAIN stacks, NEW n \in 11..13, Deployed(stacks[k], n),
           local' = local, NEW h \in Holder,
           h = IF n = 11 THEN "rewards" ELSE IF n = 12 THEN "timelock" ELSE "deployer",
           StackStep(<<"mint", k, h>>)
    PROVE  StateInv' /\ k \in DOMAIN stacks' /\ Deployed(stacks'[k], n + 1)
<1> DEFINE s == stacks[k]
<1>1. PICK t : /\ t = Minted(s, h)
               /\ stacks' = [stacks EXCEPT ![k] = t]
               /\ Supply(s) + Allocation[h] <= MAX_SUPPLY
               /\ UNCHANGED <<relays, flashes, registries, record, files>>
  BY DEF StackStep, MintTo, Minted
<1>2. s \in Stack /\ Fit(s) /\ ~s.reported
  BY StateTypes DEF Deployed
<1>3. s.minted = [rewards  |-> IF n >= 12 THEN 35 ELSE 0,
                  timelock |-> IF n >= 13 THEN 25 ELSE 0,
                  deployer |-> IF n >= 14 THEN 40 ELSE 0]
  BY DEF Deployed
<1> HIDE DEF s
<1>4. h = "rewards" => s.minted["rewards"] = 0
  BY <1>3
<1>5. /\ Fit(t) /\ Grows(s, t) /\ ~t.reported
      /\ t.minted = [s.minted EXCEPT ![h] = @ + Allocation[h]]
      /\ t.live = s.live /\ t.maktubCore = s.maktubCore /\ t.coreRole = s.coreRole
      /\ t.governors = s.governors /\ t.has = s.has
  BY <1>1, <1>2, <1>4, MintOnce
<1>6. StateInv' /\ DOMAIN stacks' = DOMAIN stacks /\ stacks'[k] = t
  BY <1>1, <1>5, StackChanges DEF s
<1>7. t.minted = [rewards  |-> IF n + 1 >= 12 THEN 35 ELSE 0,
                  timelock |-> IF n + 1 >= 13 THEN 25 ELSE 0,
                  deployer |-> IF n + 1 >= 14 THEN 40 ELSE 0]
  <2>1. s.minted \in [Holder -> Nat] /\ Holder = {"rewards", "timelock", "deployer"}
    BY <1>2, StackTypes DEF Holder
  <2>2. CASE n = 11
    BY <1>3, <1>5, <2>2, AllocationIs
  <2>3. CASE n = 12
    BY <1>3, <1>5, <2>3, AllocationIs
  <2>4. CASE n = 13
    BY <1>3, <1>5, <2>4, AllocationIs
  <2> QED
    BY <2>2, <2>3, <2>4
<1>8. \A i \in DOMAIN Contracts : i <= n + 1 => Contracts[i] \in t.live
  <2>1. DOMAIN Contracts = 1..6
    BY DEF Contracts
  <2> QED
    BY <1>5, <2>1 DEF Deployed, s
<1>9. /\ t.maktubCore /\ CORE \in t.coreRole /\ t.governors = 1
      /\ 1 \in t.has["PROPOSER"] /\ 1 \in t.has["EXECUTOR"] /\ 1 \in t.has["CANCELLER"]
  BY <1>5 DEF Deployed, s
<1> QED
  BY <1>5, <1>6, <1>7, <1>8, <1>9 DEF Deployed

\* A summary is printed of a complete stack only.
LEMMA ReportStep ==
    ASSUME StateInv, NEW k \in DOMAIN stacks, StackStep(<<"report", k>>), local' = local,
           Complete(stacks[k]), \E g \in 1..stacks[k].governors : Governs(stacks[k], g)
    PROVE  StateInv'
<1> DEFINE s == stacks[k]
           t == [s EXCEPT !.reported = TRUE]
<1>1. /\ stacks' = [stacks EXCEPT ![k] = t]
      /\ UNCHANGED <<relays, flashes, registries, record, files>>
  BY DEF StackStep
<1>2. s \in Stack /\ Fit(s) /\ s.minted["deployer"] \in Nat /\ s.governors \in Nat
  BY StateTypes, StackTypes
<1>3. /\ t.live = s.live /\ t.maktubCore = s.maktubCore /\ t.coreRole = s.coreRole
      /\ t.minted = s.minted /\ t.governors = s.governors /\ t.has = s.has
      /\ t.reported /\ t \in Stack
  BY <1>2 DEF Stack
<1> HIDE DEF t
<1>4. Complete(t) /\ \E g \in 1..t.governors : Governs(t, g)
  BY <1>3 DEF Complete, Governs
<1>5. Fit(t)
  BY <1>2, <1>3, <1>4 DEF Fit, Mints
<1>6. Grows(s, t)
  BY <1>2, <1>3 DEF Grows
<1> QED
  BY <1>1, <1>3, <1>5, <1>6, StackChanges

LEMMA DeployRuns ==
    ASSUME StateInv, RunStep, NEW n \in 0..14, NEW k \in DOMAIN stacks,
           todo = Rest(DeployScript(k), n), Deployed(stacks[k], n)
    PROVE  IInv'
<1> DEFINE script == DeployScript(k)
           s == script[n + 1]
<1>1. /\ Len(script) = 15 /\ script \in Seq({script[i] : i \in 1..15})
      /\ \A i \in 0..5 : script[i + 1] = <<"create", k, Contracts[i + 1]>>
      /\ script[7] = <<"setMaktubCore", k>>
      /\ script[8] = <<"grantCoreRole", k>>
      /\ script[9] = <<"grantRole", k, "PROPOSER", 1>>
      /\ script[10] = <<"grantRole", k, "EXECUTOR", 1>>
      /\ script[11] = <<"grantRole", k, "CANCELLER", 1>>
      /\ script[12] = <<"mint", k, "rewards">>
      /\ script[13] = <<"mint", k, "timelock">>
      /\ script[14] = <<"mint", k, "deployer">>
      /\ script[15] = <<"report", k>>
  BY DeploySteps
<1>2. todo = Rest(script, n)
  OBVIOUS
<1> HIDE DEF script
<1>3. /\ Head(todo) = s /\ todo' = Rest(script, n + 1)
      /\ n = 14 => todo' = <<>>
  <2>1. n \in 0..(Len(script) - 1)
    BY <1>1
  <2>2. Head(todo) = s /\ Tail(todo) = Rest(script, n + 1)
    BY <1>1, <1>2, <2>1, NextStep
  <2>3. Rest(script, 15) = <<>>
    BY <1>1, WholeScript
  <2>4. todo' = Tail(todo)
    BY DEF RunStep
  <2>5. n = 14 => n + 1 = 15
    OBVIOUS
  <2> HIDE DEF s
  <2> QED
    BY SMTT(30), <2>2, <2>3, <2>4, <2>5
<1>4. ASSUME n < 14, k \in DOMAIN stacks', Deployed(stacks'[k], n + 1), StateInv'
      PROVE  IInv'
  <2>1. n + 1 \in 0..14 /\ todo' = Rest(DeployScript(k), n + 1)
    BY <1>3, <1>4 DEF script
  <2>2. RunsDeploy'
    BY <1>4, <2>1 DEF RunsDeploy, Deployed
  <2> QED
    BY <1>4, <2>2 DEF IInv, Running
<1>5. CASE n \in 0..5
  <2>1. s = <<"create", k, Contracts[n + 1]>>
    BY <1>1, <1>5
  <2> HIDE DEF s
  <2>2. StackStep(<<"create", k, Contracts[n + 1]>>) /\ local' = local
    <3>1. s[1] = "create"
      BY <2>1
    <3>2. StackStep(s) /\ local' = local
      BY <1>3, <3>1, StepMade
    <3> QED
      BY <2>1, <3>2
  <2>3. StateInv' /\ k \in DOMAIN stacks' /\ Deployed(stacks'[k], n + 1)
    BY <1>5, <2>2, CreateStep
  <2> QED
    BY <1>4, <1>5, <2>3
<1>6. CASE n \in 6..7
  <2>1. s = IF n = 6 THEN <<"setMaktubCore", k>> ELSE <<"grantCoreRole", k>>
    <3>1. n = 6 \/ n = 7
      BY <1>6
    <3>2. n = 6 => s = <<"setMaktubCore", k>>
      BY <1>1
    <3>3. n = 7 => s = <<"grantCoreRole", k>>
      BY <1>1
    <3> HIDE DEF s
    <3> QED
      BY <3>1, <3>2, <3>3
  <2> HIDE DEF s
  <2>2. s[1] \in {"setMaktubCore", "grantCoreRole"}
    BY <2>1
  <2>3. StackStep(s) /\ local' = local
    BY <1>3, <2>2, StepMade
  <2>4. StackStep(IF n = 6 THEN <<"setMaktubCore", k>> ELSE <<"grantCoreRole", k>>)
    BY <2>1, <2>3
  <2>5. StateInv' /\ k \in DOMAIN stacks' /\ Deployed(stacks'[k], n + 1)
    BY <1>6, <2>3, <2>4, WireStep
  <2> QED
    BY <1>4, <1>6, <2>5
<1>7. CASE n \in 8..10
  <2>1. PICK r \in Role :
            /\ r = IF n = 8 THEN "PROPOSER" ELSE IF n = 9 THEN "EXECUTOR" ELSE "CANCELLER"
            /\ s = <<"grantRole", k, r, 1>>
    BY <1>1, <1>7 DEF Role
  <2> HIDE DEF s
  <2>2. RoleStep(<<"grantRole", k, r, 1>>) /\ local' = local
    <3>1. s[1] = "grantRole"
      BY <2>1
    <3>2. RoleStep(s) /\ local' = local
      BY <1>3, <3>1, StepMade
    <3> QED
      BY <2>1, <3>2
  <2>3. StateInv' /\ k \in DOMAIN stacks' /\ Deployed(stacks'[k], n + 1)
    BY <1>7, <2>1, <2>2, GrantStep
  <2> QED
    BY <1>4, <1>7, <2>3
<1>8. CASE n \in 11..13
  <2>1. PICK h \in Holder :
            /\ h = IF n = 11 THEN "rewards" ELSE IF n = 12 THEN "timelock" ELSE "deployer"
            /\ s = <<"mint", k, h>>
    BY <1>1, <1>8 DEF Holder
  <2> HIDE DEF s
  <2>2. StackStep(<<"mint", k, h>>) /\ local' = local
    <3>1. s[1] = "mint"
      BY <2>1
    <3>2. StackStep(s) /\ local' = local
      BY <1>3, <3>1, StepMade
    <3> QED
      BY <2>1, <3>2
  <2>3. StateInv' /\ k \in DOMAIN stacks' /\ Deployed(stacks'[k], n + 1)
    BY <1>8, <2>1, <2>2, MintStep
  <2> QED
    BY <1>4, <1>8, <2>3
<1>9. CASE n = 14
  <2>1. s = <<"report", k>>
    BY <1>1, <1>9
  <2> HIDE DEF s
  <2>2. StackStep(<<"report", k>>) /\ local' = local
    <3>1. s[1] = "report"
      BY <2>1
    <3>2. StackStep(s) /\ local' = local
      BY <1>3, <3>1, StepMade
    <3> QED
      BY <2>1, <3>2
  <2> DEFINE u == stacks[k]
  <2>3. Complete(u)
    <3>1. \A i \in DOMAIN Contracts : Contracts[i] \in u.live
      <4>1. DOMAIN Contracts = 1..6
        BY DEF Contracts
      <4> QED
        BY <1>9, <4>1 DEF Deployed
    <3>2. Range(Contracts) \subseteq u.live /\ u.live \subseteq Range(Contracts)
      BY <3>1, StackTypes, StateTypes DEF Range
    <3>3. u.minted = Allocation
      BY <1>9 DEF Deployed, Allocation
    <3> QED
      BY <1>9, <3>2, <3>3 DEF Deployed, Complete
  <2>4. \E g \in 1..u.governors : Governs(u, g)
    <3>1. u.governors = 1 /\ Governs(u, 1)
      BY <1>9 DEF Deployed, Governs, Role
    <3> QED
      BY <3>1
  <2>5. StateInv'
    BY <2>2, <2>3, <2>4, ReportStep
  <2> QED
    BY <1>3, <1>9, <2>5 DEF IInv, Running
<1> QED
  BY <1>5, <1>6, <1>7, <1>8, <1>9

\* The cap admits no second mint of a complete stack.
LEMMA ResumeMint ==
    ASSUME StateInv, NEW k \in DOMAIN stacks, NEW n \in 0..1, Resumed(stacks[k], n),
           local' = local,
           NEW h \in Holder, h = IF n = 0 THEN "timelock" ELSE "deployer",
           StackStep(<<"mint", k, h>>)
    PROVE  StateInv' /\ k \in DOMAIN stacks' /\ Resumed(stacks'[k], n + 1)
<1> DEFINE s == stacks[k]
<1>1. PICK t : /\ t = Minted(s, h)
               /\ stacks' = [stacks EXCEPT ![k] = t]
               /\ Supply(s) + Allocation[h] <= MAX_SUPPLY
               /\ UNCHANGED <<relays, flashes, registries, record, files>>
  BY DEF StackStep, MintTo, Minted
<1>2. s \in Stack /\ Fit(s)
  BY StateTypes
<1> HIDE DEF s
<1>3. h # "rewards" /\ s.minted \in [Holder -> Nat]
      /\ Holder = {"rewards", "timelock", "deployer"}
  BY <1>2, StackTypes DEF Holder
<1>4. ~s.reported
  <2> SUFFICES ASSUME s.reported PROVE FALSE
    OBVIOUS
  <2>1. s.minted = Allocation
    BY <1>2 DEF Fit, Complete
  <2>2. Supply(s) = 100
    BY <1>3, <2>1, SupplyIs, AllocationIs DEF Supply
  <2>3. MAX_SUPPLY <= 124 /\ MAX_SUPPLY \in Nat
    BY DeploymentAssumption
  <2>4. 100 + Allocation[h] <= MAX_SUPPLY
    BY <1>1, <2>2
  <2> QED
    BY <2>3, <2>4, AllocationIs
<1>5. h = "rewards" => s.minted["rewards"] = 0
  BY <1>3
<1>6. /\ Fit(t) /\ Grows(s, t) /\ ~t.reported
      /\ t.minted = [s.minted EXCEPT ![h] = @ + Allocation[h]]
      /\ t.live = s.live /\ t.maktubCore = s.maktubCore /\ t.coreRole = s.coreRole
      /\ t.governors = s.governors /\ t.has = s.has
  BY <1>1, <1>2, <1>4, <1>5, MintOnce
<1>7. StateInv' /\ DOMAIN stacks' = DOMAIN stacks /\ stacks'[k] = t
  BY <1>1, <1>6, StackChanges DEF s
<1>8. /\ t.minted["rewards"] = 35
      /\ n + 1 >= 1 => t.minted["timelock"] >= 25
      /\ n + 1 >= 2 => t.minted["deployer"] >= 40
  <2>1. CASE n = 0
    BY <1>3, <1>6, <2>1, AllocationIs DEF Resumed, s
  <2>2. CASE n = 1
    BY <1>3, <1>6, <2>2, AllocationIs DEF Resumed, s
  <2> QED
    BY <2>1, <2>2
<1>9. Wired(t)
  BY <1>6 DEF Resumed, Wired, s
<1> QED
  BY <1>7, <1>8, <1>9 DEF Resumed

LEMMA ResumeRuns ==
    ASSUME StateInv, RunStep, NEW n \in 0..2, NEW k \in DOMAIN stacks,
           todo = Rest(ResumeScript(k), n), Resumed(stacks[k], n)
    PROVE  IInv'
<1> DEFINE script == ResumeScript(k)
           s == script[n + 1]
<1>1. /\ Len(script) = 3 /\ script \in Seq({script[i] : i \in 1..3})
      /\ script[1] = <<"mint", k, "timelock">>
      /\ script[2] = <<"mint", k, "deployer">>
      /\ script[3] = <<"report", k>>
  BY ResumeSteps
<1>2. todo = Rest(script, n)
  OBVIOUS
<1> HIDE DEF script
<1>3. /\ Head(todo) = s /\ todo' = Rest(script, n + 1)
      /\ n = 2 => todo' = <<>>
  <2>1. n \in 0..(Len(script) - 1)
    BY <1>1
  <2>2. Head(todo) = s /\ Tail(todo) = Rest(script, n + 1)
    BY <1>1, <1>2, <2>1, NextStep
  <2>3. Rest(script, 3) = <<>>
    BY <1>1, WholeScript
  <2>4. todo' = Tail(todo)
    BY DEF RunStep
  <2>5. n = 2 => n + 1 = 3
    OBVIOUS
  <2> HIDE DEF s
  <2> QED
    BY SMTT(30), <2>2, <2>3, <2>4, <2>5
<1>4. CASE n \in 0..1
  <2>1. PICK h \in Holder :
            h = (IF n = 0 THEN "timelock" ELSE "deployer") /\ s = <<"mint", k, h>>
    BY <1>1, <1>4 DEF Holder
  <2> HIDE DEF s
  <2>2. StackStep(<<"mint", k, h>>) /\ local' = local
    <3>1. s[1] = "mint"
      BY <2>1
    <3>2. StackStep(s) /\ local' = local
      BY <1>3, <3>1, StepMade
    <3> QED
      BY <2>1, <3>2
  <2>3. StateInv' /\ k \in DOMAIN stacks' /\ Resumed(stacks'[k], n + 1)
    BY <1>4, <2>1, <2>2, ResumeMint
  <2>4. n + 1 \in 0..2 /\ todo' = Rest(ResumeScript(k), n + 1)
    BY <1>3, <1>4 DEF script
  <2>5. RunsResume'
    BY <2>3, <2>4 DEF RunsResume, Resumed, Wired
  <2> QED
    BY <2>3, <2>5 DEF IInv, Running
<1>5. CASE n = 2
  <2>1. s = <<"report", k>>
    BY <1>1, <1>5
  <2> HIDE DEF s
  <2>2. StackStep(<<"report", k>>) /\ local' = local
    <3>1. s[1] = "report"
      BY <2>1
    <3>2. StackStep(s) /\ local' = local
      BY <1>3, <3>1, StepMade
    <3> QED
      BY <2>1, <3>2
  <2> DEFINE u == stacks[k]
  <2>3. u \in Stack /\ Fit(u)
    BY StateTypes
  <2>4. Complete(u)
    <3>1. /\ Wired(u) /\ u.minted["rewards"] = 35
          /\ u.minted["timelock"] >= 25 /\ u.minted["deployer"] >= 40
      BY <1>5 DEF Resumed
    <3>2. /\ Mints(u) /\ MAX_SUPPLY \in 0..124 /\ u.minted \in [Holder -> Nat]
      BY <2>3, StackTypes, DeploymentAssumption DEF Fit
    <3> HIDE DEF u
    <3>3. u.minted["timelock"] = 25 /\ u.minted["deployer"] = 40
      BY <3>1, <3>2 DEF Mints
    <3>4. \A h \in Holder : u.minted[h] = Allocation[h]
      BY <3>1, <3>3, AllocationIs DEF Holder
    <3>5. u.minted = Allocation
      BY <3>2, <3>4, AllocationIs
    <3> QED
      BY <3>1, <3>5 DEF Complete, Wired
  <2>5. \E g \in 1..u.governors : Governs(u, g)
    <3>1. \A r \in Role : 1 \in u.has[r]
      BY <1>5 DEF Resumed, Wired
    <3>2. 1 \in 1..u.governors
      BY <2>3, <3>1 DEF Fit, Role
    <3> QED
      BY <3>1, <3>2 DEF Governs
  <2>6. StateInv'
    BY <2>2, <2>4, <2>5, ReportStep
  <2> QED
    BY <1>3, <1>5, <2>6 DEF IInv, Running
<1> QED
  BY <1>4, <1>5

------------------------------------------------------------------------------
(***************************************************************************)
(* redeploy-governance.js                                                  *)
(***************************************************************************)
\* A step that changes the timelock alone, and leaves a governor with every role.
LEMMA TimelockChanges ==
    ASSUME StateInv, NEW k \in DOMAIN stacks, NEW t \in Stack, stacks[k].reported,
           t.live = stacks[k].live, t.maktubCore = stacks[k].maktubCore,
           t.coreRole = stacks[k].coreRole, t.minted = stacks[k].minted, t.reported,
           stacks[k].governors <= t.governors,
           \A r \in Role : t.has[r] \subseteq 1..t.governors,
           \E g \in 1..t.governors : Governs(t, g),
           stacks' = [stacks EXCEPT ![k] = t], local' = local,
           UNCHANGED <<relays, flashes, registries, record, files>>
    PROVE  StateInv' /\ DOMAIN stacks' = DOMAIN stacks /\ stacks'[k] = t
<1>1. Fit(stacks[k]) /\ stacks[k].minted["deployer"] \in Nat
  BY StateTypes, StackTypes
<1>2. Complete(t) /\ Mints(t)
  BY <1>1 DEF Fit, Complete, Mints
<1>3. Fit(t)
  BY <1>2 DEF Fit
<1>4. Grows(stacks[k], t)
  BY <1>1 DEF Grows
<1> QED
  BY <1>3, <1>4, StackChanges

\* From its first step on the rotated stack has the new governor.
LEMMA RotatedIs ==
    ASSUME NEW s, NEW n \in 1..7, NEW new \in Nat
    PROVE  Rotated(s, n, new) <=>
              /\ s.reported /\ s.governors = new
              /\ n >= 2 => new \in s.has["PROPOSER"]
              /\ n >= 3 => new \in s.has["EXECUTOR"]
              /\ n >= 4 => new \in s.has["CANCELLER"]
<1>1. (IF n >= 1 THEN new ELSE new - 1) = new
  OBVIOUS
<1> QED
  BY Zenon, <1>1 DEF Rotated

LEMMA CreateGovernorStep ==
    ASSUME StateInv, NEW k \in DOMAIN stacks, NEW new \in 1..MaxGovernors,
           Rotated(stacks[k], 0, new), local' = local, RoleStep(<<"createGovernor", k>>)
    PROVE  StateInv' /\ k \in DOMAIN stacks' /\ Rotated(stacks'[k], 1, new)
<1> DEFINE s == stacks[k]
           t == [s EXCEPT !.governors = @ + 1]
<1>1. /\ stacks' = [stacks EXCEPT ![k] = t]
      /\ UNCHANGED <<relays, flashes, registries, record, files>>
  BY DEF RoleStep
<1>2. s \in Stack /\ Fit(s) /\ s.governors \in Nat
  BY StateTypes, StackTypes
<1> HIDE DEF s
<1>3. s.governors = new - 1 /\ new \in Nat /\ s.reported
  BY DeploymentAssumption DEF Rotated, s
<1>4. /\ t.live = s.live /\ t.maktubCore = s.maktubCore /\ t.coreRole = s.coreRole
      /\ t.minted = s.minted /\ t.has = s.has /\ t.reported = s.reported
      /\ t.governors = new
  <2>1. s.governors + 1 = new
    BY <1>3
  <2>2. /\ t.live = s.live /\ t.maktubCore = s.maktubCore /\ t.coreRole = s.coreRole
        /\ t.minted = s.minted /\ t.has = s.has /\ t.reported = s.reported
        /\ t.governors = s.governors + 1
    BY <1>2 DEF Stack
  <2> QED
    BY <2>1, <2>2
<1>5. t \in Stack
  <2>1. s.governors + 1 \in 0..MaxGovernors
    BY <1>3, DeploymentAssumption
  <2> QED
    BY <1>2, <2>1 DEF Stack
<1> HIDE DEF t
<1>6. 1..s.governors \subseteq 1..t.governors /\ s.governors <= t.governors
  BY <1>3, <1>4
<1>7. /\ \A r \in Role : t.has[r] \subseteq 1..t.governors
      /\ \E g \in 1..t.governors : Governs(t, g)
  BY <1>2, <1>3, <1>4, <1>6 DEF Fit, Governs
<1>8. StateInv' /\ DOMAIN stacks' = DOMAIN stacks /\ stacks'[k] = t
  BY <1>1, <1>3, <1>4, <1>5, <1>6, <1>7, TimelockChanges DEF s
<1>9. Rotated(t, 1, new)
  <2>1. t.reported /\ t.governors = new
    BY <1>3, <1>4
  <2> QED
    BY <1>3, <2>1, RotatedIs
<1> QED
  BY <1>8, <1>9

LEMMA GrantRolesStep ==
    ASSUME StateInv, NEW k \in DOMAIN stacks, NEW n \in 1..3, NEW new \in 1..MaxGovernors,
           Rotated(stacks[k], n, new), local' = local, NEW r \in Role,
           r = IF n = 1 THEN "PROPOSER" ELSE IF n = 2 THEN "EXECUTOR" ELSE "CANCELLER",
           RoleStep(<<"grantRole", k, r, new>>)
    PROVE  StateInv' /\ k \in DOMAIN stacks' /\ Rotated(stacks'[k], n + 1, new)
<1> DEFINE s == stacks[k]
<1>1. PICK t : t = Granted(s, r, new) /\ stacks' = [stacks EXCEPT ![k] = t]
  BY DEF RoleStep, Granted
<1>2. s \in Stack /\ Fit(s)
  BY StateTypes
<1>3. UNCHANGED <<relays, flashes, registries, record, files>>
  BY DEF RoleStep
<1> HIDE DEF s
<1>4. s.governors = new /\ new \in 1..s.governors /\ s.reported /\ new \in Nat
  <2>1. n \in 1..7 /\ new \in Nat /\ new \in 1..new
    BY DeploymentAssumption
  <2>2. s.governors = new /\ s.reported
    BY <2>1, RotatedIs DEF s
  <2> QED
    BY <2>1, <2>2
<1>5. /\ Fit(t) /\ Grows(s, t) /\ t.coreRole = s.coreRole
      /\ t.governors = s.governors /\ t.reported = s.reported
      /\ new \in t.has[r] /\ \A q \in Role : s.has[q] \subseteq t.has[q]
  <2>1. PICK g \in 1..s.governors : g = new /\ t = Granted(s, r, g)
    BY <1>1, <1>4
  <2>2. /\ Fit(t) /\ Grows(s, t) /\ t.coreRole = s.coreRole
        /\ t.governors = s.governors /\ t.reported = s.reported
        /\ g \in t.has[r] /\ \A q \in Role : s.has[q] \subseteq t.has[q]
    BY <1>2, <2>1, RoleGranted
  <2> QED
    BY <2>1, <2>2
<1>6. StateInv' /\ DOMAIN stacks' = DOMAIN stacks /\ stacks'[k] = t
  BY <1>1, <1>3, <1>5, StackChanges DEF s
<1>7. /\ n + 1 >= 2 => new \in t.has["PROPOSER"]
      /\ n + 1 >= 3 => new \in t.has["EXECUTOR"]
      /\ n + 1 >= 4 => new \in t.has["CANCELLER"]
  BY <1>5 DEF Rotated, Role, s
<1>8. Rotated(t, n + 1, new)
  <2>1. n + 1 \in 1..7
    OBVIOUS
  <2>2. t.reported /\ t.governors = new
    BY <1>4, <1>5
  <2> QED
    BY <1>4, <1>7, <2>1, <2>2, RotatedIs
<1> QED
  BY <1>6, <1>8

\* The old governor loses a role when the new one has them all.
LEMMA RevokeRolesStep ==
    ASSUME StateInv, NEW k \in DOMAIN stacks, NEW n \in 4..6, NEW new \in 1..MaxGovernors,
           NEW old, new # old, Rotated(stacks[k], n, new), local' = local, NEW r \in Role,
           RoleStep(<<"revokeRole", k, r, old>>)
    PROVE  StateInv' /\ k \in DOMAIN stacks' /\ Rotated(stacks'[k], n + 1, new)
<1> DEFINE s == stacks[k]
           has == [s.has EXCEPT ![r] = @ \ {old}]
           t == [s EXCEPT !.has = has]
<1>1. /\ stacks' = [stacks EXCEPT ![k] = t]
      /\ UNCHANGED <<relays, flashes, registries, record, files>>
  BY DEF RoleStep
<1>2. s \in Stack /\ Fit(s) /\ s.has \in [Role -> SUBSET Nat] /\ s.governors \in Nat
  BY StateTypes, StackTypes
<1> HIDE DEF s
<1>3. s.governors = new /\ new \in 1..new /\ s.reported /\ new \in Nat
  <2>1. n \in 1..7 /\ new \in Nat /\ new \in 1..new
    BY DeploymentAssumption
  <2>2. s.governors = new /\ s.reported
    BY <2>1, RotatedIs DEF s
  <2> QED
    BY <2>1, <2>2
<1>4. /\ has \in [Role -> SUBSET Nat]
      /\ \A q \in Role : has[q] = IF q = r THEN s.has[q] \ {old} ELSE s.has[q]
  BY <1>2
<1> HIDE DEF has
<1>5. /\ t.live = s.live /\ t.maktubCore = s.maktubCore /\ t.coreRole = s.coreRole
      /\ t.minted = s.minted /\ t.has = has /\ t.reported = s.reported
      /\ t.governors = s.governors /\ t \in Stack
  BY <1>2, <1>4 DEF Stack
<1> HIDE DEF t
<1>6. \A q \in Role : t.has[q] \subseteq 1..t.governors
  <2> TAKE q \in Role
  <2>1. t.has[q] \subseteq s.has[q]
    BY <1>4, <1>5
  <2> QED
    BY <1>2, <1>5, <2>1 DEF Fit
<1>7. /\ new \in t.has["PROPOSER"] /\ new \in t.has["EXECUTOR"] /\ new \in t.has["CANCELLER"]
  <2>1. \A q \in Role : new \in s.has[q]
    BY DEF Rotated, Role, s
  <2>2. \A q \in Role : new \in t.has[q]
    BY <1>4, <1>5, <2>1
  <2> QED
    BY <2>2 DEF Role
<1>8. Governs(t, new) /\ new \in 1..t.governors
  BY <1>3, <1>5, <1>7 DEF Governs, Role
<1>9. s.governors <= t.governors
  BY <1>2, <1>5
<1>10. StateInv' /\ DOMAIN stacks' = DOMAIN stacks /\ stacks'[k] = t
  BY <1>1, <1>3, <1>5, <1>6, <1>8, <1>9, TimelockChanges DEF s
<1>11. Rotated(t, n + 1, new)
  <2>1. n + 1 \in 1..7
    OBVIOUS
  <2>2. t.reported /\ t.governors = new
    BY <1>3, <1>5
  <2> QED
    BY <1>3, <1>7, <2>1, <2>2, RotatedIs
<1> QED
  BY <1>10, <1>11

LEMMA PersistGovernanceStep ==
    ASSUME StateInv, NEW k \in DOMAIN stacks, k = record.stack, NEW new \in 1..MaxGovernors,
           Rotated(stacks[k], 7, new),
           local' = local, PersistGovernance(<<"persistGovernance", new>>)
    PROVE  StateInv'
<1>1. /\ record' = [record EXCEPT !.governance = new]
      /\ UNCHANGED <<stacks, relays, flashes, registries, files>>
  BY DEF PersistGovernance
<1>2. stacks[k].governors = new /\ new \in Nat
  BY DeploymentAssumption DEF Rotated
<1>3. RecordInv /\ record \in Record
  BY DEF StateInv, RecordInv
<1>4. /\ record' \in Record /\ record'.stack = record.stack
      /\ record'.governance = new /\ record'.stale = record.stale
      /\ record'.relay = record.relay /\ record'.flash = record.flash
      /\ record'.registryV2 = record.registryV2
  BY <1>1, <1>2, <1>3 DEF Record
<1>5. Lasting(record)'
  BY <1>1, <1>3, <1>4 DEF RecordInv, Lasting, Staked, Trusted
<1>6. RecordInv'
  BY <1>1, <1>2, <1>3, <1>4, <1>5 DEF RecordInv
<1>7. FilesInv'
  BY <1>1 DEF StateInv, FilesInv, Lasting, Staked, Trusted
<1> QED
  BY <1>1, <1>4, <1>6, <1>7, FilesChange

LEMMA RotateRuns ==
    ASSUME StateInv, RunStep, NEW n \in 0..7, NEW k \in DOMAIN stacks,
           NEW new \in 1..MaxGovernors, NEW old \in Int, new # old, k = record.stack,
           todo = Rest(RotateScript(k, new, old), n), Rotated(stacks[k], n, new)
    PROVE  IInv'
<1> DEFINE script == RotateScript(k, new, old)
           s == script[n + 1]
<1>0. script = RotateScript(k, new, old)
  OBVIOUS
<1> HIDE DEF script
<1>1. /\ Len(script) = 8 /\ script \in Seq({script[i] : i \in 1..8})
      /\ script[1] = <<"createGovernor", k>>
      /\ script[2] = <<"grantRole", k, "PROPOSER", new>>
      /\ script[3] = <<"grantRole", k, "EXECUTOR", new>>
      /\ script[4] = <<"grantRole", k, "CANCELLER", new>>
      /\ script[5] = <<"revokeRole", k, "PROPOSER", old>>
      /\ script[6] = <<"revokeRole", k, "EXECUTOR", old>>
      /\ script[7] = <<"revokeRole", k, "CANCELLER", old>>
      /\ script[8] = <<"persistGovernance", new>>
  <2> HIDE DEF s
  <2> QED
    BY <1>0 DEF RotateScript, Each
<1>2. todo = Rest(script, n)
  BY <1>0
<1>3. /\ Head(todo) = s /\ todo' = Rest(script, n + 1)
      /\ n = 7 => todo' = <<>>
  <2>1. n \in 0..(Len(script) - 1)
    BY <1>1
  <2>2. Head(todo) = s /\ Tail(todo) = Rest(script, n + 1)
    BY <1>1, <1>2, <2>1, NextStep
  <2>3. Rest(script, 8) = <<>>
    BY <1>1, WholeScript
  <2>4. todo' = Tail(todo)
    BY DEF RunStep
  <2>5. n = 7 => n + 1 = 8
    OBVIOUS
  <2> HIDE DEF s
  <2> QED
    BY SMTT(30), <2>2, <2>3, <2>4, <2>5
<1>4. ASSUME n < 7, k \in DOMAIN stacks', Rotated(stacks'[k], n + 1, new), StateInv',
             record' = record
      PROVE  IInv'
  <2>1. n + 1 \in 0..7 /\ todo' = Rest(RotateScript(k, new, old), n + 1)
    BY <1>3, <1>4 DEF script
  <2>2. RunsRotate'
    <3> HIDE DEF s
    <3> QED
      BY <1>4, <2>1 DEF RunsRotate, Rotated
  <2> QED
    BY <1>4, <2>2 DEF IInv, Running
<1>5. CASE n = 0
  <2>1. s = <<"createGovernor", k>>
    BY <1>1, <1>5
  <2> HIDE DEF s
  <2>2. RoleStep(s) /\ local' = local
    <3>1. s[1] = "createGovernor"
      BY <2>1
    <3> QED
      BY <1>3, <3>1, StepMade
  <2>3. StateInv' /\ k \in DOMAIN stacks' /\ Rotated(stacks'[k], 1, new)
    BY <1>5, <2>1, <2>2, CreateGovernorStep
  <2>4. record' = record
    BY <2>2 DEF RoleStep
  <2> QED
    BY <1>4, <1>5, <2>3, <2>4
<1>6. CASE n \in 1..3
  <2>1. PICK r \in Role :
            /\ r = IF n = 1 THEN "PROPOSER" ELSE IF n = 2 THEN "EXECUTOR" ELSE "CANCELLER"
            /\ s = <<"grantRole", k, r, new>>
    BY <1>1, <1>6 DEF Role
  <2> HIDE DEF s
  <2>2. RoleStep(<<"grantRole", k, r, new>>) /\ local' = local
    <3>1. s[1] = "grantRole"
      BY <2>1
    <3>2. RoleStep(s) /\ local' = local
      BY <1>3, <3>1, StepMade
    <3> QED
      BY <2>1, <3>2
  <2>3. StateInv' /\ k \in DOMAIN stacks' /\ Rotated(stacks'[k], n + 1, new)
    BY <1>6, <2>1, <2>2, GrantRolesStep
  <2>4. record' = record
    BY <2>2 DEF RoleStep
  <2> QED
    BY <1>4, <1>6, <2>3, <2>4
<1>7. CASE n \in 4..6
  <2>1. PICK r \in Role : s = <<"revokeRole", k, r, old>>
    BY <1>1, <1>7 DEF Role
  <2> HIDE DEF s
  <2>2. RoleStep(<<"revokeRole", k, r, old>>) /\ local' = local
    <3>1. s[1] = "revokeRole"
      BY <2>1
    <3>2. RoleStep(s) /\ local' = local
      BY <1>3, <3>1, StepMade
    <3> QED
      BY <2>1, <3>2
  <2>3. StateInv' /\ k \in DOMAIN stacks' /\ Rotated(stacks'[k], n + 1, new)
    BY <1>7, <2>1, <2>2, RevokeRolesStep
  <2>4. record' = record
    BY <2>2 DEF RoleStep
  <2> QED
    BY <1>4, <1>7, <2>3, <2>4
<1>8. CASE n = 7
  <2>1. s = <<"persistGovernance", new>>
    BY <1>1, <1>8
  <2> HIDE DEF s
  <2>2. PersistGovernance(<<"persistGovernance", new>>) /\ local' = local
    <3>1. s[1] = "persistGovernance"
      BY <2>1
    <3>2. PersistGovernance(s) /\ local' = local
      BY <1>3, <3>1, StepMade
    <3> QED
      BY <2>1, <3>2
  <2>3. StateInv'
    BY <1>8, <2>2, PersistGovernanceStep
  <2> QED
    BY <1>3, <1>8, <2>3 DEF IInv, Running
<1> QED
  BY <1>5, <1>6, <1>7, <1>8

------------------------------------------------------------------------------
(***************************************************************************)
(* deploy-execution-relay.js                                               *)
(***************************************************************************)
\* A relay that is not funded yet costs nothing.
LEMMA CreateRelayStep ==
    ASSUME StateInv, NEW k \in 1..record.stack, local' = local,
           RelayStep(<<"createRelay", k>>)
    PROVE  StateInv' /\ Relaying(1, k)' /\ record' = record
<1>1. /\ relays' = Append(relays, NewRelay(k)) /\ stacks' = stacks
      /\ UNCHANGED <<flashes, registries, record, files>>
  BY DEF RelayStep
<1>2. /\ RelaysInv /\ relays \in Seq(Relay) /\ NewRelay(k) \in Relay
      /\ NewRelay(k).stack = k /\ NewRelay(k).funded = 0
  BY StateTypes DEF StateInv, RelaysInv, NewRelay, Relay
<1>3. /\ relays' \in Seq(Relay) /\ Len(relays') = Len(relays) + 1 /\ Len(relays) \in Nat
      /\ DOMAIN relays = 1..Len(relays) /\ DOMAIN relays' = 1..(Len(relays) + 1)
      /\ \A i \in DOMAIN relays : relays'[i] = relays[i]
      /\ relays'[Len(relays) + 1] = NewRelay(k)
  BY <1>1, <1>2
<1>4. ASSUME NEW j \in DOMAIN stacks PROVE DeployerBalance(j)' >= 0
  <2>1. /\ IsFiniteSet(DOMAIN relays) /\ Parts(j) \in [DOMAIN relays -> Int]
        /\ SumFunction(Parts(j)) \in Int
        /\ DeployerBalance(j) = stacks[j].minted["deployer"] - SumFunction(Parts(j))
    BY <1>2, PartsTypes
  <2> DEFINE next == [i \in DOMAIN relays' |->
                         IF relays'[i].stack = j THEN relays'[i].funded ELSE 0]
             new == Len(relays) + 1
  <2>2. new \notin DOMAIN relays /\ DOMAIN relays' = DOMAIN relays \cup {new}
    BY <1>3
  <2>3. /\ \A i \in DOMAIN relays : next[i] = Parts(j)[i]
        /\ next[new] = 0
    BY <1>2, <1>3 DEF Parts
  <2>4. \A i \in DOMAIN relays : Parts(j)[i] \in Int
    BY <2>1
  <2>5. next \in [DOMAIN relays \cup {new} -> Int]
    <3>1. next = [i \in DOMAIN relays \cup {new} |->
                     IF relays'[i].stack = j THEN relays'[i].funded ELSE 0]
      BY <2>2
    <3>2. \A i \in DOMAIN relays \cup {new} : next[i] \in Int
      BY <2>2, <2>3, <2>4
    <3>3. \A i \in DOMAIN relays \cup {new} :
              (IF relays'[i].stack = j THEN relays'[i].funded ELSE 0) \in Int
      BY <2>2, <3>2
    <3> QED
      BY <3>1, <3>3
  <2> HIDE DEF next, new
  <2>6. SumFunction(next) = SumFunction(Parts(j)) + next[new]
    <3> DEFINE S == DOMAIN relays
               f == Parts(j)
    <3>1. /\ IsFiniteSet(S) /\ new \notin S /\ f \in [S -> Int]
          /\ next \in [S \cup {new} -> Int] /\ \A x \in S : next[x] = f[x]
      BY <2>1, <2>2, <2>3, <2>5
    <3> HIDE DEF S, f
    <3>2. SumFunction(next) = SumFunction(f) + next[new]
      BY <3>1, SumOfNewTerm
    <3> QED
      BY <3>2 DEF f
  <2>7. SumFunction(next) = SumFunction(Parts(j))
    BY <2>1, <2>3, <2>6
  <2>8. DeployerBalance(j)' = stacks[j].minted["deployer"] - SumFunction(next)
    BY <1>1 DEF DeployerBalance, next
  <2>9. DeployerBalance(j) >= 0
    BY DEF StateInv, StacksInv
  <2> QED
    BY <2>1, <2>7, <2>8, <2>9
<1>5. \A i \in DOMAIN relays' : relays'[i].stack \in 1..record.stack
  BY <1>2, <1>3 DEF RelaysInv
<1>6. \A i \in DOMAIN relays : /\ relays'[i].stack = relays[i].stack
                               /\ Staked(i) => Staked(i)'
                               /\ relays[i].revoked => relays'[i].revoked
  BY <1>3 DEF Staked
<1>7. StateInv'
  BY <1>1, <1>3, <1>4, <1>5, <1>6, RelaysChange
<1>8. Len(relays') # 0 /\ relays'[Len(relays')].funded = 0 /\ relays'[Len(relays')].stack = k
  BY <1>2, <1>3
<1> QED
  BY <1>1, <1>7, <1>8 DEF Relaying, Latest

LEMMA FundStep ==
    ASSUME StateInv, NEW k \in 1..record.stack, NEW amount \in Minimums, Relaying(1, k),
           local' = local, RelayStep(<<"fund", amount>>)
    PROVE  StateInv' /\ Relaying(2, k)' /\ record' = record
<1>1. /\ DeployerBalance(relays[Latest].stack) >= amount
      /\ relays' = [relays EXCEPT ![Latest].funded = amount] /\ stacks' = stacks
      /\ UNCHANGED <<flashes, registries, record, files>>
  BY DEF RelayStep
<1>2. /\ Len(relays) \in Nat /\ DOMAIN relays = 1..Len(relays) /\ relays \in Seq(Relay)
      /\ \A i \in DOMAIN relays : relays[i] \in Relay /\ relays[i].stack \in 1..record.stack
  BY StateTypes DEF StateInv, RelaysInv
<1>3. /\ Latest \in DOMAIN relays /\ relays[Latest].funded = 0 /\ amount \in Nat
      /\ relays[Latest].stack = k /\ k \in DOMAIN stacks
  BY <1>2, DeploymentAssumption, StateTypes DEF Relaying, Latest
<1>4. /\ relays' \in Seq(Relay) /\ Len(relays') = Len(relays) /\ DOMAIN relays' = DOMAIN relays
      /\ \A i \in DOMAIN relays :
            /\ relays'[i].funded = IF i = Latest THEN amount ELSE relays[i].funded
            /\ relays'[i].stack = relays[i].stack
            /\ relays'[i].staked = relays[i].staked /\ relays'[i].active = relays[i].active
            /\ relays'[i].slashed = relays[i].slashed /\ relays'[i].revoked = relays[i].revoked
  <2>1. [relays[Latest] EXCEPT !.funded = amount] \in Relay
    BY <1>2, <1>3 DEF Relay
  <2>2. relays' = [relays EXCEPT ![Latest] = [relays[Latest] EXCEPT !.funded = amount]]
    BY <1>1
  <2>3. \A r \in Relay : /\ [r EXCEPT !.funded = amount].funded = amount
                         /\ [r EXCEPT !.funded = amount].stack = r.stack
                         /\ [r EXCEPT !.funded = amount].staked = r.staked
                         /\ [r EXCEPT !.funded = amount].active = r.active
                         /\ [r EXCEPT !.funded = amount].slashed = r.slashed
                         /\ [r EXCEPT !.funded = amount].revoked = r.revoked
    BY DEF Relay
  <2>4. relays' \in Seq(Relay) /\ Len(relays') = Len(relays) /\ DOMAIN relays' = DOMAIN relays
    BY <1>2, <1>3, <2>1, <2>2
  <2>5. \A i \in DOMAIN relays :
           relays'[i] = IF i = Latest THEN [relays[Latest] EXCEPT !.funded = amount] ELSE relays[i]
    BY <1>3, <2>2
  <2>6. ASSUME NEW i \in DOMAIN relays
        PROVE  /\ relays'[i].funded = IF i = Latest THEN amount ELSE relays[i].funded
               /\ relays'[i].stack = relays[i].stack
               /\ relays'[i].staked = relays[i].staked /\ relays'[i].active = relays[i].active
               /\ relays'[i].slashed = relays[i].slashed
               /\ relays'[i].revoked = relays[i].revoked
    <3>1. CASE i = Latest
      <4>1. relays'[i] = [relays[i] EXCEPT !.funded = amount] /\ relays[i] \in Relay
        BY <1>2, <2>5, <3>1
      <4> QED
        BY <2>3, <3>1, <4>1
    <3>2. CASE i # Latest
      BY <2>5, <3>2
    <3> QED
      BY <3>1, <3>2
  <2> QED
    BY <2>4, <2>6
<1>5. ASSUME NEW j \in DOMAIN stacks PROVE DeployerBalance(j)' >= 0
  <2> DEFINE next == [i \in DOMAIN relays |->
                         IF relays'[i].stack = j THEN relays'[i].funded ELSE 0]
             part == IF j = k THEN amount ELSE 0
  <2>1. /\ IsFiniteSet(DOMAIN relays) /\ Parts(j) \in [DOMAIN relays -> Int]
        /\ SumFunction(Parts(j)) \in Int
        /\ DeployerBalance(j) = stacks[j].minted["deployer"] - SumFunction(Parts(j))
        /\ DeployerBalance(j) >= 0
    BY <1>2, PartsTypes DEF StateInv, StacksInv
  <2>2. \A i \in DOMAIN relays : next[i] = IF i = Latest THEN Parts(j)[i] + part ELSE Parts(j)[i]
    BY <1>2, <1>3, <1>4 DEF Parts
  <2>3. \A i \in DOMAIN relays : next[i] \in Int
    BY <1>3, <2>1, <2>2
  <2>4. next \in [DOMAIN relays -> Int] /\ Added(next, Parts(j), DOMAIN relays, Latest, part)
    BY <2>2, <2>3 DEF Added
  <2>5. DeployerBalance(j)' = stacks[j].minted["deployer"] - SumFunction(next)
    BY <1>1, <1>4 DEF DeployerBalance
  <2>6. part \in Int /\ DeployerBalance(j) >= part
    BY <1>1, <1>3, <2>1
  <2> HIDE DEF next, part
  <2>7. SumFunction(next) = SumFunction(Parts(j)) + part
    <3> DEFINE S == DOMAIN relays
               last == Latest
               f == Parts(j)
    <3>1. /\ IsFiniteSet(S) /\ f \in [S -> Int] /\ next \in [S -> Int]
          /\ last \in S /\ part \in Int /\ Added(next, f, S, last, part)
      BY <1>3, <2>1, <2>4, <2>6
    <3> HIDE DEF S, last, f
    <3>2. SumFunction(next) = SumFunction(f) + part
      BY <3>1, SumOfDifference
    <3> QED
      BY <3>2 DEF f
  <2>8. stacks[j].minted["deployer"] \in Nat
    BY StateTypes, StackTypes
  <2> QED
    BY <2>1, <2>5, <2>6, <2>7, <2>8
<1>6. \A i \in DOMAIN relays' : relays'[i].stack \in 1..record.stack
  BY <1>2, <1>4
<1>7. \A i \in DOMAIN relays : /\ relays'[i].stack = relays[i].stack
                               /\ Staked(i) => Staked(i)'
                               /\ relays[i].revoked => relays'[i].revoked
  BY <1>4 DEF Staked
<1>8. StateInv'
  BY <1>1, <1>2, <1>4, <1>5, <1>6, <1>7, RelaysChange
<1>9. Latest' = Latest /\ Latest # 0 /\ relays'[Latest].stack = k
  BY <1>3, <1>4 DEF Relaying, Latest
<1>10. Relaying(2, k)'
  BY <1>9 DEF Relaying
<1> QED
  BY <1>1, <1>8, <1>10

LEMMA GrantRelayStep ==
    ASSUME StateInv, NEW k \in 1..record.stack, Relaying(2, k),
           local' = local, RelayStep(<<"grantRelay">>)
    PROVE  StateInv' /\ Relaying(3, k)' /\ record' = record
<1> DEFINE s == stacks[k]
           t == [s EXCEPT !.coreRole = @ \cup {Latest}]
<1>1. Latest \in DOMAIN relays /\ Latest \in Nat /\ relays[Latest].stack = k
      /\ k \in DOMAIN stacks
  BY StateTypes DEF Relaying, Latest
<1>2. /\ stacks' = [stacks EXCEPT ![k] = t] /\ relays' = relays
      /\ UNCHANGED <<flashes, registries, record, files>>
  BY <1>1 DEF RelayStep
<1>3. s \in Stack /\ Fit(s) /\ s.minted["deployer"] \in Nat /\ s.governors \in Nat
  BY <1>1, StateTypes, StackTypes
<1>4. /\ t.live = s.live /\ t.minted = s.minted /\ t.maktubCore = s.maktubCore
      /\ t.coreRole = s.coreRole \cup {Latest} /\ t.has = s.has
      /\ t.governors = s.governors /\ t.reported = s.reported /\ t \in Stack
  BY <1>1, <1>3 DEF Stack
<1> HIDE DEF t
<1>5. Fit(t)
  BY <1>3, <1>4 DEF Fit, Mints, Complete, Governs
<1>6. Grows(s, t)
  BY <1>3, <1>4 DEF Grows
<1>7. t.coreRole \subseteq s.coreRole \cup {CORE} \cup RelaysOf(k)
  BY <1>1, <1>4 DEF RelaysOf
<1>8. StateInv' /\ stacks'[k] = t
  BY <1>1, <1>2, <1>5, <1>6, <1>7, StackChanges
<1>9. Trusted(Latest)'
  BY <1>1, <1>2, <1>4, <1>8 DEF Trusted, Latest
<1>10. Latest' = Latest /\ Latest # 0 /\ relays'[Latest].stack = k
  BY <1>1, <1>2 DEF Relaying, Latest
<1>11. Relaying(3, k)'
  BY <1>9, <1>10 DEF Relaying
<1> QED
  BY <1>2, <1>8, <1>11

\* The stake is made once, so no relay that was ready is touched.
LEMMA InitialStakeStep ==
    ASSUME StateInv, NEW k \in 1..record.stack, NEW amount \in Minimums, Relaying(3, k),
           local' = local, RelayStep(<<"initialStake", amount>>)
    PROVE  StateInv' /\ Relaying(4, k)' /\ record' = record
<1>1. /\ ~relays[Latest].staked
      /\ relays' = [relays EXCEPT ![Latest].staked = TRUE,
                                  ![Latest].active = amount >= stacks[relays[Latest].stack].minimumStake]
      /\ stacks' = stacks
      /\ UNCHANGED <<flashes, registries, record, files>>
  BY DEF RelayStep
<1>2. /\ Len(relays) \in Nat /\ DOMAIN relays = 1..Len(relays) /\ relays \in Seq(Relay)
      /\ \A i \in DOMAIN relays : relays[i] \in Relay /\ relays[i].stack \in 1..record.stack
  BY StateTypes DEF StateInv, RelaysInv
<1>3. Latest \in DOMAIN relays
  BY <1>2 DEF Relaying, Latest
<1>4. /\ relays' \in Seq(Relay) /\ Len(relays') = Len(relays) /\ DOMAIN relays' = DOMAIN relays
      /\ \A i \in DOMAIN relays : /\ relays'[i].funded = relays[i].funded
                                  /\ relays'[i].stack = relays[i].stack
                                  /\ relays'[i].revoked = relays[i].revoked
      /\ \A i \in DOMAIN relays \ {Latest} : relays'[i] = relays[i]
      /\ relays'[Latest].staked
  <2> DEFINE flag == amount >= stacks[relays[Latest].stack].minimumStake
             r == [[relays[Latest] EXCEPT !.staked = TRUE] EXCEPT !.active = flag]
  <2>1. relays' = [relays EXCEPT ![Latest] = r]
    BY <1>1
  <2>2. flag \in BOOLEAN
    OBVIOUS
  <2> HIDE DEF flag
  <2>3. /\ r \in Relay /\ r.funded = relays[Latest].funded /\ r.staked
        /\ r.stack = relays[Latest].stack /\ r.revoked = relays[Latest].revoked
    BY <1>2, <1>3, <2>2 DEF Relay
  <2> HIDE DEF r
  <2>4. relays' \in Seq(Relay) /\ Len(relays') = Len(relays) /\ DOMAIN relays' = DOMAIN relays
    BY <1>2, <1>3, <2>1, <2>3
  <2>5. \A i \in DOMAIN relays : relays'[i] = IF i = Latest THEN r ELSE relays[i]
    BY <1>3, <2>1
  <2> QED
    BY <1>3, <2>3, <2>4, <2>5
<1>5. \A j \in DOMAIN stacks : DeployerBalance(j)' >= 0
  <2>1. \A j \in DOMAIN stacks : /\ stacks'[j].minted["deployer"] \in Nat
                                 /\ stacks[j].minted["deployer"] <= stacks'[j].minted["deployer"]
    BY <1>1, StateTypes, StackTypes
  <2> QED
    BY <1>4, <2>1, BalanceKept
<1>6. \A i \in DOMAIN relays' : relays'[i].stack \in 1..record.stack
  BY <1>2, <1>4
<1>7. \A i \in DOMAIN relays : Staked(i) => Staked(i)'
  BY <1>1, <1>4 DEF Staked
<1>8. StateInv'
  BY <1>1, <1>2, <1>4, <1>5, <1>6, <1>7, RelaysChange
<1>9. /\ Latest' = Latest /\ Latest # 0 /\ Trusted(Latest)
      /\ relays'[Latest].stack = k /\ relays'[Latest].staked
  BY <1>3, <1>4 DEF Relaying, Latest
<1>10. Trusted(Latest)'
  <2>1. /\ relays'[Latest].stack = relays[Latest].stack
        /\ relays'[Latest].revoked = relays[Latest].revoked
    BY <1>3, <1>4
  <2> QED
    BY <1>1, <1>9, <2>1 DEF Trusted
<1>11. Relaying(4, k)'
  BY <1>9, <1>10 DEF Relaying
<1> QED
  BY <1>1, <1>8, <1>11

LEMMA PersistRelayStep ==
    ASSUME StateInv, NEW k \in 1..record.stack, Relaying(5, k),
           local' = local, PersistRelay(<<"persistRelay">>)
    PROVE  StateInv'
<1>1. /\ record' = [record EXCEPT !.relay = Latest]
      /\ UNCHANGED <<stacks, relays, flashes, registries, files>>
  BY DEF PersistRelay
<1>2. /\ Latest \in DOMAIN relays /\ Latest \in Nat
      /\ Trusted(Latest) /\ Staked(Latest) /\ relays[Latest].stack <= record.stack
  BY StateTypes DEF Relaying, Latest, Record
<1>3. RecordInv /\ record \in Record
  BY DEF StateInv, RecordInv
<1> HIDE DEF Latest
<1>4. /\ record' \in Record /\ record'.stack = record.stack
      /\ record'.governance = record.governance /\ record'.stale = record.stale
      /\ record'.relay = Latest /\ record'.flash = record.flash
      /\ record'.registryV2 = record.registryV2
  BY <1>1, <1>2, <1>3 DEF Record
<1>5. Lasting(record)'
  BY <1>1, <1>2, <1>3, <1>4 DEF RecordInv, Lasting, Staked, Trusted
<1>6. RecordInv'
  BY <1>1, <1>3, <1>4, <1>5 DEF RecordInv
<1>7. FilesInv'
  BY <1>1 DEF StateInv, FilesInv, Lasting, Staked, Trusted
<1> QED
  BY <1>1, <1>4, <1>6, <1>7, FilesChange

LEMMA RelayRuns ==
    ASSUME StateInv, RunStep, NEW n \in 0..5, NEW k \in 1..record.stack, NEW amount \in Minimums,
           todo = Rest(RelayScript(k, amount), n), Relaying(n, k)
    PROVE  IInv'
<1> DEFINE script == RelayScript(k, amount)
           s == script[n + 1]
<1>1. /\ Len(script) = 6 /\ script \in Seq({script[i] : i \in 1..6})
      /\ script[1] = <<"createRelay", k>>
      /\ script[2] = <<"fund", amount>>
      /\ script[3] = <<"grantRelay">>
      /\ script[4] = <<"initialStake", amount>>
      /\ script[5] = <<"verifyActive">>
      /\ script[6] = <<"persistRelay">>
  BY RelaySteps
<1>2. todo = Rest(script, n)
  OBVIOUS
<1> HIDE DEF script
<1>3. /\ Head(todo) = s /\ todo' = Rest(script, n + 1)
      /\ n = 5 => todo' = <<>>
  <2>1. n \in 0..(Len(script) - 1)
    BY <1>1
  <2>2. Head(todo) = s /\ Tail(todo) = Rest(script, n + 1)
    BY <1>1, <1>2, <2>1, NextStep
  <2>3. Rest(script, 6) = <<>>
    BY <1>1, WholeScript
  <2>4. todo' = Tail(todo)
    BY DEF RunStep
  <2>5. n = 5 => n + 1 = 6
    OBVIOUS
  <2> HIDE DEF s
  <2> QED
    BY SMTT(30), <2>2, <2>3, <2>4, <2>5
<1>4. ASSUME n < 5, Relaying(n + 1, k)', StateInv', record' = record
      PROVE  IInv'
  <2>1. n + 1 \in 0..5 /\ todo' = Rest(RelayScript(k, amount), n + 1)
    BY <1>3, <1>4 DEF script
  <2>2. RunsRelay'
    <3> HIDE DEF s
    <3> QED
      BY <1>4, <2>1 DEF RunsRelay
  <2> QED
    BY <1>4, <2>2 DEF IInv, Running
<1>5. CASE n \in 0..4
  <2>1. s[1] \in {"createRelay", "fund", "grantRelay", "initialStake", "verifyActive"}
    BY <1>1, <1>5
  <2>2. RelayStep(s) /\ local' = local
    <3> HIDE DEF s
    <3> QED
      BY <1>3, <2>1, StepMade
  <2>3. CASE n = 0
    <3>1. s = <<"createRelay", k>>
      BY <1>1, <2>3
    <3> HIDE DEF s
    <3>2. StateInv' /\ Relaying(1, k)' /\ record' = record
      BY <2>2, <2>3, <3>1, CreateRelayStep
    <3> QED
      BY <1>4, <2>3, <3>2
  <2>4. CASE n = 1
    <3>1. s = <<"fund", amount>>
      BY <1>1, <2>4
    <3> HIDE DEF s
    <3>2. StateInv' /\ Relaying(2, k)' /\ record' = record
      BY <2>2, <2>4, <3>1, FundStep
    <3> QED
      BY <1>4, <2>4, <3>2
  <2>5. CASE n = 2
    <3>1. s = <<"grantRelay">>
      BY <1>1, <2>5
    <3> HIDE DEF s
    <3>2. StateInv' /\ Relaying(3, k)' /\ record' = record
      BY <2>2, <2>5, <3>1, GrantRelayStep
    <3> QED
      BY <1>4, <2>5, <3>2
  <2>6. CASE n = 3
    <3>1. s = <<"initialStake", amount>>
      BY <1>1, <2>6
    <3> HIDE DEF s
    <3>2. StateInv' /\ Relaying(4, k)' /\ record' = record
      BY <2>2, <2>6, <3>1, InitialStakeStep
    <3> QED
      BY <1>4, <2>6, <3>2
  <2>7. CASE n = 4
    <3>1. s = <<"verifyActive">>
      BY <1>1, <2>7
    <3> HIDE DEF s
    <3>2. /\ relays[Latest].active /\ relays[Latest].staked
          /\ UNCHANGED <<stacks, relays, flashes, registries, record, files>>
      BY <2>2, <3>1 DEF RelayStep
    <3>3. StateInv'
      BY <2>2, <3>2, QuietStep DEF scripted
    <3>4. Relaying(5, k)'
      BY <2>7, <3>2 DEF Relaying, Latest, Staked, Trusted
    <3> QED
      BY <1>4, <2>7, <3>2, <3>3, <3>4
  <2> QED
    BY <1>5, <2>3, <2>4, <2>5, <2>6, <2>7
<1>6. CASE n = 5
  <2>1. s = <<"persistRelay">>
    BY <1>1, <1>6
  <2> HIDE DEF s
  <2>2. PersistRelay(<<"persistRelay">>) /\ local' = local
    <3>1. s[1] = "persistRelay"
      BY <2>1
    <3>2. PersistRelay(s) /\ local' = local
      BY <1>3, <3>1, StepMade
    <3> QED
      BY <2>1, <3>2
  <2>3. StateInv'
    BY <1>6, <2>2, PersistRelayStep
  <2> QED
    BY <1>3, <1>6, <2>3 DEF IInv, Running
<1> QED
  BY <1>5, <1>6

------------------------------------------------------------------------------
(***************************************************************************)
(* deploy-flash.js, deploy-flash-only.js, gen-addresses.mjs and            *)
(* deploy-flash-e2e.js                                                     *)
(***************************************************************************)
LEMMA CreateFlashStep ==
    ASSUME StateInv, NEW v2 \in 1..registries,
           local' = local, FlashStep(<<"createFlash", v2>>)
    PROVE  /\ StateInv' /\ UNCHANGED <<record, registries>>
           /\ Len(flashes') # 0 /\ flashes'[Len(flashes')] = v2
<1>1. /\ flashes' = Append(flashes, v2) /\ registries' = registries
      /\ UNCHANGED <<stacks, relays, record, files>>
  BY DEF FlashStep
<1>2. /\ flashes' \in Seq(Nat) /\ Len(flashes') = Len(flashes) + 1
      /\ DOMAIN flashes' = 1..(Len(flashes) + 1)
      /\ \A i \in DOMAIN flashes : flashes'[i] = flashes[i]
      /\ flashes'[Len(flashes) + 1] = v2
  BY <1>1, StateTypes
<1>3. FlashesInv'
  BY <1>1, <1>2, StateTypes DEF FlashesInv
<1>4. StateInv'
  BY <1>1, <1>2, <1>3, StateTypes, FlashesChange
<1> QED
  BY <1>1, <1>2, <1>4, StateTypes

LEMMA PersistFlashStep ==
    ASSUME StateInv, NEW v2 \in 1..registries,
           Len(flashes) # 0, flashes[Len(flashes)] = v2,
           local' = local, PersistFlash(<<"persistFlash", v2>>)
    PROVE  StateInv'
<1>1. /\ record' = [record EXCEPT !.registryV2 = v2, !.flash = Len(flashes)]
      /\ UNCHANGED <<stacks, relays, flashes, registries, files>>
  BY DEF PersistFlash
<1>2. /\ Len(flashes) \in DOMAIN flashes /\ Len(flashes) \in Nat
      /\ v2 \in Nat /\ v2 <= registries
  BY StateTypes
<1>3. RecordInv /\ record \in Record
  BY DEF StateInv, RecordInv
<1>4. /\ record' \in Record /\ record'.stack = record.stack
      /\ record'.governance = record.governance /\ record'.stale = record.stale
      /\ record'.relay = record.relay /\ record'.flash = Len(flashes)
      /\ record'.registryV2 = v2
  BY <1>1, <1>2, <1>3 DEF Record
<1>5. Lasting(record)'
  BY <1>1, <1>2, <1>3, <1>4 DEF RecordInv, Lasting, Staked, Trusted
<1>6. RecordInv'
  BY <1>1, <1>2, <1>3, <1>4, <1>5 DEF RecordInv
<1>7. FilesInv'
  BY <1>1 DEF StateInv, FilesInv, Lasting, Staked, Trusted
<1> QED
  BY <1>1, <1>4, <1>6, <1>7, FilesChange

LEMMA FlashRuns ==
    ASSUME StateInv, RunStep, NEW n \in 0..2, NEW v2 \in 1..(registries + 1),
           todo = Rest(FlashScript(v2), n), Flashing(n, v2)
    PROVE  IInv'
<1> DEFINE script == FlashScript(v2)
           s == script[n + 1]
<1>1. /\ Len(script) = 3 /\ script \in Seq({script[i] : i \in 1..3})
      /\ script[1] = <<"createRegistry">>
      /\ script[2] = <<"createFlash", v2>>
      /\ script[3] = <<"persistFlash", v2>>
  BY FlashSteps
<1>2. todo = Rest(script, n)
  OBVIOUS
<1> HIDE DEF script
<1>3. /\ Head(todo) = s /\ todo' = Rest(script, n + 1)
      /\ n = 2 => todo' = <<>>
  <2>1. n \in 0..(Len(script) - 1)
    BY <1>1
  <2>2. Head(todo) = s /\ Tail(todo) = Rest(script, n + 1)
    BY <1>1, <1>2, <2>1, NextStep
  <2>3. Rest(script, 3) = <<>>
    BY <1>1, WholeScript
  <2>4. todo' = Tail(todo)
    BY DEF RunStep
  <2>5. n = 2 => n + 1 = 3
    OBVIOUS
  <2> HIDE DEF s
  <2> QED
    BY <2>2, <2>3, <2>4, <2>5
<1>4. registries \in Nat /\ v2 \in Nat /\ v2 >= 1
  BY StateTypes
<1>5. CASE n = 0
  <2>1. s = <<"createRegistry">>
    BY <1>1, <1>5
  <2> HIDE DEF s
  <2>2. FlashStep(s) /\ local' = local
    <3>1. s[1] = "createRegistry"
      BY <2>1
    <3> QED
      BY <1>3, <3>1, StepMade
  <2>3. /\ registries' = registries + 1 /\ flashes' = flashes
        /\ UNCHANGED <<stacks, relays, record, files>>
    BY <2>1, <2>2 DEF FlashStep
  <2>4. FlashesInv' /\ registries <= registries'
    BY <1>4, <2>3, StateTypes DEF FlashesInv
  <2>5. StateInv'
    BY <1>4, <2>2, <2>3, <2>4, StateTypes, FlashesChange
  <2>6. Flashing(1, v2)' /\ v2 \in (1..(registries + 1))'
    BY <1>4, <1>5, <2>3 DEF Flashing
  <2> QED
    BY <1>3, <1>5, <2>5, <2>6 DEF IInv, Running, RunsFlash, script
<1>6. CASE n = 1
  <2>1. s = <<"createFlash", v2>> /\ registries = v2
    BY <1>1, <1>6 DEF Flashing
  <2> HIDE DEF s
  <2>2. FlashStep(s) /\ local' = local
    <3>1. s[1] = "createFlash"
      BY <2>1
    <3> QED
      BY <1>3, <3>1, StepMade
  <2>3. /\ StateInv' /\ record' = record /\ registries' = registries
        /\ Len(flashes') # 0 /\ flashes'[Len(flashes')] = v2
    BY <1>4, <2>1, <2>2, CreateFlashStep
  <2>4. Flashing(2, v2)' /\ v2 \in (1..(registries + 1))'
    BY <1>4, <2>1, <2>3 DEF Flashing
  <2> QED
    BY <1>3, <1>6, <2>3, <2>4 DEF IInv, Running, RunsFlash, script
<1>7. CASE n = 2
  <2>1. /\ s = <<"persistFlash", v2>> /\ registries = v2
        /\ Len(flashes) # 0 /\ flashes[Len(flashes)] = v2
    BY <1>1, <1>7 DEF Flashing
  <2> HIDE DEF s
  <2>2. PersistFlash(<<"persistFlash", v2>>) /\ local' = local
    <3>1. s[1] = "persistFlash"
      BY <2>1
    <3>2. PersistFlash(s) /\ local' = local
      BY <1>3, <3>1, StepMade
    <3> QED
      BY <2>1, <3>2
  <2>3. StateInv'
    BY <1>4, <2>1, <2>2, PersistFlashStep
  <2> QED
    BY <1>3, <1>7, <2>3 DEF IInv, Running
<1> QED
  BY <1>5, <1>6, <1>7

LEMMA FlashOnlyRuns ==
    ASSUME StateInv, RunStep, NEW n \in 0..2, NEW v2 \in 1..registries,
           todo = Rest(FlashOnlyScript(v2), n), FlashingOnly(n, v2)
    PROVE  IInv'
<1> DEFINE script == FlashOnlyScript(v2)
           s == script[n + 1]
<1>1. /\ Len(script) = 3 /\ script \in Seq({script[i] : i \in 1..3})
      /\ script[1] = <<"createFlash", v2>>
      /\ script[2] = <<"checkWiring", v2>>
      /\ script[3] = <<"persistFlash", v2>>
  BY FlashOnlySteps
<1>2. todo = Rest(script, n)
  OBVIOUS
<1> HIDE DEF script
<1>3. /\ Head(todo) = s /\ todo' = Rest(script, n + 1)
      /\ n = 2 => todo' = <<>>
  <2>1. n \in 0..(Len(script) - 1)
    BY <1>1
  <2>2. Head(todo) = s /\ Tail(todo) = Rest(script, n + 1)
    BY <1>1, <1>2, <2>1, NextStep
  <2>3. Rest(script, 3) = <<>>
    BY <1>1, WholeScript
  <2>4. todo' = Tail(todo)
    BY DEF RunStep
  <2>5. n = 2 => n + 1 = 3
    OBVIOUS
  <2> HIDE DEF s
  <2> QED
    BY <2>2, <2>3, <2>4, <2>5
<1>4. registries \in Nat
  BY StateTypes
<1>5. CASE n = 0
  <2>1. s = <<"createFlash", v2>>
    BY <1>1, <1>5
  <2> HIDE DEF s
  <2>2. FlashStep(s) /\ local' = local
    <3>1. s[1] = "createFlash"
      BY <2>1
    <3> QED
      BY <1>3, <3>1, StepMade
  <2>3. /\ StateInv' /\ record' = record /\ registries' = registries
        /\ Len(flashes') # 0 /\ flashes'[Len(flashes')] = v2
    BY <1>4, <2>1, <2>2, CreateFlashStep
  <2>4. FlashingOnly(1, v2)' /\ v2 \in 1..registries'
    BY <1>4, <2>3 DEF FlashingOnly
  <2> QED
    BY <1>3, <1>5, <2>3, <2>4 DEF IInv, Running, RunsFlashOnly, script
<1>6. CASE n = 1
  <2>1. s = <<"checkWiring", v2>>
    BY <1>1, <1>6
  <2> HIDE DEF s
  <2>2. FlashStep(s) /\ local' = local
    <3>1. s[1] = "checkWiring"
      BY <2>1
    <3> QED
      BY <1>3, <3>1, StepMade
  <2>3. UNCHANGED <<registries, flashes, stacks, relays, record, files>>
    BY <2>1, <2>2 DEF FlashStep
  <2>4. StateInv'
    BY <2>2, <2>3, QuietStep DEF scripted
  <2>5. FlashingOnly(2, v2)' /\ v2 \in 1..registries'
    BY <1>6, <2>3 DEF FlashingOnly
  <2> QED
    BY <1>3, <1>6, <2>4, <2>5 DEF IInv, Running, RunsFlashOnly, script
<1>7. CASE n = 2
  <2>1. /\ s = <<"persistFlash", v2>>
        /\ Len(flashes) # 0 /\ flashes[Len(flashes)] = v2
    BY <1>1, <1>7 DEF FlashingOnly
  <2> HIDE DEF s
  <2>2. PersistFlash(<<"persistFlash", v2>>) /\ local' = local
    <3>1. s[1] = "persistFlash"
      BY <2>1
    <3>2. PersistFlash(s) /\ local' = local
      BY <1>3, <3>1, StepMade
    <3> QED
      BY <2>1, <3>2
  <2>3. StateInv'
    BY <1>4, <2>1, <2>2, PersistFlashStep
  <2> QED
    BY <1>3, <1>7, <2>3 DEF IInv, Running
<1> QED
  BY <1>5, <1>6, <1>7

\* The addresses of the record are as lasting as the record.
LEMMA AddressesLast ==
    ASSUME RecordInv
    PROVE  Addresses \in AddressBook /\ Lasting(Addresses)
           /\ Addresses.relay = record.relay /\ Addresses.flash = record.flash
           /\ Addresses.registryV2 = record.registryV2 /\ Addresses.stack = record.stack
<1>1. record \in Record /\ Lasting(record)
  BY DEF RecordInv
<1>2. DOMAIN NoAddresses = {"stack", "governance", "relay", "registryV2", "flash"}
  BY DEF NoAddresses
<1>3. /\ Addresses = [f \in {"stack", "governance", "relay", "registryV2", "flash"} |-> record[f]]
      /\ \A f \in {"stack", "governance", "relay", "registryV2", "flash"} : record[f] \in Nat
  BY <1>1, <1>2 DEF Addresses, Record
<1>4. /\ Addresses.relay = record.relay /\ Addresses.flash = record.flash
      /\ Addresses.registryV2 = record.registryV2 /\ Addresses.stack = record.stack
  BY <1>3
<1>5. Addresses \in AddressBook
  BY <1>2, <1>3 DEF AddressBook
<1> QED
  BY <1>1, <1>4, <1>5 DEF Lasting

LEMMA GenerateRuns ==
    ASSUME StateInv, RunStep, NEW n \in 0..2, todo = Rest(GenerateScript, n)
    PROVE  IInv'
<1> DEFINE s == GenerateScript[n + 1]
<1>1. /\ Head(todo) = s /\ todo' = Rest(GenerateScript, n + 1)
      /\ n = 2 => todo' = <<>>
  <2>1. n \in 0..(Len(GenerateScript) - 1)
    BY GenerateSteps
  <2>2. Head(todo) = s /\ Tail(todo) = Rest(GenerateScript, n + 1)
    BY <2>1, GenerateSteps, NextStep
  <2>3. Rest(GenerateScript, 3) = <<>>
    BY GenerateSteps, WholeScript
  <2>4. todo' = Tail(todo)
    BY DEF RunStep
  <2>5. n = 2 => n + 1 = 3
    OBVIOUS
  <2> HIDE DEF s
  <2> QED
    BY <2>2, <2>3, <2>4, <2>5
<1>2. PICK f \in File : s = <<"write", f, Addresses>>
  BY GenerateSteps
<1> HIDE DEF s
<1>3. WriteFile(s) /\ local' = local
  <2>1. s[1] = "write"
    BY <1>2
  <2> QED
    BY <1>1, <2>1, StepMade
<1>4. /\ files' = [files EXCEPT ![f] = Addresses]
      /\ UNCHANGED <<stacks, relays, flashes, registries, record>>
  BY <1>2, <1>3 DEF WriteFile
<1>5. RecordInv /\ FilesInv
  BY DEF StateInv
<1>6. RecordInv'
  BY <1>4, <1>5 DEF RecordInv, Lasting, Staked, Trusted
<1>7. FilesInv'
  <2>1. \A a : Lasting(a) => Lasting(a)'
    BY <1>4 DEF Lasting, Staked, Trusted
  <2>2. Addresses \in AddressBook /\ Lasting(Addresses)
    BY <1>5, AddressesLast
  <2>3. files' \in [File -> AddressBook]
    BY <1>4, <1>5, <2>2 DEF FilesInv
  <2>4. \A g \in File : files'[g] = IF g = f THEN Addresses ELSE files[g]
    BY <1>4, <1>5 DEF FilesInv
  <2>5. ASSUME NEW g \in File PROVE Lasting(files[g])'
    <3>1. PICK a : a = files'[g] /\ Lasting(a)
      BY <1>5, <2>2, <2>4 DEF FilesInv
    <3>2. Lasting(a)'
      BY <2>1, <3>1
    <3> QED
      BY <3>1, <3>2 DEF Lasting, Staked, Trusted
  <2> QED
    BY <2>3, <2>5 DEF FilesInv
<1>8. StateInv'
  BY <1>3, <1>4, <1>5, <1>6, <1>7, FilesChange
<1>9. GenerateScript' = GenerateScript
  BY <1>4 DEF GenerateScript, Addresses
<1>10. CASE n = 2
  BY <1>1, <1>8, <1>10 DEF IInv, Running
<1>11. CASE n < 2
  <2>1. n + 1 \in 0..2
    BY <1>11
  <2>2. todo' = Rest(GenerateScript, n + 1)'
    BY <1>1, <1>9
  <2> QED
    BY <1>8, <2>1, <2>2 DEF IInv, Running, RunsGenerate
<1> QED
  BY <1>10, <1>11

\* Only a devnet knows the method that the script funds its participants with.
LEMMA LocalRuns ==
    ASSUME StateInv, RunStep, NEW n \in 0..7, NEW network \in Network,
           todo = Rest(LocalScript(network), n), Localizing(n, network)
    PROVE  IInv'
<1> DEFINE script == LocalScript(network)
           s == script[n + 1]
<1>1. /\ Len(script) = 8 /\ script \in Seq({script[i] : i \in 1..8})
      /\ \A k \in 0..5 : script[k + 1] = <<"createLocal", LocalContracts[k + 1]>>
      /\ script[7] = <<"setBalance", network>>
      /\ script[8] = <<"writeLocal", network>>
  BY LocalSteps
<1>2. todo = Rest(script, n)
  OBVIOUS
<1> HIDE DEF script
<1>3. /\ Head(todo) = s /\ todo' = Rest(script, n + 1)
      /\ n = 7 => todo' = <<>>
  <2>1. n \in 0..(Len(script) - 1)
    BY <1>1
  <2>2. Head(todo) = s /\ Tail(todo) = Rest(script, n + 1)
    BY <1>1, <1>2, <2>1, NextStep
  <2>3. Rest(script, 8) = <<>>
    BY <1>1, WholeScript
  <2>4. todo' = Tail(todo)
    BY DEF RunStep
  <2>5. n = 7 => n + 1 = 8
    OBVIOUS
  <2> HIDE DEF s
  <2> QED
    BY <2>2, <2>3, <2>4, <2>5
<1>4. /\ n \in 0..5 => s = <<"createLocal", LocalContracts[n + 1]>>
      /\ n = 6 => s = <<"setBalance", network>>
      /\ n = 7 => s = <<"writeLocal", network>>
  BY <1>1
<1> HIDE DEF s
<1>5. LocalStep(s)
  <2>1. s[1] \in {"createLocal", "setBalance", "writeLocal"}
    BY <1>4
  <2> QED
    BY <1>3, <2>1, StepMade
<1>6. UNCHANGED scripted
  BY <1>5 DEF LocalStep
<1>7. CASE n \in 0..6
  <2>1. local' = local /\ (n = 6 => network # "baseSepolia")
    BY <1>4, <1>5, <1>7 DEF LocalStep
  <2>2. StateInv'
    BY <1>6, <2>1, QuietStep
  <2>3. n + 1 \in 0..7 /\ Localizing(n + 1, network)'
    BY <1>7, <2>1 DEF Localizing
  <2> QED
    BY <1>3, <2>2, <2>3 DEF IInv, Running, RunsLocal, script
<1>8. CASE n = 7
  <2>1. local' = network /\ network # "baseSepolia"
    BY <1>4, <1>5, <1>8 DEF LocalStep, Localizing
  <2>2. /\ stacks' = stacks /\ relays' = relays /\ flashes' = flashes
        /\ registries' = registries /\ record' = record /\ files' = files
    BY <1>6 DEF scripted
  <2>3. LocalInv'
    BY <2>1 DEF LocalInv
  <2>4. StacksInv'
    BY <2>2, StacksKept DEF StateInv
  <2>5. RelaysInv' /\ FlashesInv'
    BY <2>2 DEF StateInv, RelaysInv, FlashesInv
  <2>6. RecordInv' /\ FilesInv'
    BY <2>2 DEF StateInv, RecordInv, FilesInv, Lasting, Staked, Trusted
  <2> QED
    BY <1>3, <1>8, <2>3, <2>4, <2>5, <2>6 DEF StateInv, IInv, Running
<1> QED
  BY <1>7, <1>8


------------------------------------------------------------------------------
(***************************************************************************)
(* Starting a script, and everybody else                                   *)
(***************************************************************************)
LEMMA NoStackTypes ==
    /\ NoStack \in Stack /\ NoStack.live = {} /\ NoStack.coreRole = {} /\ ~NoStack.maktubCore
    /\ NoStack.minted = [h \in Holder |-> 0] /\ NoStack.governors = 0
    /\ NoStack.has = [r \in Role |-> {}] /\ ~NoStack.reported
<1> DEFINE least == CHOOSE n \in Minimums : \A k \in Minimums : n <= k
<1>1. least \in Minimums
  BY LeastNumber, DeploymentAssumption
<1>2. NoStack = [live |-> {}, maktubCore |-> FALSE, coreRole |-> {}, admin |-> TRUE,
                 minimumStake |-> least, minted |-> [h \in Holder |-> 0],
                 governors |-> 0, has |-> [r \in Role |-> {}], reported |-> FALSE]
  BY DEF NoStack
<1> HIDE DEF least
<1>3. [h \in Holder |-> 0] \in [Holder -> Nat] /\ [r \in Role |-> {}] \in [Role -> SUBSET Nat]
  OBVIOUS
<1>4. 0 \in 0..MaxGovernors
  BY DeploymentAssumption
<1> QED
  BY <1>1, <1>2, <1>3, <1>4 DEF Stack

LEMMA NoStackFits == Fit(NoStack) /\ Deployed(NoStack, 0)
<1>1. /\ NoStack.minted["rewards"] = 0 /\ NoStack.minted["timelock"] = 0
      /\ NoStack.minted["deployer"] = 0
      /\ NoStack.minted = [rewards |-> 0, timelock |-> 0, deployer |-> 0]
  BY NoStackTypes DEF Holder
<1>2. Mints(NoStack)
  BY <1>1, DeploymentAssumption DEF Mints
<1>3. Fit(NoStack)
  BY <1>2, NoStackTypes DEF Fit
<1>4. \A i \in DOMAIN Contracts : ~(i <= 0)
  BY DEF Contracts
<1>5. Deployed(NoStack, 0)
  BY <1>1, <1>4, NoStackTypes DEF Deployed
<1> QED
  BY <1>3, <1>5

\* No relay was funded with the token of a stack that was just begun.
LEMMA NothingFunded ==
    ASSUME relays \in Seq(Relay), NEW k, \A i \in DOMAIN relays : relays[i].stack # k
    PROVE  SumFunction(Parts(k)) = 0
<1> DEFINE S == DOMAIN relays
<1>1. IsFiniteSet(S)
  BY PartsTypes
<1>2. Parts(k) = [i \in S |-> 0]
  BY DEF Parts
<1> HIDE DEF S
<1>3. SumFunction([i \in S |-> 0]) = 0
  BY <1>1, SumOfZeros
<1> QED
  BY <1>2, <1>3

\* A new stack leaves those up to the recorded one, which alone have relays, as they are.
LEMMA StartDeployIInv ==
    ASSUME StateInv, StartDeploy
    PROVE  IInv'
<1> DEFINE kept == SubSeq(stacks, 1, record.stack)
<1>0. PICK k \in Nat : k = record.stack + 1
  BY StateTypes
<1>1. /\ todo' = DeployScript(k) /\ stacks' = Append(kept, NoStack) /\ k <= MaxStacks
      /\ relays' = relays /\ flashes' = flashes /\ registries' = registries
      /\ record' = record /\ files' = files /\ local' = local
  <2>1. record.stack < MaxStacks /\ record.stack \in Nat /\ MaxStacks \in Nat
    BY StateTypes, DeploymentAssumption DEF StartDeploy
  <2>2. k <= MaxStacks
    BY <1>0, <2>1
  <2> QED
    BY <1>0, <2>2 DEF StartDeploy, Start
<1>2. /\ stacks \in Seq(Stack) /\ record.stack \in Nat /\ record.stack <= Len(stacks)
      /\ RecordInv /\ FilesInv /\ RelaysInv /\ relays \in Seq(Relay)
      /\ 1..record.stack \subseteq DOMAIN stacks
  BY StateTypes DEF StateInv, StacksInv, RelaysInv
<1>3. /\ kept \in Seq(Stack) /\ Len(kept) = record.stack
      /\ \A j \in 1..record.stack : kept[j] = stacks[j]
  BY <1>2
<1> HIDE DEF kept
<1>4. /\ stacks' \in Seq(Stack) /\ Len(stacks') = k /\ DOMAIN stacks' = 1..k
      /\ stacks'[k] = NoStack /\ k \in Nat
      /\ \A j \in 1..record.stack : stacks'[j] = stacks[j]
  BY <1>0, <1>1, <1>2, <1>3, NoStackTypes
<1>5. \A j : RelaysOf(j)' = RelaysOf(j) /\ Parts(j)' = Parts(j)
  BY <1>1 DEF RelaysOf, Parts
<1>6. ASSUME NEW j \in 1..record.stack
      PROVE  /\ Fit(stacks[j])' /\ (stacks[j].coreRole \subseteq {CORE} \cup RelaysOf(j))'
             /\ DeployerBalance(j)' >= 0
  <2>1. /\ Fit(stacks[j]) /\ stacks[j].coreRole \subseteq {CORE} \cup RelaysOf(j)
        /\ DeployerBalance(j) >= 0
    BY <1>2 DEF StateInv, StacksInv
  <2>2. stacks'[j] = stacks[j]
    BY <1>4
  <2>3. DeployerBalance(j)' = DeployerBalance(j)
    BY <1>1, <2>2 DEF DeployerBalance
  <2>4. Fit(stacks[j])'
    BY <2>1, <2>2 DEF Fit, Complete, Governs, Mints
  <2> QED
    BY <1>5, <2>1, <2>2, <2>3, <2>4
<1>7. /\ Fit(stacks[k])' /\ (stacks[k].coreRole \subseteq {CORE} \cup RelaysOf(k))'
      /\ DeployerBalance(k)' >= 0
  <2>1. \A i \in DOMAIN relays : relays[i].stack # k
    BY <1>0, <1>2 DEF RelaysInv
  <2>2. SumFunction(Parts(k)) = 0
    BY <1>2, <2>1, NothingFunded
  <2>3. NoStack.minted["deployer"] = 0
    BY NoStackTypes DEF Holder
  <2>4. DeployerBalance(k)' = 0
    <3>1. DeployerBalance(k)' = NoStack.minted["deployer"] - SumFunction(Parts(k))
      BY <1>1, <1>4 DEF DeployerBalance, Parts
    <3> QED
      BY <2>2, <2>3, <3>1
  <2>5. Fit(stacks'[k])
    BY <1>4, NoStackFits
  <2>6. Fit(stacks[k])'
    BY <2>5 DEF Fit, Complete, Governs, Mints
  <2> QED
    BY <1>4, <2>4, <2>6, NoStackTypes
<1>8. StacksInv'
  <2>1. \A j \in DOMAIN stacks' : j \in 1..record.stack \/ j = k
    BY <1>0, <1>2, <1>4
  <2>2. ASSUME NEW j \in DOMAIN stacks'
        PROVE  /\ Fit(stacks[j])' /\ (stacks[j].coreRole \subseteq {CORE} \cup RelaysOf(j))'
               /\ DeployerBalance(j)' >= 0
    <3>1. CASE j \in 1..record.stack
      BY <1>6, <3>1
    <3>2. CASE j = k
      BY <1>7, <3>2
    <3> QED
      BY <2>1, <3>1, <3>2
  <2> QED
    BY <1>1, <1>4, <2>2 DEF StacksInv
<1>9. RelaysInv' /\ FlashesInv' /\ LocalInv'
  BY <1>1 DEF StateInv, RelaysInv, FlashesInv, LocalInv
<1>10. \A i \in DOMAIN relays : stacks'[relays[i].stack] = stacks[relays[i].stack]
  BY <1>2, <1>4 DEF RelaysInv
<1>11. \A a : Lasting(a) => Lasting(a)'
  BY <1>1, <1>10 DEF Lasting, Staked, Trusted
<1>12. FilesInv'
  BY <1>1, <1>2, <1>11 DEF FilesInv, Lasting
<1>13. RecordInv'
  <2>1. Lasting(record)'
    BY <1>1, <1>2, <1>11 DEF RecordInv, Lasting
  <2>2. record.stack <= Len(stacks') /\ Len(stacks') <= record.stack + 1
    BY <1>0, <1>2, <1>4
  <2>3. record.stack # 0 => record.stack \in 1..record.stack
    BY <1>2
  <2>4. /\ record \in Record /\ record.registryV2 <= registries
        /\ \A j \in 1..record.stack : stacks[j].reported
        /\ record.stack # 0 => /\ record.governance <= stacks[record.stack].governors
                               /\ record.stale <= stacks[record.stack].governors
    BY <1>2 DEF RecordInv
  <2>5. \A j \in 1..record.stack : stacks'[j].reported
    BY <1>4, <2>4
  <2>6. record.stack # 0 => /\ record.governance <= stacks'[record.stack].governors
                            /\ record.stale <= stacks'[record.stack].governors
    BY <1>4, <2>3, <2>4
  <2> QED
    BY <1>1, <2>1, <2>2, <2>4, <2>5, <2>6 DEF RecordInv
<1>14. StateInv'
  BY <1>8, <1>9, <1>12, <1>13 DEF StateInv
<1>15. RunsDeploy'
  <2>1. DeployScript(k) = Rest(DeployScript(k), 0)
    BY DeploySteps, WholeScript
  <2>2. Deployed(stacks'[k], 0) /\ k \in DOMAIN stacks'
    <3>1. k \in 1..k
      BY <1>0, <1>2
    <3>2. stacks'[k] = NoStack /\ Deployed(NoStack, 0)
      BY <1>4, NoStackFits
    <3>3. Deployed(stacks'[k], 0)
      BY Zenon, <3>2
    <3> QED
      BY <1>4, <3>1, <3>3
  <2>3. 0 \in 0..14 /\ todo' = Rest(DeployScript(k), 0)
    BY <1>1, <2>1
  <2> QED
    BY <2>2, <2>3 DEF RunsDeploy, Deployed
<1> QED
  BY <1>14, <1>15 DEF IInv, Running

LEMMA InitIInv == Init => IInv
<1> SUFFICES ASSUME Init PROVE IInv
  OBVIOUS
<1>1. /\ todo = <<>> /\ stacks = <<>> /\ relays = <<>> /\ flashes = <<>> /\ registries = 0
      /\ record = [stack |-> 0, stale |-> 0, governance |-> 0, relay |-> 0,
                   registryV2 |-> 0, flash |-> 0]
      /\ files = [f \in File |-> NoAddresses] /\ local = NoFile
  BY DEF Init
<1>2. NoAddresses \in AddressBook /\ NoAddresses.relay = 0 /\ NoAddresses.flash = 0
  <2>1. \A f \in DOMAIN NoAddresses : NoAddresses[f] \in Nat
    BY DEF NoAddresses
  <2> QED
    BY <2>1 DEF AddressBook, NoAddresses
<1>3. /\ record \in Record /\ record.stack = 0 /\ record.relay = 0
      /\ record.registryV2 = 0 /\ record.flash = 0
  BY <1>1 DEF Record
<1>4. StacksInv /\ RelaysInv
  <2>1. stacks \in Seq(Stack) /\ Len(stacks) = 0 /\ DOMAIN stacks = {}
    BY <1>1
  <2>2. relays \in Seq(Relay) /\ DOMAIN relays = {}
    BY <1>1
  <2> QED
    BY <2>1, <2>2, DeploymentAssumption DEF StacksInv, RelaysInv
<1>5. FlashesInv /\ LocalInv
  <2>1. flashes \in Seq(Nat) /\ DOMAIN flashes = {}
    BY <1>1
  <2> QED
    BY <1>1, <2>1 DEF FlashesInv, LocalInv, NoFile
<1>6. RecordInv
  <2>1. Lasting(record)
    BY <1>3 DEF Lasting
  <2>2. Len(stacks) = 0
    BY <1>1
  <2> QED
    BY <1>1, <1>3, <2>1, <2>2 DEF RecordInv
<1>7. FilesInv
  BY <1>1, <1>2 DEF FilesInv, Lasting
<1> QED
  BY <1>1, <1>4, <1>5, <1>6, <1>7 DEF IInv, StateInv, Running

\* The first step is still to come.
LEMMA NothingDone ==
    ASSUME NEW S, NEW script \in Seq(S)
    PROVE  Rest(script, 0) = script
BY WholeScript

LEMMA StartIInv ==
    ASSUME StateInv,
           \/ StartResume \/ StartRotate \/ StartRelay
           \/ StartFlash \/ StartFlashOnly \/ StartGenerate \/ StartLocal
    PROVE  IInv'
<1>1. StateInv' /\ UNCHANGED <<scripted, local>>
  <2>1. UNCHANGED <<scripted, local>>
    BY DEF StartResume, StartRotate, StartRelay, StartFlash, StartFlashOnly, StartGenerate,
           StartLocal, scripted
  <2> QED
    BY <2>1, QuietStep
<1>2. /\ stacks' = stacks /\ relays' = relays
      /\ flashes' = flashes /\ registries' = registries /\ record' = record
  BY <1>1 DEF scripted
<1>3. CASE StartResume
  <2> DEFINE k == Newest
  <2>1. /\ k \in DOMAIN stacks /\ Wired(stacks[k]) /\ stacks[k].minted["rewards"] = 35
        /\ todo' = ResumeScript(k)
    <3>1. stacks # <<>> /\ stacks \in Seq(Stack)
      BY <1>3 DEF StartResume, StateInv, StacksInv
    <3>2. Newest \in DOMAIN stacks
      BY <3>1 DEF Newest
    <3> QED
      BY <1>3, <3>2, AllocationIs DEF StartResume, Start
  <2>2. todo' = Rest(ResumeScript(k), 0)
    BY <2>1, ResumeSteps, NothingDone
  <2> HIDE DEF k
  <2>3. Resumed(stacks[k], 0)
    BY <2>1 DEF Resumed
  <2>4. RunsResume'
    BY <1>2, <2>1, <2>2, <2>3 DEF RunsResume, Resumed, Wired
  <2> QED
    BY <1>1, <2>4 DEF IInv, Running
<1>4. CASE StartRotate
  <2> DEFINE k == record.stack
             s == stacks[k]
             new == s.governors + 1
             old == record.stale
  <2>1. /\ todo' = RotateScript(k, new, old) /\ k # 0 /\ s.governors < MaxGovernors
    BY <1>4 DEF StartRotate, Start
  <2>2. /\ k \in 1..record.stack /\ k \in DOMAIN stacks
    BY <2>1, StateTypes
  <2>3. /\ s.governors \in Nat /\ old \in Int /\ old <= s.governors
        /\ s.reported /\ MaxGovernors \in Nat
    <3>1. RecordInv /\ record \in Record
      BY DEF StateInv, RecordInv
    <3>2. old \in Int /\ old <= s.governors /\ s.reported
      BY <2>1, <2>2, <3>1 DEF RecordInv, Record
    <3> QED
      BY <2>2, <3>2, StateTypes, StackTypes, DeploymentAssumption
  <2>4. new \in 1..MaxGovernors /\ new # old
    BY <2>1, <2>3
  <2>5. Rotated(s, 0, new)
    <3>1. s.governors = (IF 0 >= 1 THEN new ELSE new - 1)
      BY <2>3
    <3>2. ~(0 >= 2) /\ ~(0 >= 3) /\ ~(0 >= 4)
      OBVIOUS
    <3> HIDE DEF new, s
    <3> QED
      BY <2>3, <3>1, <3>2 DEF Rotated
  <2>6. todo' = Rest(RotateScript(k, new, old), 0)
    <3> DEFINE script == RotateScript(k, new, old)
    <3>1. script \in Seq({script[i] : i \in 1..8})
      BY DEF RotateScript, Each
    <3>2. todo' = script
      BY <2>1
    <3> HIDE DEF script
    <3>3. Rest(script, 0) = script
      BY <3>1, NothingDone
    <3> QED
      BY <3>2, <3>3 DEF script
  <2>7. PICK new1 : new1 = new
    OBVIOUS
  <2>8. PICK old1 : old1 = old
    OBVIOUS
  <2>9. PICK k1 : k1 = record.stack
    OBVIOUS
  <2>10. /\ new1 \in 1..MaxGovernors /\ old1 \in Int /\ new1 # old1 /\ k1 \in DOMAIN stacks
         /\ todo' = Rest(RotateScript(k1, new1, old1), 0) /\ Rotated(stacks[k1], 0, new1)
    BY <2>2, <2>3, <2>4, <2>5, <2>6, <2>7, <2>8, <2>9
  <2>11. RunsRotate'
    <3> HIDE DEF new, old, s, k
    <3>1. 0 \in 0..7 /\ k1 = record'.stack /\ k1 \in DOMAIN stacks' /\ stacks'[k1] = stacks[k1]
      BY <1>2, <2>9, <2>10
    <3>2. Rotated(stacks'[k1], 0, new1)
      BY <2>10, <3>1
    <3> QED
      BY <2>10, <3>1, <3>2 DEF RunsRotate, Rotated
  <2> QED
    BY <1>1, <2>11 DEF IInv, Running
<1>5. CASE StartRelay
  <2>1. /\ record.stack # 0 /\ record.stack \in 1..record.stack
        /\ stacks[record.stack].minimumStake \in Minimums
    BY <1>5, StateTypes, StackTypes DEF StartRelay
  <2>2. PICK k \in 1..record.stack, amount \in Minimums :
            todo' = RelayScript(k, amount)
    BY <1>5, <2>1 DEF StartRelay, Start
  <2>3. todo' = Rest(RelayScript(k, amount), 0)
    BY <2>2, RelaySteps, NothingDone
  <2>4. Relaying(0, k)'
    BY DEF Relaying
  <2>5. RunsRelay'
    BY <1>2, <2>3, <2>4 DEF RunsRelay
  <2> QED
    BY <1>1, <2>5 DEF IInv, Running
<1>6. CASE StartFlash
  <2>1. PICK v2 \in 1..(registries + 1) :
            v2 = registries + 1 /\ todo' = FlashScript(v2)
    BY <1>6, StateTypes DEF StartFlash, Start
  <2>2. todo' = Rest(FlashScript(v2), 0)
    BY <2>1, FlashSteps, NothingDone
  <2>3. Flashing(0, v2)'
    BY <1>2, <2>1, StateTypes DEF Flashing
  <2>4. RunsFlash'
    BY <1>2, <2>2, <2>3 DEF RunsFlash
  <2> QED
    BY <1>1, <2>4 DEF IInv, Running
<1>7. CASE StartFlashOnly
  <2>1. record.registryV2 # 0 /\ todo' = FlashOnlyScript(record.registryV2)
    BY <1>7 DEF StartFlashOnly, Start
  <2>2. PICK v2 \in 1..registries : v2 = record.registryV2
    BY <2>1, StateTypes DEF StateInv, RecordInv, Record
  <2>3. todo' = Rest(FlashOnlyScript(v2), 0)
    BY <2>1, <2>2, FlashOnlySteps, NothingDone
  <2>4. FlashingOnly(0, v2)'
    BY DEF FlashingOnly
  <2>5. RunsFlashOnly'
    BY <1>2, <2>3, <2>4 DEF RunsFlashOnly
  <2> QED
    BY <1>1, <2>5 DEF IInv, Running
<1>8. CASE StartGenerate
  <2>1. todo' = Rest(GenerateScript, 0)
    BY <1>8, GenerateSteps, NothingDone DEF StartGenerate, Start
  <2>2. GenerateScript' = GenerateScript
    BY <1>2 DEF GenerateScript, Addresses
  <2>3. RunsGenerate'
    BY <2>1, <2>2 DEF RunsGenerate
  <2> QED
    BY <1>1, <2>3 DEF IInv, Running
<1>9. CASE StartLocal
  <2>1. PICK network \in Network : todo' = LocalScript(network)
    BY <1>9 DEF StartLocal, Start
  <2>2. todo' = Rest(LocalScript(network), 0)
    BY <2>1, LocalSteps, NothingDone
  <2>3. Localizing(0, network)'
    BY DEF Localizing
  <2>4. RunsLocal'
    BY <2>2, <2>3 DEF RunsLocal
  <2> QED
    BY <1>1, <2>4 DEF IInv, Running
<1> QED
  BY <1>3, <1>4, <1>5, <1>6, <1>7, <1>8, <1>9

\* What others do between two steps leaves what the script has done.
LEMMA RunningKept ==
    ASSUME Running, UNCHANGED <<todo, flashes, registries, record>>,
           DOMAIN stacks' = DOMAIN stacks,
           \A k \in DOMAIN stacks :
               /\ stacks'[k].live = stacks[k].live
               /\ stacks'[k].maktubCore = stacks[k].maktubCore
               /\ CORE \in stacks[k].coreRole => CORE \in stacks'[k].coreRole
               /\ stacks'[k].minted = stacks[k].minted
               /\ stacks'[k].governors = stacks[k].governors
               /\ stacks'[k].has = stacks[k].has /\ stacks'[k].reported = stacks[k].reported,
           Len(relays') = Len(relays),
           Latest # 0 => /\ relays'[Latest].stack = relays[Latest].stack
                         /\ relays'[Latest].funded = relays[Latest].funded
                         /\ relays'[Latest].staked = relays[Latest].staked
                         /\ Staked(Latest) => Staked(Latest)'
                         /\ Trusted(Latest) => Trusted(Latest)'
    PROVE  Running'
<1>1. \A n \in 0..14, k \in DOMAIN stacks : Deployed(stacks[k], n) => Deployed(stacks'[k], n)
  BY DEF Deployed
<1>2. \A n \in 0..2, k \in DOMAIN stacks : Resumed(stacks[k], n) => Resumed(stacks'[k], n)
  BY DEF Resumed, Wired
<1>3. \A n \in 0..7, k \in DOMAIN stacks :
          \A new : Rotated(stacks[k], n, new) => Rotated(stacks'[k], n, new)
  BY DEF Rotated
<1>4. \A n \in 0..5 : \A k : Relaying(n, k) => Relaying(n, k)'
  <2> TAKE n \in 0..5
  <2> TAKE k
  <2>1. Latest' = Latest
    BY DEF Latest
  <2>2. /\ Trusted(Latest) => (Latest # 0 => Trusted(Latest)')
        /\ Staked(Latest) => (Latest # 0 => Staked(Latest)')
    OBVIOUS
  <2>3. n >= 3 => n >= 1
    OBVIOUS
  <2>4. n >= 4 => n >= 1
    OBVIOUS
  <2>5. n >= 5 => n >= 1
    OBVIOUS
  <2>6. n = 1 => n >= 1
    OBVIOUS
  <2> QED
    BY <2>1, <2>2, <2>3, <2>4, <2>5, <2>6 DEF Relaying
<1>5. /\ \A n, v2 : Flashing(n, v2) => Flashing(n, v2)'
      /\ \A n, v2 : FlashingOnly(n, v2) => FlashingOnly(n, v2)'
      /\ \A n, network : Localizing(n, network) => Localizing(n, network)'
  BY DEF Flashing, FlashingOnly, Localizing
<1>6. GenerateScript' = GenerateScript
  BY DEF GenerateScript, Addresses
<1>7. todo = <<>> => todo' = <<>>
  OBVIOUS
<1>8. RunsDeploy => RunsDeploy'
  BY <1>1 DEF RunsDeploy, Deployed
<1>9. RunsResume => RunsResume'
  BY <1>2 DEF RunsResume, Resumed, Wired
<1>10. RunsRotate => RunsRotate'
  BY <1>3 DEF RunsRotate, Rotated
<1>11. RunsRelay => RunsRelay'
  BY <1>4 DEF RunsRelay
<1>12. RunsFlash => RunsFlash'
  BY <1>5 DEF RunsFlash
<1>13. RunsFlashOnly => RunsFlashOnly'
  BY <1>5 DEF RunsFlashOnly
<1>14. RunsGenerate => RunsGenerate'
  BY <1>6 DEF RunsGenerate
<1>15. RunsLocal => RunsLocal'
  BY <1>5 DEF RunsLocal
<1> QED
  BY <1>7, <1>8, <1>9, <1>10, <1>11, <1>12, <1>13, <1>14, <1>15 DEF Running

\* The relay and the files that the record and the files name are on earlier
\* stacks; the governors of the one recorded now are its own.
LEMMA RecordStackIInv ==
    ASSUME IInv, RecordStack
    PROVE  IInv'
<1>1. /\ todo = <<>> /\ todo' = <<>> /\ Newest > record.stack /\ stacks[Newest].reported
      /\ record' = [record EXCEPT !.stack = Newest, !.governance = 1,
                                  !.stale = IF @ = 0 THEN 0 ELSE Elsewhere]
      /\ stacks' = stacks /\ relays' = relays /\ flashes' = flashes
      /\ registries' = registries /\ files' = files /\ local' = local
  BY DEF RecordStack
<1>2. StateInv /\ RecordInv /\ FilesInv /\ record \in Record
  BY DEF IInv, StateInv, RecordInv
<1>3. /\ Newest = record.stack + 1 /\ Newest \in DOMAIN stacks /\ Newest \in Nat
      /\ record.stack \in Nat /\ Len(stacks) = Newest
  BY <1>1, <1>2, StateTypes DEF RecordInv, Newest
<1> HIDE DEF Newest
<1>4. stacks[Newest].governors \in Nat /\ 1 <= stacks[Newest].governors
  <2>1. stacks[Newest] \in Stack /\ Fit(stacks[Newest])
    BY <1>2, <1>3, StateTypes
  <2>2. stacks[Newest].governors \in Nat
    BY <2>1, StackTypes
  <2>3. \E g \in 1..stacks[Newest].governors : Governs(stacks[Newest], g)
    BY <1>1, <2>1 DEF Fit
  <2> QED
    BY <2>2, <2>3
<1>5. /\ record' \in Record /\ record'.stack = Newest /\ record'.governance = 1
      /\ record'.stale \in {0, Elsewhere} /\ record'.registryV2 = record.registryV2
      /\ record'.relay = record.relay /\ record'.flash = record.flash
  <2> DEFINE stale == IF record.stale = 0 THEN 0 ELSE Elsewhere
  <2>1. record' = [[[record EXCEPT !.stack = Newest] EXCEPT !.governance = 1] EXCEPT !.stale = stale]
    BY <1>1, <1>2 DEF Record
  <2>2. stale \in Int /\ stale \in {0, Elsewhere}
    BY DEF Elsewhere
  <2> HIDE DEF stale
  <2> QED
    BY <1>2, <1>3, <2>1, <2>2 DEF Record
<1>6. Lasting(record)'
  <2>1. record.relay # 0 => relays[record.relay].stack <= record'.stack
    <3> SUFFICES ASSUME record.relay # 0 PROVE relays[record.relay].stack <= record'.stack
      OBVIOUS
    <3>1. record.relay \in DOMAIN relays /\ relays[record.relay].stack <= record.stack
      BY <1>2 DEF RecordInv, Lasting
    <3>2. relays[record.relay].stack \in Nat
      BY <1>2, <3>1, StateTypes
    <3> QED
      BY <1>3, <1>5, <3>1, <3>2
  <2>2. Lasting(record)
    BY <1>2 DEF RecordInv
  <2> QED
    BY <1>1, <1>5, <2>1, <2>2 DEF Lasting, Staked, Trusted
<1>7. RecordInv'
  <2>1. record.registryV2 <= registries
    BY <1>2 DEF RecordInv
  <2>2. \A k \in 1..Newest : stacks[k].reported
    <3> TAKE k \in 1..Newest
    <3>1. k \in 1..record.stack \/ k = Newest
      BY <1>3
    <3> QED
      BY <1>1, <1>2, <3>1 DEF RecordInv
  <2>3. /\ record'.governance <= stacks[Newest].governors
        /\ record'.stale <= stacks[Newest].governors
    BY <1>4, <1>5 DEF Elsewhere
  <2>4. Newest <= Len(stacks) /\ Len(stacks) <= Newest + 1
    BY <1>3
  <2> QED
    BY <1>1, <1>5, <1>6, <2>1, <2>2, <2>3, <2>4 DEF RecordInv
<1>8. FilesInv'
  BY <1>1, <1>2 DEF FilesInv, Lasting, Staked, Trusted
<1>9. StacksInv'
  BY <1>1, <1>2, StacksKept DEF StateInv
<1>10. RelaysInv'
  <2>1. \A i \in DOMAIN relays : relays[i].stack \in 1..record'.stack
    <3> TAKE i \in DOMAIN relays
    <3>1. relays[i].stack \in 1..record.stack
      BY <1>2, StateTypes
    <3> QED
      BY <1>3, <1>5, <3>1
  <2> QED
    BY <1>1, <1>2, <2>1 DEF StateInv, RelaysInv
<1>11. FlashesInv' /\ LocalInv'
  BY <1>1, <1>2 DEF StateInv, FlashesInv, LocalInv
<1> QED
  BY <1>1, <1>7, <1>8, <1>9, <1>10, <1>11 DEF IInv, StateInv, Running

LEMMA MarkStaleIInv ==
    ASSUME IInv, MarkStale
    PROVE  IInv'
<1>1. /\ todo = <<>> /\ todo' = <<>> /\ record.stack # 0
      /\ record' = [record EXCEPT !.stale = record.governance]
      /\ UNCHANGED <<stacks, relays, flashes, registries, files, local>>
  BY DEF MarkStale
<1>2. StateInv /\ RecordInv /\ FilesInv /\ record \in Record
  BY DEF IInv, StateInv, RecordInv
<1>3. /\ record' \in Record /\ record'.stack = record.stack /\ record'.stale = record.governance
      /\ record'.governance = record.governance /\ record'.registryV2 = record.registryV2
      /\ record'.relay = record.relay /\ record'.flash = record.flash
  BY <1>1, <1>2 DEF Record
<1>4. Lasting(record)'
  BY <1>1, <1>2, <1>3 DEF RecordInv, Lasting, Staked, Trusted
<1>5. RecordInv'
  BY <1>1, <1>2, <1>3, <1>4 DEF RecordInv
<1>6. FilesInv'
  BY <1>1, <1>2 DEF FilesInv, Lasting, Staked, Trusted
<1>7. StateInv'
  BY <1>1, <1>2, <1>3, <1>5, <1>6, FilesChange
<1> QED
  BY <1>1, <1>7 DEF IInv, Running

\* A new minimum stake, or an admin less, is nothing a script has done.
LEMMA StackSettingIInv ==
    ASSUME IInv, GovernanceSetsMinimum \/ AdminRenounces
    PROVE  IInv'
<1>1. UNCHANGED <<todo, relays, flashes, registries, record, files, local>>
  BY DEF GovernanceSetsMinimum, AdminRenounces
<1>2. StateInv /\ Running
  BY DEF IInv
<1>3. PICK k \in 1..record.stack, t \in Stack :
          /\ stacks' = [stacks EXCEPT ![k] = t]
          /\ t.live = stacks[k].live /\ t.maktubCore = stacks[k].maktubCore
          /\ t.coreRole = stacks[k].coreRole /\ t.minted = stacks[k].minted
          /\ t.governors = stacks[k].governors /\ t.has = stacks[k].has
          /\ t.reported = stacks[k].reported
  <2>1. CASE GovernanceSetsMinimum
    <3>1. record.stack \in 1..record.stack /\ stacks[record.stack] \in Stack
      BY <1>2, <2>1, StateTypes DEF GovernanceSetsMinimum
    <3>2. PICK m \in Minimums : stacks' = [stacks EXCEPT ![record.stack].minimumStake = m]
      BY <2>1 DEF GovernanceSetsMinimum
    <3> DEFINE s == stacks[record.stack]
               t == [s EXCEPT !.minimumStake = m]
    <3>3. stacks' = [stacks EXCEPT ![record.stack] = t]
      BY <3>2
    <3>4. /\ t \in Stack /\ t.live = s.live /\ t.maktubCore = s.maktubCore
          /\ t.coreRole = s.coreRole /\ t.minted = s.minted
          /\ t.governors = s.governors /\ t.has = s.has /\ t.reported = s.reported
      BY <3>1 DEF Stack
    <3> HIDE DEF t
    <3> QED
      BY <3>1, <3>3, <3>4
  <2>2. CASE AdminRenounces
    <3>1. PICK k \in 1..record.stack : stacks' = [stacks EXCEPT ![k].admin = FALSE]
      BY <2>2 DEF AdminRenounces
    <3>2. stacks[k] \in Stack
      BY <1>2, StateTypes
    <3> DEFINE s == stacks[k]
               t == [s EXCEPT !.admin = FALSE]
    <3>3. stacks' = [stacks EXCEPT ![k] = t]
      BY <3>1
    <3>4. /\ t \in Stack /\ t.live = s.live /\ t.maktubCore = s.maktubCore
          /\ t.coreRole = s.coreRole /\ t.minted = s.minted
          /\ t.governors = s.governors /\ t.has = s.has /\ t.reported = s.reported
      BY <3>2 DEF Stack
    <3> HIDE DEF t
    <3> QED
      BY <3>3, <3>4
  <2> QED
    BY <2>1, <2>2
<1>4. k \in DOMAIN stacks /\ Fit(stacks[k]) /\ stacks[k] \in Stack
  BY <1>2, StateTypes
<1>5. Fit(t) /\ Grows(stacks[k], t)
  <2>1. stacks[k].minted["deployer"] \in Nat /\ stacks[k].governors \in Nat
    BY <1>4, StackTypes
  <2>2. Grows(stacks[k], t)
    BY <1>3, <2>1 DEF Grows
  <2>3. Fit(t)
    BY <1>3, <1>4 DEF Fit, Mints, Complete, Governs
  <2> QED
    BY <2>2, <2>3
<1>6. StateInv' /\ DOMAIN stacks' = DOMAIN stacks /\ stacks'[k] = t
  BY <1>1, <1>2, <1>3, <1>4, <1>5, StackChanges
<1>7. Running'
  <2>1. \A j \in DOMAIN stacks :
            /\ stacks'[j].live = stacks[j].live
            /\ stacks'[j].maktubCore = stacks[j].maktubCore
            /\ stacks'[j].coreRole = stacks[j].coreRole
            /\ stacks'[j].minted = stacks[j].minted
            /\ stacks'[j].governors = stacks[j].governors
            /\ stacks'[j].has = stacks[j].has /\ stacks'[j].reported = stacks[j].reported
    <3> TAKE j \in DOMAIN stacks
    <3>1. CASE j = k
      BY <1>3, <1>6, <3>1
    <3>2. CASE j # k
      <4>1. stacks'[j] = stacks[j]
        BY <1>3, <3>2
      <4> QED
        BY <4>1
    <3> QED
      BY <3>1, <3>2
  <2>2. relays' = relays /\ Latest' = Latest
    BY <1>1 DEF Latest
  <2>3. Latest # 0 => /\ Staked(Latest) => Staked(Latest)'
                      /\ Trusted(Latest) => Trusted(Latest)'
    <3> SUFFICES ASSUME Latest # 0
                 PROVE  /\ Staked(Latest) => Staked(Latest)'
                        /\ Trusted(Latest) => Trusted(Latest)'
      OBVIOUS
    <3>1. Latest \in DOMAIN relays
      BY <1>2, StateTypes DEF Latest
    <3>2. relays[Latest].stack \in DOMAIN stacks
      BY <1>2, <3>1, StateTypes
    <3> QED
      BY <2>1, <2>2, <3>2 DEF Staked, Trusted
  <2> QED
    BY <1>1, <1>2, <1>6, <2>1, <2>2, <2>3, RunningKept
<1> QED
  BY <1>6, <1>7 DEF IInv

\* The relays after a step that changes one of them.
LEMMA OneRelay ==
    ASSUME relays \in Seq(Relay), NEW i \in DOMAIN relays, NEW r \in Relay,
           relays' = [relays EXCEPT ![i] = r],
           r.stack = relays[i].stack, r.funded = relays[i].funded, r.staked = relays[i].staked,
           relays[i].active \/ relays[i].slashed => r.active \/ r.slashed
    PROVE  /\ relays' \in Seq(Relay) /\ Len(relays') = Len(relays)
           /\ DOMAIN relays' = DOMAIN relays /\ relays'[i] = r
           /\ \A j \in DOMAIN relays : /\ relays'[j].stack = relays[j].stack
                                       /\ relays'[j].funded = relays[j].funded
                                       /\ relays'[j].staked = relays[j].staked
                                       /\ j # i => relays'[j] = relays[j]
                                       /\ Staked(j) => Staked(j)'
<1>1. /\ relays' \in Seq(Relay) /\ Len(relays') = Len(relays)
      /\ DOMAIN relays' = DOMAIN relays /\ relays'[i] = r
      /\ \A j \in DOMAIN relays : j # i => relays'[j] = relays[j]
  OBVIOUS
<1>2. ASSUME NEW j \in DOMAIN relays
      PROVE  /\ relays'[j].stack = relays[j].stack /\ relays'[j].funded = relays[j].funded
             /\ relays'[j].staked = relays[j].staked /\ Staked(j) => Staked(j)'
  <2>1. CASE j = i
    BY <1>1, <2>1 DEF Staked
  <2>2. CASE j # i
    <3>1. relays'[j] = relays[j]
      BY <1>1, <2>2
    <3> QED
      BY <3>1 DEF Staked
  <2> QED
    BY <2>1, <2>2
<1> QED
  BY <1>1, <1>2

\* A slashed relay keeps its flag of a stake; nothing of what funded it comes back.
LEMMA SlashIInv ==
    ASSUME IInv, GovernanceSlashes
    PROVE  IInv'
<1>1. UNCHANGED <<todo, stacks, flashes, registries, record, files, local>>
  BY DEF GovernanceSlashes
<1>2. PICK i \in DOMAIN relays :
          relays' = [relays EXCEPT ![i].active = FALSE, ![i].slashed = TRUE]
  BY DEF GovernanceSlashes
<1>3. StateInv /\ Running /\ RelaysInv /\ relays \in Seq(Relay)
  BY DEF IInv, StateInv, RelaysInv
<1> DEFINE r == [[relays[i] EXCEPT !.active = FALSE] EXCEPT !.slashed = TRUE]
<1>4. relays' = [relays EXCEPT ![i] = r]
  BY <1>2
<1>5. /\ r \in Relay /\ r.stack = relays[i].stack /\ r.funded = relays[i].funded
      /\ r.staked = relays[i].staked /\ r.slashed /\ r.revoked = relays[i].revoked
  <2>1. relays[i] \in Relay
    BY <1>3
  <2> QED
    BY <2>1 DEF Relay
<1> HIDE DEF r
<1>6. /\ relays' \in Seq(Relay) /\ Len(relays') = Len(relays)
      /\ DOMAIN relays' = DOMAIN relays /\ relays'[i] = r
      /\ \A j \in DOMAIN relays : /\ relays'[j].stack = relays[j].stack
                                  /\ relays'[j].funded = relays[j].funded
                                  /\ relays'[j].staked = relays[j].staked
                                  /\ j # i => relays'[j] = relays[j]
                                  /\ Staked(j) => Staked(j)'
  BY <1>3, <1>4, <1>5, OneRelay
<1>7. \A j \in DOMAIN relays : relays'[j].revoked = relays[j].revoked
  BY <1>5, <1>6
<1>8. \A k \in DOMAIN stacks : DeployerBalance(k)' >= 0
  <2>1. \A k \in DOMAIN stacks : /\ stacks'[k].minted["deployer"] \in Nat
                                 /\ stacks[k].minted["deployer"] <= stacks'[k].minted["deployer"]
    BY <1>1, <1>3, StateTypes, StackTypes
  <2> QED
    BY <1>3, <1>6, <2>1, BalanceKept
<1>9. \A j \in DOMAIN relays' : relays'[j].stack \in 1..record.stack
  BY <1>3, <1>6, StateTypes
<1>10. StateInv'
  <2>1. Len(relays) <= Len(relays')
    BY <1>3, <1>6
  <2> QED
    BY <1>1, <1>3, <1>6, <1>7, <1>8, <1>9, <2>1, RelaysChange
<1>11. Running'
  <2>1. Latest # 0 => Latest \in DOMAIN relays
    BY <1>3, StateTypes DEF Latest
  <2>2. \A j \in DOMAIN relays : Trusted(j) => Trusted(j)'
    BY <1>1, <1>6, <1>7 DEF Trusted
  <2>3. DOMAIN stacks' = DOMAIN stacks
    BY <1>1
  <2>4. \A k \in DOMAIN stacks :
            /\ stacks'[k].live = stacks[k].live
            /\ stacks'[k].maktubCore = stacks[k].maktubCore
            /\ CORE \in stacks[k].coreRole => CORE \in stacks'[k].coreRole
            /\ stacks'[k].minted = stacks[k].minted
            /\ stacks'[k].governors = stacks[k].governors
            /\ stacks'[k].has = stacks[k].has /\ stacks'[k].reported = stacks[k].reported
    BY <1>1
  <2>5. Latest # 0 => /\ relays'[Latest].stack = relays[Latest].stack
                      /\ relays'[Latest].funded = relays[Latest].funded
                      /\ relays'[Latest].staked = relays[Latest].staked
                      /\ Staked(Latest) => Staked(Latest)'
                      /\ Trusted(Latest) => Trusted(Latest)'
    <3>1. PICK j : j = Latest /\ Latest' = j
      BY <1>6 DEF Latest
    <3>2. /\ Staked(Latest) <=> Staked(j)
          /\ Trusted(Latest) <=> Trusted(j)
          /\ Staked(Latest)' <=> Staked(j)'
          /\ Trusted(Latest)' <=> Trusted(j)'
      BY <3>1 DEF Staked, Trusted
    <3>3. Latest # 0 => j \in DOMAIN relays
      BY <2>1, <3>1
    <3> QED
      BY <1>6, <2>2, <3>1, <3>2, <3>3
  <2> QED
    BY <1>1, <1>3, <1>6, <2>3, <2>4, <2>5, RunningKept
<1> QED
  BY <1>10, <1>11 DEF IInv

\* The admin takes the role from a relay of its own stack, and from no other caller.
LEMMA RevokeIInv ==
    ASSUME IInv, AdminRevokes
    PROVE  IInv'
<1>1. UNCHANGED <<todo, flashes, registries, record, files, local>>
  BY DEF AdminRevokes
<1>2. PICK i \in DOMAIN relays :
          /\ stacks' = [stacks EXCEPT ![relays[i].stack].coreRole = @ \ {i}]
          /\ relays' = [relays EXCEPT ![i].revoked = TRUE]
  BY DEF AdminRevokes
<1>3. StateInv /\ Running /\ StacksInv /\ stacks \in Seq(Stack) /\ relays \in Seq(Relay)
  BY DEF IInv, StateInv, StacksInv, RelaysInv
<1> DEFINE r == [relays[i] EXCEPT !.revoked = TRUE]
<1>4. relays' = [relays EXCEPT ![i] = r]
  BY <1>2
<1>5. /\ r \in Relay /\ r.stack = relays[i].stack /\ r.funded = relays[i].funded
      /\ r.staked = relays[i].staked /\ r.active = relays[i].active
      /\ r.slashed = relays[i].slashed /\ r.revoked
  <2>1. relays[i] \in Relay
    BY <1>3
  <2> QED
    BY <2>1 DEF Relay
<1> HIDE DEF r
<1>6. /\ relays' \in Seq(Relay) /\ Len(relays') = Len(relays)
      /\ DOMAIN relays' = DOMAIN relays /\ relays'[i] = r
      /\ \A j \in DOMAIN relays : /\ relays'[j].stack = relays[j].stack
                                  /\ relays'[j].funded = relays[j].funded
                                  /\ relays'[j].staked = relays[j].staked
                                  /\ j # i => relays'[j] = relays[j]
                                  /\ Staked(j) => Staked(j)'
  BY <1>3, <1>4, <1>5, OneRelay
<1>7. i # CORE
  BY <1>3 DEF CORE
<1>8. PICK k \in DOMAIN stacks : k = relays[i].stack
  BY <1>3, StateTypes
<1> DEFINE s == stacks[k]
           t == [s EXCEPT !.coreRole = @ \ {i}]
<1>9. stacks' = [stacks EXCEPT ![k] = t] /\ s \in Stack /\ Fit(s)
  BY <1>2, <1>3, <1>8, StateTypes
<1>10. /\ t \in Stack /\ t.live = s.live /\ t.maktubCore = s.maktubCore
       /\ t.coreRole = s.coreRole \ {i} /\ t.minted = s.minted
       /\ t.governors = s.governors /\ t.has = s.has /\ t.reported = s.reported
  BY <1>9 DEF Stack
<1> HIDE DEF t
<1>11. /\ stacks' \in Seq(Stack) /\ Len(stacks') = Len(stacks) /\ DOMAIN stacks' = DOMAIN stacks
       /\ stacks'[k] = t /\ \A j \in DOMAIN stacks \ {k} : stacks'[j] = stacks[j]
  BY <1>3, <1>9, <1>10
<1>12. Fit(t)
  <2>1. CORE \in s.coreRole => CORE \in t.coreRole
    BY <1>7, <1>10
  <2> QED
    BY <1>9, <1>10, <2>1 DEF Fit, Mints, Complete, Governs
<1>13. ASSUME NEW j \in DOMAIN stacks
       PROVE  /\ Fit(stacks'[j])
              /\ stacks'[j].live = stacks[j].live
              /\ stacks'[j].maktubCore = stacks[j].maktubCore
              /\ stacks'[j].minted = stacks[j].minted
              /\ stacks'[j].governors = stacks[j].governors
              /\ stacks'[j].has = stacks[j].has /\ stacks'[j].reported = stacks[j].reported
              /\ stacks'[j].coreRole \subseteq stacks[j].coreRole
              /\ \A x \in stacks[j].coreRole : x # i => x \in stacks'[j].coreRole
  <2>1. CASE j = k
    BY <1>10, <1>11, <1>12, <2>1
  <2>2. CASE j # k
    <3>1. stacks'[j] = stacks[j] /\ Fit(stacks[j])
      BY <1>3, <1>11, <2>2, StateTypes
    <3> QED
      BY <3>1
  <2> QED
    BY <2>1, <2>2
<1>14. ASSUME NEW j \in DOMAIN stacks
       PROVE  stacks'[j].coreRole \subseteq {CORE} \cup RelaysOf(j)' /\ DeployerBalance(j)' >= 0
  <2>1. stacks[j].coreRole \subseteq {CORE} \cup RelaysOf(j)
    BY <1>3 DEF StacksInv
  <2>2. RelaysOf(j)' = RelaysOf(j)
    BY <1>6 DEF RelaysOf
  <2>3. /\ stacks'[j].minted["deployer"] \in Nat
        /\ stacks[j].minted["deployer"] <= stacks'[j].minted["deployer"]
    BY <1>3, <1>13, StateTypes, StackTypes
  <2> QED
    BY <1>3, <1>6, <1>13, <2>1, <2>2, <2>3, BalanceKept
<1>15. \A j \in DOMAIN relays : Trusted(j) => Trusted(j)'
  <2> TAKE j \in DOMAIN relays
  <2>1. relays[j].stack \in DOMAIN stacks
    BY <1>3, StateTypes
  <2>2. CASE j = i
    BY <1>5, <1>6, <2>2 DEF Trusted
  <2>3. CASE j # i
    BY <1>6, <1>13, <2>1, <2>3 DEF Trusted
  <2> QED
    BY <2>2, <2>3
<1>16. \A j \in DOMAIN relays' : relays'[j].stack \in 1..record.stack
  BY <1>3, <1>6, StateTypes
<1>17. StateInv'
  <2>1. \A j \in DOMAIN stacks : stacks[j].governors <= stacks'[j].governors
    BY <1>3, <1>13, StateTypes, StackTypes
  <2> QED
    BY <1>1, <1>3, <1>6, <1>11, <1>13, <1>14, <1>15, <1>16, <2>1, ChainChanges
<1>18. Running'
  <2>1. Latest # 0 => Latest \in DOMAIN relays
    BY <1>3, StateTypes DEF Latest
  <2>2. \A j \in DOMAIN stacks : CORE \in stacks[j].coreRole => CORE \in stacks'[j].coreRole
    BY <1>7, <1>13
  <2>3. \A j \in DOMAIN stacks :
            /\ stacks'[j].live = stacks[j].live
            /\ stacks'[j].maktubCore = stacks[j].maktubCore
            /\ CORE \in stacks[j].coreRole => CORE \in stacks'[j].coreRole
            /\ stacks'[j].minted = stacks[j].minted
            /\ stacks'[j].governors = stacks[j].governors
            /\ stacks'[j].has = stacks[j].has /\ stacks'[j].reported = stacks[j].reported
    BY <1>13, <2>2
  <2>4. Latest # 0 => /\ relays'[Latest].stack = relays[Latest].stack
                      /\ relays'[Latest].funded = relays[Latest].funded
                      /\ relays'[Latest].staked = relays[Latest].staked
                      /\ Staked(Latest) => Staked(Latest)'
                      /\ Trusted(Latest) => Trusted(Latest)'
    <3>1. PICK j : j = Latest /\ Latest' = j
      BY <1>6 DEF Latest
    <3>2. /\ Staked(Latest) <=> Staked(j)
          /\ Trusted(Latest) <=> Trusted(j)
          /\ Staked(Latest)' <=> Staked(j)'
          /\ Trusted(Latest)' <=> Trusted(j)'
      BY <3>1 DEF Staked, Trusted
    <3>3. Latest # 0 => j \in DOMAIN relays
      BY <2>1, <3>1
    <3> QED
      BY <1>6, <1>15, <3>1, <3>2, <3>3
  <2> QED
    BY <1>1, <1>3, <1>6, <1>11, <2>3, <2>4, RunningKept
<1> QED
  BY <1>17, <1>18 DEF IInv

------------------------------------------------------------------------------
(***************************************************************************)
(* Every step                                                              *)
(***************************************************************************)
LEMMA RunStepIInv ==
    ASSUME IInv, RunStep
    PROVE  IInv'
<1>1. StateInv /\ Running /\ todo # <<>>
  BY DEF IInv, RunStep
<1>2. CASE RunsDeploy
  BY <1>1, <1>2, DeployRuns DEF RunsDeploy
<1>3. CASE RunsResume
  BY <1>1, <1>3, ResumeRuns DEF RunsResume
<1>4. CASE RunsRotate
  BY <1>1, <1>4, RotateRuns DEF RunsRotate
<1>5. CASE RunsRelay
  BY <1>1, <1>5, RelayRuns DEF RunsRelay
<1>6. CASE RunsFlash
  BY <1>1, <1>6, FlashRuns DEF RunsFlash
<1>7. CASE RunsFlashOnly
  BY <1>1, <1>7, FlashOnlyRuns DEF RunsFlashOnly
<1>8. CASE RunsGenerate
  BY <1>1, <1>8, GenerateRuns DEF RunsGenerate
<1>9. CASE RunsLocal
  BY <1>1, <1>9, LocalRuns DEF RunsLocal
<1> QED
  BY <1>1, <1>2, <1>3, <1>4, <1>5, <1>6, <1>7, <1>8, <1>9 DEF Running

LEMMA NextIInv == IInv /\ [Next]_vars => IInv'
<1> SUFFICES ASSUME IInv, [Next]_vars PROVE IInv'
  OBVIOUS
<1>1. CASE StartDeploy
  BY <1>1, StartDeployIInv DEF IInv
<1>2. CASE \/ StartResume \/ StartRotate \/ StartRelay
           \/ StartFlash \/ StartFlashOnly \/ StartGenerate \/ StartLocal
  BY <1>2, StartIInv DEF IInv
<1>3. CASE RunStep
  BY <1>3, RunStepIInv
<1>4. CASE Abort
  <2>1. todo' = <<>> /\ UNCHANGED <<scripted, local>>
    BY <1>4 DEF Abort
  <2> QED
    BY <2>1, QuietStep DEF IInv, Running
<1>5. CASE RecordStack \/ MarkStale
  BY <1>5, RecordStackIInv, MarkStaleIInv
<1>6. CASE GovernanceSetsMinimum \/ AdminRenounces
  BY <1>6, StackSettingIInv
<1>7. CASE GovernanceSlashes
  BY <1>7, SlashIInv
<1>8. CASE AdminRevokes
  BY <1>8, RevokeIInv
<1>9. CASE UNCHANGED vars
  <2>1. UNCHANGED <<scripted, local>> /\ todo' = todo
    BY <1>9 DEF vars
  <2>2. /\ stacks' = stacks /\ relays' = relays /\ flashes' = flashes
        /\ registries' = registries /\ record' = record
    BY <2>1 DEF scripted
  <2>3. StateInv'
    BY <2>1, QuietStep DEF IInv
  <2>4. /\ Staked(Latest) => Staked(Latest)'
        /\ Trusted(Latest) => Trusted(Latest)'
    BY <2>2 DEF Staked, Trusted, Latest
  <2>5. Running'
    BY <2>1, <2>2, <2>4, RunningKept DEF IInv
  <2> QED
    BY <2>3, <2>5 DEF IInv
<1> QED
  BY <1>1, <1>2, <1>3, <1>4, <1>5, <1>6, <1>7, <1>8, <1>9 DEF Next

\* In every run, whichever script is at whatever step, all that it relies on
\* holds: the lemma the theorems below are read off.
THEOREM DeploymentInvariance == Spec => []IInv
<1>1. Init => IInv
  BY InitIInv
<1>2. IInv /\ [Next]_vars => IInv'
  BY NextIInv
<1> QED
  BY <1>1, <1>2, PTL DEF Spec

------------------------------------------------------------------------------
(***************************************************************************)
(* What the runs check, for every value of the constants                   *)
(***************************************************************************)
\* The chain and the files hold what the scripts can have put there; in
\* particular the mints of each stack stay under MktbToken's cap and the stakes
\* of its relays under what the deployer was given.
THEOREM DeploymentTypeCorrect == Spec => []TypeOK
<1>1. IInv => TypeOK
  <2> SUFFICES ASSUME IInv PROVE TypeOK
    OBVIOUS
  <2>1. StateInv /\ StacksInv /\ FlashesInv /\ FilesInv /\ LocalInv
    BY DEF IInv, StateInv
  <2>2. record.stack \in 0..Newest /\ Newest <= MaxStacks
    BY <2>1, StateTypes DEF StacksInv, Newest
  <2>3. ASSUME NEW k \in DOMAIN stacks
        PROVE  /\ stacks[k].live \subseteq Range(Contracts)
               /\ stacks[k].minted \in [Holder -> 0..MAX_SUPPLY]
               /\ Supply(stacks[k]) <= MAX_SUPPLY
               /\ stacks[k].coreRole \subseteq {CORE} \cup {i \in DOMAIN relays : relays[i].stack = k}
               /\ DeployerBalance(k) >= 0
               /\ stacks[k].governors \in 0..MaxGovernors
               /\ stacks[k].has \in [Role -> SUBSET (1..stacks[k].governors)]
    <3> DEFINE s == stacks[k]
    <3>1. /\ s \in Stack /\ Fit(s) /\ s.coreRole \subseteq {CORE} \cup RelaysOf(k)
          /\ DeployerBalance(k) >= 0
      BY <2>1, StateTypes DEF StacksInv
    <3> HIDE DEF s
    <3>2. /\ s.live \subseteq Range(Contracts) /\ s.minted \in [Holder -> Nat]
          /\ s.governors \in 0..MaxGovernors /\ s.has \in [Role -> SUBSET Nat]
      BY <3>1, StackTypes
    <3>3. s.minted \in [Holder -> 0..MAX_SUPPLY] /\ Supply(s) <= MAX_SUPPLY
      <4>1. Supply(s) = s.minted["rewards"] + s.minted["timelock"] + s.minted["deployer"]
        BY <3>2, SupplyIs DEF Supply
      <4>2. /\ s.minted["rewards"] \in Nat /\ s.minted["timelock"] \in Nat
            /\ s.minted["deployer"] \in Nat
            /\ s.minted["rewards"] + s.minted["timelock"] + s.minted["deployer"] <= MAX_SUPPLY
        BY <3>1, <3>2 DEF Fit, Mints, Holder
      <4>3. \A h \in Holder : s.minted[h] \in 0..MAX_SUPPLY
        BY <4>2, DeploymentAssumption DEF Holder
      <4> QED
        BY <3>2, <4>1, <4>2, <4>3
    <3>4. s.has \in [Role -> SUBSET (1..s.governors)]
      BY <3>1, <3>2 DEF Fit
    <3> QED
      BY <3>1, <3>2, <3>3, <3>4 DEF RelaysOf, s
  <2>4. \A i \in DOMAIN flashes : flashes[i] \in 1..registries
    BY <2>1 DEF FlashesInv
  <2>5. \A f \in File : files[f] \in [DOMAIN NoAddresses -> Nat]
    BY <2>1 DEF FilesInv, AddressBook
  <2>6. local \in {NoFile} \cup Network
    BY <2>1 DEF LocalInv
  <2> QED
    BY <2>2, <2>3, <2>4, <2>5, <2>6 DEF TypeOK
<1> QED
  BY <1>1, DeploymentInvariance, PTL

\* The summary that deploy.js or resume-deploy.js prints is that of a whole
\* stack with its exact allocation: of a deploy.js that got as far as its mints,
\* whichever of them it had made, and however often the resume was run.
THEOREM ReportedIsComplete == Spec => []ReportedStackIsComplete
<1>1. IInv => ReportedStackIsComplete
  BY DEF IInv, StateInv, StacksInv, Fit, Complete, ReportedStackIsComplete
<1> QED
  BY <1>1, DeploymentInvariance, PTL

\* From its first summary on the timelock of a stack has a governor with all
\* three roles, wherever any number of rotations of governors stop.
THEOREM TimelockIsGoverned == Spec => []TimelockAlwaysGoverned
<1>1. IInv => TimelockAlwaysGoverned
  BY DEF IInv, StateInv, StacksInv, Fit, Governs, TimelockAlwaysGoverned
<1> QED
  BY <1>1, DeploymentInvariance, PTL

\* The addresses that a client can be given.
LEMMA GivenAddresses ==
    ASSUME IInv, NEW a \in {Addresses} \cup Range(files)
    PROVE  Lasting(a)
<1>1. RecordInv /\ FilesInv
  BY DEF IInv, StateInv
<1>2. CASE a = Addresses
  BY <1>1, <1>2, AddressesLast
<1>3. CASE a \in Range(files)
  <2>1. PICK f \in DOMAIN files : a = files[f]
    BY <1>3 DEF Range
  <2> QED
    BY <1>1, <2>1 DEF FilesInv
<1> QED
  BY <1>2, <1>3

\* A relay that the record or a generated file names has the stake and the role
\* it was deployed for, or was slashed or its role revoked since; whatever
\* minimum the governance set while its script ran, however many relays came
\* after it and however many stacks were deployed over the one it is of.
THEOREM RecordedRelayIsReady == Spec => []RecordedRelayReady
<1>1. IInv => RecordedRelayReady
  <2> SUFFICES ASSUME IInv, NEW a \in {Addresses} \cup Range(files), a.relay # 0
               PROVE  /\ relays[a.relay].stack \in 1..a.stack
                      /\ relays[a.relay].staked
                      /\ relays[a.relay].active \/ relays[a.relay].slashed
                      /\ \/ a.relay \in stacks[relays[a.relay].stack].coreRole
                         \/ relays[a.relay].revoked
    BY DEF RecordedRelayReady
  <2>1. /\ a.relay \in DOMAIN relays /\ relays[a.relay].stack <= a.stack
        /\ Staked(a.relay) /\ Trusted(a.relay)
    BY GivenAddresses DEF Lasting
  <2>2. relays[a.relay].stack \in Nat \ {0} /\ a.stack \in Int
    <3>1. StateInv /\ RecordInv /\ FilesInv
      BY DEF IInv, StateInv
    <3>2. a \in AddressBook
      BY <3>1, AddressesLast DEF FilesInv, Range
    <3>3. a.stack \in Int
      BY <3>2 DEF AddressBook, NoAddresses
    <3>4. relays[a.relay].stack \in Nat \ {0}
      BY <2>1, <3>1, StateTypes
    <3> QED
      BY <3>3, <3>4
  <2> QED
    BY <2>1, <2>2 DEF Staked, Trusted
<1> QED
  BY <1>1, DeploymentInvariance, PTL

\* The flash and the key registry that a client is given belong together, and
\* the app's tests are never given those of the public network.
THEOREM FlashAndRegistryAgree == Spec => []FlashReadsItsRegistry
<1>1. IInv => FlashReadsItsRegistry
  <2> SUFFICES ASSUME IInv PROVE FlashReadsItsRegistry
    OBVIOUS
  <2>1. \A a \in {Addresses} \cup Range(files) : a.flash # 0 => flashes[a.flash] = a.registryV2
    BY GivenAddresses DEF Lasting
  <2>2. local # "baseSepolia"
    BY DEF IInv, StateInv, LocalInv
  <2> QED
    BY <2>1, <2>2 DEF FlashReadsItsRegistry
<1> QED
  BY <1>1, DeploymentInvariance, PTL

------------------------------------------------------------------------------
(***************************************************************************)
(* The acceptance scripts                                                  *)
(***************************************************************************)
CONSTANTS InitialEther, InitialKeys, MaxRuns, MaxMoves
VARIABLES chain, replica, ops, run, started, moves
Live == INSTANCE LiveScripts

(***************************************************************************)
(* A report says what is at the head when the script ends.  The invariant  *)
(* says of a running script how many of its steps are done, behind the     *)
(* steps that were put in front, and what these are worth; the replica is  *)
(* an earlier head, and what a later head takes back no report relies on.  *)
(***************************************************************************)
\* The steps that other steps put in front, and all steps, with their arguments.
Filler == {<<"pause">>} \cup ({"register", "rotate"} \X Live!Account \X {"random", "file"})
Step == Filler
    \cup {<<"before">>, <<"after">>, <<"decrypt">>, <<"fund">>,
          <<"sendOp">>, <<"receipt">>, <<"getCode">>}
    \cup ({"funded", "encrypt", "checkIn", "verify"} \X Live!Account)
    \cup ({"ensureRegistered"} \X Live!Account \X {"random", "file"})
    \cup ({"create"} \X Live!Account \X Live!Account)

Letter == [owner : Live!Account, to : Live!Account, key : Live!Key, checkIns : Nat]
Wallet == [ether : Int, deployed : BOOLEAN, executed : Nat]
Chain == [nonce : [Live!Account -> Nat], ether : [Live!Account -> Int],
          key : [Live!Account -> Live!Key], beats : Seq(Letter), wallets : [Live!Run -> Wallet]]
Memory == [script : DOMAIN Live!Scripts, outcome : {"running", "ok", "failed"}, calm : BOOLEAN,
           todo : Seq(Step), n : Live!Run, id : Nat, key : Live!Key, tries : Nat,
           checkIns : Nat, counted : BOOLEAN, opened : BOOLEAN]

\* What is seen at a head is there at a later one.
Later(c, d) ==
    /\ \A w \in Live!Account : c.key[w] # Live!NoKey => d.key[w] # Live!NoKey
    /\ Len(c.beats) <= Len(d.beats)
    /\ \A i \in DOMAIN c.beats : d.beats[i].key = c.beats[i].key

ChainInv == chain \in Chain /\ replica \in Chain /\ Later(replica, chain)

OpsInv ==
    /\ started \in Nat
    /\ ops \in [Live!Run -> {"unsent", "sent", "executed", "reverted"}]
    /\ \A n \in Live!Run :
          /\ n > started => ops[n] = "unsent"
          /\ ops[n] # "executed" => chain.wallets[n].executed = 0
          /\ ops[n] = "executed" => chain.wallets[n].deployed /\ chain.wallets[n].executed = 1

\* Of a script the first k steps are done, with j more to do before the next.
Remains(left, script, k, j) ==
    /\ Len(left) = j + (Len(script) - k)
    /\ \A i \in 1..j : left[i] \in Filler
    /\ \A i \in 1..(Len(script) - k) : left[j + i] = script[k + i]

\* The beat of the run is there, checked in so many times, and its recipient is registered.
Made(checkIns) ==
    /\ run.id \in DOMAIN chain.beats /\ Live!Beat.checkIns = checkIns
    /\ chain.key[Live!Beat.to] # Live!NoKey
    /\ run.opened => Live!Beat.key = "file"

\* After k steps of a script that creates a beat and checks in at the places given.
Written(k, created, checkedIn) ==
    /\ k < created => ~run.opened
    /\ created <= k /\ k < checkedIn => Made(0)
    /\ checkedIn <= k => Made(1)

Reached(k) ==
    /\ run.script = "TwoWallets" => Written(k, 5, 9)
    /\ run.script = "RegisterWalletC" =>
          ~run.opened /\ (k >= 3 => chain.key["C"] # Live!NoKey)
    /\ run.script = "SmartWalletUserOp" =>
          /\ ~run.opened
          /\ k < 2 => ops[run.n] = "unsent"
          /\ k >= 4 => ops[run.n] = "executed"

Script == Live!Scripts[run.script]

RunInv ==
    run.outcome # "none" =>
        /\ run \in Memory /\ run.n <= started
        /\ Live!Running => \E k \in 0..Len(Script), j \in Nat :
                               Remains(run.todo, Script, k, j) /\ Reached(k)
        /\ run.outcome = "ok" => Reached(Len(Script))

LiveInv == ChainInv /\ OpsInv /\ RunInv

------------------------------------------------------------------------------
\* A run that goes on does a step that was put in front, or the next of the script.
LEMMA Proceeds ==
    ASSUME NEW left \in Seq(Step), left # <<>>, NEW script \in Seq(Step),
           NEW k \in 0..Len(script), NEW j \in Nat, Remains(left, script, k, j),
           NEW steps \in Seq(Filler)
    PROVE  /\ steps \o Tail(left) \in Seq(Step)
           /\ j > 0 => /\ left[1] \in Filler
                       /\ Remains(steps \o Tail(left), script, k, Len(steps) + (j - 1))
           /\ j = 0 => /\ k < Len(script) /\ left[1] = script[k + 1]
                       /\ Remains(steps \o Tail(left), script, k + 1, Len(steps))
<1> DEFINE rest == steps \o Tail(left)
<1>1. /\ Len(left) \in Nat /\ Len(left) > 0 /\ Len(script) \in Nat
      /\ Tail(left) \in Seq(Step) /\ Len(Tail(left)) = Len(left) - 1
      /\ \A i \in 1..(Len(left) - 1) : Tail(left)[i] = left[i + 1]
  OBVIOUS
<1>2. steps \in Seq(Step) /\ Len(steps) \in Nat /\ \A i \in 1..Len(steps) : steps[i] \in Filler
  BY DEF Step
<1>3. /\ rest \in Seq(Step) /\ Len(rest) = Len(steps) + (Len(left) - 1)
      /\ \A i \in 1..Len(steps) : rest[i] = steps[i]
      /\ \A i \in 1..(Len(left) - 1) : rest[Len(steps) + i] = left[i + 1]
  <2> DEFINE t == Tail(left)
  <2>1. t \in Seq(Step) /\ Len(t) \in Nat /\ Len(t) = Len(left) - 1
    BY <1>1
  <2> HIDE DEF t
  <2>2. /\ steps \o t \in Seq(Step) /\ Len(steps \o t) = Len(steps) + Len(t)
    BY <1>2, <2>1, ConcatProperties
  <2>3. \A i \in 1..Len(steps) : (steps \o t)[i] = steps[i]
    BY <1>2, <2>1
  <2>4. \A i \in 1..Len(t) : (steps \o t)[Len(steps) + i] = t[i]
    <3> TAKE i \in 1..Len(t)
    <3>1. Len(steps) + i \in 1..(Len(steps) + Len(t)) /\ ~(Len(steps) + i <= Len(steps))
          /\ (Len(steps) + i) - Len(steps) = i
      BY <1>2, <2>1
    <3>2. (steps \o t)[Len(steps) + i] = t[(Len(steps) + i) - Len(steps)]
      BY <1>2, <2>1, <3>1, ConcatProperties
    <3> QED
      BY <3>1, <3>2
  <2> QED
    BY <1>1, <2>1, <2>2, <2>3, <2>4 DEF t
<1> HIDE DEF rest
<1>4. /\ Len(left) = j + (Len(script) - k)
      /\ \A i \in 1..j : left[i] \in Filler
      /\ \A i \in 1..(Len(script) - k) : left[j + i] = script[k + i]
  BY DEF Remains
<1>5. CASE j > 0
  <2> DEFINE m == Len(steps) + (j - 1)
  <2>1. m \in Nat /\ Len(rest) = m + (Len(script) - k)
    BY <1>1, <1>2, <1>3, <1>4, <1>5
  <2>2. ASSUME NEW i \in 1..m PROVE rest[i] \in Filler
    <3>1. CASE i <= Len(steps)
      BY <1>2, <1>3, <3>1
    <3>2. CASE i > Len(steps)
      <4> DEFINE q == i - Len(steps)
      <4>1. q \in 1..(j - 1) /\ q \in 1..(Len(left) - 1) /\ i = Len(steps) + q
        BY <1>1, <1>2, <1>4, <1>5, <3>2
      <4> HIDE DEF q
      <4>2. rest[i] = left[q + 1] /\ q + 1 \in 1..j
        BY <1>3, <1>5, <4>1
      <4> QED
        BY <1>4, <4>2
    <3> QED
      BY <1>2, <3>1, <3>2
  <2>3. ASSUME NEW i \in 1..(Len(script) - k) PROVE rest[m + i] = script[k + i]
    <3> DEFINE q == (j - 1) + i
    <3>1. q \in 1..(Len(left) - 1) /\ m + i = Len(steps) + q /\ q + 1 = j + i
      BY <1>1, <1>2, <1>4, <1>5
    <3> HIDE DEF q
    <3>2. rest[Len(steps) + q] = left[q + 1]
      BY <1>3, <3>1
    <3> QED
      BY <1>4, <3>1, <3>2
  <2> HIDE DEF m
  <2>4. Remains(rest, script, k, m)
    BY <2>1, <2>2, <2>3 DEF Remains
  <2>5. left[1] \in Filler
    BY <1>4, <1>5
  <2> QED
    BY <1>3, <1>5, <2>4, <2>5 DEF m, rest
<1>6. CASE j = 0
  <2>1. k < Len(script)
    BY <1>1, <1>4, <1>6
  <2>2. left[0 + 1] = script[k + 1]
    BY <1>1, <1>4, <1>6, <2>1
  <2>3. Len(rest) = Len(steps) + (Len(script) - (k + 1))
    BY <1>1, <1>2, <1>3, <1>4, <1>6
  <2>4. \A i \in 1..Len(steps) : rest[i] \in Filler
    BY <1>2, <1>3
  <2>5. ASSUME NEW i \in 1..(Len(script) - (k + 1))
        PROVE  rest[Len(steps) + i] = script[(k + 1) + i]
    <3>1. i \in 1..(Len(left) - 1) /\ i + 1 \in 1..(Len(script) - k)
      BY <1>1, <1>4, <1>6, <2>1
    <3>2. rest[Len(steps) + i] = left[i + 1] /\ left[0 + (i + 1)] = script[k + (i + 1)]
      BY <1>3, <1>4, <1>6, <3>1
    <3>3. 0 + (i + 1) = i + 1 /\ k + (i + 1) = (k + 1) + i
      OBVIOUS
    <3> QED
      BY <3>2, <3>3
  <2>6. Remains(rest, script, k + 1, Len(steps))
    BY <2>3, <2>4, <2>5 DEF Remains
  <2> QED
    BY <1>3, <1>6, <2>1, <2>2, <2>6 DEF rest
<1> QED
  BY <1>5, <1>6

\* Where a script has a step; 0 is nowhere.
Occurs(script, step, place) == \A i \in 1..Len(script) : script[i][1] = step <=> i = place

\* The scripts, step by step.
LEMMA WalletsPlaces ==
    /\ Live!TwoWallets \in Seq(Step) /\ Len(Live!TwoWallets) = 11
    /\ Occurs(Live!TwoWallets, "create", 5) /\ Occurs(Live!TwoWallets, "checkIn", 9)
    /\ Occurs(Live!TwoWallets, "decrypt", 11) /\ Occurs(Live!TwoWallets, "verify", 0)
    /\ Occurs(Live!TwoWallets, "sendOp", 0) /\ Occurs(Live!TwoWallets, "getCode", 0)
BY DEF Occurs, Live!TwoWallets, Step, Filler, Live!Account

LEMMA RegisterPlaces ==
    /\ Live!RegisterWalletC \in Seq(Step) /\ Len(Live!RegisterWalletC) = 3
    /\ Live!RegisterWalletC[3] = <<"verify", "C">>
    /\ Occurs(Live!RegisterWalletC, "create", 0) /\ Occurs(Live!RegisterWalletC, "checkIn", 0)
    /\ Occurs(Live!RegisterWalletC, "decrypt", 0) /\ Occurs(Live!RegisterWalletC, "verify", 3)
    /\ Occurs(Live!RegisterWalletC, "sendOp", 0) /\ Occurs(Live!RegisterWalletC, "getCode", 0)
BY DEF Occurs, Live!RegisterWalletC, Step, Filler, Live!Account

LEMMA UserOpPlaces ==
    /\ Live!SmartWalletUserOp \in Seq(Step) /\ Len(Live!SmartWalletUserOp) = 4
    /\ Occurs(Live!SmartWalletUserOp, "create", 0) /\ Occurs(Live!SmartWalletUserOp, "checkIn", 0)
    /\ Occurs(Live!SmartWalletUserOp, "decrypt", 0) /\ Occurs(Live!SmartWalletUserOp, "verify", 0)
    /\ Occurs(Live!SmartWalletUserOp, "sendOp", 2) /\ Occurs(Live!SmartWalletUserOp, "getCode", 4)
BY DEF Occurs, Live!SmartWalletUserOp, Step, Filler

\* The script of the run.
LEMMA ScriptIs ==
    /\ DOMAIN Live!Scripts = {"TwoWallets", "RegisterWalletC", "SmartWalletUserOp"}
    /\ run.script = "TwoWallets" => Script = Live!TwoWallets
    /\ run.script = "RegisterWalletC" => Script = Live!RegisterWalletC
    /\ run.script = "SmartWalletUserOp" => Script = Live!SmartWalletUserOp
    /\ run.script \in DOMAIN Live!Scripts => Script \in Seq(Step) /\ Len(Script) \in 0..11
<1>1. /\ DOMAIN Live!Scripts = {"TwoWallets", "RegisterWalletC", "SmartWalletUserOp"}
      /\ run.script = "TwoWallets" => Script = Live!TwoWallets
      /\ run.script = "RegisterWalletC" => Script = Live!RegisterWalletC
      /\ run.script = "SmartWalletUserOp" => Script = Live!SmartWalletUserOp
  BY DEF Script, Live!Scripts
<1> QED
  BY <1>1, WalletsPlaces, RegisterPlaces, UserOpPlaces

\* The accounts and keys that steps name.
LEMMA StepArgs ==
    ASSUME NEW s \in Step
    PROVE  /\ s[1] \in {"ensureRegistered", "register", "rotate"} =>
                 s[2] \in Live!Account /\ s[3] \in {"random", "file"}
           /\ s[1] \in {"funded", "encrypt", "checkIn", "verify"} => s[2] \in Live!Account
           /\ s[1] = "create" => s[2] \in Live!Account /\ s[3] \in Live!Account
           /\ s \in Filler => s[1] \in {"pause", "register", "rotate"}
BY DEF Step, Filler

------------------------------------------------------------------------------
\* What a step may do to what is done already.
Keeps == \A k \in 0..11 : Reached(k) => Reached(k)'
Advances ==
    \A k \in 0..(Len(Script) - 1) :
        Script[k + 1] = Head(run.todo) /\ Reached(k) => Reached(k + 1)'

\* A failed run promises nothing.
LEMMA FailInv ==
    ASSUME RunInv, Live!Running, Live!Fail, started' = started
    PROVE  RunInv'
<1>1. run \in Memory /\ run.n <= started
  BY DEF RunInv, Live!Running
<1>2. run' \in Memory /\ run'.n = run.n /\ run'.outcome = "failed"
  BY <1>1 DEF Live!Fail, Memory
<1> QED
  BY <1>1, <1>2 DEF RunInv, Live!Running

\* A run that goes on is as far as before, or one step further.
LEMMA GoesOn ==
    ASSUME RunInv, Live!Running, run.todo # <<>>, started' = started,
           NEW steps \in Seq(Filler), NEW memory \in Memory,
           memory.script = run.script, memory.outcome = run.outcome,
           memory.todo = run.todo, memory.n = run.n, Live!Continue(steps, memory),
           Head(run.todo) \in Filler => Keeps,
           Advances
    PROVE  RunInv'
<1>1. run \in Memory /\ run.n <= started /\ run.outcome = "running"
  BY DEF RunInv, Live!Running
<1>2. run.todo \in Seq(Step) /\ run.script \in DOMAIN Live!Scripts
  BY <1>1 DEF Memory
<1>3. Script \in Seq(Step) /\ Len(Script) \in 0..11
  BY <1>2, ScriptIs
<1>4. PICK k \in 0..Len(Script), j \in Nat : Remains(run.todo, Script, k, j) /\ Reached(k)
  BY <1>1 DEF RunInv, Live!Running
<1> DEFINE rest == steps \o Tail(run.todo)
<1>5. /\ rest \in Seq(Step)
      /\ j > 0 => /\ run.todo[1] \in Filler
                  /\ Remains(rest, Script, k, Len(steps) + (j - 1))
      /\ j = 0 => /\ k < Len(Script) /\ run.todo[1] = Script[k + 1]
                  /\ Remains(rest, Script, k + 1, Len(steps))
  BY <1>2, <1>3, <1>4, Proceeds
<1>6. run' = [memory EXCEPT !.todo = rest, !.tries = 0]
  BY DEF Live!Continue
<1> HIDE DEF rest
<1>7. /\ run' \in Memory /\ run'.script = run.script /\ run'.outcome = "running"
      /\ run'.todo = rest /\ run'.n = run.n
  BY <1>1, <1>5, <1>6 DEF Memory
<1>8. Script' = Script
  BY <1>7 DEF Script
<1>9. Head(run.todo) = run.todo[1]
  BY <1>2
<1>10. CASE j > 0
  <2>1. k \in 0..11 /\ Len(steps) + (j - 1) \in Nat
    <3>1. Len(steps) \in Nat
      OBVIOUS
    <3>2. k \in 0..11
      <4> DEFINE l == Len(Script)
      <4>1. k \in 0..l /\ l \in 0..11
        BY <1>3
      <4> HIDE DEF l
      <4> QED
        BY <4>1
    <3>3. j - 1 \in Nat
      BY <1>10
    <3> QED
      BY <3>1, <3>2, <3>3
  <2>2. Reached(k)'
    BY <1>4, <1>5, <1>9, <1>10, <2>1 DEF Keeps
  <2>3. Remains(run'.todo, Script', k, Len(steps) + (j - 1))
    BY <1>5, <1>7, <1>8, <1>10
  <2> QED
    BY <1>1, <1>7, <1>8, <2>1, <2>2, <2>3 DEF RunInv, Live!Running
<1>11. CASE j = 0
  <2>1. k \in 0..(Len(Script) - 1) /\ k + 1 \in 0..Len(Script) /\ Len(steps) \in Nat
    BY <1>3, <1>5, <1>11
  <2>2. Reached(k + 1)'
    BY <1>4, <1>5, <1>9, <1>11, <2>1 DEF Advances
  <2>3. Remains(run'.todo, Script', k + 1, Len(steps))
    BY <1>5, <1>7, <1>8, <1>11
  <2> QED
    BY <1>1, <1>7, <1>8, <2>1, <2>2, <2>3 DEF RunInv, Live!Running
<1> QED
  BY <1>10, <1>11

\* Only these steps are what a script is about.
Special == {"create", "checkIn", "decrypt", "verify", "sendOp", "getCode"}

\* The other steps count only as steps done.
LEMMA OrdinaryAdvance ==
    ASSUME run \in Memory, run'.script = run.script, Keeps, Head(run.todo)[1] \notin Special
    PROVE  Advances
<1> SUFFICES ASSUME NEW k \in 0..(Len(Script) - 1), Script[k + 1] = Head(run.todo), Reached(k)
             PROVE  Reached(k + 1)'
  BY DEF Advances
<1>1. run.script \in DOMAIN Live!Scripts
  BY DEF Memory
<1>2. k \in 0..11 /\ k + 1 \in 1..Len(Script) /\ Script[k + 1][1] \notin Special
  BY SMTT(30), <1>1, ScriptIs
<1>3. Reached(k)'
  BY <1>2 DEF Keeps
<1>4. CASE run.script = "TwoWallets"
  <2>1. k + 1 # 5 /\ k + 1 # 9
    BY <1>2, <1>4, ScriptIs, WalletsPlaces DEF Occurs, Special
  <2>2. Written(k, 5, 9)'
    BY <1>3, <1>4 DEF Reached
  <2>3. Written(k + 1, 5, 9)'
    BY <1>2, <2>1, <2>2 DEF Written
  <2> QED
    BY <1>4, <2>3 DEF Reached
<1>5. CASE run.script = "RegisterWalletC"
  <2>1. k + 1 # 3
    BY <1>2, <1>5, ScriptIs, RegisterPlaces DEF Occurs, Special
  <2> QED
    BY <1>2, <1>3, <1>5, <2>1 DEF Reached
<1>6. CASE run.script = "SmartWalletUserOp"
  <2>1. k + 1 # 2 /\ k + 1 # 4
    BY <1>2, <1>6, ScriptIs, UserOpPlaces DEF Occurs, Special
  <2> QED
    BY <1>2, <1>3, <1>6, <2>1 DEF Reached
<1> QED
  BY <1>1, <1>4, <1>5, <1>6, ScriptIs

\* What a run has reached, no later head takes back.
LEMMA StillReached ==
    ASSUME chain \in Chain, chain'.beats = chain.beats, Later(chain, chain'), ops' = ops,
           run'.script = run.script, run'.n = run.n, run'.id = run.id,
           run'.opened = run.opened
    PROVE  Keeps
<1>1. \A c \in {0, 1} : Made(c) => Made(c)'
  <2> SUFFICES ASSUME NEW c \in {0, 1}, Made(c) PROVE Made(c)'
    OBVIOUS
  <2>1. Live!Beat \in Letter /\ Live!Beat' = Live!Beat
    BY DEF Made, Live!Beat, Chain
  <2>2. Live!Beat.to \in Live!Account
    BY <2>1 DEF Letter
  <2> QED
    BY <2>1, <2>2 DEF Made, Later
<1>2. \A k, a, b : Written(k, a, b) => Written(k, a, b)'
  BY <1>1 DEF Written
<1>3. chain.key["C"] # Live!NoKey => chain'.key["C"] # Live!NoKey
  BY DEF Later, Live!Account
<1> QED
  BY <1>2, <1>3 DEF Keeps, Reached

------------------------------------------------------------------------------
\* A later head, and a replica that follows.
Onward ==
    /\ chain' \in Chain /\ Later(chain, chain')
    /\ \A n \in Live!Run :
          /\ chain'.wallets[n].executed = chain.wallets[n].executed
          /\ chain.wallets[n].deployed => chain'.wallets[n].deployed
    /\ replica' = replica \/ (replica' = chain /\ chain' = chain)

\* Later heads are ordered.
LEMMA LaterIsLater ==
    /\ \A c \in Chain : Later(c, c)
    /\ \A c, d, e \in Chain : Later(c, d) /\ Later(d, e) => Later(c, e)
<1>1. \A c \in Chain : c.beats \in Seq(Letter) /\ Len(c.beats) \in Nat
                       /\ DOMAIN c.beats = 1..Len(c.beats)
  <2>1. \A c \in Chain : c.beats \in Seq(Letter)
    BY DEF Chain
  <2> QED
    BY <2>1
<1>2. \A c \in Chain : Later(c, c)
  BY <1>1 DEF Later
<1>3. ASSUME NEW c \in Chain, NEW d \in Chain, NEW e \in Chain, Later(c, d), Later(d, e)
      PROVE  Later(c, e)
  <2>1. \A w \in Live!Account : c.key[w] # Live!NoKey => e.key[w] # Live!NoKey
    BY <1>3 DEF Later
  <2>2. /\ Len(c.beats) \in Nat /\ Len(d.beats) \in Nat /\ Len(e.beats) \in Nat
        /\ DOMAIN c.beats = 1..Len(c.beats) /\ DOMAIN d.beats = 1..Len(d.beats)
    BY <1>1
  <2>3. Len(c.beats) <= Len(d.beats) /\ Len(d.beats) <= Len(e.beats)
    BY <1>3 DEF Later
  <2>4. \A i \in DOMAIN c.beats : i \in DOMAIN d.beats
    BY <2>2, <2>3
  <2>5. \A i \in DOMAIN c.beats : e.beats[i].key = c.beats[i].key
    BY <1>3, <2>4 DEF Later
  <2>6. Len(c.beats) <= Len(e.beats)
    BY <2>2, <2>3
  <2> QED
    BY <2>1, <2>5, <2>6 DEF Later
<1> QED
  BY <1>2, <1>3

\* The chain and the operations after a step that keeps them.
LEMMA OnwardInv ==
    ASSUME ChainInv, OpsInv, Onward, ops' = ops, started' = started
    PROVE  ChainInv' /\ OpsInv'
<1>1. ChainInv'
  <2>1. CASE replica' = replica
    BY <2>1, LaterIsLater DEF ChainInv, Onward
  <2>2. CASE replica' = chain /\ chain' = chain
    BY <2>2, LaterIsLater DEF ChainInv
  <2> QED
    BY <2>1, <2>2 DEF Onward
<1>2. OpsInv'
  BY DEF OpsInv, Onward
<1> QED
  BY <1>1, <1>2

\* A head that stays is a later head.
LEMMA Standing ==
    ASSUME ChainInv, chain' = chain, replica' \in {replica, chain}
    PROVE  Onward
<1>1. chain \in Chain /\ Later(chain, chain)
  BY LaterIsLater DEF ChainInv
<1> QED
  BY <1>1 DEF Onward

\* What a run remembers between two of its steps.
Remembers(memory) ==
    /\ memory \in Memory
    /\ memory.script = run.script /\ memory.outcome = run.outcome /\ memory.todo = run.todo
    /\ memory.n = run.n /\ memory.id = run.id /\ memory.opened = run.opened

\* What is known while a step is done.
LEMMA DoingIs ==
    ASSUME LiveInv, NEW s, Live!Doing(s)
    PROVE  /\ Live!Running /\ run \in Memory /\ run.n <= started /\ Remembers(run)
           /\ run.todo # <<>> /\ Head(run.todo) \in Step /\ Head(run.todo)[1] = s
           /\ Script \in Seq(Step) /\ Len(Script) \in 0..11 /\ run.script \in DOMAIN Live!Scripts
<1>1. /\ Live!Running /\ run \in Memory /\ run.n <= started
      /\ run.todo # <<>> /\ Head(run.todo)[1] = s
  BY DEF Live!Doing, Live!Running, LiveInv, RunInv
<1>2. run.todo \in Seq(Step) /\ run.script \in DOMAIN Live!Scripts
  BY <1>1 DEF Memory
<1> QED
  BY <1>1, <1>2, ScriptIs DEF Remembers

\* Every step but those the scripts are about.
LEMMA Ordinary ==
    ASSUME LiveInv, NEW s, Live!Doing(s), s \notin Special,
           Onward, chain'.beats = chain.beats, ops' = ops, started' = started,
           Live!Fail \/ \E steps \in Seq(Filler), memory \in Memory :
                            Remembers(memory) /\ Live!Continue(steps, memory)
    PROVE  LiveInv'
<1>1. ChainInv' /\ OpsInv'
  BY OnwardInv DEF LiveInv
<1>2. /\ RunInv /\ Live!Running /\ run \in Memory
      /\ run.todo # <<>> /\ Head(run.todo)[1] \notin Special
  BY DoingIs DEF LiveInv
<1>3. CASE Live!Fail
  BY <1>1, <1>2, <1>3, FailInv DEF LiveInv
<1>4. CASE \E steps \in Seq(Filler), memory \in Memory :
               Remembers(memory) /\ Live!Continue(steps, memory)
  <2>1. PICK steps \in Seq(Filler), memory \in Memory :
                 Remembers(memory) /\ Live!Continue(steps, memory)
    BY <1>4
  <2>2. /\ run'.script = run.script /\ run'.n = run.n /\ run'.id = run.id
        /\ run'.opened = run.opened
    BY <2>1 DEF Live!Continue, Remembers, Memory
  <2>3. Keeps
    <3>1. chain \in Chain /\ Later(chain, chain')
      BY DEF LiveInv, ChainInv, Onward
    <3> QED
      BY <2>2, <3>1, StillReached
  <2>4. Advances
    BY <1>2, <2>2, <2>3, OrdinaryAdvance
  <2>5. RunInv'
    BY <1>2, <2>1, <2>3, <2>4, GoesOn DEF Remembers
  <2> QED
    BY <1>1, <2>5 DEF LiveInv
<1> QED
  BY <1>3, <1>4

\* The same of a step that sends nothing.
LEMMA OrdinaryReads ==
    ASSUME LiveInv, NEW s, Live!Doing(s), s \notin Special,
           chain' = chain, replica' \in {replica, chain}, ops' = ops, started' = started,
           Live!Fail \/ \E steps \in Seq(Filler), memory \in Memory :
                            Remembers(memory) /\ Live!Continue(steps, memory)
    PROVE  LiveInv'
<1>1. Onward
  BY Standing DEF LiveInv
<1> QED
  BY <1>1, Ordinary

\* A step that puts nothing in front and remembers nothing.
LEMMA OnlyGoesOn ==
    ASSUME LiveInv, NEW s, Live!Doing(s), Live!Fail \/ Live!Continue(<<>>, run)
    PROVE  Live!Fail \/ \E steps \in Seq(Filler), memory \in Memory :
                            Remembers(memory) /\ Live!Continue(steps, memory)
<1>1. Remembers(run) /\ run \in Memory /\ <<>> \in Seq(Filler)
  BY DoingIs
<1> QED
  BY <1>1

\* What a node answers, the head confirms.
LEMMA Viewed ==
    ASSUME ChainInv, NEW v \in Live!Views
    PROVE  v \in Chain /\ Later(v, chain)
BY LaterIsLater DEF ChainInv, Live!Views

\* The steps that read and go on, or fail.
LEMMA ReadsInv ==
    ASSUME LiveInv,
           \/ Live!Pause \/ Live!Funded \/ Live!EnsureRegistered
           \/ Live!Encrypt \/ Live!Before \/ Live!After \/ Live!Receipt
    PROVE  LiveInv'
<1>0. ChainInv
  BY DEF LiveInv
<1>1. CASE Live!Pause
  <2>1. Live!Doing("pause") /\ Live!Continue(<<>>, run) /\ replica' \in {replica, chain}
        /\ UNCHANGED <<chain, ops, started>>
    BY <1>1 DEF Live!Pause, Live!GoOn, Live!Views
  <2> QED
    BY <2>1, OnlyGoesOn, OrdinaryReads DEF Special
<1>2. CASE Live!Funded
  <2>1. /\ Live!Doing("funded") /\ (Live!Fail \/ Live!Continue(<<>>, run))
        /\ UNCHANGED <<chain, replica, ops, started>>
    BY <1>2 DEF Live!Funded, Live!GoOn, Live!ReadsOnly
  <2> QED
    BY <2>1, OnlyGoesOn, OrdinaryReads DEF Special
<1>3. CASE Live!EnsureRegistered
  <2>1. Live!Doing("ensureRegistered") /\ UNCHANGED <<chain, replica, ops, started>>
    BY <1>3 DEF Live!EnsureRegistered, Live!ReadsOnly
  <2> DEFINE w == Live!Arg(2)
             key == Live!Arg(3)
  <2>2. w \in Live!Account /\ key \in {"random", "file"}
    BY <2>1, DoingIs, StepArgs DEF Live!Arg
  <2> HIDE DEF w, key
  <2>3. /\ Live!RegisterThen(w, key) \in Seq(Filler)
        /\ Live!RotateThen(w, key) \in Seq(Filler) /\ <<>> \in Seq(Filler)
    <3>1. <<"register", w, key>> \in Filler /\ <<"rotate", w, key>> \in Filler
          /\ <<"pause">> \in Filler
      BY <2>2 DEF Filler
    <3> QED
      BY <3>1 DEF Live!RegisterThen, Live!RotateThen
  <2>4. \E steps \in Seq(Filler) : Live!Continue(steps, run)
    BY <1>3, <2>3 DEF Live!EnsureRegistered, w, key
  <2>5. Remembers(run) /\ run \in Memory
    BY <2>1, DoingIs
  <2> QED
    BY <2>1, <2>4, <2>5, OrdinaryReads DEF Special
<1>4. CASE Live!Encrypt
  <2>1. Live!Doing("encrypt") /\ UNCHANGED <<chain, replica, ops, started>>
    BY <1>4 DEF Live!Encrypt, Live!ReadsOnly
  <2>2. Live!Arg(2) \in Live!Account
    BY <2>1, DoingIs, StepArgs DEF Live!Arg
  <2>3. PICK v \in Live!Views :
            Live!Fail \/ Live!Continue(<<>>, [run EXCEPT !.key = v.key[Live!Arg(2)]])
    BY <1>4 DEF Live!Encrypt
  <2>4. v.key[Live!Arg(2)] \in Live!Key
    BY <1>0, <2>2, Viewed DEF Chain
  <2> DEFINE k == v.key[Live!Arg(2)]
  <2> HIDE DEF k
  <2>5. Remembers([run EXCEPT !.key = k]) /\ <<>> \in Seq(Filler)
    <3>1. run \in Memory /\ k \in Live!Key
      BY <2>1, <2>4, DoingIs DEF k
    <3> QED
      BY <3>1 DEF Remembers, Memory
  <2> QED
    BY <2>1, <2>3, <2>5, OrdinaryReads DEF Special, Remembers, k
<1>5. CASE Live!Before
  <2>1. Live!Doing("before") /\ UNCHANGED <<chain, replica, ops, started>>
    BY <1>5 DEF Live!Before, Live!ReadsOnly
  <2>2. PICK v \in Live!Views :
            Live!Fail \/ Live!Continue(<<>>, [run EXCEPT !.checkIns = Live!CheckIns(v)])
    BY <1>5 DEF Live!Before, Live!ReadsBeat
  <2>3. Live!CheckIns(v) \in Nat
    <3>1. v.beats \in Seq(Letter)
      BY <1>0, Viewed DEF Chain
    <3>2. \A i \in DOMAIN v.beats : v.beats[i] \in Letter
      BY <3>1
    <3>3. CASE run.id \in DOMAIN v.beats
      BY <3>2, <3>3 DEF Live!CheckIns, Letter
    <3>4. CASE run.id \notin DOMAIN v.beats
      BY <3>4 DEF Live!CheckIns
    <3> QED
      BY <3>3, <3>4
  <2> DEFINE n == Live!CheckIns(v)
  <2> HIDE DEF n
  <2>4. Remembers([run EXCEPT !.checkIns = n]) /\ <<>> \in Seq(Filler)
    <3>1. run \in Memory /\ n \in Nat
      BY <2>1, <2>3, DoingIs DEF n
    <3> QED
      BY <3>1 DEF Remembers, Memory
  <2> QED
    BY <2>1, <2>2, <2>4, OrdinaryReads DEF Special, Remembers, n
<1>6. CASE Live!After
  <2>1. Live!Doing("after") /\ UNCHANGED <<chain, replica, ops, started>>
    BY <1>6 DEF Live!After, Live!ReadsOnly
  <2>2. PICK b \in BOOLEAN : Live!Fail \/ Live!Continue(<<>>, [run EXCEPT !.counted = b])
    BY <1>6 DEF Live!After, Live!ReadsBeat
  <2>3. Remembers([run EXCEPT !.counted = b]) /\ <<>> \in Seq(Filler)
    <3>1. run \in Memory
      BY <2>1, DoingIs
    <3> QED
      BY <3>1 DEF Remembers, Memory
  <2> QED
    BY <2>1, <2>2, <2>3, OrdinaryReads DEF Special, Remembers
<1>7. CASE Live!Receipt
  <2>1. /\ Live!Doing("receipt") /\ (Live!Fail \/ Live!Continue(<<>>, run))
        /\ UNCHANGED <<chain, replica, ops, started>>
    BY <1>7 DEF Live!Receipt, Live!GoOn, Live!ReadsOnly
  <2> QED
    BY <2>1, OnlyGoesOn, OrdinaryReads DEF Special
<1> QED
  BY <1>1, <1>2, <1>3, <1>4, <1>5, <1>6, <1>7

------------------------------------------------------------------------------
\* A transaction takes a nonce.
Mined(c, w) == [c EXCEPT !.nonce[w] = @ + 1]

LEMMA Paid ==
    ASSUME NEW c \in Chain, NEW w \in Live!Account
    PROVE  /\ Mined(c, w) \in Chain /\ Mined(c, w).beats = c.beats
           /\ Mined(c, w).wallets = c.wallets /\ Mined(c, w).key = c.key
<1> DEFINE nonce == [c.nonce EXCEPT ![w] = @ + 1]
<1>1. c.nonce \in [Live!Account -> Nat]
  BY DEF Chain
<1>2. nonce \in [Live!Account -> Nat]
  BY <1>1
<1>3. Mined(c, w) = [c EXCEPT !.nonce = nonce]
  BY DEF Chain, Mined
<1> HIDE DEF nonce
<1> QED
  BY <1>2, <1>3 DEF Chain

\* A transaction that is not mined as it was meant costs a nonce at most.
Reverted(w) == Live!Fail /\ (chain' = chain \/ chain' = Mined(chain, w))

\* It changes nothing else.
LEMMA RevertedOnward ==
    ASSUME ChainInv, NEW w \in Live!Account, Reverted(w), replica' = replica
    PROVE  Onward /\ chain'.beats = chain.beats
<1>1. CASE chain' = chain
  BY <1>1, Standing
<1>2. CASE chain' = Mined(chain, w)
  <2>1. chain \in Chain /\ Later(chain, chain)
    BY LaterIsLater DEF ChainInv
  <2>2. /\ chain' \in Chain /\ chain'.beats = chain.beats /\ chain'.key = chain.key
        /\ chain'.wallets = chain.wallets
    BY <1>2, <2>1, Paid
  <2>3. Later(chain, chain')
    BY <2>1, <2>2 DEF Later
  <2> QED
    BY <2>2, <2>3 DEF Onward
<1> QED
  BY <1>1, <1>2 DEF Reverted

\* A transaction on the registry.
LEMMA KeyedOnward ==
    ASSUME ChainInv, NEW w \in Live!Account, NEW key \in {"random", "file"}, replica' = replica,
           chain' = Mined([chain EXCEPT !.key[w] = key], w)
    PROVE  Onward /\ chain'.beats = chain.beats
<1>1. chain \in Chain /\ Later(chain, chain)
  BY LaterIsLater DEF ChainInv
<1>2. key \in Live!Key /\ key # Live!NoKey
  BY DEF Live!Key, Live!NoKey
<1>3. /\ chain' \in Chain /\ chain'.beats = chain.beats /\ chain'.wallets = chain.wallets
      /\ chain'.key = [chain.key EXCEPT ![w] = key]
  <2> DEFINE c == [chain EXCEPT !.key[w] = key]
             keys == [chain.key EXCEPT ![w] = key]
  <2>1. chain.key \in [Live!Account -> Live!Key]
    BY <1>1 DEF Chain
  <2>2. keys \in [Live!Account -> Live!Key]
    BY <1>2, <2>1
  <2>3. c = [chain EXCEPT !.key = keys]
    BY <1>1 DEF Chain
  <2> HIDE DEF keys
  <2>4. c \in Chain /\ c.beats = chain.beats /\ c.wallets = chain.wallets /\ c.key = keys
    BY <1>1, <2>2, <2>3 DEF Chain
  <2>5. chain' = Mined(c, w)
    OBVIOUS
  <2> HIDE DEF c
  <2>6. /\ chain' \in Chain /\ chain'.beats = c.beats
        /\ chain'.wallets = c.wallets /\ chain'.key = c.key
    BY <2>4, <2>5, Paid
  <2> QED
    BY <2>4, <2>6 DEF keys
<1>4. \A u \in Live!Account : chain.key[u] # Live!NoKey => chain'.key[u] # Live!NoKey
  BY <1>1, <1>2, <1>3 DEF Chain
<1>5. Later(chain, chain')
  BY <1>1, <1>3, <1>4 DEF Later
<1> QED
  BY <1>3, <1>5 DEF Onward

\* Register and Rotate.
LEMMA RegistryInv ==
    ASSUME LiveInv, Live!Register \/ Live!Rotate
    PROVE  LiveInv'
<1>1. PICK s \in {"register", "rotate"} : Live!Doing(s)
  BY DEF Live!Register, Live!Rotate
<1>2. Live!Arg(2) \in Live!Account /\ Live!Arg(3) \in {"random", "file"}
  BY <1>1, DoingIs, StepArgs DEF Live!Arg
<1>3. UNCHANGED <<replica, ops, started>>
  BY DEF Live!Register, Live!Rotate, Live!Transact
<1>4. \/ Reverted(Live!Arg(2))
      \/ /\ chain' = Mined([chain EXCEPT !.key[Live!Arg(2)] = Live!Arg(3)], Live!Arg(2))
         /\ Live!Continue(<<>>, run)
  BY DEF Live!Register, Live!Rotate, Live!Transact, Reverted, Mined
<1>5. Onward /\ chain'.beats = chain.beats
  BY <1>2, <1>3, <1>4, RevertedOnward, KeyedOnward DEF LiveInv
<1>6. Live!Fail \/ Live!Continue(<<>>, run)
  BY <1>4 DEF Reverted
<1>7. s \notin Special
  BY DEF Special
<1> QED
  BY <1>1, <1>3, <1>5, <1>6, <1>7, OnlyGoesOn, Ordinary

\* The prefund.
LEMMA FundInv ==
    ASSUME LiveInv, Live!Fund
    PROVE  LiveInv'
<1>1. Live!Doing("fund") /\ UNCHANGED <<replica, ops, started>>
  BY DEF Live!Fund, Live!Transact
<1>2. "deployer" \in Live!Account /\ ChainInv /\ chain \in Chain /\ run.n \in Live!Run
  BY <1>1, DoingIs DEF Live!Account, LiveInv, ChainInv, Memory
<1>3. \/ Reverted("deployer")
      \/ /\ Live!Continue(<<>>, run)
         /\ chain' = [[chain EXCEPT !.ether["deployer"] = @ - 1,
                                    !.wallets[run.n].ether = Live!Prefund]
                         EXCEPT !.nonce["deployer"] = @ + 1]
  BY DEF Live!Fund, Live!Transact, Reverted, Mined
<1>4. CASE Reverted("deployer")
  <2>1. Onward /\ chain'.beats = chain.beats /\ Live!Fail
    BY <1>1, <1>2, <1>4, RevertedOnward DEF Reverted
  <2> QED
    BY <1>1, <2>1, Ordinary DEF Special
<1>5. CASE /\ Live!Continue(<<>>, run)
           /\ chain' = [[chain EXCEPT !.ether["deployer"] = @ - 1,
                                      !.wallets[run.n].ether = Live!Prefund]
                           EXCEPT !.nonce["deployer"] = @ + 1]
  <2>1. /\ chain.wallets \in [Live!Run -> Wallet] /\ chain.ether \in [Live!Account -> Int]
        /\ chain.nonce \in [Live!Account -> Nat]
    BY <1>2 DEF Chain
  <2>2. /\ chain'.beats = chain.beats /\ chain'.key = chain.key
        /\ chain'.wallets = [chain.wallets EXCEPT ![run.n].ether = Live!Prefund]
        /\ chain'.ether = [chain.ether EXCEPT !["deployer"] = @ - 1]
        /\ chain'.nonce = [chain.nonce EXCEPT !["deployer"] = @ + 1]
    BY <1>2, <1>5 DEF Chain
  <2>3. /\ chain'.wallets \in [Live!Run -> Wallet]
        /\ \A n \in Live!Run : /\ chain'.wallets[n].executed = chain.wallets[n].executed
                               /\ chain'.wallets[n].deployed = chain.wallets[n].deployed
    <3>1. \A n \in Live!Run : chain.wallets[n] \in Wallet
      BY <2>1
    <3>2. chain'.wallets[run.n] = [chain.wallets[run.n] EXCEPT !.ether = Live!Prefund]
      BY <1>2, <2>1, <2>2
    <3>3. \A n \in Live!Run : n # run.n => chain'.wallets[n] = chain.wallets[n]
      BY <1>2, <2>1, <2>2
    <3>4. \A n \in Live!Run : /\ chain'.wallets[n] \in Wallet
                              /\ chain'.wallets[n].executed = chain.wallets[n].executed
                              /\ chain'.wallets[n].deployed = chain.wallets[n].deployed
      <4> TAKE n \in Live!Run
      <4>1. CASE n = run.n
        BY <3>1, <3>2, <4>1 DEF Wallet, Live!Prefund
      <4>2. CASE n # run.n
        BY <3>1, <3>3, <4>2
      <4> QED
        BY <4>1, <4>2
    <3> QED
      BY <2>1, <2>2, <3>4
  <2>4. chain'.ether \in [Live!Account -> Int] /\ chain'.nonce \in [Live!Account -> Nat]
    BY <1>2, <2>1, <2>2
  <2>5. chain' \in Chain
    BY <1>2, <1>5, <2>3, <2>4 DEF Chain
  <2>6. Later(chain, chain')
    BY <1>2, <2>2, LaterIsLater DEF Later
  <2>7. Onward
    BY <1>1, <2>3, <2>5, <2>6 DEF Onward
  <2> QED
    BY <1>1, <1>5, <2>2, <2>7, OnlyGoesOn, Ordinary DEF Special
<1> QED
  BY <1>3, <1>4, <1>5

------------------------------------------------------------------------------
\* Where the script is when it takes one of the steps that it is about.
LEMMA Places ==
    ASSUME LiveInv, NEW s, Live!Doing(s),
           NEW k \in 0..(Len(Script) - 1), Script[k + 1] = Head(run.todo)
    PROVE  /\ s = "create" => run.script = "TwoWallets" /\ k = 4
           /\ s = "checkIn" => run.script = "TwoWallets" /\ k = 8
           /\ s = "decrypt" => run.script = "TwoWallets" /\ k = 10
           /\ s = "verify" => /\ run.script = "RegisterWalletC" /\ k = 2
                              /\ Head(run.todo) = <<"verify", "C">>
           /\ s = "sendOp" => run.script = "SmartWalletUserOp" /\ k = 1
           /\ s = "getCode" => run.script = "SmartWalletUserOp" /\ k = 3
<1>1. k + 1 \in 1..Len(Script) /\ Script[k + 1][1] = s /\ run.script \in DOMAIN Live!Scripts
  BY DoingIs
<1>2. CASE run.script = "TwoWallets"
  <2>1. k + 1 \in 1..Len(Live!TwoWallets) /\ Live!TwoWallets[k + 1][1] = s
    BY <1>1, <1>2, ScriptIs
  <2>2. /\ s = "create" => k = 4
        /\ s = "checkIn" => k = 8
        /\ s = "decrypt" => k = 10
        /\ s \notin {"verify", "sendOp", "getCode"}
    BY <2>1, WalletsPlaces DEF Occurs
  <2> QED
    BY <1>1, <1>2, <2>2
<1>3. CASE run.script = "RegisterWalletC"
  <2>1. k + 1 \in 1..Len(Live!RegisterWalletC) /\ Live!RegisterWalletC[k + 1][1] = s
    BY <1>1, <1>3, ScriptIs
  <2>2. /\ s = "verify" => k = 2
        /\ s \notin {"create", "checkIn", "decrypt", "sendOp", "getCode"}
    BY <2>1, RegisterPlaces DEF Occurs
  <2>3. s = "verify" => Head(run.todo) = <<"verify", "C">>
    BY <1>3, <2>2, ScriptIs, RegisterPlaces
  <2> QED
    BY <1>1, <1>3, <2>2, <2>3
<1>4. CASE run.script = "SmartWalletUserOp"
  <2>1. k + 1 \in 1..Len(Live!SmartWalletUserOp) /\ Live!SmartWalletUserOp[k + 1][1] = s
    BY <1>1, <1>4, ScriptIs
  <2>2. /\ s = "sendOp" => k = 1
        /\ s = "getCode" => k = 3
        /\ s \notin {"create", "checkIn", "decrypt", "verify"}
    BY <2>1, UserOpPlaces DEF Occurs
  <2> QED
    BY <1>1, <1>4, <2>2
<1> QED
  BY <1>1, <1>2, <1>3, <1>4, ScriptIs

\* Nothing that is put in front is such a step.
LEMMA NoFiller ==
    ASSUME LiveInv, NEW s \in Special, Live!Doing(s)
    PROVE  Head(run.todo) \notin Filler
BY DoingIs, StepArgs DEF Special

\* What the steps before it are worth.
LEMMA SoFar ==
    ASSUME LiveInv, NEW s \in Special, Live!Doing(s)
    PROVE  \E k \in 0..(Len(Script) - 1) : Script[k + 1] = Head(run.todo) /\ Reached(k)
<1>1. /\ run \in Memory /\ run.todo # <<>> /\ run.todo \in Seq(Step)
      /\ Script \in Seq(Step) /\ Len(Script) \in 0..11 /\ Head(run.todo) \notin Filler
      /\ Live!Running /\ run.outcome # "none"
  BY DoingIs, NoFiller DEF Memory, Live!Running
<1>2. PICK k \in 0..Len(Script), j \in Nat : Remains(run.todo, Script, k, j) /\ Reached(k)
  BY <1>1 DEF LiveInv, RunInv
<1>3. <<>> \in Seq(Filler) /\ Head(run.todo) = run.todo[1]
  BY <1>1
<1>4. /\ j > 0 => run.todo[1] \in Filler
      /\ j = 0 => k < Len(Script) /\ run.todo[1] = Script[k + 1]
  BY ZenonT(30), <1>1, <1>2, <1>3, Proceeds
<1>5. k < Len(Script) /\ Head(run.todo) = Script[k + 1]
  BY <1>1, <1>3, <1>4
<1>6. k \in 0..(Len(Script) - 1)
  BY <1>1, <1>5
<1> QED
  BY <1>2, <1>5, <1>6

\* The run after such a step.
LEMMA SpecialGoesOn ==
    ASSUME LiveInv, NEW s \in Special, Live!Doing(s), started' = started,
           NEW memory \in Memory, memory.script = run.script, memory.outcome = run.outcome,
           memory.todo = run.todo, memory.n = run.n, Live!Continue(<<>>, memory), Advances
    PROVE  RunInv'
<1>1. /\ RunInv /\ Live!Running /\ run.todo # <<>> /\ <<>> \in Seq(Filler)
      /\ Head(run.todo) \notin Filler
  BY DoingIs, NoFiller DEF LiveInv
<1> QED
  BY <1>1, GoesOn

\* A step at which the script stops.
LEMMA FailedStep ==
    ASSUME LiveInv, Live!Running, Live!Fail, Onward, ops' = ops, started' = started
    PROVE  LiveInv'
BY FailInv, OnwardInv DEF LiveInv

\* A step that is tried once more.
LEMMA TriesAgain ==
    ASSUME LiveInv, Live!Running, run' = [run EXCEPT !.tries = @ + 1], Onward, Keeps,
           ops' = ops, started' = started
    PROVE  LiveInv'
<1>1. run \in Memory /\ run.n <= started
  BY DEF LiveInv, RunInv, Live!Running
<1>2. /\ run' \in Memory /\ run'.n = run.n /\ run'.outcome = run.outcome
      /\ run'.script = run.script /\ run'.todo = run.todo
  BY <1>1 DEF Memory
<1>3. run.script \in DOMAIN Live!Scripts /\ Script' = Script
  BY <1>1, <1>2 DEF Memory, Script
<1>4. PICK k \in 0..Len(Script), j \in Nat : Remains(run.todo, Script, k, j) /\ Reached(k)
  BY DEF LiveInv, RunInv, Live!Running
<1>5. k \in 0..11
  <2> DEFINE l == Len(Script)
  <2>1. k \in 0..l /\ l \in 0..11
    BY <1>3, ScriptIs
  <2> HIDE DEF l
  <2> QED
    BY <2>1
<1>6. Reached(k)' /\ Remains(run'.todo, Script', k, j)
  BY <1>2, <1>3, <1>4, <1>5 DEF Keeps
<1>7. run'.outcome # "ok"
  BY <1>2 DEF Live!Running
<1>8. RunInv'
  BY <1>1, <1>2, <1>3, <1>4, <1>6, <1>7 DEF RunInv
<1> QED
  BY <1>8, OnwardInv DEF LiveInv

------------------------------------------------------------------------------
\* The beat that the receipt names is the last of the head.
LEMMA CreateInv ==
    ASSUME LiveInv, Live!Create
    PROVE  LiveInv'
<1> DEFINE w == Live!Arg(2)
           to == Live!Arg(3)
           letter == [owner |-> w, to |-> to, key |-> run.key, checkIns |-> 0]
           memory == [run EXCEPT !.id = Len(chain.beats) + 1]
           c == [chain EXCEPT !.ether[w] = @ - 1, !.beats = Append(@, letter)]
<1>1. Live!Doing("create") /\ UNCHANGED <<replica, ops, started>> /\ "create" \in Special
  BY DEF Live!Create, Live!Transact, Special
<1>2. /\ w \in Live!Account /\ to \in Live!Account /\ ChainInv /\ chain \in Chain
      /\ run \in Memory /\ Live!Running
  BY <1>1, DoingIs, StepArgs DEF Live!Arg, LiveInv, ChainInv
<1>3. \/ Reverted(w)
      \/ /\ chain.key[to] # Live!NoKey
         /\ chain' = Mined(c, w)
         /\ Live!Continue(<<>>, memory)
  BY DEF Live!Create, Live!Transact, Reverted, Mined
<1>4. CASE Reverted(w)
  BY <1>1, <1>2, <1>4, RevertedOnward, FailedStep DEF Reverted
<1>5. CASE /\ chain.key[to] # Live!NoKey
           /\ chain' = Mined(c, w)
           /\ Live!Continue(<<>>, memory)
  <2>1. /\ chain.beats \in Seq(Letter) /\ chain.ether \in [Live!Account -> Int]
        /\ letter \in Letter /\ Len(chain.beats) \in Nat
    <3>1. chain.beats \in Seq(Letter) /\ chain.ether \in [Live!Account -> Int]
      BY <1>2 DEF Chain
    <3>2. run.key \in Live!Key
      BY <1>2 DEF Memory
    <3>3. letter \in Letter
      BY <1>2, <3>2 DEF Letter
    <3> QED
      BY <3>1, <3>3
  <2>2. /\ c \in Chain /\ c.beats = Append(chain.beats, letter)
        /\ c.wallets = chain.wallets /\ c.key = chain.key
    <3> DEFINE ether == [chain.ether EXCEPT ![w] = @ - 1]
               beats == Append(chain.beats, letter)
    <3> HIDE DEF letter
    <3>1. ether \in [Live!Account -> Int] /\ beats \in Seq(Letter)
      BY <1>2, <2>1
    <3>2. c = [chain EXCEPT !.ether = ether, !.beats = beats]
      BY <1>2 DEF Chain
    <3> HIDE DEF ether, beats, c
    <3>3. /\ c \in Chain /\ c.beats = beats /\ c.wallets = chain.wallets /\ c.key = chain.key
      BY <1>2, <3>1, <3>2 DEF Chain
    <3> QED
      BY <3>3 DEF beats
  <2>3. chain' = Mined(c, w)
    BY <1>5
  <2> HIDE DEF c
  <2>4. /\ chain' \in Chain /\ chain'.beats = c.beats
        /\ chain'.wallets = c.wallets /\ chain'.key = c.key
    BY <1>2, <2>2, <2>3, Paid
  <2> HIDE DEF letter
  <2>5. /\ chain'.beats = Append(chain.beats, letter)
        /\ chain'.wallets = chain.wallets /\ chain'.key = chain.key
    BY <2>2, <2>4
  <2>6. /\ Len(chain'.beats) = Len(chain.beats) + 1
        /\ \A i \in DOMAIN chain.beats : chain'.beats[i] = chain.beats[i]
        /\ chain'.beats[Len(chain.beats) + 1] = letter
        /\ Len(chain.beats) + 1 \in DOMAIN chain'.beats
    BY <2>1, <2>5
  <2>7. Onward
    <3>1. Later(chain, chain')
      BY <2>1, <2>5, <2>6 DEF Later
    <3> QED
      BY <1>1, <2>4, <2>5, <3>1 DEF Onward
  <2>8. /\ memory \in Memory /\ memory.script = run.script /\ memory.outcome = run.outcome
        /\ memory.todo = run.todo /\ memory.n = run.n
    <3> DEFINE id == Len(chain.beats) + 1
    <3>1. id \in Nat /\ memory = [run EXCEPT !.id = id]
      BY <2>1
    <3> HIDE DEF id, memory
    <3> QED
      BY <1>2, <3>1 DEF Memory
  <2>9. /\ run'.script = run.script /\ run'.id = Len(chain.beats) + 1
        /\ run'.opened = run.opened
    BY <1>2, <1>5 DEF Live!Continue, Memory
  <2>10. ~run.opened => Made(0)'
    <3>1. Live!Beat' = letter
      BY <2>6, <2>9 DEF Live!Beat
    <3>2. Live!Beat'.checkIns = 0 /\ chain'.key[Live!Beat'.to] # Live!NoKey
      BY <1>5, <2>5, <3>1 DEF letter
    <3> QED
      BY <2>6, <2>9, <3>2 DEF Made
  <2>11. Advances
    <3> SUFFICES ASSUME NEW k \in 0..(Len(Script) - 1), Script[k + 1] = Head(run.todo), Reached(k)
                 PROVE  Reached(k + 1)'
      BY DEF Advances
    <3>1. run.script = "TwoWallets" /\ k = 4
      BY <1>1, Places
    <3>2. ~run.opened
      BY <3>1 DEF Reached, Written
    <3>3. Written(k + 1, 5, 9)'
      BY <2>9, <2>10, <3>1, <3>2 DEF Written
    <3> QED
      BY <2>9, <3>1, <3>3 DEF Reached
  <2> HIDE DEF memory
  <2>12. RunInv'
    BY <1>1, <1>5, <2>8, <2>11, SpecialGoesOn
  <2> QED
    BY <1>1, <2>7, <2>12, OnwardInv DEF LiveInv
<1> QED
  BY <1>3, <1>4, <1>5

\* A check-in that is mined counts once.
LEMMA CheckInInv ==
    ASSUME LiveInv, Live!CheckIn
    PROVE  LiveInv'
<1> DEFINE w == Live!Arg(2)
           c == [chain EXCEPT !.beats[run.id].checkIns = @ + 1]
<1>1. Live!Doing("checkIn") /\ UNCHANGED <<replica, ops, started>> /\ "checkIn" \in Special
  BY DEF Live!CheckIn, Live!Transact, Special
<1>2. /\ w \in Live!Account /\ ChainInv /\ chain \in Chain /\ run \in Memory /\ Live!Running
  BY <1>1, DoingIs, StepArgs DEF Live!Arg, LiveInv, ChainInv
<1>3. \/ Reverted(w)
      \/ /\ run.id \in DOMAIN chain.beats
         /\ chain' = Mined(c, w)
         /\ Live!Continue(<<>>, run)
  BY DEF Live!CheckIn, Live!Transact, Reverted, Mined
<1>4. CASE Reverted(w)
  BY <1>1, <1>2, <1>4, RevertedOnward, FailedStep DEF Reverted
<1>5. CASE /\ run.id \in DOMAIN chain.beats
           /\ chain' = Mined(c, w)
           /\ Live!Continue(<<>>, run)
  <2> DEFINE id == run.id
             beats == [chain.beats EXCEPT ![id].checkIns = @ + 1]
  <2>1. /\ chain.beats \in Seq(Letter) /\ Len(chain.beats) \in Nat
        /\ DOMAIN chain.beats = 1..Len(chain.beats) /\ id \in 1..Len(chain.beats)
        /\ \A i \in DOMAIN chain.beats : chain.beats[i] \in Letter
    <3>1. chain.beats \in Seq(Letter)
      BY <1>2 DEF Chain
    <3> QED
      BY <1>5, <3>1
  <2>2. /\ DOMAIN beats = DOMAIN chain.beats
        /\ beats[id] = [chain.beats[id] EXCEPT !.checkIns = @ + 1]
        /\ \A i \in DOMAIN chain.beats : i # id => beats[i] = chain.beats[i]
        /\ beats = [i \in 1..Len(chain.beats) |-> beats[i]]
    BY <2>1
  <2> HIDE DEF beats
  <2>3. /\ beats[id] \in Letter /\ beats[id].key = chain.beats[id].key
        /\ beats[id].to = chain.beats[id].to
        /\ beats[id].checkIns = chain.beats[id].checkIns + 1
    <3> DEFINE old == chain.beats[id]
    <3>1. old \in Letter /\ beats[id] = [old EXCEPT !.checkIns = @ + 1]
      BY <2>1, <2>2
    <3> HIDE DEF old
    <3>2. /\ beats[id] \in Letter /\ beats[id].key = old.key /\ beats[id].to = old.to
          /\ beats[id].checkIns = old.checkIns + 1
      BY <3>1 DEF Letter
    <3> QED
      BY <3>2 DEF old
  <2>4. beats \in Seq(Letter) /\ Len(beats) = Len(chain.beats)
    <3> DEFINE l == Len(chain.beats)
    <3>1. l \in Nat /\ \A i \in 1..l : beats[i] \in Letter
      BY <2>1, <2>2, <2>3
    <3>2. beats = [i \in 1..l |-> beats[i]]
      BY <2>2
    <3> HIDE DEF l
    <3>3. beats \in [1..l -> Letter]
      BY <3>1, <3>2
    <3>4. beats \in Seq(Letter) /\ Len(beats) = l
      BY <3>1, <3>3
    <3> QED
      BY <3>4 DEF l
  <2>5. \A i \in DOMAIN chain.beats : beats[i].key = chain.beats[i].key
    BY <2>2, <2>3
  <2>6. c = [chain EXCEPT !.beats = beats]
    BY <1>2 DEF Chain, beats
  <2>7. c \in Chain /\ c.beats = beats /\ c.wallets = chain.wallets /\ c.key = chain.key
    BY <1>2, <2>4, <2>6 DEF Chain
  <2>8. chain' = Mined(c, w)
    BY <1>5
  <2> HIDE DEF c
  <2>9. /\ chain' \in Chain /\ chain'.beats = beats
        /\ chain'.wallets = chain.wallets /\ chain'.key = chain.key
    BY <1>2, <2>7, <2>8, Paid
  <2>10. Onward
    <3>1. Later(chain, chain')
      BY <2>1, <2>4, <2>5, <2>9 DEF Later
    <3> QED
      BY <1>1, <2>9, <3>1 DEF Onward
  <2>11. /\ run'.script = run.script /\ run'.id = id /\ run'.opened = run.opened
    BY <1>2, <1>5 DEF Live!Continue, Memory
  <2>12. Made(0) => Made(1)'
    <3>1. Live!Beat = chain.beats[id] /\ Live!Beat' = beats[id]
      BY <2>9, <2>11 DEF Live!Beat
    <3>2. id \in DOMAIN chain'.beats
      BY <2>1, <2>2, <2>9
    <3> QED
      BY <2>3, <2>9, <2>11, <3>1, <3>2 DEF Made
  <2>13. Advances
    <3> SUFFICES ASSUME NEW k \in 0..(Len(Script) - 1), Script[k + 1] = Head(run.todo), Reached(k)
                 PROVE  Reached(k + 1)'
      BY DEF Advances
    <3>1. run.script = "TwoWallets" /\ k = 8
      BY <1>1, Places
    <3>2. Made(0)
      BY <3>1 DEF Reached, Written
    <3>3. Written(k + 1, 5, 9)'
      BY <2>11, <2>12, <3>1, <3>2 DEF Written
    <3> QED
      BY <2>11, <3>1, <3>3 DEF Reached
  <2>14. RunInv'
    BY <1>1, <1>2, <1>5, <2>13, SpecialGoesOn
  <2> QED
    BY <1>1, <2>10, <2>14, OnwardInv DEF LiveInv
<1> QED
  BY <1>3, <1>4, <1>5

\* Only a beat that is on the chain has been opened.
LEMMA DecryptInv ==
    ASSUME LiveInv, Live!Decrypt
    PROVE  LiveInv'
<1>1. Live!Doing("decrypt") /\ UNCHANGED <<chain, replica, ops, started>> /\ "decrypt" \in Special
  BY DEF Live!Decrypt, Live!ReadsOnly, Special
<1>2. ChainInv /\ chain \in Chain /\ run \in Memory /\ Live!Running /\ Onward
  BY <1>1, DoingIs, Standing DEF LiveInv, ChainInv
<1>3. PICK v \in Live!Views :
          Live!ReadsBeat(v, [run EXCEPT !.opened =
              run.id \in DOMAIN v.beats /\ v.beats[run.id].key = "file"])
  BY DEF Live!Decrypt
<1> DEFINE b == run.id \in DOMAIN v.beats /\ v.beats[run.id].key = "file"
           memory == [run EXCEPT !.opened = b]
<1>4. b \in BOOLEAN /\ (Live!Fail \/ Live!Continue(<<>>, memory))
  BY <1>3 DEF Live!ReadsBeat
<1>5. b => run.id \in DOMAIN chain.beats /\ chain.beats[run.id].key = "file"
  <2>1. v \in Chain /\ Later(v, chain)
    BY <1>2, Viewed
  <2>2. /\ DOMAIN v.beats = 1..Len(v.beats) /\ DOMAIN chain.beats = 1..Len(chain.beats)
        /\ Len(v.beats) \in Nat /\ Len(chain.beats) \in Nat
    <3>1. v.beats \in Seq(Letter) /\ chain.beats \in Seq(Letter)
      BY <1>2, <2>1 DEF Chain
    <3> QED
      BY <3>1
  <2> QED
    BY <2>1, <2>2 DEF Later
<1> HIDE DEF b
<1>6. memory \in Memory /\ Remembers(run)
  BY <1>1, <1>2, <1>4, DoingIs DEF Memory
<1>7. CASE Live!Fail
  BY <1>1, <1>2, <1>7, FailedStep
<1>8. CASE Live!Continue(<<>>, memory)
  <2>1. /\ run'.script = run.script /\ run'.id = run.id /\ run'.opened = b
        /\ memory.script = run.script /\ memory.outcome = run.outcome
        /\ memory.todo = run.todo /\ memory.n = run.n
    BY <1>2, <1>8 DEF Live!Continue, Memory
  <2>2. Made(1) => Made(1)'
    <3>1. Live!Beat' = Live!Beat
      BY <1>1, <2>1 DEF Live!Beat
    <3>2. run'.opened => Live!Beat.key = "file"
      BY <1>5, <2>1 DEF Live!Beat
    <3> QED
      BY <1>1, <2>1, <3>1, <3>2 DEF Made
  <2>3. Advances
    <3> SUFFICES ASSUME NEW k \in 0..(Len(Script) - 1), Script[k + 1] = Head(run.todo), Reached(k)
                 PROVE  Reached(k + 1)'
      BY DEF Advances
    <3>1. run.script = "TwoWallets" /\ k = 10
      BY <1>1, Places
    <3>2. Made(1)
      BY <3>1 DEF Reached, Written
    <3>3. Written(k + 1, 5, 9)'
      BY <2>2, <3>1, <3>2 DEF Written
    <3> QED
      BY <2>1, <3>1, <3>3 DEF Reached
  <2> HIDE DEF memory
  <2>4. RunInv'
    BY <1>1, <1>6, <1>8, <2>1, <2>3, SpecialGoesOn
  <2> QED
    BY <1>1, <1>2, <2>4, OnwardInv DEF LiveInv
<1> QED
  BY <1>4, <1>7, <1>8

\* The same head and operations.
LEMMA SameReached ==
    ASSUME ChainInv, chain' = chain, ops' = ops,
           run'.script = run.script, run'.n = run.n, run'.id = run.id,
           run'.opened = run.opened
    PROVE  Keeps
<1>1. chain \in Chain /\ Later(chain, chain') /\ chain'.beats = chain.beats
  BY LaterIsLater DEF ChainInv
<1> QED
  BY <1>1, StillReached

\* A key that a node has shown is in the registry.
LEMMA VerifyInv ==
    ASSUME LiveInv, Live!Verify
    PROVE  LiveInv'
<1>1. Live!Doing("verify") /\ UNCHANGED <<chain, ops, started>> /\ "verify" \in Special
  BY DEF Live!Verify, Special
<1>2. ChainInv /\ chain \in Chain /\ run \in Memory /\ Live!Running /\ Remembers(run)
  BY <1>1, DoingIs DEF LiveInv, ChainInv
<1>3. PICK v \in Live!Views :
          \/ v.key[Live!Arg(2)] # Live!NoKey /\ Live!GoOn /\ UNCHANGED replica
          \/ /\ v.key[Live!Arg(2)] = Live!NoKey
             /\ run' = IF run.tries < 5 THEN [run EXCEPT !.tries = @ + 1]
                       ELSE [run EXCEPT !.outcome = "failed"]
             /\ replica' \in IF run.calm THEN {chain} ELSE Live!Views
  BY DEF Live!Verify
<1>4. replica' \in {replica, chain}
  BY <1>3 DEF Live!Views
<1>5. Onward
  BY <1>1, <1>2, <1>4, Standing
<1>6. CASE v.key[Live!Arg(2)] # Live!NoKey /\ Live!GoOn
  <2>1. Live!Continue(<<>>, run)
    BY <1>6 DEF Live!GoOn
  <2>2. /\ run'.script = run.script /\ run'.id = run.id /\ run'.opened = run.opened
        /\ run'.n = run.n
    BY <1>2, <2>1 DEF Live!Continue, Memory
  <2>3. Advances
    <3> SUFFICES ASSUME NEW k \in 0..(Len(Script) - 1), Script[k + 1] = Head(run.todo), Reached(k)
                 PROVE  Reached(k + 1)'
      BY DEF Advances
    <3>1. run.script = "RegisterWalletC" /\ k = 2 /\ Head(run.todo) = <<"verify", "C">>
      BY <1>1, Places
    <3>2. v.key["C"] # Live!NoKey
      BY <1>6, <3>1 DEF Live!Arg
    <3>3. chain.key["C"] # Live!NoKey
      BY <1>2, <3>2, Viewed DEF Later, Live!Account
    <3>4. ~run.opened
      BY <3>1 DEF Reached
    <3> QED
      BY <1>1, <2>2, <3>1, <3>3, <3>4 DEF Reached
  <2>4. RunInv'
    BY <1>1, <1>2, <2>1, <2>3, SpecialGoesOn
  <2> QED
    BY <1>1, <1>2, <1>5, <2>4, OnwardInv DEF LiveInv
<1>7. CASE run' = [run EXCEPT !.tries = @ + 1]
  <2>1. /\ run'.script = run.script /\ run'.id = run.id /\ run'.opened = run.opened
        /\ run'.n = run.n
    BY <1>2, <1>7 DEF Memory
  <2>2. Keeps
    BY <1>1, <1>2, <2>1, SameReached
  <2> QED
    BY <1>1, <1>2, <1>5, <1>7, <2>2, TriesAgain
<1>8. CASE run' = [run EXCEPT !.outcome = "failed"]
  BY <1>1, <1>2, <1>5, <1>8, FailedStep DEF Live!Fail
<1> QED
  BY <1>3, <1>6, <1>7, <1>8

\* An operation is sent once, before it can have been executed.
LEMMA SendOpInv ==
    ASSUME LiveInv, Live!SendOp
    PROVE  LiveInv'
<1>1. Live!Doing("sendOp") /\ UNCHANGED <<chain, started>> /\ "sendOp" \in Special
  BY DEF Live!SendOp, Special
<1>2. /\ ChainInv /\ OpsInv /\ chain \in Chain /\ run \in Memory /\ Live!Running
      /\ Remembers(run) /\ run.n <= started /\ run.n \in Live!Run
  BY <1>1, DoingIs DEF LiveInv, ChainInv, Memory
<1>3. \/ ops' = [ops EXCEPT ![run.n] = "sent"] /\ Live!GoOn /\ UNCHANGED replica
      \/ /\ run' = [run EXCEPT !.tries = @ + 1]
         /\ replica' \in {replica, chain} /\ UNCHANGED ops
      \/ Live!Fail /\ UNCHANGED <<ops, replica>>
  BY DEF Live!SendOp, Live!Views
<1>4. replica' \in {replica, chain}
  BY <1>3
<1>5. Onward
  BY <1>1, <1>2, <1>4, Standing
<1>6. CASE ops' = [ops EXCEPT ![run.n] = "sent"] /\ Live!GoOn
  <2>1. Live!Continue(<<>>, run)
    BY <1>6 DEF Live!GoOn
  <2>2. /\ run'.script = run.script /\ run'.opened = run.opened /\ run'.n = run.n
    BY <1>2, <2>1 DEF Live!Continue, Memory
  <2>3. run.script = "SmartWalletUserOp" /\ ops[run.n] = "unsent"
    <3>1. PICK k \in 0..(Len(Script) - 1) : Script[k + 1] = Head(run.todo) /\ Reached(k)
      BY <1>1, SoFar
    <3>2. run.script = "SmartWalletUserOp" /\ k = 1
      BY <1>1, <3>1, Places
    <3> QED
      BY <3>1, <3>2 DEF Reached
  <2>4. Advances
    <3> SUFFICES ASSUME NEW k \in 0..(Len(Script) - 1), Script[k + 1] = Head(run.todo), Reached(k)
                 PROVE  Reached(k + 1)'
      BY DEF Advances
    <3>1. run.script = "SmartWalletUserOp" /\ k = 1
      BY <1>1, Places
    <3>2. ~run.opened
      BY <3>1 DEF Reached
    <3> QED
      BY <2>2, <3>1, <3>2 DEF Reached
  <2>5. RunInv'
    BY <1>1, <1>2, <2>1, <2>4, SpecialGoesOn
  <2>6. OpsInv'
    <3>1. /\ ops' \in [Live!Run -> {"unsent", "sent", "executed", "reverted"}]
          /\ ops'[run.n] = "sent"
          /\ \A n \in Live!Run : n # run.n => ops'[n] = ops[n]
      BY <1>2, <1>6 DEF OpsInv
    <3>2. chain.wallets[run.n].executed = 0
      BY <1>2, <2>3 DEF OpsInv
    <3>3. ASSUME NEW n \in Live!Run
          PROVE  /\ n > started => ops'[n] = "unsent"
                 /\ ops'[n] # "executed" => chain.wallets[n].executed = 0
                 /\ ops'[n] = "executed" => /\ chain.wallets[n].deployed
                                            /\ chain.wallets[n].executed = 1
      <4>1. CASE n = run.n
        <5>1. ~(n > started)
          BY <1>2, <4>1 DEF OpsInv, Live!Run
        <5> QED
          BY <3>1, <3>2, <4>1, <5>1
      <4>2. CASE n # run.n
        BY <1>2, <3>1, <4>2 DEF OpsInv
      <4> QED
        BY <4>1, <4>2
    <3>4. started \in Nat
      BY <1>2 DEF OpsInv
    <3> QED
      BY <1>1, <3>1, <3>3, <3>4 DEF OpsInv
  <2>7. ChainInv'
    <3>1. CASE replica' = replica
      BY <1>1, <1>2, <3>1 DEF ChainInv
    <3>2. CASE replica' = chain
      BY <1>1, <1>2, <3>2, LaterIsLater DEF ChainInv
    <3> QED
      BY <1>4, <3>1, <3>2
  <2> QED
    BY <2>5, <2>6, <2>7 DEF LiveInv
<1>7. CASE run' = [run EXCEPT !.tries = @ + 1] /\ UNCHANGED ops
  <2>1. /\ run'.script = run.script /\ run'.id = run.id /\ run'.opened = run.opened
        /\ run'.n = run.n
    BY <1>2, <1>7 DEF Memory
  <2>2. Keeps
    BY <1>1, <1>2, <1>7, <2>1, SameReached
  <2> QED
    BY <1>1, <1>2, <1>5, <1>7, <2>2, TriesAgain
<1>8. CASE Live!Fail /\ UNCHANGED ops
  BY <1>1, <1>2, <1>5, <1>8, FailedStep
<1> QED
  BY <1>3, <1>6, <1>7, <1>8

\* The script ends well only if the receipt says that its operation was executed.
LEMMA GetCodeInv ==
    ASSUME LiveInv, Live!GetCode
    PROVE  LiveInv'
<1>1. Live!Doing("getCode") /\ UNCHANGED <<chain, replica, ops, started>> /\ "getCode" \in Special
  BY DEF Live!GetCode, Live!ReadsOnly, Special
<1>2. /\ ChainInv /\ OpsInv /\ run \in Memory /\ Live!Running /\ Remembers(run) /\ Onward
  BY <1>1, DoingIs, Standing DEF LiveInv
<1>3. CASE Live!Fail
  BY <1>1, <1>2, <1>3, FailedStep
<1>4. CASE ops[run.n] = "executed" /\ Live!GoOn
  <2>1. Live!Continue(<<>>, run)
    BY <1>4 DEF Live!GoOn
  <2>2. /\ run'.script = run.script /\ run'.opened = run.opened /\ run'.n = run.n
    BY <1>2, <2>1 DEF Live!Continue, Memory
  <2>3. Advances
    <3> SUFFICES ASSUME NEW k \in 0..(Len(Script) - 1), Script[k + 1] = Head(run.todo), Reached(k)
                 PROVE  Reached(k + 1)'
      BY DEF Advances
    <3>1. run.script = "SmartWalletUserOp" /\ k = 3
      BY <1>1, Places
    <3>2. ~run.opened
      BY <3>1 DEF Reached
    <3> QED
      BY <1>1, <1>4, <2>2, <3>1, <3>2 DEF Reached
  <2>4. RunInv'
    BY <1>1, <1>2, <2>1, <2>3, SpecialGoesOn
  <2> QED
    BY <1>1, <1>2, <2>4, OnwardInv DEF LiveInv
<1> QED
  BY <1>3, <1>4 DEF Live!GetCode

------------------------------------------------------------------------------
\* The script has nothing left to do: it is done to its end.
LEMMA FinishInv ==
    ASSUME LiveInv, Live!Finish
    PROVE  LiveInv'
<1>1. /\ Live!Running /\ run.todo = <<>> /\ run' = [run EXCEPT !.outcome = "ok"]
      /\ UNCHANGED <<chain, replica, ops, started>>
  BY DEF Live!Finish, Live!ReadsOnly
<1>2. ChainInv /\ OpsInv /\ run \in Memory /\ run.n <= started /\ Onward
  BY <1>1, Standing DEF LiveInv, RunInv, Live!Running
<1>3. /\ run' \in Memory /\ run'.n = run.n /\ run'.outcome = "ok" /\ run'.id = run.id
      /\ run'.script = run.script /\ run'.opened = run.opened
  BY <1>1, <1>2 DEF Memory
<1>4. PICK k \in 0..Len(Script), j \in Nat : Remains(run.todo, Script, k, j) /\ Reached(k)
  BY <1>1 DEF LiveInv, RunInv, Live!Running
<1>5. Len(Script) \in 0..11
  BY <1>2, ScriptIs DEF Memory
<1>6. k = Len(Script)
  <2> DEFINE l == Len(Script)
  <2>1. k \in 0..l /\ l \in 0..11 /\ 0 = j + (l - k)
    BY <1>1, <1>4, <1>5 DEF Remains
  <2> HIDE DEF l
  <2>2. k = l
    BY <2>1
  <2> QED
    BY <2>2 DEF l
<1>7. Reached(Len(Script)) /\ Script' = Script
  BY <1>3, <1>4, <1>6 DEF Script
<1>8. Keeps
  BY <1>1, <1>2, <1>3, SameReached
<1>9. Reached(Len(Script))'
  <2> DEFINE l == Len(Script)
  <2>1. l \in 0..11 /\ Reached(l) /\ l' = l
    BY <1>5, <1>7
  <2> HIDE DEF l
  <2>2. Reached(l)'
    BY <1>8, <2>1 DEF Keeps
  <2> QED
    BY <2>1, <2>2 DEF l
<1>10. RunInv'
  BY <1>1, <1>2, <1>3, <1>9 DEF RunInv, Live!Running
<1> QED
  BY <1>1, <1>2, <1>10, OnwardInv DEF LiveInv

\* A script starts with all its steps before it, and a wallet of its own.
LEMMA StartInv ==
    ASSUME Live!LiveAssumption, LiveInv, Live!Start
    PROVE  LiveInv'
<1>1. /\ started < MaxRuns /\ started' = started + 1 /\ UNCHANGED <<chain, replica, ops>>
  BY DEF Live!Start
<1>2. PICK s \in DOMAIN Live!Scripts, calm \in BOOLEAN :
          run' = [script |-> s, outcome |-> "running", calm |-> calm, todo |-> Live!Scripts[s],
                  n |-> started + 1, id |-> 0, key |-> Live!NoKey, tries |-> 0,
                  checkIns |-> 0, counted |-> FALSE, opened |-> FALSE]
  BY DEF Live!Start
<1>3. ChainInv /\ OpsInv /\ started \in Nat /\ MaxRuns \in Nat
  BY DEF LiveInv, OpsInv, Live!LiveAssumption
<1>4. ChainInv'
  BY <1>1, <1>3 DEF ChainInv
<1>5. OpsInv'
  BY <1>1, <1>3 DEF OpsInv, Live!Run
<1>6. /\ run'.script = s /\ run'.outcome = "running" /\ run'.todo = Live!Scripts[s]
      /\ run'.n = started + 1 /\ ~run'.opened
  BY <1>2
<1>7. Script' = Live!Scripts[s]
  BY <1>6 DEF Script
<1>8. Live!Scripts[s] \in Seq(Step) /\ Len(Live!Scripts[s]) \in 0..11
  BY WalletsPlaces, RegisterPlaces, UserOpPlaces DEF Live!Scripts
<1>9. run' \in Memory /\ run'.n <= started'
  <2>1. started + 1 \in Live!Run /\ Live!NoKey \in Live!Key
    BY <1>1, <1>3 DEF Live!Run, Live!Key
  <2> DEFINE left == Live!Scripts[s]
  <2>2. left \in Seq(Step)
    BY <1>8
  <2>3. run' = [script |-> s, outcome |-> "running", calm |-> calm, todo |-> left,
                n |-> started + 1, id |-> 0, key |-> Live!NoKey, tries |-> 0,
                checkIns |-> 0, counted |-> FALSE, opened |-> FALSE]
    BY <1>2
  <2> HIDE DEF left
  <2>4. run' \in Memory
    BY <2>1, <2>2, <2>3 DEF Memory
  <2>5. run'.n <= started'
    BY <1>1, <1>3, <1>6
  <2> QED
    BY <2>4, <2>5
<1>10. Reached(0)'
  <2>1. ops'[run'.n] = "unsent"
    <3>1. started + 1 \in Live!Run /\ started + 1 > started
      BY <1>1, <1>3 DEF Live!Run
    <3>2. ops[started + 1] = "unsent"
      BY <1>3, <3>1 DEF OpsInv
    <3> QED
      BY <1>1, <1>6, <3>2
  <2> QED
    BY <1>6, <2>1 DEF Reached, Written
<1>11. Remains(run'.todo, Script', 0, 0)
  <2> DEFINE left == Live!Scripts[s]
  <2>1. Len(left) \in 0..11 /\ run'.todo = left /\ Script' = left
    BY <1>6, <1>7, <1>8
  <2> HIDE DEF left
  <2>2. Remains(left, left, 0, 0)
    BY <2>1 DEF Remains
  <2> QED
    BY <2>1, <2>2
<1>12. 0 \in 0..Len(Script)' /\ 0 \in Nat
  BY <1>7, <1>8
<1>13. RunInv'
  BY <1>6, <1>9, <1>10, <1>11, <1>12 DEF RunInv, Live!Running
<1> QED
  BY <1>4, <1>5, <1>13 DEF LiveInv

\* The steps of others leave the run as it is.
LEMMA RunKept ==
    ASSUME RunInv, run' = run, started' = started, Keeps
    PROVE  RunInv'
<1> SUFFICES ASSUME run'.outcome # "none"
             PROVE  /\ run' \in Memory /\ run'.n <= started'
                    /\ Live!Running' => \E k \in 0..Len(Script)', j \in Nat :
                                            Remains(run.todo, Script, k, j)' /\ Reached(k)'
                    /\ run'.outcome = "ok" => Reached(Len(Script))'
  BY DEF RunInv
<1>1. run \in Memory /\ run.n <= started /\ Script' = Script /\ (Live!Running' <=> Live!Running)
  BY DEF RunInv, Script, Live!Running
<1> DEFINE l == Len(Script)
<1>2. l \in 0..11 /\ l' = l
  BY <1>1, ScriptIs DEF Memory
<1>3. /\ Live!Running => \E k \in 0..l, j \in Nat : Remains(run.todo, Script, k, j) /\ Reached(k)
      /\ run.outcome = "ok" => Reached(l)
  BY DEF RunInv
<1>4. run.outcome = "ok" => Reached(l)'
  <2> HIDE DEF l
  <2> QED
    BY <1>2, <1>3 DEF Keeps
<1>5. Live!Running => \E k \in 0..l, j \in Nat : Remains(run.todo, Script, k, j)' /\ Reached(k)'
  <2> HIDE DEF l
  <2> SUFFICES ASSUME Live!Running
               PROVE  \E k \in 0..l, j \in Nat : Remains(run.todo, Script, k, j)' /\ Reached(k)'
    OBVIOUS
  <2>1. PICK k \in 0..l, j \in Nat : Remains(run.todo, Script, k, j) /\ Reached(k)
    BY <1>3
  <2>2. Reached(k)'
    BY <1>2, <2>1 DEF Keeps
  <2>3. Remains(run.todo, Script, k, j)'
    BY <1>1, <2>1 DEF Remains
  <2> QED
    BY <2>2, <2>3
<1>6. run'.outcome = "ok" => Reached(Len(Script))'
  <2> HIDE DEF l
  <2>1. run'.outcome = "ok" => Reached(l)'
    BY <1>4
  <2> QED
    BY <1>2, <2>1 DEF l
<1> QED
  BY <1>1, <1>2, <1>5, <1>6

\* The replica catches up.
LEMMA SyncInv ==
    ASSUME LiveInv, Live!Sync
    PROVE  LiveInv'
<1>1. replica' = chain /\ UNCHANGED <<chain, ops, run, started>> /\ ChainInv /\ OpsInv /\ RunInv
  BY DEF Live!Sync, LiveInv
<1>2. Onward
  BY <1>1, Standing
<1>3. Keeps
  BY <1>1, SameReached
<1> QED
  BY <1>1, <1>2, <1>3, OnwardInv, RunKept DEF LiveInv

\* A later head, while the run does nothing.
LEMMA OthersInv ==
    ASSUME LiveInv, run' = run, started' = started, replica' = replica, ops' = ops,
           chain' \in Chain, Later(chain, chain'), chain'.beats = chain.beats,
           \A n \in Live!Run : /\ chain'.wallets[n].executed = chain.wallets[n].executed
                               /\ chain.wallets[n].deployed => chain'.wallets[n].deployed
    PROVE  LiveInv'
<1>1. ChainInv /\ OpsInv /\ RunInv /\ chain \in Chain
  BY DEF LiveInv, ChainInv
<1>2. Onward
  BY DEF Onward
<1>3. Keeps
  BY <1>1, StillReached
<1> QED
  BY <1>1, <1>2, <1>3, OnwardInv, RunKept DEF LiveInv

\* An operation that was sent is executed once, or reverted.
LEMMA IncludeInv ==
    ASSUME LiveInv, Live!Include
    PROVE  LiveInv'
<1>1. PICK n \in Live!Run, success \in BOOLEAN :
        /\ ops[n] = "sent"
        /\ ops' = [ops EXCEPT ![n] = IF success THEN "executed" ELSE "reverted"]
        /\ chain' = [chain EXCEPT !.wallets[n] =
              [ether |-> @.ether - 1, deployed |-> TRUE,
               executed |-> IF success THEN @.executed + 1 ELSE @.executed]]
        /\ UNCHANGED <<replica, run, started>>
  BY DEF Live!Include
<1>2. ChainInv /\ OpsInv /\ RunInv /\ chain \in Chain /\ replica \in Chain
  BY DEF LiveInv, ChainInv
<1> DEFINE old == chain.wallets[n]
           new == [ether |-> old.ether - 1, deployed |-> TRUE,
                   executed |-> IF success THEN old.executed + 1 ELSE old.executed]
           wallets == [chain.wallets EXCEPT ![n] = new]
<1>3. chain.wallets \in [Live!Run -> Wallet] /\ old \in Wallet /\ old.executed = 0
  BY <1>1, <1>2 DEF Chain, OpsInv
<1>4. new \in Wallet /\ new.deployed /\ new.executed = IF success THEN 1 ELSE 0
  <2> HIDE DEF old
  <2> QED
    BY <1>3 DEF Wallet
<1> HIDE DEF new
<1>5. /\ wallets \in [Live!Run -> Wallet] /\ wallets[n] = new
      /\ \A m \in Live!Run : m # n => wallets[m] = chain.wallets[m]
  BY <1>3, <1>4
<1>6. chain' = [chain EXCEPT !.wallets = wallets]
  BY <1>1, <1>2 DEF Chain, new
<1> HIDE DEF wallets, old
<1>7. /\ chain' \in Chain /\ chain'.wallets = wallets /\ chain'.beats = chain.beats
      /\ chain'.key = chain.key
  BY <1>2, <1>5, <1>6 DEF Chain
<1>8. Later(chain, chain')
  BY <1>2, <1>7, LaterIsLater DEF Later
<1>9. ChainInv'
  BY <1>1, <1>2, <1>7, <1>8, LaterIsLater DEF ChainInv
<1>10. /\ ops' \in [Live!Run -> {"unsent", "sent", "executed", "reverted"}]
       /\ ops'[n] = IF success THEN "executed" ELSE "reverted"
       /\ \A m \in Live!Run : m # n => ops'[m] = ops[m]
  BY <1>1, <1>2 DEF OpsInv
<1>11. OpsInv'
  <2>1. ASSUME NEW m \in Live!Run
        PROVE  /\ m > started => ops'[m] = "unsent"
               /\ ops'[m] # "executed" => chain'.wallets[m].executed = 0
               /\ ops'[m] = "executed" => /\ chain'.wallets[m].deployed
                                          /\ chain'.wallets[m].executed = 1
    <3>1. CASE m = n
      <4>1. ~(n > started)
        BY <1>1, <1>2 DEF OpsInv
      <4> QED
        BY <1>4, <1>5, <1>7, <1>10, <3>1, <4>1
    <3>2. CASE m # n
      BY <1>2, <1>5, <1>7, <1>10, <3>2 DEF OpsInv
    <3> QED
      BY <3>1, <3>2
  <2>2. started \in Nat
    BY <1>2 DEF OpsInv
  <2> QED
    BY <1>1, <1>10, <2>1, <2>2 DEF OpsInv
<1>12. ASSUME run.outcome # "none" PROVE Keeps
  <2>1. \A c \in {0, 1} : Made(c) => Made(c)'
    <3>1. Live!Beat' = Live!Beat
      BY <1>1, <1>7 DEF Live!Beat
    <3> QED
      BY <1>1, <1>7, <3>1 DEF Made
  <2>2. \A k, a, b : Written(k, a, b) => Written(k, a, b)'
    BY <1>1, <2>1 DEF Written
  <2>3. run.n \in Live!Run
    BY <1>2, <1>12 DEF RunInv, Memory
  <2>4. ops[run.n] = "unsent" => ops'[run.n] = "unsent"
    BY <1>1, <1>10, <2>3
  <2>5. ops[run.n] = "executed" => ops'[run.n] = "executed"
    BY <1>1, <1>10, <2>3
  <2> QED
    BY <1>1, <1>7, <2>2, <2>4, <2>5 DEF Keeps, Reached
<1>13. RunInv'
  <2>1. CASE run.outcome = "none"
    BY <1>1, <2>1 DEF RunInv
  <2>2. CASE run.outcome # "none"
    BY <1>1, <1>2, <1>12, <2>2, RunKept
  <2> QED
    BY <2>1, <2>2
<1> QED
  BY <1>9, <1>11, <1>13 DEF LiveInv

\* What others do takes back nothing.
LEMMA DisturbedInv ==
    ASSUME LiveInv,
           Live!Killed \/ Live!RotateElsewhere \/ Live!DeployElsewhere
    PROVE  LiveInv'
<1>0. ChainInv /\ chain \in Chain /\ Later(chain, chain)
  BY LaterIsLater DEF LiveInv, ChainInv
<1>1. CASE Live!Killed
  <2>1. Live!Running /\ Live!Fail /\ UNCHANGED <<chain, replica, ops, started>>
    BY <1>1 DEF Live!Killed, Live!Disturb
  <2> QED
    BY <1>0, <2>1, Standing, FailedStep
<1>2. CASE Live!RotateElsewhere
  <2>1. /\ chain.key["B"] # Live!NoKey
        /\ chain' = [chain EXCEPT !.key["B"] = "app", !.nonce["B"] = @ + 1]
        /\ UNCHANGED <<replica, ops, run, started>>
    BY <1>2 DEF Live!RotateElsewhere, Live!Disturb
  <2> DEFINE key == [chain.key EXCEPT !["B"] = "app"]
             nonce == [chain.nonce EXCEPT !["B"] = @ + 1]
  <2>2. chain.key \in [Live!Account -> Live!Key] /\ chain.nonce \in [Live!Account -> Nat]
    BY <1>0 DEF Chain
  <2>3. /\ key \in [Live!Account -> Live!Key] /\ nonce \in [Live!Account -> Nat]
        /\ \A w \in Live!Account : chain.key[w] # Live!NoKey => key[w] # Live!NoKey
    BY <2>2 DEF Live!Account, Live!Key, Live!NoKey
  <2>4. chain' = [chain EXCEPT !.key = key, !.nonce = nonce]
    BY <1>0, <2>1 DEF Chain
  <2> HIDE DEF key, nonce
  <2>5. /\ chain' \in Chain /\ chain'.key = key /\ chain'.beats = chain.beats
        /\ chain'.wallets = chain.wallets
    BY <1>0, <2>3, <2>4 DEF Chain
  <2>6. Later(chain, chain')
    BY <1>0, <2>3, <2>5 DEF Later
  <2> QED
    BY <2>1, <2>5, <2>6, OthersInv
<1>3. CASE Live!DeployElsewhere
  <2>1. /\ Live!Running /\ chain' = [chain EXCEPT !.wallets[run.n].deployed = TRUE]
        /\ UNCHANGED <<replica, ops, run, started>>
    BY <1>3 DEF Live!DeployElsewhere, Live!Disturb
  <2>2. run.n \in Live!Run
    BY <2>1 DEF LiveInv, RunInv, Live!Running, Memory
  <2> DEFINE n == run.n
             new == [chain.wallets[n] EXCEPT !.deployed = TRUE]
             wallets == [chain.wallets EXCEPT ![n] = new]
  <2>3. chain.wallets \in [Live!Run -> Wallet] /\ chain.wallets[n] \in Wallet
    BY <1>0, <2>2 DEF Chain
  <2>4. /\ new \in Wallet /\ new.deployed /\ new.executed = chain.wallets[n].executed
    <3> DEFINE old == chain.wallets[n]
    <3>1. old \in Wallet /\ new = [old EXCEPT !.deployed = TRUE]
      BY <2>3
    <3> HIDE DEF old, new
    <3>2. new \in Wallet /\ new.deployed /\ new.executed = old.executed
      BY <3>1 DEF Wallet
    <3> QED
      BY <3>2 DEF old
  <2>5. chain' = [chain EXCEPT !.wallets = wallets]
    BY <1>0, <2>1 DEF Chain
  <2> HIDE DEF new
  <2>6. /\ wallets \in [Live!Run -> Wallet] /\ wallets[n] = new
        /\ \A m \in Live!Run : m # n => wallets[m] = chain.wallets[m]
    BY <2>2, <2>3, <2>4
  <2> HIDE DEF wallets, n
  <2>7. /\ chain' \in Chain /\ chain'.key = chain.key /\ chain'.beats = chain.beats
        /\ chain'.wallets = wallets
    BY <1>0, <2>5, <2>6 DEF Chain
  <2>8. Later(chain, chain')
    BY <1>0, <2>7 DEF Later
  <2>9. \A m \in Live!Run : /\ chain'.wallets[m].executed = chain.wallets[m].executed
                            /\ chain.wallets[m].deployed => chain'.wallets[m].deployed
    BY <2>4, <2>6, <2>7
  <2> QED
    BY <2>1, <2>7, <2>8, <2>9, OthersInv
<1> QED
  BY <1>1, <1>2, <1>3

------------------------------------------------------------------------------
LEMMA InitLive ==
    ASSUME Live!LiveAssumption, Live!Init
    PROVE  LiveInv
<1>1. PICK k \in InitialKeys :
          chain = [nonce |-> [w \in Live!Account |-> 0], ether |-> InitialEther,
                   key |-> [w \in Live!Account |-> IF w = "B" THEN k ELSE Live!NoKey],
                   beats |-> <<>>, wallets |-> [n \in Live!Run |-> Live!NoWallet]]
  BY DEF Live!Init
<1> DEFINE nonce == [w \in Live!Account |-> 0]
           key == [w \in Live!Account |-> IF w = "B" THEN k ELSE Live!NoKey]
           wallets == [n \in Live!Run |-> Live!NoWallet]
<1>2. /\ nonce \in [Live!Account -> Nat] /\ wallets \in [Live!Run -> Wallet]
      /\ \A n \in Live!Run : wallets[n].executed = 0
  BY DEF Live!NoWallet, Wallet
<1>3. key \in [Live!Account -> Live!Key]
  BY DEF Live!LiveAssumption, Live!Key, Live!NoKey
<1>4. InitialEther \in [Live!Account -> Int]
  BY DEF Live!LiveAssumption, Live!Account
<1>5. chain = [nonce |-> nonce, ether |-> InitialEther, key |-> key,
               beats |-> <<>>, wallets |-> wallets]
  BY <1>1
<1> HIDE DEF nonce, key, wallets
<1>6. chain \in Chain /\ chain.wallets = wallets
  BY <1>2, <1>3, <1>4, <1>5 DEF Chain
<1>7. /\ replica = chain /\ ops = [n \in Live!Run |-> "unsent"] /\ started = 0
      /\ run = [script |-> "none", outcome |-> "none", calm |-> FALSE]
  BY DEF Live!Init
<1>8. ChainInv
  BY <1>6, <1>7, LaterIsLater DEF ChainInv
<1>9. OpsInv
  BY <1>2, <1>6, <1>7 DEF OpsInv
<1>10. RunInv
  BY <1>7 DEF RunInv
<1> QED
  BY <1>8, <1>9, <1>10 DEF LiveInv

\* Every step keeps the invariant.
LEMMA StepLive ==
    ASSUME Live!LiveAssumption, LiveInv, [Live!Next]_(Live!vars)
    PROVE  LiveInv'
<1>1. CASE Live!ScriptStep
  <2>1. CASE \/ Live!Pause \/ Live!Funded \/ Live!EnsureRegistered
             \/ Live!Encrypt \/ Live!Before \/ Live!After \/ Live!Receipt
    BY <2>1, ReadsInv
  <2>2. CASE Live!Register \/ Live!Rotate
    BY <2>2, RegistryInv
  <2>3. CASE Live!Create
    BY <2>3, CreateInv
  <2>4. CASE Live!CheckIn
    BY <2>4, CheckInInv
  <2>5. CASE Live!Decrypt
    BY <2>5, DecryptInv
  <2>6. CASE Live!Verify
    BY <2>6, VerifyInv
  <2>7. CASE Live!Fund
    BY <2>7, FundInv
  <2>8. CASE Live!SendOp
    BY <2>8, SendOpInv
  <2>9. CASE Live!GetCode
    BY <2>9, GetCodeInv
  <2>10. CASE Live!Finish
    BY <2>10, FinishInv
  <2> QED
    BY <1>1, <2>1, <2>2, <2>3, <2>4, <2>5, <2>6, <2>7, <2>8, <2>9, <2>10
    DEF Live!ScriptStep
<1>2. CASE Live!Start
  BY <1>2, StartInv
<1>3. CASE Live!Sync
  BY <1>3, SyncInv
<1>4. CASE Live!Include
  BY <1>4, IncludeInv
<1>5. CASE Live!Killed \/ Live!RotateElsewhere \/ Live!DeployElsewhere
  BY <1>5, DisturbedInv
<1>6. CASE UNCHANGED Live!vars
  <2>1. UNCHANGED <<chain, replica, ops, run, started>>
    BY <1>6 DEF Live!vars
  <2>2. chain \in Chain /\ Later(chain, chain)
    BY LaterIsLater DEF LiveInv, ChainInv
  <2> QED
    BY <2>1, <2>2, OthersInv
<1> QED
  BY <1>1, <1>2, <1>3, <1>4, <1>5, <1>6 DEF Live!Next

\* At the end of its script the run has reached what it reports.
LEMMA LiveTrue == LiveInv => Live!ReportsAreTrue
<1> SUFFICES ASSUME LiveInv, run.outcome = "ok"
             PROVE  /\ run.script = "RegisterWalletC" => chain.key["C"] # Live!NoKey
                    /\ run.script = "SmartWalletUserOp" =>
                          chain.wallets[run.n].deployed /\ chain.wallets[run.n].executed = 1
                    /\ run.script = "TwoWallets" =>
                          Live!Beat.checkIns = 1 /\ chain.key[Live!Beat.to] # Live!NoKey
                    /\ run.opened => Live!Beat.key = "file"
  BY DEF Live!ReportsAreTrue
<1>1. run \in Memory /\ Reached(Len(Script)) /\ OpsInv /\ run.n \in Live!Run
  BY DEF LiveInv, RunInv, Memory
<1>2. run.script \in {"TwoWallets", "RegisterWalletC", "SmartWalletUserOp"}
  BY <1>1, ScriptIs DEF Memory
<1>3. CASE run.script = "TwoWallets"
  <2>1. Reached(11)
    BY <1>1, <1>3, ScriptIs, WalletsPlaces
  <2> QED
    BY <1>3, <2>1 DEF Reached, Written, Made
<1>4. CASE run.script = "RegisterWalletC"
  <2>1. Reached(3)
    BY <1>1, <1>4, ScriptIs, RegisterPlaces
  <2> QED
    BY <1>4, <2>1 DEF Reached
<1>5. CASE run.script = "SmartWalletUserOp"
  <2>1. Reached(4)
    BY <1>1, <1>5, ScriptIs, UserOpPlaces
  <2>2. ops[run.n] = "executed" /\ ~run.opened
    BY <1>5, <2>1 DEF Reached
  <2> QED
    BY <1>1, <1>5, <2>2 DEF OpsInv
<1> QED
  BY <1>2, <1>3, <1>4, <1>5

\* A script that exits with 0 has done what it reports, whichever node answered
\* each of its calls and however far the replica lagged, for any number of runs
\* of the three scripts and whatever others do meanwhile.
THEOREM ReportsAreTrueAlways ==
    ASSUME Live!LiveAssumption
    PROVE  Live!Spec => []Live!ReportsAreTrue
<1>1. LiveInv /\ [Live!Next]_(Live!vars) => LiveInv'
  BY StepLive
<1>2. LiveInv => Live!ReportsAreTrue
  BY LiveTrue
<1>3. Live!Init => LiveInv
  BY InitLive
<1> QED
  BY <1>1, <1>2, <1>3, PTL DEF Live!Spec
==============================================================================
