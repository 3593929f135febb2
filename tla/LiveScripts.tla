------------------------------ MODULE LiveScripts -----------------------------
(***************************************************************************)
(* The acceptance scripts that transact on the live chain                  *)
(* (scripts/two-wallet-test.js, register-wallet-c.js and                   *)
(* test-smart-wallet-userop.js), the contracts they touch, the bundler,    *)
(* and a load-balanced RPC: a read is answered by a node at the head or by *)
(* a replica that may lag, and so are the nonce and the gas estimate that  *)
(* precede a transaction.  The scripts sleep after most of their           *)
(* transactions, or retry, so that the replica may catch up.               *)
(*                                                                         *)
(* A run has the steps still to do; a step that finds something missing    *)
(* puts what supplies it in front.  A run is calm if no call fails, nobody *)
(* else acts, its accounts can pay, and no lag outlasts a pause.           *)
(***************************************************************************)
EXTENDS Integers, Sequences

CONSTANTS
    InitialEther,       \* the creation fees, or prefunds, each account can pay
    InitialKeys,        \* the keys wallet B may be registered with
    MaxRuns,            \* bound on the runs of all scripts together
    MaxMoves            \* bound on what others do

ASSUME LiveAssumption ==
    /\ InitialEther \in [{"A", "B", "C", "deployer"} -> Nat]
    /\ InitialKeys \subseteq {"none", "random", "file"}
    /\ MaxRuns \in Nat /\ MaxMoves \in Nat

VARIABLES
    chain,              \* the head
    replica,            \* an earlier head
    ops,                \* what has become of the user operation of each run
    run,                \* the script that runs or was the last to run
    started, moves

vars == <<chain, replica, ops, run, started, moves>>

Account == {"A", "B", "C", "deployer"}
NoKey == "none"
Key == {NoKey, "random", "file", "app"}     \* file: the one saved in .maktub-keys
Run == 1..MaxRuns

\* The smart wallet of a run: its passkey is fresh and lives in memory.
NoWallet == [ether |-> 0, deployed |-> FALSE, executed |-> 0]
Prefund == 2

Init ==
    /\ \E k \in InitialKeys :
          chain = [nonce |-> [w \in Account |-> 0], ether |-> InitialEther,
                   key |-> [w \in Account |-> IF w = "B" THEN k ELSE NoKey],
                   beats |-> <<>>, wallets |-> [n \in Run |-> NoWallet]]
    /\ replica = chain
    /\ ops = [n \in Run |-> "unsent"]
    /\ run = [script |-> "none", outcome |-> "none", calm |-> FALSE]
    /\ started = 0 /\ moves = 0

-------------------------------------------------------------------------------
(***************************************************************************)
(* The scripts: <<step, its arguments>>                                    *)
(***************************************************************************)
TwoWallets ==
    << <<"funded", "A">>, <<"funded", "B">>, <<"ensureRegistered", "B", "file">>,
       <<"encrypt", "B">>, <<"create", "A", "B">>, <<"pause">>, <<"before">>, <<"pause">>,
       <<"checkIn", "A">>, <<"after">>, <<"decrypt">> >>

RegisterWalletC ==
    << <<"funded", "C">>, <<"ensureRegistered", "C", "random">>, <<"verify", "C">> >>

SmartWalletUserOp ==
    << <<"fund">>, <<"sendOp">>, <<"receipt">>, <<"getCode">> >>

Scripts == [TwoWallets |-> TwoWallets, RegisterWalletC |-> RegisterWalletC,
            SmartWalletUserOp |-> SmartWalletUserOp]

\* Mutant of RegisterThen: the two-wallet test goes on at once.
RegisterThenHurry(w, key) == << <<"register", w, key>> >>

\* Wallet C's script retries its reading instead of sleeping.
RegisterThen(w, key) ==
    << <<"register", w, key>> >> \o IF w = "C" THEN <<>> ELSE << <<"pause">> >>

\* Only the two-wallet test looks at the key it finds, and rotates another.
RotateThen(w, key) == << <<"rotate", w, key>>, <<"pause">> >>

-------------------------------------------------------------------------------
(***************************************************************************)
(* Steps                                                                   *)
(***************************************************************************)
Running == run.outcome = "running"
Included(n) == ops[n] \in {"executed", "reverted"}
Doing(step) == Running /\ run.todo # <<>> /\ Head(run.todo)[1] = step
Arg(i) == Head(run.todo)[i]

\* What an RPC node may answer from.
Views == {chain, replica}

\* The run goes on with what it remembers, after the steps it found missing.
Continue(steps, memory) == run' = [memory EXCEPT !.todo = steps \o Tail(@), !.tries = 0]
GoOn == Continue(<<>>, run)
Fail == run' = [run EXCEPT !.outcome = "failed"]
ReadsOnly == UNCHANGED <<chain, replica, ops, started, moves>>

\* A transaction of w: a node answers with the nonce and the estimate, and it is
\* mined at the head, where it may revert.
Transact(w, Allowed(_), Change(_), memory) ==
    /\ \E v \in Views :
          IF v.nonce[w] = chain.nonce[w] /\ Allowed(v)
          THEN LET mined == IF Allowed(chain) THEN Change(chain) ELSE chain
               IN  /\ chain' = [mined EXCEPT !.nonce[w] = @ + 1]
                   /\ IF Allowed(chain) THEN Continue(<<>>, memory) ELSE Fail
          ELSE Fail /\ UNCHANGED chain
    /\ UNCHANGED <<replica, ops, started, moves>>

\* The replica catches up; within a pause it does so if the run is calm.
Pause ==
    /\ Doing("pause")
    /\ replica' \in IF run.calm THEN {chain} ELSE Views
    /\ GoOn
    /\ UNCHANGED <<chain, ops, started, moves>>

\* The balance checks abort before any transaction.
Funded ==
    /\ Doing("funded")
    /\ \E v \in Views : IF v.ether[Arg(2)] > 0 THEN GoOn ELSE Fail
    /\ ReadsOnly

EnsureRegistered ==
    /\ Doing("ensureRegistered")
    /\ \E v \in Views :
          LET w == Arg(2) key == Arg(3)
              rotates == w = "B" /\ v.key[w] # key
          IN  Continue(IF v.key[w] = NoKey THEN RegisterThen(w, key)
                       ELSE IF rotates THEN RotateThen(w, key) ELSE <<>>, run)
    /\ ReadsOnly

\* RecipientRegistry.register and updatePrePublicKey
Register ==
    LET w == Arg(2)
        Unregistered(c) == c.key[w] = NoKey
        Keyed(c) == [c EXCEPT !.key[w] = Arg(3)]
    IN  Doing("register") /\ Transact(w, Unregistered, Keyed, run)

Rotate ==
    LET w == Arg(2)
        IsRegistered(c) == c.key[w] # NoKey
        Keyed(c) == [c EXCEPT !.key[w] = Arg(3)]
    IN  Doing("rotate") /\ Transact(w, IsRegistered, Keyed, run)

\* Nobody can encrypt to an account without a key, or with a random one.
Encrypt ==
    /\ Doing("encrypt")
    /\ \E v \in Views :
          IF v.key[Arg(2)] \in {NoKey, "random"} THEN Fail
          ELSE Continue(<<>>, [run EXCEPT !.key = v.key[Arg(2)]])
    /\ ReadsOnly

\* The identifier comes from the receipt.
Create ==
    LET w == Arg(2)
        Accepted(c) == c.key[Arg(3)] # NoKey /\ c.ether[w] > 0
        Created(c) ==
            [c EXCEPT !.ether[w] = @ - 1,
                      !.beats = Append(@, [owner |-> w, to |-> Arg(3), key |-> run.key,
                                           checkIns |-> 0])]
    IN  Doing("create") /\ Transact(w, Accepted, Created, [run EXCEPT !.id = Len(chain.beats) + 1])

\* A read of a beat that the node does not know reverts.
ReadsBeat(v, memory) == IF run.id \in DOMAIN v.beats THEN Continue(<<>>, memory) ELSE Fail
CheckIns(v) == IF run.id \in DOMAIN v.beats THEN v.beats[run.id].checkIns ELSE 0

Before ==
    /\ Doing("before")
    /\ \E v \in Views : ReadsBeat(v, [run EXCEPT !.checkIns = CheckIns(v)])
    /\ ReadsOnly

CheckIn ==
    LET Exists(c) == run.id \in DOMAIN c.beats /\ c.beats[run.id].owner = Arg(2)
        Counted(c) == [c EXCEPT !.beats[run.id].checkIns = @ + 1]
    IN  Doing("checkIn") /\ Transact(Arg(2), Exists, Counted, run)

\* Read at once, and reported whatever it is; nothing fails on it.
After ==
    /\ Doing("after")
    /\ \E v \in Views : ReadsBeat(v, [run EXCEPT !.counted = (CheckIns(v) = run.checkIns + 1)])
    /\ ReadsOnly

\* Wallet B opens the payload with the key it has saved; nothing fails on it.
Decrypt ==
    /\ Doing("decrypt")
    /\ \E v \in Views :
          ReadsBeat(v, [run EXCEPT !.opened =
              run.id \in DOMAIN v.beats /\ v.beats[run.id].key = "file"])
    /\ ReadsOnly

\* Six readings, three seconds apart.
Verify ==
    /\ Doing("verify")
    /\ \E v \in Views :
          \/ v.key[Arg(2)] # NoKey /\ GoOn /\ UNCHANGED replica
          \/ /\ v.key[Arg(2)] = NoKey
             /\ run' = IF run.tries < 5 THEN [run EXCEPT !.tries = @ + 1]
                       ELSE [run EXCEPT !.outcome = "failed"]
             /\ replica' \in IF run.calm THEN {chain} ELSE Views
    /\ UNCHANGED <<chain, ops, started, moves>>

\* After the estimate, the prefund goes to an address nothing is deployed at.
Fund ==
    LET Solvent(c) == c.ether["deployer"] > 0
        Prefunded(c) == [c EXCEPT !.ether["deployer"] = @ - 1, !.wallets[run.n].ether = Prefund]
    IN  Doing("fund") /\ Transact("deployer", Solvent, Prefunded, run)

\* The bundler simulates on a node of its own: AA21 if the prefund is not there,
\* tried five times, four seconds apart; AA10 if the wallet is deployed.
SendOp ==
    /\ Doing("sendOp")
    /\ \E v \in Views :
          LET wallet == v.wallets[run.n]
          IN  \/ /\ wallet.ether > 0 /\ ~wallet.deployed
                 /\ ops' = [ops EXCEPT ![run.n] = "sent"]
                 /\ GoOn /\ UNCHANGED replica
              \/ /\ wallet.ether = 0 /\ ~wallet.deployed /\ run.tries < 4
                 /\ run' = [run EXCEPT !.tries = @ + 1]
                 /\ replica' \in IF run.calm THEN {chain} ELSE Views
                 /\ UNCHANGED ops
              \/ /\ wallet.deployed \/ (wallet.ether = 0 /\ run.tries = 4)
                 /\ Fail /\ UNCHANGED <<ops, replica>>
    /\ UNCHANGED <<chain, started, moves>>

\* Thirty questions in a minute, and an operation may be included after it.
Receipt ==
    /\ Doing("receipt")
    /\ \/ Included(run.n) /\ GoOn
       \/ ~Included(run.n) /\ ~run.calm /\ Fail
    /\ ReadsOnly

\* Mutant of GetCode: an operation that reverted is not told from one that did not.
GetCodeOnly ==
    /\ Doing("getCode")
    /\ \E v \in Views : IF v.wallets[run.n].deployed THEN GoOn ELSE Fail
    /\ ReadsOnly

\* At once, from a node that may not have the block of the receipt.  The success
\* of the receipt is the fate of the operation, and that is final.
GetCode ==
    /\ Doing("getCode")
    /\ \E v \in Views :
          IF ops[run.n] = "executed" /\ v.wallets[run.n].deployed THEN GoOn ELSE Fail
    /\ ReadsOnly

Finish ==
    /\ Running /\ run.todo = <<>>
    /\ run' = [run EXCEPT !.outcome = "ok"]
    /\ ReadsOnly

-------------------------------------------------------------------------------
(***************************************************************************)
(* Who else acts                                                           *)
(***************************************************************************)
\* What a calm run of a script has to have.
Payers == [TwoWallets |-> {"A", "B"}, RegisterWalletC |-> {"C"},
           SmartWalletUserOp |-> {"deployer"}]
CanPay(s) == \A w \in Payers[s] : chain.ether[w] > 0

\* The operator, once the replica has caught up with the last run.
Start ==
    /\ ~Running /\ started < MaxRuns /\ replica = chain
    /\ started' = started + 1
    /\ \E s \in DOMAIN Scripts, calm \in BOOLEAN :
          /\ calm => CanPay(s)
          /\ run' = [script |-> s, outcome |-> "running", calm |-> calm, todo |-> Scripts[s],
                     n |-> started + 1, id |-> 0, key |-> NoKey, tries |-> 0,
                     checkIns |-> 0, counted |-> FALSE, opened |-> FALSE]
    /\ UNCHANGED <<chain, replica, ops, moves>>

Sync ==
    /\ replica' = chain
    /\ UNCHANGED <<chain, ops, run, started, moves>>

\* The EntryPoint takes an operation once, by its nonce: it deploys the wallet,
\* takes the prefund, and has the wallet send one wei on.  If that call reverts
\* or runs out of gas, the operation is included all the same.
Include ==
    \E n \in Run, success \in BOOLEAN :
        /\ ops[n] = "sent" /\ ~chain.wallets[n].deployed
        /\ ops' = [ops EXCEPT ![n] = IF success THEN "executed" ELSE "reverted"]
        /\ chain' = [chain EXCEPT !.wallets[n] =
              [ether |-> @.ether - 1, deployed |-> TRUE,
               executed |-> IF success THEN @.executed + 1 ELSE @.executed]]
        /\ UNCHANGED <<replica, run, started, moves>>

Disturb(A) ==
    /\ moves < MaxMoves /\ moves' = moves + 1
    /\ Running /\ ~run.calm
    /\ A
    /\ UNCHANGED <<replica, started>>

\* A call fails or the script is killed, after it has sent what it sent.
Killed == Disturb(Fail /\ UNCHANGED <<chain, ops>>)

\* Wallet B takes the key of the app, which no script knows.
RotateElsewhere ==
    Disturb(/\ chain.key["B"] # NoKey
            /\ chain' = [chain EXCEPT !.key["B"] = "app", !.nonce["B"] = @ + 1]
            /\ UNCHANGED <<ops, run>>)

\* Anyone may call createAccount, and the operation can then not be included.
DeployElsewhere ==
    Disturb(/\ run.script = "SmartWalletUserOp" /\ ~chain.wallets[run.n].deployed
            /\ chain' = [chain EXCEPT !.wallets[run.n].deployed = TRUE]
            /\ UNCHANGED <<ops, run>>)

ScriptStep ==
    \/ Pause \/ Funded \/ EnsureRegistered \/ Register \/ Rotate
    \/ Encrypt \/ Create \/ Before \/ CheckIn \/ After \/ Decrypt
    \/ Verify \/ Fund \/ SendOp \/ Receipt \/ GetCode \/ Finish

Next ==
    \/ ScriptStep \/ Start \/ Sync \/ Include
    \/ Killed \/ RotateElsewhere \/ DeployElsewhere

\* Awaits return, and the bundler includes what it has accepted.
Spec == Init /\ [][Next]_vars /\ WF_vars(ScriptStep) /\ WF_vars(Include)

-------------------------------------------------------------------------------
(***************************************************************************)
(* Properties                                                              *)
(***************************************************************************)
\* What a script that exits with 0 has reported is on the chain, whatever nodes
\* have answered it: wallet C is registered; the beat was created for a
\* recipient who is registered and checked in exactly once, and B's saved key
\* opens the payload if the script says so; and the user operation was
\* executed, once, by a wallet that is deployed, although an operation may be
\* included, deploy the wallet and still revert
\* (test-smart-wallet-userop.js:9-12, 178-185).
Beat == chain.beats[run.id]
ReportsAreTrue ==
    run.outcome = "ok" =>
        /\ run.script = "RegisterWalletC" => chain.key["C"] # NoKey
        /\ run.script = "SmartWalletUserOp" =>
              chain.wallets[run.n].deployed /\ chain.wallets[run.n].executed = 1
        /\ run.script = "TwoWallets" => Beat.checkIns = 1 /\ chain.key[Beat.to] # NoKey
        /\ run.opened => Beat.key = "file"

\* A calm run is not failed by the replica: the scripts' pauses and retries
\* cover every lag that is no longer than they are.  The user operation's script
\* gets as far as its receipt; then it may find that the operation reverted, or
\* read the code too early, from a node that has not the block of the receipt
\* (register-wallet-c.js:147-148, test-smart-wallet-userop.js:157-158, 182).
PausesCoverLag ==
    Running /\ run.calm ~>
        \/ run.outcome = "ok"
        \/ run.script = "SmartWalletUserOp" /\ Included(run.n)
===============================================================================
