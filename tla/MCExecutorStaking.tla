-------------------------- MODULE MCExecutorStaking ---------------------------
EXTENDS ExecutorStaking

\* The node can pay for the higher minimum and no more; one token more may come.
MCInitialBalance == [h \in {bot, Funder, Timelock, Self} |->
    IF h = bot THEN 2 ELSE IF h = Funder THEN 1 ELSE 0]

\* An environment that differs from the defaults and restakes, and those that
\* differ in one thing that keeps the node from running.
Default == [network |-> "baseSepolia", rpcChainId |-> 84532,
            key |-> [given |-> TRUE, digits |-> 64],
            poll |-> [text |-> "nothing", halfMs |-> 0],
            autoStake |-> "", autoRestake |-> ""]
MCEnvironments ==
    { [Default EXCEPT !.network = "localhost", !.rpcChainId = 31337,
                      !.poll.text = "words", !.autoStake = "TRUE", !.autoRestake = "1"],
      [Default EXCEPT !.autoStake = "yes"],
      [Default EXCEPT !.poll = [text |-> "number", halfMs |-> 0]],
      [Default EXCEPT !.rpcChainId = 8453],
      [Default EXCEPT !.network = "base", !.rpcChainId = 8453],
      [Default EXCEPT !.network = "sepolia"],
      [Default EXCEPT !.key.given = FALSE],
      [Default EXCEPT !.key.digits = 63] }
===============================================================================
