--------------------------- MODULE MCExecutorRewards ---------------------------
EXTENDS ExecutorRewards

CONSTANTS Executors, Pool

\* The contract starts with Pool, which may be less than the whole reward pool
\* (the deployment transfers it afterwards), and the executors with one token
\* each.
MCInitialBalance ==
    [h \in Executors \cup {Timelock, Self} |->
        IF h = Self THEN Pool
        ELSE IF h \in Executors THEN 1
        ELSE 0]

MCAccount == Executors \cup {Timelock}

\* The deployment grants CORE_ROLE and nothing else.
MCGrantees == [ADMIN |-> {}, GOVERNANCE |-> {}, CORE |-> {Deployer}]
==============================================================================
