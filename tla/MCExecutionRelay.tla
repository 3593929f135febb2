--------------------------- MODULE MCExecutionRelay ---------------------------
EXTENDS ExecutionRelay

CONSTANTS Pool

\* The operator and the relay have one token each, the contract has the pool.
MCInitialBalance ==
    [h \in Address \cup {Self} |->
        IF h = Self THEN Pool ELSE IF h \in Staker \cup {Relay} THEN 1 ELSE 0]
==============================================================================
