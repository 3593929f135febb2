---------------------------- MODULE MCLiveScripts -----------------------------
EXTENDS LiveScripts

\* Wallet A can pay for one beat, the deployer for two prefunds.
MCInitialEther == [w \in Account |-> IF w = "deployer" THEN 2 ELSE 1]
===============================================================================
