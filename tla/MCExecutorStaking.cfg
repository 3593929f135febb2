\* Governance, the funder and the operator act three times, two calls fail or lives end.
\* A node that runs with nothing to restake and nobody acting has nothing to do.
CHECK_DEADLOCK FALSE
SPECIFICATION FairSpec
CONSTANTS
    bot = bot
    Funder = funder
    Timelock = timelock
    Self = rewards
    NoCore = NoCore
    InitialMinimumStake = 1
    InitialBalance <- MCInitialBalance
    Amounts = {1, 2}
    Environments <- MCEnvironments
    MaxMoves = 3
    MaxFaults = 2
INVARIANTS
    StakeIsCovered
PROPERTIES
    FundedNodeStarts
