\* Two executors, one of them also the deployer and a caller with CORE_ROLE.
\* Nothing is left to do once the clock is at its bound, every role has been
\* renounced and all MKTB has been given to the contract.
CHECK_DEADLOCK FALSE
SPECIFICATION Spec
CONSTANTS
    Executors = {ann, ben}
    Timelock = timelock
    Deployer = ann
    Self = rewards
    Core = {core}
    NoCore = NoCore
    Account <- MCAccount
    Grantees <- MCGrantees
    InitialBalance <- MCInitialBalance
    Pool = 1
    TOTAL_REWARD_POOL = 2
    HALVING_PERIOD = 1
    TOTAL_PERIODS = 2
    MIN_HEARTBEAT_AGE = 1
    MIN_CHECKINS_FOR_REWARD = 1
    InitialMinimumStake = 1
    InitialReward = 2
    Amounts = {1, 2}
    MaxNow = 2
INVARIANTS
    TypeOK
    StakeBacked
    StakesWithdrawable
    RewardsAccounted
PROPERTIES
    StakeLeavesLawfully
    ActivityFollowsStake
