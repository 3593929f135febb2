\* One beat, two operators, one relay, and all of governance.
\* Nothing is left to do once the clock is at its bound, the owner is silent,
\* every role has been renounced and no MKTB is left to stake.
CHECK_DEADLOCK FALSE
SPECIFICATION FairSpec
CONSTANTS
    Address = {alice, op1, op2, relay, gov}
    Creator = {alice}
    Salt = {s1}
    Registrant = {alice}
    Staker = {op1, op2}
    NoAddress = NoAddress
    MIN_INTERVAL = 1
    MAX_INTERVAL = 1
    EXECUTION_GRACE = 1
    MAX_RECIPIENTS = 1
    MAX_PAYLOAD_BYTES = 1
    baseFee = 1
    perAdditionalFee = 1
    MaxValue = 1
    MaxCheckIns = 1
    OwnersActUntil = 1
    MaxTime = 5
    Self = rewards
    Timelock = gov
    Deployer = alice
    ThisCore = core
    NoCore = NoCore
    TOTAL_REWARD_POOL = 3
    HALVING_PERIOD = 5
    TOTAL_PERIODS = 1
    MIN_HEARTBEAT_AGE = 3
    MIN_CHECKINS_FOR_REWARD = 1
    InitialMinimumStake = 1
    InitialReward = 1
    InitialBalance <- MCInitialBalance
    Amounts = {1}
    Pool = 2
    Relay = relay
    admin = alice
INVARIANTS
    OneRewardPerDelivery
PROPERTIES
    PaidOnlyForEligibleDelivery
    RelayIsNoGateway
    RewardsNeverBlockDelivery
