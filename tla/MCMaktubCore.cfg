\* One beat, its creator and a bystander.  Both may be recipients, the
\* bystander may be an active executor, and a check-in, an edit of either
\* kind and a reverted creation all fit before the owner falls silent, and the
\* longest interval and the grace run out after its last act.
SPECIFICATION FairSpec
CONSTANTS
    Address = {alice, bob}
    Creator = {alice}
    Salt = {s1}
    Registrant = {alice, bob}
    Staker = {bob}
    NoAddress = NoAddress
    MIN_INTERVAL = 1
    MAX_INTERVAL = 2
    EXECUTION_GRACE = 1
    MAX_RECIPIENTS = 2
    MAX_PAYLOAD_BYTES = 1
    baseFee = 2
    perAdditionalFee = 1
    MaxValue = 4
    MaxCheckIns = 2
    OwnersActUntil = 3
    MaxTime = 7
INVARIANTS
    TypeOK
    RecipientIndexSound
    NoEtherRetained
    DeliveredOverdue
PROPERTIES
    ImplementsDeadManSwitch
    SilenceDelivers
