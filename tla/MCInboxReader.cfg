\* Two beats of one owner, so that a callback of one creation can touch the
\* other beat and a reverted creation must restore it, while the owner, who
\* may be a recipient of both, reads its lists a page of one entry at a time.
\* The behaviour ends with the listing.  Executors and the grace are left to
\* MCMaktubCore: here anybody executes a beat as soon as it has expired.
CHECK_DEADLOCK FALSE
SPECIFICATION ReaderSpec
CONSTANTS
    Address = {alice, bob}
    Creator = {alice}
    Salt = {s1, s2}
    Registrant = {alice, bob}
    Staker = {}
    NoAddress = NoAddress
    MIN_INTERVAL = 1
    MAX_INTERVAL = 1
    EXECUTION_GRACE = 0
    MAX_RECIPIENTS = 1
    MAX_PAYLOAD_BYTES = 1
    baseFee = 2
    perAdditionalFee = 1
    MaxValue = 3
    MaxCheckIns = 1
    OwnersActUntil = 1
    MaxTime = 2
    Reader = alice
    PageSize = 1
INVARIANTS
    OwnerIndexExact
    InboxFeeMetered
    PagedListComplete
