\* Two heartbeats, two pending transactions, one loss of them and one restart; a
\* node with a start block and one without, whose window is shorter than the log.
SPECIFICATION Spec
CONSTANTS
    Id = {h1, h2}
    Interval = {1, 2}
    StartBlocks = {0, 1}
    ScanWindow = 2
    MaxBlocks = 3
    MaxTime = 3
    OwnersActUntil = 3
    MaxPending = 2
    MaxDrops = 1
    MaxRestarts = 1
INVARIANTS
    WatchlistExact
    CheckInsSeen
    StaleCacheIsEarly
    CountedAreDelivered
