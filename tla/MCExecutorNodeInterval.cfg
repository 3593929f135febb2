\* The owner shortens an interval.
SPECIFICATION Spec
CONSTANTS
    Id = {h1}
    Interval = {1, 2}
    StartBlocks = {0}
    ScanWindow = 2
    MaxBlocks = 3
    MaxTime = 4
    OwnersActUntil = 4
    MaxPending = 1
    MaxDrops = 0
    MaxRestarts = 0
INVARIANTS
    OverdueIsSeen
