\* Owners fall silent early enough for the longest cached timer to run out.
SPECIFICATION FairSpec
CONSTANTS
    Id = {h1}
    Interval = {1, 2}
    StartBlocks = {0}
    ScanWindow = 2
    MaxBlocks = 3
    MaxTime = 5
    OwnersActUntil = 2
    MaxPending = 2
    MaxDrops = 0
    MaxRestarts = 0
PROPERTIES
    WatchedIsDelivered
