\* Any three deployments: a stack over another with a rotation, a relay or a flash,
\* two of these in one stack, or a relay and a flash, of which files are generated.
\* Each script is stopped anywhere.  The state where the bound is used up is an end.
CHECK_DEADLOCK FALSE
SPECIFICATION Spec
CONSTANTS
    MAX_SUPPLY = 100
    Minimums = {10, 20}
    Network = {"baseSepolia", "devnet", "devnet31337"}
    MaxStacks = 2
    MaxGovernors = 3
    MaxRelays = 2
    MaxFlashes = 2
    MaxDeployments = 3
INVARIANTS
    TypeOK
    ReportedStackIsComplete
    TimelockAlwaysGoverned
    RecordedRelayReady
    FlashReadsItsRegistry
