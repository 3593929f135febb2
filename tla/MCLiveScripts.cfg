\* Two runs of any scripts, so that the second finds what the first has left.
\* Once the runs are over nothing is left to do.
CHECK_DEADLOCK FALSE
SPECIFICATION Spec
CONSTANTS
    InitialEther <- MCInitialEther
    InitialKeys = {"none", "random", "file"}
    MaxRuns = 2
    MaxMoves = 2
INVARIANTS
    ReportsAreTrue
PROPERTIES
    PausesCoverLag
