\* Plain output: what was punched can be read back after any two mishaps.
CONSTANTS
    Gzip = FALSE
    Newlines <- MCNewlines
    InitSizes <- MCInitSizes
    Keeps = {0, 1}
    MaxSize = 4
    MaxRuns = 2
    MaxMishaps = 2
SPECIFICATION FairSpec
INVARIANTS
    IInv
    PunchedReadable
PROPERTIES
    Preserves
    RunEnds
\* The system stops when no run is left and the log has its final size.
CHECK_DEADLOCK FALSE
