\* A stopped run, one appended byte, the same command again.
CONSTANTS
    Gzip = TRUE
    Newlines <- MCNewlines
    InitSizes <- MCInitSizes
    Keeps = {1}
    MaxSize = 6
    MaxRuns = 2
    MaxMishaps = 0
SPECIFICATION Spec
INVARIANTS
    ResumeAccepted
\* The system stops when no run is left and the log has its final size.
CHECK_DEADLOCK FALSE
