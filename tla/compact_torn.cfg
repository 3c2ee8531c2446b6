\* A run killed inside an append, then resumed: the members appended after
\* the one cut short are out of reach of a gzip reader, and are punched.
CONSTANTS
    Gzip = TRUE
    Newlines <- MCNewlines
    InitSizes <- MCInitSizes
    Keeps = {1}
    MaxSize = 5
    MaxRuns = 2
    MaxMishaps = 1
SPECIFICATION Spec
INVARIANTS
    PunchedReadable
\* The system stops when no run is left and the log has its final size.
CHECK_DEADLOCK FALSE
