\* Appended gzip members, one or two kept bytes, two mishaps over three runs.
CONSTANTS
    Gzip = TRUE
    Newlines <- MCNewlines
    InitSizes <- MCInitSizes
    Keeps = {1, 2}
    MaxSize = 6
    MaxRuns = 3
    MaxMishaps = 2
SPECIFICATION Spec
INVARIANTS
    NoLoss
    StateTruthful
    EmergencyTruthful
    CutAtLineEnd
    ExactCopy
    VerifiedReadable
    StopAtBoundary
    CompletedReleases
    HolesAtTheStart
PROPERTIES
    TailKept
    RunsAdvance
\* The system stops when no run is left and the log has its final size.
CHECK_DEADLOCK FALSE
