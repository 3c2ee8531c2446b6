\* A verification, or a last chunk, that takes longer than the timeout.
CONSTANTS
    Chunks = 3
    Half = 2
    MaxAge = 7
SPECIFICATION Spec
INVARIANTS
    TimeoutIsFailure
\* A run ends.
CHECK_DEADLOCK FALSE
