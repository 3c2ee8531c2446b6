\* Three chunks; the timeout is four units of time.
CONSTANTS
    Chunks = 3
    Half = 2
    MaxAge = 7
SPECIFICATION Spec
INVARIANTS
    TypeOK
    HangNoticed
    EmergencyConsistent
    StopsSoon
\* A run ends.
CHECK_DEADLOCK FALSE
