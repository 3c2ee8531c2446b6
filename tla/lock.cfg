\* Three processes, one of another user, and two force-unlocks.
CONSTANTS
    Procs = {p1, p2, p3}
    Unlockers = {u1, u2}
    Inodes = {f1, f2, f3}
    Foreign = {p1}
    NoFile = NoFile
    NoPid = NoPid
SPECIFICATION Spec
INVARIANTS
    TypeOK
    ExclusiveUnlessRemoved
    RunningJobKept
    RunnersCounted
PROPERTIES
    RefusedOnlyByLive
\* Every process and every force-unlock ends.
CHECK_DEADLOCK FALSE
