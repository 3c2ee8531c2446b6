\* One force-unlock that overlaps an Acquire.
CONSTANTS
    Procs = {p1, p2, p3}
    Unlockers = {u1}
    Inodes = {f1, f2, f3}
    Foreign = {}
    NoFile = NoFile
    NoPid = NoPid
SPECIFICATION Spec
INVARIANTS
    MutualExclusion
\* Every process and every force-unlock ends.
CHECK_DEADLOCK FALSE
