\* Fresh runs over logs of any mixture of data, with one spike of another program.
CONSTANTS
    Total <- MCTotal
    Frees <- MCFrees
    Percents = {20, 30, 80}
    Ratios = {1, 50, 115}
    Loads <- MCLoads
    Memories <- MCMemories
    Resumes = {FALSE}
    Tails <- MCTails
    MaxLine = 1024
    Spikes <- MCSpikes
    MaxSpikes = 1
    StopAbove = 5800000
    ChunkTimeout = 300000
SPECIFICATION Spec
INVARIANTS
    TypeOK
    WithinBudget
    FitsOnDisk
    FewChunks
    PauseIsNoHang
\* A run ends.
CHECK_DEADLOCK FALSE
