\* Runs that resume behind holes.
CONSTANTS
    Total <- MCTotal
    Frees <- MCFrees
    Percents = {20, 30, 80}
    Ratios = {1, 50, 115}
    Loads <- MCLoads
    Memories <- MCMemories
    Resumes = {TRUE}
    Tails <- MCTails
    MaxLine = 1024
    Spikes <- MCSpikes
    MaxSpikes = 1
    StopAbove = 5800000
    ChunkTimeout = 300000
SPECIFICATION Spec
INVARIANTS
    WithinBudget
\* A run ends.
CHECK_DEADLOCK FALSE
