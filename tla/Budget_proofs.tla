---------------------------- MODULE Budget_proofs ---------------------------
(***************************************************************************)
(* Proofs about Budget for a log of any size and any compressibility, any  *)
(* free space, and any behaviour of the other programs.                    *)
(***************************************************************************)
EXTENDS Budget, TLAPS

\* The settings come from one row of the auto-throttle's table.
Row(p) ==
    /\ maxChunk = MaxChunkBytes(p)
    /\ rate = RateLimitBytes(p)
    /\ sleep = SleepBetweenChunks(p)
SettingsInv ==
    pc \in {"choose", "append", "punch", "pace"} => \E p \in Pressures : Row(p)

\* The pressure the free space causes alone, on an idle machine.
DiskPressure(f) ==
    IF f < 512 * MiB THEN 3 ELSE IF f < 2 * GiB THEN 2 ELSE IF f < 5 * GiB THEN 1 ELSE 0

\* Once the loop has looked, and unless others took space since, there is at
\* least what it saw, and the largest chunk suits what there is now.
SpaceInv ==
    /\ pc \in {"throttle", "choose", "append"} /\ taken = 0 => looked <= free
    /\ pc \in {"choose", "append"} /\ taken = 0 =>
            maxChunk <= MaxChunkBytes(DiskPressure(free))

\* A chunk is begun only where the smallest one is safe, and is not larger than
\* the largest.
ChunkInv ==
    /\ pc = "append" => /\ SafeOutputLimit(looked) >= 8 * MiB
                        /\ chunk <= maxChunk
                        /\ left > 0 /\ (chunk = left \/ MinChunk <= chunk)
    /\ pc \in {"punch", "pace"} => raw <= maxChunk + MaxLine
    /\ pc = "punch" => /\ left > tail /\ raw <= left - tail
                       /\ raw = left - tail \/ MinChunk <= raw

\* All chunks but the one that reaches the last line have the smallest size or more.
CountInv ==
    /\ tail <= left
    /\ left > tail => chunks * MinChunk <= Total - left
    /\ (chunks - 1) * MinChunk <= Total - left

EndInv == outcome # "none" => pc = "done"

BInv == TypeOK /\ SettingsInv /\ SpaceInv /\ ChunkInv /\ CountInv /\ EndInv

-----------------------------------------------------------------------------
\* Arithmetic

\* A product grows with its second factor.
LEMMA ProductMonotone ==
    ASSUME NEW a \in Nat, NEW b \in Nat, NEW c \in Nat, b <= c
    PROVE  a * b \in Nat /\ a * b <= a * c
  <1>1. a * b \in Nat /\ a * c \in Nat
    OBVIOUS
  <1>2. a * c = a * b + a * (c - b)
    OBVIOUS
  <1>3. a * (c - b) \in Nat
    OBVIOUS
  <1> QED BY <1>1, <1>2, <1>3

\* The smallest chunk fits at 30 percent only from this much free space on.
LEMMA EnoughSpace ==
    ASSUME NEW f \in Nat, percent \in 1..30, SafeOutputLimit(f) >= 8 * MiB
    PROVE  f >= 39000
  <1>1. f * percent <= f * 30
    BY ProductMonotone
  <1>2. f * percent \in Nat
    BY ProductMonotone
  <1>3. (f * percent) \div 100 <= (f * 30) \div 100
    BY <1>1, <1>2
  <1> QED BY <1>1, <1>2, <1>3 DEF SafeOutputLimit, WorkingBudget, MiB

\* What a chunk adds to the output at any ratio.
LEMMA OutputBound ==
    ASSUME NEW n \in Nat, NEW m \in Nat, NEW r \in 0..115, n <= m
    PROVE  (n * r + 99) \div 100 \in Nat /\ (n * r + 99) \div 100 <= (m * 115 + 99) \div 100
  <1>1. n * r \in Nat /\ n * r <= n * 115
    BY ProductMonotone
  <1> QED BY <1>1

\* The size of a chunk lies between the smallest chunk and the largest.
LEMMA ChunkSize ==
    ASSUME NEW f \in Nat, NEW at \in 3..115, NEW limit \in Nat, percent \in 1..80,
           MinChunk <= limit
    PROVE  /\ ChooseChunkSize(f, at, limit) \in Nat
           /\ ChooseChunkSize(f, at, limit) > 0 =>
                 /\ SafeOutputLimit(f) >= 8 * MiB
                 /\ MinChunk <= ChooseChunkSize(f, at, limit)
                 /\ ChooseChunkSize(f, at, limit) <= limit
  <1>1. f * percent \in Nat
    BY ProductMonotone
  <1>2. SafeOutputLimit(f) \in Nat
    BY <1>1 DEF SafeOutputLimit, WorkingBudget
  <1>3. (SafeOutputLimit(f) * 100) \div at \in Nat
    BY <1>2
  <1> DEFINE r == Bounded((SafeOutputLimit(f) * 100) \div at, limit)
             c == Bounded((r \div MiB) * MiB, limit)
  <1>4. r \in Nat
    BY <1>3 DEF Bounded, Larger, Smaller, MinChunk, MiB
  <1>5. (r \div MiB) * MiB \in Nat
    BY <1>4 DEF MiB
  <1>6. c \in Nat /\ MinChunk <= c /\ c <= limit
    <2> HIDE DEF r
    <2> QED BY <1>5 DEF Bounded, Larger, Smaller, MinChunk, MiB
  <1>7. ChooseChunkSize(f, at, limit) = IF SafeOutputLimit(f) < 8 * MiB THEN 0 ELSE c
    BY DEF ChooseChunkSize
  <1> HIDE DEF c
  <1> QED BY <1>2, <1>6, <1>7 DEF MiB

-----------------------------------------------------------------------------
\* The invariant

\* The setup of a run.
LEMMA InitBInv == Init => BInv
  <1> SUFFICES ASSUME Init PROVE BInv
    OBVIOUS
  <1>1. data \in Nat /\ 3 \in 3..115 /\ Clamped(data) \in 3..115
    BY BudgetAssumption DEF Init, Clamped, Larger, Smaller
  <1>2. ratio \in 3..115
    BY <1>1 DEF Init, SampleRatio
  <1>3. TypeOK
    <2>1. denser \in BOOLEAN
      BY DEF Init
    <2>2. free \in Nat /\ left \in 0..Total /\ tail \in Tails /\ spikes \in 0..MaxSpikes
      BY BudgetAssumption DEF Init
    <2>3. maxChunk \in Nat /\ maxChunk <= 512 * MiB /\ rate \in Nat /\ sleep \in Nat
      <3>1. maxChunk = 512 * MiB /\ rate = 0 /\ sleep = 0
        BY DEF Init
      <3> QED BY <3>1 DEF MiB
    <2>4. /\ percent \in Percents /\ data \in Ratios
          /\ pc = "plan" /\ outcome = "none"
          /\ looked = 0 /\ chunk = 0 /\ raw = 0 /\ output = 0
          /\ taken = 0 /\ chunks = 0
      BY DEF Init
    <2> QED BY <1>2, <2>1, <2>2, <2>3, <2>4 DEF TypeOK
  <1>4. SettingsInv /\ SpaceInv /\ ChunkInv /\ CountInv /\ EndInv
    BY BudgetAssumption DEF Init, SettingsInv, SpaceInv, ChunkInv, CountInv, EndInv,
                            MinChunk, MiB
  <1> QED BY <1>3, <1>4 DEF BInv

\* One row of the table, and a smaller row when the pressure is higher.
LEMMA Table ==
    ASSUME NEW p \in Pressures
    PROVE  /\ MaxChunkBytes(p) \in Nat /\ MinChunk <= MaxChunkBytes(p)
           /\ MaxChunkBytes(p) <= 256 * MiB
           /\ RateLimitBytes(p) \in Nat \ {0} /\ SleepBetweenChunks(p) \in Nat
           /\ \A q \in Pressures : p <= q => MaxChunkBytes(q) <= MaxChunkBytes(p)
  BY DEF Pressures, MaxChunkBytes, RateLimitBytes, SleepBetweenChunks, MinChunk, MiB

LEMMA Pressure ==
    ASSUME NEW f \in Nat
    PROVE  /\ DiskPressure(f) \in Pressures
           /\ \A g \in Nat : f <= g => DiskPressure(g) <= DiskPressure(f)
           /\ \A load, memory : /\ Classify(f, load, memory) \in Pressures
                                /\ DiskPressure(f) <= Classify(f, load, memory)
  BY DEF Pressures, DiskPressure, Classify, Critical, High, Medium, MiB, GiB

\* Whatever a snapshot reads, it finds a pressure no lower than the disk's.
LEMMA Snapshot ==
    ASSUME free \in Nat
    PROVE  \A p \in Evaluate : p \in Pressures /\ DiskPressure(free) <= p
  <1> SUFFICES ASSUME NEW f \in {free, 0}, NEW load, NEW memory
               PROVE  /\ Classify(f, load, memory) \in Pressures
                      /\ DiskPressure(free) <= Classify(f, load, memory)
    BY DEF Evaluate
  <1>1. f \in Nat /\ f <= free
    OBVIOUS
  <1>2. /\ DiskPressure(free) \in Pressures /\ DiskPressure(f) \in Pressures
        /\ DiskPressure(free) <= DiskPressure(f)
    BY <1>1, Pressure
  <1>3. /\ Classify(f, load, memory) \in Pressures
        /\ DiskPressure(f) <= Classify(f, load, memory)
    BY <1>1, Pressure
  <1> QED BY <1>2, <1>3 DEF Pressures

\* More load, less free memory on the same machine, or less free space never
\* makes the throttle more generous.
THEOREM ThrottleIsMonotone ==
    ASSUME NEW f \in Nat, NEW g \in Nat, f <= g,
           NEW k \in Nat, NEW l \in Nat, l <= k,
           NEW m \in [available : Nat, total : Nat],
           NEW n \in [available : Nat, total : Nat],
           m.total = n.total, m.available <= n.available
    PROVE  /\ MaxChunkBytes(Classify(f, k, m)) <= MaxChunkBytes(Classify(g, l, n))
           /\ RateLimitBytes(Classify(f, k, m)) <= RateLimitBytes(Classify(g, l, n))
           /\ SleepBetweenChunks(Classify(f, k, m)) >= SleepBetweenChunks(Classify(g, l, n))
  <1> DEFINE p == Classify(f, k, m)
             q == Classify(g, l, n)
  <1>1. \A pct \in Nat : Below(n, pct) => Below(m, pct)
    BY DEF Below
  <1>2. \A gib \in Nat : Small(m, gib) = Small(n, gib)
    BY DEF Small
  <1>3. /\ Critical(g, l, n) => Critical(f, k, m)
        /\ High(g, l, n) => High(f, k, m)
        /\ Medium(g, l, n) => Medium(f, k, m)
    BY <1>1, <1>2 DEF Critical, High, Medium, MiB, GiB
  <1>4. q <= p /\ p \in Pressures /\ q \in Pressures
    BY <1>3 DEF Classify, Pressures
  <1> HIDE DEF p, q
  <1>5. /\ MaxChunkBytes(p) <= MaxChunkBytes(q)
        /\ RateLimitBytes(p) <= RateLimitBytes(q)
        /\ SleepBetweenChunks(p) >= SleepBetweenChunks(q)
    BY <1>4 DEF Pressures, MaxChunkBytes, RateLimitBytes, SleepBetweenChunks, MiB
  <1> QED BY <1>5 DEF p, q

\* The numbers of a state, for the arithmetic of the steps.
Numbers ==
    /\ free \in Nat /\ left \in Nat /\ left <= Total /\ tail \in Nat
    /\ ratio \in 3..115 /\ maxChunk \in Nat /\ rate \in Nat /\ sleep \in Nat
    /\ looked \in Nat /\ chunk \in Nat /\ raw \in Nat /\ output \in Nat
    /\ taken \in Nat /\ chunks \in Nat /\ percent \in 1..80

\* They follow from the types.
LEMMA TypeNumbers == TypeOK => Numbers
  <1> SUFFICES ASSUME TypeOK PROVE Numbers
    OBVIOUS
  <1>1. percent \in Percents /\ left \in 0..Total /\ tail \in Tails
    BY DEF TypeOK
  <1>2. percent \in 1..80 /\ left \in Nat /\ left <= Total /\ tail \in Nat
    BY <1>1, BudgetAssumption
  <1>3. /\ free \in Nat /\ ratio \in 3..115 /\ maxChunk \in Nat /\ rate \in Nat
        /\ sleep \in Nat /\ looked \in Nat /\ chunk \in Nat /\ raw \in Nat
        /\ output \in Nat /\ taken \in Nat /\ chunks \in Nat
    BY DEF TypeOK
  <1> QED BY <1>2, <1>3 DEF Numbers

\* The first snapshot may end the run and changes only the settings.
LEMMA PlanBInv == ASSUME BInv, Plan PROVE BInv'
  <1>1. PICK p \in Evaluate :
           /\ maxChunk' = Smaller(maxChunk, MaxChunkBytes(p))
           /\ rate' = RateLimitBytes(p)
           /\ sleep' = SleepBetweenChunks(p)
    BY DEF Plan
  <1>2. p \in Pressures
    BY Snapshot DEF BInv, TypeOK
  <1>3. maxChunk' \in Nat /\ maxChunk' <= 512 * MiB /\ rate' \in Nat /\ sleep' \in Nat
    <2>1. maxChunk \in Nat /\ maxChunk <= 512 * MiB
      BY DEF BInv, TypeOK
    <2> DEFINE m == MaxChunkBytes(p)
    <2>2. m \in Nat /\ maxChunk' = Smaller(maxChunk, m)
      BY <1>1, <1>2, Table
    <2>3. rate' \in Nat /\ sleep' \in Nat
      BY <1>1, <1>2, Table
    <2> HIDE DEF m
    <2> QED BY <2>1, <2>2, <2>3 DEF Smaller, MiB
  <1>4. pc = "plan" /\ pc' \in {"done", "look"} /\ outcome' \in {outcome, "tooLow"}
        /\ (outcome' # outcome => pc' = "done")
    BY DEF Plan, End, Continue
  <1>5. UNCHANGED <<percent, free, left, tail, ratio, looked, chunk, raw, output, data,
                    denser, taken, chunks, spikes>>
    BY DEF Plan, current, history
  <1>6. TypeOK'
    BY <1>3, <1>4, <1>5 DEF BInv, TypeOK
  <1> QED BY <1>4, <1>5, <1>6 DEF BInv, SettingsInv, SpaceInv, ChunkInv, CountInv, EndInv

\* From the look on nobody has taken space.
LEMMA LookBInv == ASSUME BInv, Look PROVE BInv'
  <1> USE DEF Look
  <1>1. /\ pc' \in {"done", "throttle"} /\ outcome' \in {outcome, "completed"}
        /\ (outcome' # outcome => pc' = "done")
    BY DEF End, Continue
  <1>2. UNCHANGED <<percent, free, left, tail, ratio, maxChunk, rate, sleep, data, denser,
                    chunks, spikes>>
    BY DEF settings
  <1>3. TypeOK'
    BY <1>1, <1>2 DEF BInv, TypeOK
  <1>4. SpaceInv'
    BY <1>1, <1>2, TypeNumbers DEF BInv, Numbers, SpaceInv
  <1> QED BY <1>1, <1>2, <1>3, <1>4 DEF BInv, SettingsInv, ChunkInv, CountInv, EndInv

\* A run that cannot read the free space ends.
LEMMA LookFailsBInv == ASSUME BInv, LookFails PROVE BInv'
  <1>1. /\ pc' = "done" /\ outcome' = "error"
        /\ UNCHANGED <<percent, free, left, tail, ratio, maxChunk, rate, sleep, looked, chunk,
                       raw, output, data, denser, taken, chunks, spikes>>
    BY DEF LookFails, End, settings, current, history
  <1>2. TypeOK'
    BY <1>1 DEF BInv, TypeOK
  <1> QED BY <1>1, <1>2 DEF BInv, SettingsInv, SpaceInv, ChunkInv, CountInv, EndInv

\* The settings become those of one row, which suits the disk.
LEMMA ThrottleBInv == ASSUME BInv, Throttle PROVE BInv'
  <1>1. PICK p \in Evaluate :
           /\ maxChunk' = MaxChunkBytes(p)
           /\ rate' = RateLimitBytes(p)
           /\ sleep' = SleepBetweenChunks(p)
    BY DEF Throttle
  <1>2. /\ p \in Pressures
        /\ DiskPressure(free) \in Pressures
        /\ DiskPressure(free) <= p
    BY Pressure, Snapshot DEF BInv, TypeOK
  <1>3. /\ maxChunk' \in Nat /\ maxChunk' <= 512 * MiB /\ rate' \in Nat /\ sleep' \in Nat
        /\ maxChunk' <= MaxChunkBytes(DiskPressure(free))
    <2>1. maxChunk' = MaxChunkBytes(p) /\ rate' = RateLimitBytes(p)
          /\ sleep' = SleepBetweenChunks(p)
      BY <1>1
    <2> QED BY <1>2, <2>1, Table DEF MiB
  <1>4. pc = "throttle" /\ pc' = "choose"
    BY DEF Throttle, Continue
  <1>5. UNCHANGED <<percent, free, left, tail, ratio, looked, chunk, raw, output, outcome,
                    data, denser, taken, chunks, spikes>>
    BY DEF Throttle, current, history, Continue
  <1>6. TypeOK'
    BY <1>3, <1>4, <1>5 DEF BInv, TypeOK
  <1>7. SettingsInv'
    BY <1>1, <1>2 DEF SettingsInv, Row
  <1>8. SpaceInv'
    BY <1>3, <1>4, <1>5 DEF BInv, SpaceInv
  <1> QED BY <1>4, <1>5, <1>6, <1>7, <1>8 DEF BInv, ChunkInv, CountInv, EndInv

\* A chunk that is begun has a safe size.
LEMMA ChooseBInv == ASSUME BInv, Choose PROVE BInv'
  <1>1. /\ pc = "choose" /\ pc' \in {"done", "append"}
        /\ outcome' \in {outcome, "freeAbove", "tooLow"}
        /\ (outcome' # outcome => pc' = "done")
        /\ (pc' = "append" => chunk' # 0)
    BY DEF Choose, End, Continue
  <1>2. UNCHANGED <<percent, free, left, tail, ratio, maxChunk, rate, sleep, looked, raw,
                    output, data, denser, taken, chunks, spikes>>
    BY DEF Choose, settings, history
  <1> DEFINE c == ChooseChunkSize(looked, ratio, maxChunk)
  <1>3. PICK p \in Pressures : Row(p)
    BY <1>1 DEF BInv, SettingsInv
  <1>4. MinChunk <= maxChunk
    BY <1>3, Table DEF Row
  <1>5. /\ c \in Nat
        /\ c > 0 => SafeOutputLimit(looked) >= 8 * MiB /\ MinChunk <= c /\ c <= maxChunk
    <2>1. /\ looked \in Nat /\ ratio \in 3..115 /\ maxChunk \in Nat
          /\ percent \in 1..80
      BY BudgetAssumption DEF BInv, TypeOK
    <2> QED BY <1>4, <2>1, ChunkSize
  <1>6. chunk' = Smaller(c, left)
    BY DEF Choose
  <1>7. /\ chunk' \in Nat
        /\ chunk' # 0 => c > 0 /\ left > 0 /\ chunk' <= c /\ (chunk' = left \/ chunk' = c)
    <2> HIDE DEF c
    <2>1. left \in Nat /\ c \in Nat
      BY <1>5, TypeNumbers DEF BInv, Numbers
    <2>2. chunk' = c \/ (chunk' = left /\ left <= c)
      BY <1>6, <2>1 DEF Smaller
    <2>3. chunk' <= left
      BY <1>6, <2>1 DEF Smaller
    <2> QED BY <2>1, <2>2, <2>3
  <1>8. TypeOK'
    BY <1>1, <1>2, <1>7 DEF BInv, TypeOK
  <1>9. ChunkInv'
    <2>0. maxChunk \in Nat /\ left \in Nat /\ MinChunk \in Nat
      BY TypeNumbers DEF BInv, Numbers, MinChunk, MiB
    <2>1. ASSUME pc' = "append"
          PROVE  /\ SafeOutputLimit(looked) >= 8 * MiB
                 /\ chunk' <= maxChunk
                 /\ left > 0 /\ (chunk' = left \/ MinChunk <= chunk')
      <3>1. chunk' # 0
        BY <2>1, <1>1
      <3>2. c > 0 /\ left > 0 /\ chunk' <= c /\ (chunk' = left \/ chunk' = c)
        BY <3>1, <1>7
      <3>3. SafeOutputLimit(looked) >= 8 * MiB /\ MinChunk <= c /\ c <= maxChunk
        BY <3>2, <1>5
      <3> HIDE DEF c
      <3>4. chunk' <= maxChunk
        BY <3>2, <3>3, <2>0, <1>5, <1>7
      <3> QED BY <3>2, <3>3, <3>4
    <2>2. SafeOutputLimit(looked)' = SafeOutputLimit(looked)
      BY <1>2 DEF SafeOutputLimit, WorkingBudget
    <2> QED BY <2>1, <2>2, <1>1, <1>2 DEF ChunkInv
  <1>10. SettingsInv' /\ SpaceInv'
    BY <1>1, <1>2 DEF BInv, SettingsInv, SpaceInv, Row
  <1> QED BY <1>1, <1>2, <1>8, <1>9, <1>10 DEF BInv, CountInv, EndInv

\* The append reads a chunk and perhaps the line that reaches over it.
LEMMA AppendBInv == ASSUME BInv, Append PROVE BInv'
  <1>1. PICK r \in Ratios, extra \in {0, MaxLine} :
           /\ raw' = Smaller(chunk + extra, left - tail)
           /\ output' = (raw' * r + 99) \div 100
           /\ denser' = (r > data)
           /\ data' = r
    BY DEF Append
  <1>2. /\ raw' \in Nat /\ raw' <= left - tail /\ raw' <= chunk + MaxLine
        /\ (raw' = left - tail \/ chunk <= raw')
    <2>1. left > tail /\ chunk \in Nat /\ left \in Nat /\ tail \in Nat
      BY TypeNumbers DEF Append, BInv, Numbers
    <2>2. extra \in Nat /\ extra <= MaxLine /\ MaxLine \in Nat
      BY BudgetAssumption
    <2> QED BY <1>1, <2>1, <2>2 DEF Smaller
  <1>3. output' \in Nat
    BY <1>1, <1>2, OutputBound, BudgetAssumption
  <1>4. /\ pc = "append" /\ pc' \in {"done", "punch"}
        /\ outcome' \in {outcome, "diskFull"}
        /\ (outcome' # outcome => pc' = "done")
        /\ (free' = free \/ (output' <= free /\ free' = free - output'))
    <2>1. free \in Nat
      BY TypeNumbers DEF BInv, Numbers
    <2>2. CASE output' > free
      BY <2>1, <2>2, <1>3 DEF Append, End
    <2>3. CASE ~(output' > free)
      <3>1. output' <= free
        BY <2>1, <2>3, <1>3
      <3> QED BY <3>1, <2>3 DEF Append, Continue
    <2> QED BY <2>2, <2>3
  <1>5. UNCHANGED <<percent, left, tail, ratio, maxChunk, rate, sleep, looked, chunk, taken,
                    chunks, spikes>>
    BY DEF Append, settings
  <1>6. free' \in Nat
    <2>1. free \in Nat
      BY TypeNumbers DEF BInv, Numbers
    <2>2. free' = free \/ (output' <= free /\ free' = free - output')
      BY <1>4
    <2> QED BY <2>1, <2>2, <1>3
  <1>7. denser' \in BOOLEAN
    BY <1>1
  <1>8. TypeOK'
    BY <1>1, <1>2, <1>3, <1>4, <1>5, <1>6, <1>7 DEF BInv, TypeOK
  <1>9. ChunkInv'
    <2>1. /\ chunk \in Nat /\ maxChunk \in Nat /\ left \in Nat /\ MaxLine \in Nat
          /\ MinChunk \in Nat /\ tail \in Nat
      BY TypeNumbers, BudgetAssumption DEF BInv, Numbers, MinChunk, MiB
    <2>2. /\ chunk <= maxChunk /\ left > tail /\ tail' = tail
          /\ chunk = left \/ MinChunk <= chunk
      BY <1>4 DEF BInv, ChunkInv, Append
    <2>3. raw' <= maxChunk + MaxLine
      BY <2>1, <2>2, <1>2
    <2>4. raw' = left - tail \/ MinChunk <= raw'
      BY <2>1, <2>2, <1>2
    <2> QED BY <2>2, <2>3, <2>4, <1>2, <1>4, <1>5 DEF ChunkInv
  <1>10. SettingsInv' /\ SpaceInv'
    BY <1>4, <1>5 DEF BInv, SettingsInv, SpaceInv, Row
  <1> QED BY <1>4, <1>5, <1>8, <1>9, <1>10 DEF BInv, CountInv, EndInv

\* A run that finds only a part of a line ends.
LEMMA AppendNothingBInv == ASSUME BInv, AppendNothing PROVE BInv'
  <1>1. /\ pc' = "done" /\ outcome' = "completed"
        /\ UNCHANGED <<percent, free, left, tail, ratio, maxChunk, rate, sleep, looked,
                       chunk, raw, output, data, denser, taken, chunks, spikes>>
    BY DEF AppendNothing, End, settings, current, history
  <1>2. TypeOK'
    BY <1>1 DEF BInv, TypeOK
  <1> QED BY <1>1, <1>2 DEF BInv, SettingsInv, SpaceInv, ChunkInv, CountInv, EndInv

\* The chunk is counted, and what is left shrinks by it.
LEMMA PunchBInv == ASSUME BInv, Punch PROVE BInv'
  <1>1. /\ pc = "punch" /\ pc' = "pace" /\ left' = left - raw /\ chunks' = chunks + 1
        /\ (free' = free \/ free' = free + raw) /\ ratio' = Clamped(data)
    BY DEF Punch, Continue, Measured
  <1>2. UNCHANGED <<percent, tail, maxChunk, rate, sleep, looked, chunk, raw, output, outcome,
                    data, denser, taken, spikes>>
    BY DEF Punch, current, Continue
  <1>3. /\ free \in Nat /\ left \in Nat /\ left <= Total /\ raw \in Nat /\ chunks \in Nat
        /\ MinChunk \in Nat /\ Total \in Nat
    BY TypeNumbers, BudgetAssumption DEF BInv, Numbers, MinChunk, MiB
  <1>4. /\ left > tail /\ raw <= left - tail /\ (raw = left - tail \/ MinChunk <= raw)
        /\ tail \in Nat /\ tail' = tail
    BY <1>1, <1>2, TypeNumbers DEF BInv, ChunkInv, Numbers
  <1>5. left' \in 0..Total /\ free' \in Nat /\ chunks' \in Nat
    BY <1>1, <1>3, <1>4
  <1>6. ratio' \in 3..115
    <2>1. data \in Nat
      <3>1. data \in Ratios
        BY DEF BInv, TypeOK
      <3> QED BY <3>1, BudgetAssumption
    <2> QED BY <2>1, <1>1 DEF Clamped, Larger, Smaller
  <1>7. TypeOK'
    BY <1>1, <1>2, <1>5, <1>6 DEF BInv, TypeOK
  <1>8. CountInv'
    <2>1. chunks * MinChunk <= Total - left
      BY <1>4 DEF BInv, CountInv
    <2>2. (chunks + 1) * MinChunk = chunks * MinChunk + MinChunk
      BY <1>3 DEF MinChunk, MiB
    <2>3. left' > tail' => (chunks + 1) * MinChunk <= Total - left'
      BY <2>1, <2>2, <1>1, <1>3, <1>4 DEF MinChunk, MiB
    <2>4. ((chunks + 1) - 1) * MinChunk <= Total - left'
      BY <2>1, <1>1, <1>3, <1>4 DEF MinChunk, MiB
    <2>5. tail' <= left'
      BY <1>1, <1>3, <1>4
    <2> QED BY <2>3, <2>4, <2>5, <1>1 DEF CountInv, MinChunk
  <1>9. SettingsInv' /\ SpaceInv' /\ ChunkInv' /\ EndInv'
    BY <1>1, <1>2 DEF BInv, SettingsInv, SpaceInv, ChunkInv, EndInv, Row
  <1> QED BY <1>7, <1>8, <1>9 DEF BInv

\* The pause changes nothing.
LEMMA PaceBInv == ASSUME BInv, Pace PROVE BInv'
  <1>1. pc = "pace" /\ pc' = "look"
    BY DEF Pace, Continue
  <1>2. UNCHANGED <<percent, free, left, tail, ratio, maxChunk, rate, sleep, looked, chunk, raw,
                    output, outcome, data, denser, taken, chunks, spikes>>
    BY DEF Pace, Continue, settings, current, history
  <1>3. TypeOK'
    BY <1>1, <1>2 DEF BInv, TypeOK
  <1> QED BY <1>1, <1>2, <1>3
          DEF BInv, SettingsInv, SpaceInv, ChunkInv, CountInv, EndInv

\* Space that others take is remembered until the next look; space they give
\* back only lowers the pressure.
LEMMA SpikeBInv == ASSUME BInv, NEW n \in Spikes, Spike(n) PROVE BInv'
  <1>1. /\ pc # "done" /\ free >= n /\ free' = free - n
        /\ taken' = IF n > 0 THEN taken + n ELSE taken
        /\ spikes < MaxSpikes /\ spikes' = spikes + 1
    BY DEF Spike
  <1>2. UNCHANGED <<percent, pc, left, tail, ratio, maxChunk, rate, sleep, looked, chunk, raw,
                    output, outcome, data, denser, chunks>>
    BY DEF Spike, settings, current
  <1>3. n \in Int /\ free \in Nat /\ taken \in Nat /\ looked \in Nat /\ maxChunk \in Nat
    BY TypeNumbers, BudgetAssumption DEF BInv, Numbers
  <1>4. free' \in Nat /\ taken' \in Nat /\ (taken' = 0 => taken = 0 /\ free <= free')
    BY <1>1, <1>3
  <1>5. spikes' \in 0..MaxSpikes
    <2>1. spikes \in 0..MaxSpikes
      BY DEF BInv, TypeOK
    <2> QED BY <2>1, <1>1, BudgetAssumption
  <1>6. TypeOK'
    BY <1>2, <1>4, <1>5 DEF BInv, TypeOK
  <1>7. SpaceInv'
    <2>1. ASSUME pc \in {"throttle", "choose", "append"}, taken' = 0 PROVE looked <= free'
      BY <2>1, <1>3, <1>4 DEF BInv, SpaceInv
    <2>2. ASSUME pc \in {"choose", "append"}, taken' = 0
          PROVE  maxChunk <= MaxChunkBytes(DiskPressure(free'))
      <3>1. DiskPressure(free) \in Pressures /\ DiskPressure(free') \in Pressures
            /\ DiskPressure(free') <= DiskPressure(free)
        BY <2>2, <1>3, <1>4, Pressure
      <3>2. /\ MaxChunkBytes(DiskPressure(free)) <= MaxChunkBytes(DiskPressure(free'))
            /\ MaxChunkBytes(DiskPressure(free)) \in Nat
            /\ MaxChunkBytes(DiskPressure(free')) \in Nat
        BY <3>1, Table
      <3>3. maxChunk <= MaxChunkBytes(DiskPressure(free))
        BY <2>2, <1>4 DEF BInv, SpaceInv
      <3> QED BY <3>2, <3>3, <1>3
    <2>3. MaxChunkBytes(DiskPressure(free))' = MaxChunkBytes(DiskPressure(free'))
      BY DEF MaxChunkBytes, DiskPressure
    <2> QED BY <2>1, <2>2, <2>3, <1>2 DEF SpaceInv
  <1>8. SettingsInv' /\ CountInv' /\ EndInv'
    BY <1>2 DEF BInv, SettingsInv, CountInv, EndInv, Row
  <1>9. ChunkInv'
    <2>1. SafeOutputLimit(looked)' = SafeOutputLimit(looked)
      BY <1>2 DEF SafeOutputLimit, WorkingBudget
    <2> QED BY <2>1, <1>2 DEF BInv, ChunkInv
  <1> QED BY <1>6, <1>7, <1>8, <1>9 DEF BInv

\* Every step keeps the invariant.
LEMMA NextBInv == BInv /\ [Next]_vars => BInv'
  <1> SUFFICES ASSUME BInv, [Next]_vars PROVE BInv'
    OBVIOUS
  <1>1. CASE \/ Plan \/ Look \/ LookFails \/ Throttle \/ Choose \/ Append
             \/ AppendNothing \/ Punch \/ Pace
    BY <1>1, PlanBInv, LookBInv, LookFailsBInv, ThrottleBInv, ChooseBInv,
       AppendBInv, AppendNothingBInv, PunchBInv, PaceBInv
  <1>2. CASE \E n \in Spikes : Spike(n)
    BY <1>2, SpikeBInv
  <1>3. CASE UNCHANGED vars
    <2>1. UNCHANGED <<percent, pc, free, left, tail, ratio, maxChunk, rate, sleep, looked, chunk,
                      raw, output, outcome, data, denser, taken, chunks, spikes>>
      BY <1>3 DEF vars, settings, current, history
    <2>2. TypeOK'
      BY <2>1 DEF BInv, TypeOK
    <2>3. SafeOutputLimit(looked)' = SafeOutputLimit(looked)
      BY <2>1 DEF SafeOutputLimit, WorkingBudget
    <2> QED BY <2>1, <2>2, <2>3
            DEF BInv, SettingsInv, SpaceInv, ChunkInv, CountInv, EndInv, Row
  <1> QED BY <1>1, <1>2, <1>3 DEF Next

\* The invariant holds throughout.
LEMMA BInvariant == Spec => []BInv
  BY InitBInv, NextBInv, PTL DEF Spec

-----------------------------------------------------------------------------
\* Results

\* Every variable keeps its type: no size ever becomes negative.
THEOREM BudgetTypeCorrect == Spec => []TypeOK
  BY BInvariant, PTL DEF BInv

\* FewChunks for a log of any size and wherever the cutoff falls in a line: each
\* chunk but the last takes the smallest chunk or more.
THEOREM ChunksAreFew == Spec => []FewChunks
  <1>1. BInv => FewChunks
    BY DEF BInv, CountInv, FewChunks
  <1> QED BY <1>1, BInvariant, PTL

\* Unless others took space since the loop looked, the output fits.
LEMMA AppendFits ==
    ASSUME BInv, Append, MaxLine <= MiB, percent <= 30, taken = 0
    PROVE  output' <= free
  <1>1. PICK r \in Ratios, extra \in {0, MaxLine} :
           raw' = Smaller(chunk + extra, left - tail) /\ output' = (raw' * r + 99) \div 100
    BY DEF Append
  <1>2. /\ free \in Nat /\ looked \in Nat /\ chunk \in Nat /\ left \in Nat
        /\ maxChunk \in Nat /\ percent \in 1..30 /\ tail \in Nat /\ left > tail
    BY TypeNumbers DEF BInv, Numbers, Append
  <1>3. /\ pc = "append" /\ SafeOutputLimit(looked) >= 8 * MiB /\ chunk <= maxChunk
        /\ looked <= free /\ maxChunk <= MaxChunkBytes(DiskPressure(free))
    BY DEF Append, BInv, ChunkInv, SpaceInv
  <1>4. looked >= 39000
    BY <1>2, <1>3, EnoughSpace
  <1> DEFINE m == MaxChunkBytes(DiskPressure(free)) + MiB
  <1>5. m \in Nat /\ raw' \in Nat /\ raw' <= m
    <2>1. MaxChunkBytes(DiskPressure(free)) \in Nat
      BY <1>2, Pressure, Table
    <2>2. extra \in Nat /\ extra <= MiB /\ MiB \in Nat
      BY BudgetAssumption DEF MiB
    <2> QED BY <2>1, <2>2, <1>1, <1>2, <1>3 DEF Smaller
  <1>6. output' <= (m * 115 + 99) \div 100 /\ output' \in Nat
    <2> HIDE DEF m
    <2>1. r \in 0..115
      BY BudgetAssumption
    <2> QED BY <2>1, <1>1, <1>5, OutputBound
  <1>7. (m * 115 + 99) \div 100 <= free
    BY <1>2, <1>3, <1>4 DEF MaxChunkBytes, DiskPressure, MiB, GiB
  <1>8. (m * 115 + 99) \div 100 \in Nat
    BY <1>5
  <1> HIDE DEF m
  <1> QED BY <1>2, <1>6, <1>7, <1>8

\* A disk that is full was filled by others as well.
LEMMA AppendFull ==
    ASSUME BInv, Append, MaxLine <= MiB, percent' <= 30, outcome' = "diskFull"
    PROVE  taken' > 0
  <1>1. percent' = percent /\ taken' = taken /\ percent <= 30
    BY DEF Append
  <1>2. free \in Nat /\ taken \in Nat
    BY TypeNumbers DEF BInv, Numbers
  <1>3. output' \in Nat
    BY AppendBInv, TypeNumbers DEF BInv, TypeOK
  <1>4. outcome # "diskFull"
    BY DEF Append, BInv, EndInv
  <1>5. output' > free
    BY <1>4 DEF Append, Continue
  <1>6. taken = 0 => output' <= free
    BY <1>1, AppendFits
  <1>7. ~(output' <= free)
    BY <1>2, <1>3, <1>5
  <1>8. taken # 0
    BY <1>6, <1>7
  <1> QED BY <1>1, <1>2, <1>8

\* FitsOnDisk for any log, any compressibility and any misjudged ratio, when no
\* line reaches more than 1 MiB over the target.
THEOREM RunFitsOnDisk ==
    ASSUME MaxLine <= MiB PROVE Spec => []FitsOnDisk
  <1>1. Init => FitsOnDisk
    BY DEF Init, FitsOnDisk
  <1>2. BInv /\ FitsOnDisk /\ [Next]_vars => FitsOnDisk'
    <2> SUFFICES ASSUME BInv, FitsOnDisk, [Next]_vars, outcome' = "diskFull",
                        percent' <= 30
                 PROVE  taken' > 0
      BY DEF FitsOnDisk
    <2>1. CASE Append
      BY <2>1, AppendFull
    <2>2. CASE \/ Plan \/ Look \/ LookFails \/ Throttle \/ Choose \/ AppendNothing
               \/ Punch \/ Pace \/ \E n \in Spikes : Spike(n)
      <3>1. outcome = "diskFull"
        BY <2>2 DEF Plan, Look, LookFails, Throttle, Choose, AppendNothing, Punch, Pace, Spike,
                    End, Continue
      <3>2. pc = "done"
        BY <3>1 DEF BInv, EndInv
      <3> QED BY <2>2, <3>2 DEF Plan, Look, LookFails, Throttle, Choose, AppendNothing,
                                    Punch, Pace, Spike
    <2>3. CASE UNCHANGED vars
      BY <2>3 DEF vars, history, FitsOnDisk
    <2> QED BY <2>1, <2>2, <2>3 DEF Next
  <1> QED BY <1>1, <1>2, BInvariant, PTL DEF Spec

\* PauseIsNoHang for every timeout above seven seconds.
THEOREM PauseIsShort ==
    ASSUME MaxLine <= MiB, ChunkTimeout > 7000 PROVE Spec => []PauseIsNoHang
  <1>1. BInv => PauseIsNoHang
    <2> SUFFICES ASSUME BInv, pc = "pace" PROVE Pause < ChunkTimeout
      BY DEF PauseIsNoHang
    <2>1. PICK p \in Pressures : Row(p)
      BY DEF BInv, SettingsInv
    <2>2. raw \in Nat /\ raw <= maxChunk + MaxLine /\ MaxLine \in Nat /\ ChunkTimeout \in Nat
      BY TypeNumbers, BudgetAssumption DEF BInv, Numbers, ChunkInv
    <2>3. p = 0 \/ p = 1 \/ p = 2 \/ p = 3
      BY DEF Pressures
    <2> USE DEF Pause, Row, MaxChunkBytes, RateLimitBytes, SleepBetweenChunks, MiB
    <2>4. CASE p = 0
      BY <2>1, <2>2, <2>4
    <2>5. CASE p = 1
      BY <2>1, <2>2, <2>5
    <2>6. CASE p = 2
      BY <2>1, <2>2, <2>6
    <2>7. CASE p = 3
      BY <2>1, <2>2, <2>7
    <2> QED BY <2>3, <2>4, <2>5, <2>6, <2>7
  <1> QED BY <1>1, BInvariant, PTL

-----------------------------------------------------------------------------
\* The working budget

\* The ratio was measured on the data in front of the chunk: by an earlier chunk,
\* or by the sample of a run that starts at 0.
Known == chunks > 0 \/ TRUE \notin Resumes

\* Until the next chunk is archived, the ratio does not promise more than the data
\* in front of it gave.
RatioInv == Known /\ pc \notin {"punch", "done"} => data <= ratio

\* A chunk larger than the smallest stays within the limit at that ratio.
LimitInv ==
    pc = "append" => chunk <= MinChunk \/ chunk * ratio <= SafeOutputLimit(looked) * 100

KnownWithin == Known => WithinBudget
WInv == RatioInv /\ LimitInv /\ KnownWithin

\* A quotient, multiplied again, is no larger than before.
LEMMA QuotientTimes ==
    ASSUME NEW x \in Nat, NEW a \in Nat, a > 0
    PROVE  x \div a \in Nat /\ (x \div a) * a <= x
  OBVIOUS

\* A chunk larger than the smallest, compressed at the ratio it was chosen for,
\* stays below the limit.
LEMMA ChosenLimit ==
    ASSUME NEW f \in Nat, NEW at \in 3..115, NEW limit \in Nat, percent \in 1..80,
           MinChunk < ChooseChunkSize(f, at, limit)
    PROVE  ChooseChunkSize(f, at, limit) * at <= SafeOutputLimit(f) * 100
  <1> DEFINE l == SafeOutputLimit(f) * 100
             q == l \div at
             r == Bounded(q, limit)
             c == Bounded((r \div MiB) * MiB, limit)
  <1>1. f * percent \in Nat
    BY ProductMonotone
  <1>2. l \in Nat
    BY <1>1 DEF SafeOutputLimit, WorkingBudget
  <1>3. q \in Nat /\ q * at <= l
    <2> HIDE DEF l
    <2> QED BY <1>2, QuotientTimes
  <1>4. ChooseChunkSize(f, at, limit) \in {0, c}
    BY DEF ChooseChunkSize
  <1>5. r \in Nat /\ (r <= q \/ r <= MinChunk)
    <2> HIDE DEF q
    <2> QED BY <1>3 DEF Bounded, Larger, Smaller, MinChunk, MiB
  <1>6. (r \div MiB) * MiB \in Nat /\ (r \div MiB) * MiB <= r
    <2> HIDE DEF r
    <2> QED BY <1>5, QuotientTimes DEF MiB
  <1>7. c \in Nat /\ (c <= q \/ c <= MinChunk)
    <2> DEFINE w == (r \div MiB) * MiB
    <2>1. w \in Nat /\ w <= r
      BY <1>6
    <2> HIDE DEF w, r, q
    <2> QED BY <2>1, <1>3, <1>5 DEF Bounded, Larger, Smaller, MinChunk, MiB
  <1> HIDE DEF c, q, l
  <1>8. ChooseChunkSize(f, at, limit) = c /\ c <= q
    BY <1>4, <1>7 DEF MinChunk, MiB
  <1>9. at * c <= at * q
    BY <1>3, <1>7, <1>8, ProductMonotone
  <1>10. c * at <= l
    BY <1>2, <1>3, <1>7, <1>9
  <1> QED BY <1>8, <1>10 DEF l

\* What a chunk adds to the output when its data compresses as well as expected,
\* or when it has the smallest size.
LEMMA WithinLimit ==
    ASSUME looked \in Nat, percent \in 1..80, SafeOutputLimit(looked) >= 8 * MiB,
           chunk \in Nat, NEW n \in Nat, n <= chunk + MiB,
           ratio \in 3..115, NEW r \in 0..115, r <= ratio,
           chunk <= MinChunk \/ chunk * ratio <= SafeOutputLimit(looked) * 100
    PROVE  (n * r + 99) \div 100 <= WorkingBudget(looked)
  <1> DEFINE w == WorkingBudget(looked)
  <1>1. looked * percent \in Nat
    BY ProductMonotone
  <1>2. w \in Nat /\ (w * 70) \div 100 >= 8192
    BY <1>1 DEF SafeOutputLimit, WorkingBudget, MiB
  <1>3. chunk <= MinChunk \/ chunk * ratio <= ((w * 70) \div 100) * 100
    BY DEF SafeOutputLimit
  <1>4. n * r \in Nat /\ n * r <= n * ratio
    BY ProductMonotone
  <1>5. n * ratio <= (chunk + MiB) * ratio
    <2>1. ratio * n <= ratio * (chunk + MiB)
      BY ProductMonotone DEF MiB
    <2> QED BY <2>1 DEF MiB
  <1>6. (chunk + MiB) * ratio = chunk * ratio + 1024 * ratio /\ chunk * ratio \in Nat
    BY DEF MiB
  <1>7. n * ratio \in Nat
    OBVIOUS
  <1> HIDE DEF w
  <1>8. CASE chunk * ratio <= ((w * 70) \div 100) * 100
    <2>1. chunk * ratio <= w * 70
      BY <1>2, <1>8, <1>6
    <2>2. w >= 11703
      BY <1>2
    <2>3. n * r <= w * 70 + 117760
      <3> DEFINE x == n * r
                 y == n * ratio
                 z == chunk * ratio
      <3>1. x \in Nat /\ y \in Nat /\ z \in Nat /\ x <= y /\ z <= w * 70
        BY <2>1, <1>4, <1>6, <1>7
      <3>2. y <= z + 1024 * ratio
        BY <1>5, <1>6
      <3> HIDE DEF x, y, z
      <3>3. x <= w * 70 + 117760
        BY <3>1, <3>2, <1>2
      <3> QED BY <3>3 DEF x
    <2>4. n * r + 99 < (w + 1) * 100
      BY <2>2, <2>3, <1>2, <1>4
    <2> QED BY <2>4, <1>2, <1>4 DEF w
  <1>9. CASE chunk <= MinChunk
    <2>1. ratio * chunk <= ratio * 8192
      BY <1>9, ProductMonotone DEF MinChunk, MiB
    <2>2. chunk * ratio <= 942080
      BY <2>1
    <2>3. n * r <= 1059840
      BY <2>2, <1>4, <1>5, <1>6, <1>7
    <2>4. w >= 11703
      BY <1>2
    <2>5. n * r + 99 < (w + 1) * 100
      BY <2>3, <2>4, <1>2, <1>4
    <2> QED BY <2>5, <1>2, <1>4 DEF w
  <1> QED BY <1>3, <1>8, <1>9

\* The sample of a run that starts at 0 covers the data in front of it.
LEMMA InitWInv == Init => WInv
  <1> SUFFICES ASSUME Init PROVE WInv
    OBVIOUS
  <1>1. data \in 0..115
    BY BudgetAssumption DEF Init
  <1>2. Known => ratio = Clamped(data)
    <2>1. PICK resumed \in Resumes : ratio = SampleRatio(resumed)
      BY DEF Init
    <2>2. Known => TRUE \notin Resumes
      <3>1. ~(chunks > 0)
        BY DEF Init
      <3> QED BY <3>1 DEF Known
    <2>3. resumed \in BOOLEAN
      BY BudgetAssumption
    <2> QED BY <2>1, <2>2, <2>3 DEF SampleRatio
  <1>3. RatioInv
    BY <1>1, <1>2 DEF RatioInv, Clamped, Larger, Smaller
  <1> QED BY <1>3 DEF Init, WInv, LimitInv, KnownWithin, WithinBudget

\* The chosen size stays within the limit, also when the rest of the log is less.
LEMMA ChooseWInv == ASSUME BInv, WInv, Choose PROVE WInv'
  <1>1. UNCHANGED <<percent, left, ratio, looked, output, data, denser, chunks>>
        /\ pc = "choose" /\ pc' \in {"done", "append"}
    BY DEF Choose, settings, history, End, Continue
  <1> DEFINE c == ChooseChunkSize(looked, ratio, maxChunk)
  <1>2. chunk' = Smaller(c, left)
    BY DEF Choose
  <1>3. /\ looked \in Nat /\ ratio \in 3..115 /\ maxChunk \in Nat /\ left \in Nat
        /\ percent \in 1..80
    BY TypeNumbers DEF BInv, Numbers
  <1>4. PICK p \in Pressures : Row(p)
    BY <1>1 DEF BInv, SettingsInv
  <1>5. c \in Nat
    BY <1>3, <1>4, Table, ChunkSize DEF Row
  <1>6. c <= MinChunk \/ c * ratio <= SafeOutputLimit(looked) * 100
    <2>1. CASE MinChunk < c
      BY <2>1, <1>3, ChosenLimit
    <2>2. CASE c <= MinChunk
      BY <2>2
    <2> HIDE DEF c
    <2> QED BY <2>1, <2>2, <1>5 DEF MinChunk, MiB
  <1>7. SafeOutputLimit(looked) \in Nat /\ SafeOutputLimit(looked)' = SafeOutputLimit(looked)
    <2>1. looked * percent \in Nat
      BY <1>3, ProductMonotone
    <2> QED BY <2>1, <1>1 DEF SafeOutputLimit, WorkingBudget
  <1> HIDE DEF c
  <1>8. chunk' \in Nat /\ chunk' <= c
    BY <1>2, <1>3, <1>5 DEF Smaller
  <1>9. chunk' <= MinChunk \/ chunk' * ratio <= SafeOutputLimit(looked) * 100
    <2>1. \A a, b, d \in Nat :
             b <= d => b * a <= d * a /\ b * a \in Nat /\ d * a \in Nat
      BY ProductMonotone
    <2>2. ratio \in Nat
      BY <1>3
    <2>3. chunk' * ratio <= c * ratio /\ chunk' * ratio \in Nat /\ c * ratio \in Nat
      BY <2>1, <2>2, <1>5, <1>8
    <2> QED BY <2>3, <1>5, <1>6, <1>7, <1>8 DEF MinChunk, MiB
  <1>10. LimitInv'
    BY <1>1, <1>7, <1>9 DEF LimitInv, MinChunk, MiB
  <1> QED BY <1>1, <1>10 DEF WInv, RatioInv, KnownWithin, Known, WithinBudget

\* A chunk whose data is no denser compresses at most at the ratio it was chosen for.
LEMMA AppendWInv == ASSUME BInv, WInv, Append, MaxLine <= MiB PROVE WInv'
  <1>1. PICK r \in Ratios, extra \in {0, MaxLine} :
           /\ raw' = Smaller(chunk + extra, left - tail)
           /\ output' = (raw' * r + 99) \div 100
           /\ denser' = (r > data)
           /\ data' = r
    BY DEF Append
  <1>2. /\ pc = "append" /\ pc' \in {"punch", "done"}
        /\ UNCHANGED <<percent, ratio, looked, chunk, chunks>>
    BY DEF Append, settings, End, Continue
  <1>3. /\ looked \in Nat /\ ratio \in 3..115 /\ left \in Nat /\ chunk \in Nat
        /\ percent \in 1..80 /\ tail \in Nat /\ left > tail
    BY TypeNumbers DEF BInv, Numbers, Append
  <1>4. raw' \in Nat /\ raw' <= chunk + MiB
    <2>1. extra \in Nat /\ extra <= MiB
      BY BudgetAssumption DEF MiB
    <2> QED BY <2>1, <1>1, <1>3 DEF Smaller, MiB
  <1>5. /\ SafeOutputLimit(looked) >= 8 * MiB
        /\ chunk <= MinChunk \/ chunk * ratio <= SafeOutputLimit(looked) * 100
    BY <1>2 DEF BInv, ChunkInv, WInv, LimitInv
  <1>6. ASSUME Known, r <= data PROVE output' <= WorkingBudget(looked)
    <2>1. r \in 0..115 /\ r <= ratio
      <3>1. data <= ratio
        BY <1>2, <1>6 DEF WInv, RatioInv
      <3>2. r \in 0..115 /\ data \in 0..115
        BY BudgetAssumption DEF BInv, TypeOK
      <3> QED BY <3>1, <3>2, <1>3, <1>6
    <2> DEFINE n == raw'
    <2>2. n \in Nat /\ n <= chunk + MiB
      BY <1>4
    <2>3. output' = (n * r + 99) \div 100
      BY <1>1
    <2> HIDE DEF n
    <2>4. (n * r + 99) \div 100 <= WorkingBudget(looked)
      BY <2>1, <2>2, <1>3, <1>5, WithinLimit
    <2> QED BY <2>3, <2>4
  <1>7. WorkingBudget(looked)' = WorkingBudget(looked)
    BY <1>2 DEF WorkingBudget
  <1>8. ~denser' => r <= data
    <2>1. r \in 0..115 /\ data \in 0..115
      BY BudgetAssumption DEF BInv, TypeOK
    <2>2. ~denser' => ~(r > data)
      BY <1>1
    <2>3. ~(r > data) => r <= data
      BY <2>1
    <2> QED BY <2>2, <2>3
  <1>9. KnownWithin'
    BY <1>2, <1>6, <1>7, <1>8 DEF KnownWithin, WithinBudget, Known
  <1> QED BY <1>2, <1>9 DEF WInv, RatioInv, LimitInv

\* The ratio of the chunk becomes the expectation for the next one.
LEMMA PunchWInv == ASSUME BInv, Punch PROVE WInv'
  <1>1. pc' = "pace" /\ ratio' = Clamped(data) /\ data' = data
    BY DEF Punch, Continue, Measured
  <1>2. data \in 0..115
    BY BudgetAssumption DEF BInv, TypeOK
  <1>3. data <= Clamped(data)
    BY <1>2 DEF Clamped, Larger, Smaller
  <1> QED BY <1>1, <1>3 DEF WInv, RatioInv, LimitInv, KnownWithin, WithinBudget

\* Every step keeps the expectation and the budget.
LEMMA NextWInv ==
    ASSUME MaxLine <= MiB PROVE BInv /\ WInv /\ [Next]_vars => WInv'
  <1> SUFFICES ASSUME BInv, WInv, [Next]_vars PROVE WInv'
    OBVIOUS
  <1>1. CASE Choose \/ Append \/ Punch
    BY <1>1, ChooseWInv, AppendWInv, PunchWInv
  <1>2. CASE Plan \/ Look \/ LookFails \/ Throttle \/ AppendNothing \/ Pace
    <2>1. /\ UNCHANGED <<ratio, data, chunks>>
          /\ pc \notin {"punch", "done"} /\ pc' \notin {"append", "punch"}
      BY <1>2 DEF Plan, Look, LookFails, Throttle, AppendNothing, Pace, End, Continue,
                  settings, history
    <2> QED BY <2>1 DEF WInv, RatioInv, LimitInv, KnownWithin, Known, WithinBudget
  <1>3. CASE (\E n \in Spikes : Spike(n)) \/ UNCHANGED vars
    <2>1. UNCHANGED <<percent, pc, ratio, looked, chunk, output, data, denser, chunks>>
      BY <1>3 DEF Spike, vars, settings, current, history
    <2> QED BY <2>1
            DEF WInv, RatioInv, LimitInv, KnownWithin, Known, WithinBudget,
                SafeOutputLimit, WorkingBudget
  <1> QED BY <1>1, <1>2, <1>3 DEF Next

\* The expectation is right and the budget kept, where the data was seen.
LEMMA WInvariant == ASSUME MaxLine <= MiB PROVE Spec => []WInv
  BY InitWInv, NextWInv, BInvariant, PTL DEF Spec

\* WithinBudget for the runs that start at 0 and sample the data they will archive:
\* any free space, any percentage the command line accepts, lines of up to 1 MiB.
THEOREM FreshRunsWithinBudget ==
    ASSUME MaxLine <= MiB, TRUE \notin Resumes PROVE Spec => []WithinBudget
  <1>1. WInv => WithinBudget
    BY DEF WInv, KnownWithin, Known
  <1> QED BY <1>1, WInvariant, PTL

\* A run that resumes behind holes can go over the budget with its first chunk only:
\* the ratio measured on it is the right one for the chunks that follow.
THEOREM LaterChunksWithinBudget ==
    ASSUME MaxLine <= MiB PROVE Spec => [](chunks > 0 => WithinBudget)
  <1>1. WInv => (chunks > 0 => WithinBudget)
    BY DEF WInv, KnownWithin, Known
  <1> QED BY <1>1, WInvariant, PTL
=============================================================================
