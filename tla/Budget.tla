------------------------------- MODULE Budget -------------------------------
(***************************************************************************)
(* How much a run archives at a time: the free space it reads, the         *)
(* auto-throttle of internal/adaptive, chooseChunkSize, the ratio measured *)
(* on the last chunk, and the pause after a chunk (the sizing part of      *)
(* compact.Run).  Other programs use the same disk in between.             *)
(*                                                                         *)
(* Sizes are in KiB, ratios in percent, pauses in milliseconds.            *)
(***************************************************************************)
EXTENDS Integers

CONSTANTS
    Total,        \* size of the range to rotate
    Frees,        \* possible free space of the output's filesystem at the start
    Percents,     \* possible values of -p
    Ratios,       \* possible compressed sizes of log data, in percent
    Loads,        \* possible load averages per CPU, in percent
    Memories,     \* possible readings of the memory, in MiB
    Resumes,      \* whether a run starts at 0 (FALSE) or behind holes (TRUE)
    Tails,        \* possible sizes of the part of a line in front of the cutoff
    MaxLine,      \* how far a line may reach over the target of a chunk
    Spikes,       \* how much others take or give back (negative) at a time
    MaxSpikes,    \* bound on the number of times they do
    StopAbove,    \* --stop-free-above; 0 when it is not given
    ChunkTimeout  \* --chunk-timeout

MiB == 1024
GiB == 1024 * MiB

\* The command line refuses other percentages.  A gzip writer stores what it
\* cannot compress, so no data grows by more than the ratio's upper clamp.
ASSUME BudgetAssumption ==
    /\ Total \in Nat /\ Frees \subseteq Nat /\ MaxLine \in Nat
    /\ Tails \subseteq 0..Total
    /\ Percents \subseteq 1..80 /\ Ratios \subseteq 0..115
    /\ Loads \subseteq Nat /\ Memories \subseteq [available : Nat, total : Nat]
    /\ Resumes \subseteq BOOLEAN /\ Spikes \subseteq Int /\ MaxSpikes \in Nat
    /\ StopAbove \in Nat /\ ChunkTimeout \in Nat

VARIABLES
    percent,   \* -p
    pc,        \* where the loop is
    free,      \* free space of the output's filesystem
    left,      \* what is still in front of the cutoff
    tail,      \* what of it belongs to the line that crosses the cutoff
    ratio,     \* lastRatio
    maxChunk, rate, sleep,   \* the settings auto-throttle keeps
    looked,    \* freeBefore
    chunk,     \* target of the current chunk
    raw,       \* bytes the last chunk read
    output,    \* bytes it added to the output
    outcome,   \* how the run ended
    data,      \* history: ratio of the data in front of the last chunk
    denser,    \* history: the last chunk compressed worse than that data
    taken,     \* history: what others took since the loop looked
    chunks,    \* history: chunks archived
    spikes     \* bound

settings == <<ratio, maxChunk, rate, sleep>>
current  == <<looked, chunk, raw, output>>
history  == <<data, denser, taken, chunks>>
vars == <<percent, pc, free, left, tail, settings, current, outcome, history, spikes>>

TypeOK ==
    /\ percent \in Percents
    /\ pc \in {"plan", "look", "throttle", "choose", "append", "punch", "pace", "done"}
    /\ free \in Nat /\ left \in 0..Total /\ tail \in Tails
    /\ ratio \in 3..115
    /\ maxChunk \in Nat /\ maxChunk <= 512 * MiB /\ rate \in Nat /\ sleep \in Nat
    /\ looked \in Nat /\ chunk \in Nat /\ raw \in Nat /\ output \in Nat
    /\ outcome \in {"none", "completed", "freeAbove", "tooLow", "diskFull", "error"}
    /\ data \in Ratios /\ denser \in BOOLEAN
    /\ taken \in Nat /\ chunks \in Nat /\ spikes \in 0..MaxSpikes

-----------------------------------------------------------------------------
\* adaptive.classify

Pressures == 0..3   \* low, medium, high, critical

Larger(a, b) == IF a < b THEN b ELSE a
Smaller(a, b) == IF a < b THEN a ELSE b

\* memRatio < pct.  The ratio of a memory that could not be read (total 0) is 1.
Below(memory, pct) == memory.total > 0 /\ memory.available * 100 < pct * memory.total

\* A machine with little memory is throttled earlier.
Small(memory, gib) == memory.total <= gib * 1024

\* Any of the three readings can raise the pressure.  A load that could not be
\* read is 0, free space that could not be read is 0 as well.
Critical(f, load, memory) == f < 512 * MiB \/ load >= 150 \/ Below(memory, 8)
High(f, load, memory) ==
    \/ f < 2 * GiB \/ load >= 100 \/ Below(memory, 15)
    \/ Small(memory, 6) /\ Below(memory, 50)
Medium(f, load, memory) ==
    \/ f < 5 * GiB \/ load >= 70 \/ Below(memory, 25)
    \/ Small(memory, 8) /\ Below(memory, 60)

Classify(f, load, memory) ==
    IF Critical(f, load, memory) THEN 3
    ELSE IF High(f, load, memory) THEN 2
    ELSE IF Medium(f, load, memory) THEN 1 ELSE 0

\* Faulty variants: a critical disk is treated as a full memory is, and the
\* rate is taken for KiB.
MaxChunkBytesByMemory(p) == CASE p = 3 -> 64 * MiB [] p = 2 -> 64 * MiB
                              [] p = 1 -> 128 * MiB [] p = 0 -> 256 * MiB
RateInKiB(p) == CASE p = 3 -> 10 [] p = 2 -> 25 [] p = 1 -> 50 [] p = 0 -> 75

MaxChunkBytes(p) == CASE p = 3 -> 32 * MiB [] p = 2 -> 64 * MiB
                      [] p = 1 -> 128 * MiB [] p = 0 -> 256 * MiB
RateLimitBytes(p) == CASE p = 3 -> 10 * MiB [] p = 2 -> 25 * MiB
                       [] p = 1 -> 50 * MiB [] p = 0 -> 75 * MiB
SleepBetweenChunks(p) == CASE p = 3 -> 3000 [] p = 2 -> 2000
                           [] p = 1 -> 1000 [] p = 0 -> 500

-----------------------------------------------------------------------------
\* chooseChunkSize

MinChunk == 8 * MiB

WorkingBudget(f) == (f * percent) \div 100
SafeOutputLimit(f) == (WorkingBudget(f) * 70) \div 100

\* Faulty variants: no lower bound; the budget is taken for the raw size.
UnboundedBelow(r, limit) == Smaller(r, limit)

\* Between the smallest and the largest chunk; the smallest wins.
Bounded(r, limit) == Larger(Smaller(Larger(r, MinChunk), limit), MinChunk)

\* What the output limit allows at a ratio, rounded down to whole MiB; 0 when
\* not even the smallest chunk is safe.
ChooseChunkSize(f, at, limit) ==
    IF SafeOutputLimit(f) < 8 * MiB THEN 0
    ELSE LET r == Bounded((SafeOutputLimit(f) * 100) \div at, limit)
         IN  Bounded((r \div MiB) * MiB, limit)

\* lastRatio is kept between 3 and 115 percent.
Clamped(r) == Larger(3, Smaller(r, 115))

\* Faulty variants: the ratio of the sample is kept, or it is not clamped.
SampleOnly(r) == ratio
AsMeasured(r) == r

\* The ratio that was measured on the chunk.
Measured(r) == Clamped(r)

-----------------------------------------------------------------------------
\* The run

\* The pressures a snapshot may find; its own look at the disk may fail.
Evaluate == {Classify(f, load, memory) :
                 f \in {free, 0}, load \in Loads, memory \in Memories}

End(how) == pc' = "done" /\ outcome' = how
Continue(label) == pc' = label /\ UNCHANGED outcome

\* Setup: the first snapshot may only lower the largest chunk, and a run that
\* has no room for its first chunk ends.
Plan ==
    /\ pc = "plan"
    /\ \E p \in Evaluate :
        /\ maxChunk' = Smaller(maxChunk, MaxChunkBytes(p))
        /\ rate' = RateLimitBytes(p)
        /\ sleep' = SleepBetweenChunks(p)
    /\ IF ChooseChunkSize(free, ratio, maxChunk') = 0 THEN End("tooLow")
                                                     ELSE Continue("look")
    /\ UNCHANGED <<percent, free, left, tail, ratio, current, history, spikes>>

\* The head of the loop reads the free space, or the loop is over.  What belongs
\* to one chunk is declared in the loop.
Look ==
    /\ pc = "look"
    /\ looked' = free
    /\ taken' = 0
    /\ chunk' = 0 /\ raw' = 0 /\ output' = 0
    /\ IF left = 0 THEN End("completed") ELSE Continue("throttle")
    /\ UNCHANGED <<percent, free, left, tail, settings, data, denser, chunks, spikes>>

\* The free space cannot be read: the run ends, unlike the throttle below.
LookFails ==
    /\ pc = "look"
    /\ left > 0
    /\ End("error")
    /\ UNCHANGED <<percent, free, left, tail, settings, current, history, spikes>>

\* Auto-throttle reads the free space a second time.
Throttle ==
    /\ pc = "throttle"
    /\ \E p \in Evaluate :
        /\ maxChunk' = MaxChunkBytes(p)
        /\ rate' = RateLimitBytes(p)
        /\ sleep' = SleepBetweenChunks(p)
    /\ Continue("choose")
    /\ UNCHANGED <<percent, free, left, tail, ratio, current, history, spikes>>

\* --stop-free-above, then the size of the chunk.
Choose ==
    /\ pc = "choose"
    /\ chunk' = Smaller(ChooseChunkSize(looked, ratio, maxChunk), left)
    /\ CASE StopAbove > 0 /\ looked >= StopAbove -> End("freeAbove")
         [] ~(StopAbove > 0 /\ looked >= StopAbove) /\ chunk' = 0 -> End("tooLow")
         [] OTHER -> Continue("append")
    /\ UNCHANGED <<percent, free, left, tail, settings, looked, raw, output, history, spikes>>

\* Whole lines are read and compressed at some ratio; the line that crosses the
\* cutoff is left.  The write fails when the output does not fit on the disk.
Append ==
    /\ pc = "append"
    /\ left > tail
    /\ \E r \in Ratios, extra \in {0, MaxLine} :
        /\ raw' = Smaller(chunk + extra, left - tail)
        /\ output' = (raw' * r + 99) \div 100
        /\ denser' = (r > data)
        /\ data' = r
    /\ IF output' > free
       THEN End("diskFull") /\ UNCHANGED free
       ELSE Continue("punch") /\ free' = free - output'
    /\ UNCHANGED <<percent, left, tail, settings, looked, chunk, taken, chunks, spikes>>

\* Only that line is left: the chunk has no line, which ends the run as completed.
AppendNothing ==
    /\ pc = "append"
    /\ left = tail
    /\ End("completed")
    /\ UNCHANGED <<percent, free, left, tail, settings, current, history, spikes>>

\* The chunk is punched out of the source, on the same filesystem or another,
\* and its ratio becomes the last ratio.
Punch ==
    /\ pc = "punch"
    /\ free' \in {free, free + raw}
    /\ left' = left - raw
    /\ ratio' = Measured(data)
    /\ chunks' = chunks + 1
    /\ Continue("pace")
    /\ UNCHANGED <<percent, tail, maxChunk, rate, sleep, current, data, denser, taken,
                   spikes>>

\* applyPacing: what is missing to the rate limit, at most, and the fixed pause.
Pause == (raw * 1000) \div rate + sleep

Pace ==
    /\ pc = "pace"
    /\ Continue("look")
    /\ UNCHANGED <<percent, free, left, tail, settings, current, history, spikes>>

\* Other programs take space or give it back at any time.
Spike(n) ==
    /\ pc # "done"
    /\ spikes < MaxSpikes
    /\ free >= n
    /\ spikes' = spikes + 1
    /\ free' = free - n
    /\ taken' = IF n > 0 THEN taken + n ELSE taken
    /\ UNCHANGED <<percent, pc, left, tail, settings, current, outcome, data, denser, chunks>>

\* The sample is taken from position 0 even when a run resumes: there it reads
\* holes, whose ratio is below the lower clamp.
SampleRatio(resumed) == IF resumed THEN 3 ELSE Clamped(data)

Init ==
    /\ percent \in Percents
    /\ pc = "plan" /\ outcome = "none"
    /\ free \in Frees /\ left = Total /\ tail \in Tails
    /\ data \in Ratios
    /\ \E resumed \in Resumes : ratio = SampleRatio(resumed)
    /\ maxChunk = 512 * MiB /\ rate = 0 /\ sleep = 0
    /\ looked = 0 /\ chunk = 0 /\ raw = 0 /\ output = 0
    /\ denser = FALSE /\ taken = 0 /\ chunks = 0 /\ spikes = 0

Next ==
    \/ Plan \/ Look \/ LookFails \/ Throttle \/ Choose \/ Append \/ AppendNothing
    \/ Punch \/ Pace
    \/ \E n \in Spikes : Spike(n)

Spec == Init /\ [][Next]_vars

-----------------------------------------------------------------------------
\* Properties

\* A chunk whose data compresses no worse than the data in front of it stays
\* within the budget ("use only this percentage of current free disk as the
\* working budget for the next chunk"), the minimum chunk and the line that
\* reaches over the target included.
WithinBudget ==
    pc = "punch" /\ ~denser => output <= WorkingBudget(looked)

\* Whatever the data, and however wrong the ratio was: with at most 30 percent
\* a run fills the disk only if others took space after it had looked.
FitsOnDisk ==
    outcome = "diskFull" /\ percent <= 30 => taken > 0

\* The loop does not dwindle to tiny chunks when space is short: all chunks but
\* the one after which only a line that crosses the cutoff is left have the minimum
\* size, so their number is bounded.
FewChunks ==
    /\ left > tail => chunks * MinChunk <= Total - left
    /\ chunks > 0 => (chunks - 1) * MinChunk <= Total - left

\* With the rates and pauses auto-throttle sets, the pause after a chunk is too
\* short to be taken for a hang by the watchdog.
PauseIsNoHang == pc = "pace" => Pause < ChunkTimeout
=============================================================================
