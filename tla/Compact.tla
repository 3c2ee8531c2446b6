------------------------------ MODULE Compact -------------------------------
(***************************************************************************)
(* One compaction job (one source, one output): compact.Run of             *)
(* internal/compact/engine.go with internal/state and internal/emergency.  *)
(*                                                                         *)
(* The log is the bytes 0..size-1; Newlines are the positions that hold a  *)
(* newline.  A run archives the prefix [0, cutoff) chunk by chunk, punches *)
(* each chunk out of the source and records its progress in a state file,  *)
(* while the application keeps appending.  A run can fail at every call,   *)
(* be killed at every step, or lose power, and the operator can run the    *)
(* command again.  The lock and the state file are named after the pair    *)
(* (source, output), so a job with another output may work on the source   *)
(* at the same time: it is here as the holes it makes and the copies it    *)
(* keeps, and is assumed to do what is proved of this one.                 *)
(***************************************************************************)
EXTENDS Integers, Sequences

CONSTANTS
    Gzip,         \* -g: every chunk is appended as one gzip member
    Newlines,     \* positions of the newline bytes of the log
    InitSizes,    \* possible sizes of the log before the first run
    Keeps,        \* possible values of keep-last, in bytes
    MaxSize,      \* bound: the application stops appending here
    MaxRuns,      \* bound on the number of times the command is run
    MaxMishaps    \* bound on crashes, power losses, failed calls, timeouts,
                  \* clean-state, and archives made by the other job

ASSUME GzipAssumption == Gzip \in BOOLEAN
ASSUME LogAssumption == Newlines \subseteq Nat /\ InitSizes \subseteq Nat
ASSUME KeepAssumption == Keeps \subseteq Nat
ASSUME BoundAssumption == MaxSize \in Nat /\ MaxRuns \in Nat /\ MaxMishaps \in Nat

VARIABLES
    \* --- the source file
    size,         \* apparent size
    holes,        \* punched bytes: they read as NUL
    softHoles,    \* punched bytes whose hole a power loss may still undo
    \* --- the output file
    archive,      \* sequence of appended members
    \* --- the state and emergency files
    stateFile,    \* the version a reader of the state file sees now
    stateSeen,    \* the versions a power loss may leave on the disk
    emergency,    \* content of the .emergency file
    \* --- the other job on the same source
    elsewhere,    \* bytes with a durable copy in its output
    \* --- the process
    pc,           \* where Run is; "idle" when no process runs
    full,         \* --verify full
    cutoff,       \* end of the region to rotate
    offset,       \* start of the current chunk
    end,          \* end of the chunk that was archived last
    job,          \* jobState in memory: offsets [lp, la]
    stopReason,   \* "completed" unless a stop was requested
    fired,        \* the watchdog gave up on the run
    outcome,      \* how the last run ended
    \* --- bounds
    runs,
    mishaps

source == <<size, holes, softHoles>>
files  == <<stateFile, stateSeen, emergency>>
local  == <<full, cutoff, offset, end, job, stopReason, fired>>
vars   == <<source, archive, files, elsewhere, pc, local, outcome, runs, mishaps>>

-----------------------------------------------------------------------------
\* Types

\* No state file, and a state file whose one block a power loss dropped: Load
\* reads the empty file without an error, but it matches no job.
NoState  == [cutoff |-> -1, lp |-> 0, la |-> 0]
BadState == [cutoff |-> -2, lp |-> 0, la |-> 0]
NoEmergency == [lp |-> 0, la |-> 0]

Offsets == [lp : Nat, la : Nat]
States  == [cutoff : Nat, lp : Nat, la : Nat]
StateFiles == States \cup {NoState, BadState}

\* One append to the output: the source range it was read from, the bytes of
\* the range that were not holes when it was read, whether it is cut short,
\* and whether it is only in the page cache ("dirty"), on disk ("safe"), or
\* dropped by a failed fsync ("lost": still readable until a power loss).
Members == [from : Nat, to : Nat, data : SUBSET Nat, torn : BOOLEAN,
            disk : {"dirty", "safe", "lost"}]

Pcs == {"idle", "load", "loop", "sync", "saveArchived", "punch", "srcSync",
        "savePunched", "verify"}

TypeOK ==
    /\ size \in Nat
    /\ holes \subseteq 0..(size - 1)
    /\ softHoles \subseteq holes
    /\ archive \in Seq(Members)
    /\ stateFile \in StateFiles
    /\ stateSeen \subseteq StateFiles
    /\ emergency \in Offsets
    /\ elsewhere \subseteq 0..(size - 1)
    /\ pc \in Pcs
    /\ full \in BOOLEAN
    /\ cutoff \in Nat /\ offset \in Nat /\ end \in Nat
    /\ job \in Offsets
    /\ stopReason \in {"completed", "stopped"}
    /\ fired \in BOOLEAN
    /\ outcome \in {"none", "dryRun", "ok", "verified", "error", "refused",
                   "crashed"}
    /\ runs \in Nat /\ mishaps \in Nat

-----------------------------------------------------------------------------
\* Helpers

\* End positions of the lines a reader sees from position from on: a hole has
\* no newline in it, and the last line ends at the end of the file.
LineEnds(from) ==
    {p \in (from + 1)..size : p = size \/ p - 1 \in Newlines \ holes}

\* The lines that fit below the cutoff, and among them the complete lines that
\* reach the target size.
PastCutoff(from) == LineEnds(from) \* faulty variant: no cutoff
WholeLines(from) == {p \in LineEnds(from) : p <= cutoff}
Reaching(from, target) ==
    {p \in WholeLines(from) : p >= from + target /\ p - 1 \in Newlines \ holes}

\* Faulty variant: stop at the target, wherever in a line it is.
ExactChunkEnds(from, target) == {from + target}

\* Faulty variant: a chunk may be empty although there is a whole line.
EmptyChunkEnds(from, target) == {from}

\* Where writeLineSafeChunk stops when it reads from position from: the first
\* complete line that reaches the target, else the last line below the cutoff.
ChunkEnds(from, target) ==
    {p \in WholeLines(from) :
        IF Reaching(from, target) # {}
        THEN /\ p \in Reaching(from, target)
             /\ \A q \in Reaching(from, target) : p <= q
        ELSE \A q \in WholeLines(from) : q <= p}

Member(from, to, torn) ==
    [from |-> from, to |-> to, data |-> (from..(to - 1)) \ holes,
     torn |-> torn, disk |-> "dirty"]

\* Faulty variant: the output is never synced.
NotFlushed(members, result) == members

\* An fsync of the output reaches every member the page cache still holds.
Flushed(members, result) ==
    [i \in DOMAIN members |->
        IF members[i].disk = "dirty" THEN [members[i] EXCEPT !.disk = result]
                                     ELSE members[i]]

\* The bytes whose copy in an output survives whatever happens next: in the
\* output of this job, and in one of the two outputs.
OnDisk(i) == ~archive[i].torn /\ archive[i].disk = "safe"
Copied == UNION {archive[i].data : i \in {j \in DOMAIN archive : OnDisk(j)}}
Safe == Copied \cup elsewhere

\* The bytes a standard reader gets out of the output: gzip stops at the first
\* member that is cut short, a plain file has no such limit.
Readable == UNION {archive[i].data : i \in {j \in DOMAIN archive :
              /\ ~archive[j].torn
              /\ Gzip => \A h \in 1..j : ~archive[h].torn}}

-----------------------------------------------------------------------------
\* Steps shared by the actions

Finish(how) ==
    /\ pc' = "idle"
    /\ outcome' = how

Mishap ==
    /\ mishaps < MaxMishaps
    /\ mishaps' = mishaps + 1

\* Faulty variants: what is archived is recorded as punched; nothing is saved.
SavePunchedToo(lp, la) ==
    /\ stateFile' = [cutoff |-> cutoff, lp |-> la, la |-> la]
    /\ stateSeen' = stateSeen \cup {stateFile'}
SaveNothing(lp, la) == UNCHANGED <<stateFile, stateSeen>>

\* state.Save: write a temporary file and rename it over the state file.  No
\* fsync: the new version is only one of those a power loss may leave.
Save(lp, la) ==
    /\ stateFile' = [cutoff |-> cutoff, lp |-> lp, la |-> la]
    /\ stateSeen' = stateSeen \cup {stateFile'}

\* Faulty variant: the chunk that was only archived is claimed as punched.
EmergencyOfArchived == [lp |-> job.la, la |-> job.la]

\* writeEmergency copies the offsets of the in-memory job state.
EmergencyOfJob == job

\* It writes the file in place, and its error is ignored: the file may stay as
\* it was, or be left empty.
WriteEmergency == emergency' \in {EmergencyOfJob, emergency, NoEmergency}

\* Faulty variant: one byte too many.
ReleaseOneMore(to) ==
    /\ holes' = holes \cup (offset..to)
    /\ softHoles' = softHoles \cup ((offset..to) \ holes)

\* disk.PunchHole on [offset, to): the bytes read as NUL from now on, and the
\* hole is on disk only after the next sync of the source.
Release(to) ==
    /\ holes' = holes \cup (offset..(to - 1))
    /\ softHoles' = softHoles \cup ((offset..(to - 1)) \ holes)

-----------------------------------------------------------------------------
\* Starting a run

\* The log is not empty and longer than what is to be kept.
LongEnough(keep) == keep < size

\* Faulty variants: the run starts over, or trusts the archived offset.
FromZero(s) == 0
FromArchived(s) == s.la

\* Where a resumed run continues.
ResumeOffset(s) == s.lp

\* A run validates its arguments and fixes the cutoff from the size it sees.
Start(keep, verify) ==
    /\ pc = "idle"
    /\ runs < MaxRuns
    /\ LongEnough(keep)
    /\ runs' = runs + 1
    /\ cutoff' = size - keep
    /\ full' = verify
    /\ stopReason' = "completed"
    /\ fired' = FALSE
    /\ outcome' = "none"
    /\ offset' = 0 /\ end' = 0 /\ job' = [lp |-> 0, la |-> 0]
    /\ pc' = "load"
    /\ UNCHANGED <<source, archive, files, mishaps, elsewhere>>

\* A dry run ends, or a check before the state file is read fails.
GiveUp ==
    /\ pc = "load"
    /\ \E how \in {"dryRun", "error"} : Finish(how)
    /\ UNCHANGED <<source, archive, files, local, runs, mishaps, elsewhere>>

LoadFresh ==
    /\ pc = "load"
    /\ stateFile = NoState
    /\ pc' = "loop"
    /\ UNCHANGED <<source, archive, files, local, outcome, runs, mishaps, elsewhere>>

\* Any error of reading counts as no state file, also when there is one.
LoadUnreadable ==
    /\ pc = "load"
    /\ stateFile # NoState
    /\ Mishap
    /\ pc' = "loop"
    /\ UNCHANGED <<source, archive, files, local, outcome, runs, elsewhere>>

LoadResume ==
    /\ pc = "load"
    /\ stateFile \in States
    /\ stateFile.cutoff = cutoff
    /\ stateFile.lp <= cutoff
    /\ job' = [lp |-> stateFile.lp, la |-> stateFile.la]
    /\ offset' = ResumeOffset(stateFile)
    /\ pc' = "loop"
    /\ UNCHANGED <<source, archive, files, full, cutoff, end, stopReason, fired,
                   outcome, runs, mishaps, elsewhere>>

\* A state file of another job, or one that is damaged, is never overwritten.
LoadRefused ==
    /\ pc = "load"
    /\ stateFile # NoState
    /\ stateFile.cutoff # cutoff \/ stateFile.lp > cutoff
    /\ Finish("refused")
    /\ UNCHANGED <<source, archive, files, local, runs, mishaps, elsewhere>>

-----------------------------------------------------------------------------
\* The chunk loop

\* Faulty variant: off by one.
AfterCutoff == offset > cutoff

AtCutoff == offset >= cutoff

LoopDone ==
    /\ pc = "loop"
    /\ AtCutoff
    /\ pc' = "verify"
    /\ UNCHANGED <<source, archive, files, local, outcome, runs, mishaps, elsewhere>>

\* A signal, --max-runtime or --stop-free-above, seen at the loop head.
LoopStop ==
    /\ pc = "loop"
    /\ offset < cutoff
    /\ ~fired
    /\ stopReason' = "stopped"
    /\ pc' = "verify"
    /\ UNCHANGED <<source, archive, files, full, cutoff, offset, end, job, fired,
                   outcome, runs, mishaps, elsewhere>>

\* The watchdog fired, the free space is unknown, or it is too low.
LoopError ==
    /\ pc = "loop"
    /\ offset < cutoff
    /\ Finish("error")
    /\ UNCHANGED <<source, archive, files, local, runs, mishaps, elsewhere>>

\* No whole line is left below the cutoff: the loop ends, and the run counts as
\* completed.  Closing the gzip writer still appends an empty member, and the
\* output is still synced; the errors of both are hidden by the end-of-file
\* result.
AppendNothing ==
    /\ pc = "loop"
    /\ offset < cutoff
    /\ ~fired
    /\ WholeLines(offset) = {}
    /\ \E torn \in (IF Gzip THEN BOOLEAN ELSE {FALSE}), result \in {"safe", "lost"} :
        /\ archive' = Flushed(
                IF Gzip THEN Append(archive, Member(offset, offset, torn)) ELSE archive,
                result)
        /\ IF torn \/ result = "lost" THEN Mishap ELSE UNCHANGED mishaps
    /\ pc' = "verify"
    /\ UNCHANGED <<source, files, local, outcome, runs, elsewhere>>

\* A chunk of whole lines is appended to the output (not yet on disk).
AppendChunk(target) ==
    /\ pc = "loop"
    /\ offset < cutoff
    /\ ~fired
    /\ \E e \in ChunkEnds(offset, target) :
        /\ archive' = Append(archive, Member(offset, e, FALSE))
        /\ end' = e
    /\ pc' = "sync"
    /\ UNCHANGED <<source, files, full, cutoff, offset, job, stopReason, fired,
                   outcome, runs, mishaps, elsewhere>>

\* The output cannot be opened, or a read or a write fails inside the chunk.
\* What was written so far stays in the output and is synced all the same: a
\* whole member when only the read failed, else one cut short.  The watchdog may
\* have fired since the loop head looked.
AppendFails ==
    /\ pc = "loop"
    /\ offset < cutoff
    /\ Mishap
    /\ \/ UNCHANGED archive
       \/ \E e \in {offset} \cup WholeLines(offset), torn \in BOOLEAN,
             result \in {"safe", "lost"} :
            archive' = Flushed(Append(archive, Member(offset, e, torn)), result)
    /\ Finish("error")
    /\ UNCHANGED <<source, files, local, runs, elsewhere>>

\* fsync of the output: everything written to it and not dropped is on disk, and
\* the job state in memory says so.
SyncOutput ==
    /\ pc = "sync"
    /\ archive' = Flushed(archive, "safe")
    /\ job' = [job EXCEPT !.la = end]
    /\ pc' = "saveArchived"
    /\ UNCHANGED <<source, files, full, cutoff, offset, end, stopReason, fired,
                   outcome, runs, mishaps, elsewhere>>

SyncOutputFails ==
    /\ pc = "sync"
    /\ Mishap
    /\ archive' = Flushed(archive, "lost")
    /\ Finish("error")
    /\ UNCHANGED <<source, files, local, runs, elsewhere>>

SaveArchived ==
    /\ pc = "saveArchived"
    /\ Save(job.lp, job.la)
    /\ pc' = "punch"
    /\ UNCHANGED <<source, archive, emergency, local, outcome, runs, mishaps, elsewhere>>

Punch ==
    /\ pc = "punch"
    /\ Release(end)
    /\ pc' = "srcSync"
    /\ UNCHANGED <<size, archive, files, local, outcome, runs, mishaps, elsewhere>>

\* The punch fails, possibly after a part of the range was released.
PunchFails ==
    /\ pc = "punch"
    /\ Mishap
    /\ \E e \in offset..end : Release(e)
    /\ WriteEmergency
    /\ Finish("error")
    /\ UNCHANGED <<size, archive, stateFile, stateSeen, local, runs, elsewhere>>

SyncSource ==
    /\ pc = "srcSync"
    /\ softHoles' = {}
    /\ job' = [job EXCEPT !.lp = end]
    /\ pc' = "savePunched"
    /\ UNCHANGED <<size, holes, archive, files, full, cutoff, offset, end,
                   stopReason, fired, outcome, runs, mishaps, elsewhere>>

SyncSourceFails ==
    /\ pc = "srcSync"
    /\ Mishap
    /\ WriteEmergency
    /\ Finish("error")
    /\ UNCHANGED <<source, archive, stateFile, stateSeen, local, runs, elsewhere>>

SavePunched ==
    /\ pc = "savePunched"
    /\ Save(job.lp, job.la)
    /\ offset' = end
    /\ pc' = "loop"
    /\ UNCHANGED <<source, archive, emergency, full, cutoff, end, job, stopReason,
                   fired, outcome, runs, mishaps, elsewhere>>

\* Either save fails: the old version of the state file stays in place.
SaveFails ==
    /\ pc \in {"saveArchived", "savePunched"}
    /\ Mishap
    /\ Finish("error")
    /\ UNCHANGED <<source, archive, files, local, runs, elsewhere>>

-----------------------------------------------------------------------------
\* The end of a run

\* Faulty variant: only the member appended last is read.
LastIntact == archive # <<>> /\ ~archive[Len(archive)].torn

\* verifyGzip reads the whole output, every member of it.
AllIntact == archive # <<>> /\ \A i \in DOMAIN archive : ~archive[i].torn

MustVerify == Gzip /\ full /\ stopReason = "completed"

VerifyOk ==
    /\ pc = "verify"
    /\ MustVerify
    /\ AllIntact
    /\ Finish("verified")
    /\ UNCHANGED <<source, archive, files, local, runs, mishaps, elsewhere>>

\* A member is cut short, or the output cannot be opened or read.
VerifyFails ==
    /\ pc = "verify"
    /\ MustVerify
    /\ IF AllIntact THEN Mishap ELSE UNCHANGED mishaps
    /\ Finish("error")
    /\ UNCHANGED <<source, archive, files, local, runs, elsewhere>>

VerifySkipped ==
    /\ pc = "verify"
    /\ ~MustVerify
    /\ Finish("ok")
    /\ UNCHANGED <<source, archive, files, local, runs, mishaps, elsewhere>>

-----------------------------------------------------------------------------
\* The world around the run

\* The watchdog goroutine sees no progress for --chunk-timeout, wherever the run
\* is (it lives until the process ends, thus also during the verification), and
\* writes the job state it shares with the run.  The loop head notices later.
WatchdogFires ==
    /\ pc \notin {"idle", "load"}
    /\ ~fired
    /\ Mishap
    /\ fired' = TRUE
    /\ WriteEmergency
    /\ UNCHANGED <<source, archive, stateFile, stateSeen, pc, full, cutoff, offset,
                   end, job, stopReason, outcome, runs, elsewhere>>

\* The application appends one byte to the log it has open.
AppAppend ==
    /\ size < MaxSize
    /\ size' = size + 1
    /\ UNCHANGED <<holes, softHoles, archive, files, pc, local, outcome, runs,
                   mishaps, elsewhere>>

\* The process dies (SIGKILL, OOM).  The page cache survives; an append that
\* was under way leaves a member cut short.
Crash ==
    /\ pc # "idle"
    /\ Mishap
    /\ \/ UNCHANGED archive
       \/ /\ pc = "loop" /\ offset < cutoff
          /\ \E e \in {offset} \cup WholeLines(offset) :
                archive' = Append(archive, Member(offset, e, TRUE))
    /\ Finish("crashed")
    /\ UNCHANGED <<source, files, local, runs, elsewhere>>

\* The machine loses power.  The output keeps what is on disk; of the rest a
\* prefix survives, any of it cut short.  Holes that were not synced may be
\* undone, the state file may be any version written since the last power
\* loss or an empty file, and the emergency file may be gone.
PowerLoss ==
    /\ Mishap
    /\ \E n \in 0..Len(archive), cut \in SUBSET DOMAIN archive :
        /\ \A i \in DOMAIN archive : archive[i].disk = "safe" => i <= n /\ i \notin cut
        /\ archive' = [i \in 1..n |-> [archive[i] EXCEPT
                         !.torn = @ \/ i \in cut, !.disk = "safe"]]
    /\ holes' \in {holes, holes \ softHoles}
    /\ softHoles' = {}
    /\ stateFile' \in IF stateSeen = {stateFile} THEN stateSeen
                                                ELSE stateSeen \cup {BadState}
    /\ stateSeen' = {stateFile'}
    /\ emergency' \in {emergency, NoEmergency}
    /\ Finish("crashed")
    /\ UNCHANGED <<size, local, runs, elsewhere>>

\* logcut clean-state renames the state file away, whether a run is active or
\* not.
CleanState ==
    /\ stateFile # NoState
    /\ Mishap
    /\ stateFile' = NoState
    /\ stateSeen' = stateSeen \cup {NoState}
    /\ UNCHANGED <<source, archive, emergency, pc, local, outcome, runs, elsewhere>>

\* The other job, at work on its own cutoff, reads the lines up to p, appends
\* them to its output and syncs it.  A hole reads as NULs, also for it.
OtherArchives ==
    /\ Mishap
    /\ \E p \in LineEnds(0) : elsewhere' = elsewhere \cup ((0..(p - 1)) \ holes)
    /\ UNCHANGED <<source, archive, files, pc, local, outcome, runs>>

\* It punches what it archived, holes included, whatever this job is doing.
OtherPunches ==
    /\ Mishap
    /\ \E p \in 1..size :
        /\ 0..(p - 1) \subseteq elsewhere \cup holes
        /\ p - 1 \in elsewhere
        /\ holes' = holes \cup 0..(p - 1)
        /\ softHoles' = softHoles \cup ((0..(p - 1)) \ holes)
    /\ UNCHANGED <<size, archive, files, pc, local, outcome, runs, elsewhere>>

-----------------------------------------------------------------------------

Init ==
    /\ size \in InitSizes
    /\ holes = {} /\ softHoles = {}
    /\ archive = <<>>
    /\ stateFile = NoState /\ stateSeen = {NoState}
    /\ emergency = NoEmergency
    /\ elsewhere = {}
    /\ pc = "idle"
    /\ full = FALSE /\ cutoff = 0 /\ offset = 0 /\ end = 0
    /\ job = [lp |-> 0, la |-> 0]
    /\ stopReason = "completed"
    /\ fired = FALSE
    /\ outcome = "none"
    /\ runs = 0 /\ mishaps = 0

\* The steps of a run that is under way.
RunStep ==
    \/ GiveUp \/ LoadFresh \/ LoadUnreadable \/ LoadResume \/ LoadRefused
    \/ LoopDone \/ LoopStop \/ LoopError
    \/ AppendNothing \/ (\E target \in 1..(cutoff - offset) : AppendChunk(target))
    \/ AppendFails
    \/ SyncOutput \/ SyncOutputFails
    \/ SaveArchived \/ Punch \/ PunchFails
    \/ SyncSource \/ SyncSourceFails \/ SavePunched \/ SaveFails
    \/ VerifyOk \/ VerifyFails \/ VerifySkipped

\* What the operator, the application and the machine do.
EnvStep ==
    \/ \E keep \in Keeps, verify \in BOOLEAN : Start(keep, verify)
    \/ WatchdogFires \/ AppAppend \/ Crash \/ PowerLoss \/ CleanState
    \/ OtherArchives \/ OtherPunches

Next == RunStep \/ EnvStep

Spec == Init /\ [][Next]_vars

\* Every call a run makes returns.
FairSpec == Spec /\ WF_vars(RunStep)

-----------------------------------------------------------------------------
\* Properties

\* The inductive invariant behind the safety properties.  Within a run: the
\* chunk starts at the punched offset; before the sync the last member holds
\* what is left of the chunk; after it the chunk is safe; after the punch and
\* the sync of the source it is a hole, and stays one.  The job state in memory
\* runs ahead of the state file by one step.
Chunk == offset..(end - 1)
ChunkInv ==
    /\ pc \notin {"idle", "savePunched", "verify"} => offset = job.lp
    /\ pc = "savePunched" => end = job.lp
    /\ pc \in {"load", "loop"} => offset <= size
    /\ pc \in {"sync", "saveArchived", "punch", "srcSync", "savePunched"} =>
            end <= size
    /\ pc = "sync" =>
            /\ archive # <<>>
            /\ Chunk \ holes \subseteq archive[Len(archive)].data
            /\ ~archive[Len(archive)].torn
            /\ archive[Len(archive)].disk = "dirty"
    /\ pc \in {"saveArchived", "punch", "srcSync"} => Chunk \subseteq Safe
    /\ pc = "srcSync" => Chunk \subseteq holes

\* Punching never destroys the only copy: a punched byte is in a member of the
\* output that is complete and on disk (or in the output of the other job that
\* punched it), whatever crashed, failed or lost power between the steps of any
\* run (append, sync, save, punch, sync, save).
NoLoss == holes \subseteq Safe

\* The offsets in the state file are true, in every version a power loss may
\* bring back: everything below last_punched_offset is durably punched and
\* archived, everything below last_archived_offset is archived.
Truthful(s) ==
    /\ 0..(s.lp - 1) \subseteq holes \ softHoles
    /\ 0..(s.la - 1) \subseteq Safe
StateTruthful == \A s \in stateSeen \cup {stateFile} : Truthful(s)

\* The offsets in the emergency file stay true, however long the operator
\* takes to read them and whatever runs happen before.
EmergencyTruthful == Truthful(emergency)

\* What is punched is one range from the start of the log, whoever punched it and
\* whatever failed or was undone by a power loss; so is what is durably punched.
\* A hole behind bytes the log still has would make the resume skip lines.
IsPrefix(S) == \A x \in S : 0..x \subseteq S
HolesAtTheStart == IsPrefix(holes) /\ IsPrefix(holes \ softHoles)

\* TypeOK, ChunkInv and the three claims about what is safe hold together.
IInv ==
    /\ TypeOK
    /\ NoLoss
    /\ StateTruthful
    /\ EmergencyTruthful
    /\ Truthful(job)
    /\ \A i \in DOMAIN archive : archive[i].data \subseteq 0..(size - 1)
    /\ ChunkInv

\* A run never punches into the tail it promised to keep: new holes are below
\* the cutoff it computed from the size it saw when it started.
TailKept == [][pc' # pc => holes' \ holes \subseteq 0..(cutoff - 1)]_vars

\* Chunks are cut at line ends: progress is recorded only right after a
\* newline of the log, when at least one byte is kept.  (With nothing kept the
\* unterminated last line is archived as it is.)
AtLineEnd(s) == s.lp = 0 \/ s.lp - 1 \in Newlines
CutAtLineEnd ==
    0 \notin Keeps => /\ \A s \in stateSeen \cup {stateFile} : AtLineEnd(s)
                     /\ AtLineEnd(job)

\* Without a mishap the output is the log's prefix, byte for byte and once:
\* stopping and resuming leaves no gap, no repetition and no run of NULs.
ExactCopy ==
    mishaps = 0 =>
        \A i \in DOMAIN archive :
            /\ archive[i].from = (IF i = 1 THEN 0 ELSE archive[i - 1].to)
            /\ archive[i].data = archive[i].from..(archive[i].to - 1)

\* A run that ends with a successful verification leaves an output from which
\* a standard reader recovers every byte that was punched, but for what another
\* job on the same source has archived elsewhere.
VerifiedReadable == outcome = "verified" => holes \subseteq Readable \cup elsewhere

\* Every punched byte can be read back by a standard reader, from this output or
\* from that of another job on the same source.
PunchedReadable == holes \subseteq Readable \cup elsewhere

\* A run that was asked to stop and ends without an error has recorded exactly
\* what it punched, also when it resumed after a mishap: the next run starts
\* where this one left off.  Only the operator can have moved the record away.
StopAtBoundary ==
    outcome = "ok" /\ stopReason = "stopped" /\ offset > 0 =>
        /\ 0..(offset - 1) \subseteq holes
        /\ \/ stateFile.lp = offset /\ stateFile.la >= offset
           \/ stateFile = NoState /\ mishaps > 0

\* A rerun with the same command line is accepted and resumes.
ResumeAccepted == outcome # "refused"

\* A run that reports "completed" has released every whole line below its
\* cutoff, also the lines of chunks that an interrupted run had begun.
CompletedReleases ==
    (outcome \in {"ok", "verified"} /\ stopReason = "completed") =>
        \A p \in Newlines : p < cutoff => 0..p \subseteq holes

\* Every run ends: it never loops without advancing and never waits for ever.
RunEnds == (pc # "idle") ~> (pc = "idle")

\* A bound on the steps a run still has to take: seven for every byte that may
\* be a chunk of its own, and those left of the present chunk.
Rank == [idle |-> 0, verify |-> 1, savePunched |-> 3, srcSync |-> 4, punch |-> 5,
         saveArchived |-> 6, sync |-> 7, loop |-> 8, load |-> 9]
Remaining ==
    Rank[pc] + (IF pc \in {"idle", "verify"} THEN 0 ELSE 7 * (cutoff - offset))

\* Every step of a run brings its end nearer, whatever it resumed from and
\* wherever its chunks end, and nothing that happens meanwhile (the log grows,
\* its record is moved away, another job punches) moves the end away.
RunsAdvance ==
    [][ /\ RunStep => Remaining' \in 0..(Remaining - 1)
        /\ pc # "idle" => Remaining' <= Remaining ]_vars

\* The job implements the abstract promise.
P == INSTANCE Preservation WITH
        size <- size, held <- (0..(size - 1)) \ holes, safe <- Safe
Preserves == P!Spec
=============================================================================
