# Verification of logcut

logcut shrinks a log file that another program keeps writing. It copies the old
part of the log, the prefix `[0, cutoff)`, into an output file (plain, or a
sequence of gzip members), and releases the space of what it copied by punching
holes into the source. The log never moves and never gets shorter: readers and
writers keep their offsets.

For every chunk the order is: append to the output, fsync the output, save the
archived offset in a state file, punch the hole, sync the source, save the
punched offset. Everything the program promises rests on this order, on what a
resumed run may conclude from the state file, and on nobody else running the same
job. This directory states those promises in TLA+, checks them with TLC on small
instances, and proves most of them with TLAPS for all instances.

## 1. Inventory

### Components, their state and operations

| component | code | state | operations |
|---|---|---|---|
| compaction engine | `internal/compact/engine.go` | cutoff, offset, `jobState`, last ratio, throttle settings | `Run`: start checks, load or create state, chunk loop, verification; `appendLineSafeChunk`, `writeLineSafeChunk`, `chooseChunkSize`, `estimateCompressionRatio`, `applyPacing`, `verifyGzip`, `startWatchdog`, `writeEmergency` |
| state file | `internal/state` | one text file per job | `Load`, `Save` (temporary file and rename, no fsync) |
| emergency file | `internal/emergency` | one text file per job | `Write` (in place) |
| lock | `internal/lock` | one file per job, an flock on it, the process id in it | `Acquire`, `Close`, `ReadPID`, `IsProcessAlive`, `ForceUnlock` |
| job names | `internal/job` | none | hash of (source, output) to file names |
| signals | `internal/control` | a flag and a reason | `NewStopper`, `Requested`, `Reason` |
| adaptive throttle | `internal/adaptive` | none | `Evaluate`, `classify` |
| disk | `internal/disk` | none | `FreeBytes`, `PunchHole`, `TestPunchHole`, I/O class, cache advice |
| command line | `internal/cli`, `cmd/logcut` | none | run, `status`, `list-state`, `clean-state`, `force-unlock` |
| preflight | `internal/preflight` | temporary files, directories it makes | nine checks before a run, and a verdict |
| progress, events | `internal/progress`, `internal/event` | none | output |
| sizes, version | `internal/human`, `internal/version` | none | parsing, formatting |
| build tooling | `cmd/devtool`, `cmd/versionbump`, `tools/bootstrap` | the version in five files; `build/`, `dist/`, the installed files | bump, build, install, uninstall, clean, package, sum |

### How they interact

* `Run` takes the lock for its whole length, loads the state file once, and saves
  it twice per chunk. It writes the emergency file itself when the punch or the
  sync of the source fails.
* The **watchdog** goroutine of a run shares the time of the last activity
  (atomic), the offset it would report (atomic), a channel it closes on a timeout,
  and, without any lock, the `jobState` of the loop. It writes the emergency
  file too.
* The **stopper** goroutine turns SIGINT or SIGTERM into a flag that the loop and
  the watchdog look at.
* The **application** appends to the log at any time. Other programs fill and
  free the disk of the output at any time.
* The **operator** runs the command again, or `clean-state` (renames the state
  file away) and `force-unlock` (removes the lock file), at any time.
* The **machine** may lose power: what was not synced may or may not be there
  afterwards. Its directories, locks and disks change between any two checks of a
  command.
* **Another job** on the same log, with another output, has a lock and a state file
  of its own, and punches the same source.
* `preflight` looks at what `Run` will look at, with calls of its own and in an order
  of its own; `Run` relies on none of it.
* The build tools share files and nothing else: what one command leaves in the
  tree, whole or broken off, the next one starts from.

### What is hard, and what correctness means

* Engine and state file: a crash, a failed call or a power loss between any two of
  the six steps. Correct: nothing is punched that is not safe in the output; the
  recorded offsets are true; a stopped run leaves no gap and no repetition; cuts
  are at ends of lines; the kept tail is left alone; a completed run has released
  its range; every run ends.
* Lock: two runs, and a force-unlock between any two system calls of an
  acquisition. Correct: one run per job; a stale file keeps nobody out; a
  force-unlock leaves a running job its file. The code breaks the last of these for
  a job of another user, and when it can neither empty nor write the file.
* Watchdog and stopper: three goroutines and a clock. Correct: a hang is noticed
  in bounded time; what the emergency file says fits together; a stop is
  prompt; a timeout is not reported as a success.
* Start of a command: sixteen checks of things that change, and calls that no
  check tries. Correct: who passes the checks fails at the first append or punch only
  for what no check tries; a passed preflight keeps its word, to the run after it,
  for what it did try; who is refused has changed neither the output nor the
  state file (directories and the lock file are made).
* Build tools: several files rewritten in place, one after the other. Correct: a
  bump that succeeds leaves one version; packages are of one version; a command
  that reports success did what it reports.
* Sizing: values read at different moments, clamps and roundings. Correct: output
  stays inside the budget; no append fills the disk; the number of chunks stays
  bounded; pacing is not mistaken for a hang.

`PROJECT.json` lists every such hazard at its line with the properties aimed at
it, and says which ones no property covers yet.

## 2. Modules

| module | models | used by |
|---|---|---|
| `Preservation` | the promise alone: bytes are written, copied, and released only when safe | `Compact` (refinement) |
| `Compact` | one job over several runs: `Run`, the state and emergency files, faults, the operator | `MC_Compact`, `Compact_proofs`, `Runs_proofs` |
| `Lock` | the lock file of one job, every system call a step | `Lock_proofs` |
| `Watchdog` | chunk loop, watchdog and stopper of one run, with time | `Watchdog_proofs` |
| `Budget` | how much is archived at a time, the auto-throttle, and the pauses | `MC_Budget`, `Budget_proofs` |
| `Start` | how a command begins: preflight, dry run, and a run up to its first punch | `MC_Start`, `Start_proofs` |
| `Release` | the build tools: one command after the other, each of which may break off | `MC_Release`, `Release_proofs` |
| `MC_Compact`, `MC_Budget`, `MC_Start`, `MC_Release` | constants for TLC | runs |
| `*_proofs` | theorems and proofs | |

Operators with the comment "faulty variant" are ways a plausible bug would change
the definition next to them; no specification uses them. Each property is known
to fail under one of them.

### Compact

The log is the set of positions `0..size-1`; `Newlines` says which of them hold a
newline. Bytes have no values: a byte is known by its position, a punched one
reads as NUL. `holes` is what is punched, `softHoles` the part a power loss may
still undo. `archive` is the output as a sequence of appended members, each
with the range it was read from, the bytes that were not holes at that time
(`data`), whether it is cut short (`torn`), and whether it is on the disk.
`stateFile` is what a reader of the state file sees now, and `stateSeen` the
versions a power loss may leave.

`pc` is the call `Run` is in. Each action is one call, with its success and its
failure as separate actions:

| code (`engine.go`) | actions |
|---|---|
| start: size checks, dry run, lock, opens, hole-punch probe | `Start`, `GiveUp` |
| load or create the state | `LoadFresh`, `LoadUnreadable`, `LoadResume`, `LoadRefused` |
| head of the loop | `LoopDone`, `LoopStop`, `LoopError` |
| append | `AppendChunk`, `AppendNothing`, `AppendFails` |
| fsync of the output | `SyncOutput`, `SyncOutputFails` |
| save, punch, sync, save | `SaveArchived`, `Punch`, `PunchFails`, `SyncSource`, `SyncSourceFails`, `SavePunched`, `SaveFails` |
| verification | `VerifyOk`, `VerifyFails`, `VerifySkipped` |
| watchdog, application, machine, operator | `WatchdogFires`, `AppAppend`, `Crash`, `PowerLoss`, `CleanState` |
| another job on the same log | `OtherArchives`, `OtherPunches` |

Abstractions, each deliberate:

* The target of a chunk is any size (`Budget` says which sizes there really are),
  so that chunks of one line, of several and of everything occur.
* Ends of the loop because of free space are `LoopStop`, errors of the free-space
  reading and the seen timeout are `LoopError`.
* A failed fsync may drop the pages it was asked to write (`lost`): they can be
  read until a power loss, and a later fsync succeeds without them.
* A torn member can be the result of a crash or of a failed write inside an append.
* The state file is written without fsync. After a power loss it is one of the
  versions seen since the last certain one, or empty. A prefix of a
  version is not modelled: the file is far smaller than a block.
* One process per job at a time. `Lock` shows under which condition this holds.
* The other job is modelled by what this one sees of it: it copies a prefix of
  whole lines, holes as NULs, into its own output (`elsewhere`), and punches what it
  copied, at any step of this job. Whatever is punched must then be safe in one of
  the two outputs, each of which may lack what the other has.
* A state file that cannot be read counts as none (`LoadUnreadable`), as in the
  code: the run starts over above holes.
* The log is append-only: rotation, truncation and replacement of the log under a
  run are outside the model.
* Refusals at the start are `GiveUp`; `Start` has them one by one and shows that they
  change neither the output nor the state file.
* The verification fails when a member is torn, or when the output cannot be opened
  or read (`VerifyFails`; the latter counts as a mishap).
* A log of fewer than ten bytes of which nothing is kept may end inside a line, and
  is then cut there. `CutAtLineEnd` excepts this.

### Preservation

Three variables: the size, the bytes still `held` by the source, the bytes
`safe` outside it. `Compact` implements it with the source's non-punched bytes as
`held`, and the bytes in safe members of the output or in the other job's as `safe`.

### Lock

The path names an inode or none; processes hold descriptors on inodes; flock
belongs to the inode. `Open`, `Flock`, `FlockRefused`, `Truncate`, `WritePid` and
`Leave` are the calls of `Acquire` and of the release at the end. `Truncate` and
`WritePid` each succeed or fail, and nobody looks at their errors: without the
truncation the earlier owner's id is still there, and the new one, if it is
shorter, leaves digits of it, so that no id can be read; without the write the file
has no id, or, when both fail, the earlier one. `ReadPid`, `CheckAlive` and `Remove`
are the calls of `ForceUnlock`. A process of another user (`Foreign`) looks
dead, because the signal is not permitted. History variables remember that a file
some process had open was removed (`removedInUse`), which calls of a process
failed (`failed`), and which jobs ran on the file a force-unlock read
(`ranAtRead`).

### Watchdog

Offsets count chunks. `Pass` lets time go on; it may happen at every step of the
loop, so each call can take any time, except that a tick that is due is taken
before more time passes (the one assumption on scheduling: the runtime runs a
goroutine that is ready). The watchdog reads `jobState` field by field and
then writes the file, with loop steps in between. `Compact` has this as one
step, `WatchdogFires`; the detail of the torn read is here.

### Budget

Sizes in KiB, ratios in percent, pauses in milliseconds. `Plan` chooses the
percentage, the free space and the sampled ratio; `Look`, `Throttle`, `Choose`,
`Append`, `Punch` and `Pace` are the stages of one turn of the loop; `Spike` is
another program that takes or gives back space between any two of them. The free
space is read twice per turn, as in the code; the first reading ends the run
when it fails (`LookFails`), the second then counts as 0. Load and memory are any
of `Loads` and `Memories` at every look; a reading that fails is a load of 0 and a
memory of 0 bytes, which classify as no pressure. Ratios are whole percentages,
and a line may reach over the target by at most `MaxLine`. `tail` is the part of a
line in front of the cutoff: no chunk takes it, so the last chunk may be smaller than
`left` and than its target, and the loop then ends by a chunk without a line
(`AppendNothing`). It may be all there is.

### Start

`machine` is what a command meets: what the path of the source names and its
size, whether it can be opened for reading and for writing, whether holes can be
punched in its directory and, behind a symbolic link, in its target's; for output,
state file and lock file the state of the directory (`dirs`) and of the file itself
(`files`: absent, usable, or blocked, such as a directory or a file of another user);
whether another run has the lock; and the free space. `PreflightSteps` and
`RunSteps` are the checks of `preflight.Run` and `compact.Run` in their order, with
the opening of the log file of a run and the sample of the compression;
`Passes` says what each looks at and `AfterCheck` what it creates on the way; one step
makes one check (`PreflightCheck`, `RunCheck`, `RunRefused`), and `Change` may come
between any two. The preflight makes all of its checks, a run ends at the first
that fails.

Behind the checks come the calls by which a run finds out what it did not check.
The output is opened: `FirstChunk`, or `AppendRefused`. The append may also break off
with a part of the chunk in the output, or find no whole line (`AppendBreaksOff`).
The chunk is recorded (`FirstRecord`, `RecordFails`) and punched (`FirstPunch`,
which fails where the target of a link cannot be punched). The preflight writes files of its own into
the three directories; it never tries the output path, the state file and the lock
file themselves, and a run opens only the last of these before its first chunk.

`record` is the cutoff in the state file. `ParseSize` is the arithmetic of
`human.ParseSize` in hundredths of a unit. What a command found when it began
(`before`), whether the machine changed since (`clean`; what the command itself
makes does not count), and which outputs a preflight passed for on this very machine
(`trusted`) are history. `Start` ends where `Compact` goes on: `Start` of `Compact` is
the passing of all checks, and `FirstRecord` its first `SaveArchived`.

### Release

`files` is the version each of the five files holds, `0` for no file and `-1` for
one that was written in part. A command is a sequence of steps (`Steps`), in the
order of the code; each step is an action, and `Interrupted` breaks any of them
off, leaving what a write in place can leave. An artifact in `dist/` is a record
of what is in it. A `go.mod` that the tools make themselves requires nothing
(`bare`), so the compiler refuses it; `config` tells the repository's nfpm.yaml, which
packs the manual page, from the one that bootstrap writes, which does not. `VERSION` in the environment changes the names of packages only,
as the linker flag names a variable that does not exist. Versions are numbers: the
third part of the version, the one that is bumped. The Go compiler, nfpm and the
repository a developer takes a file back from (`Restore`) are external.

## 3. Runs

Bounds: the log of `Compact` has newlines at 1 and 3, so it has two complete lines
and one that never ends; it starts at size 1 (too small to rotate) or 5,
and grows up to 6 (plain output: a log of 1 up to 4); the cutoff can fall inside a
line, at its end, or inside the unfinished one. Three runs (two for plain output) and two
mishaps, among which the steps of the other job count, are enough for "fail,
resume, fail again, resume", which every known scenario fits in. Three processes are
the least with a holder on an unlinked file, a holder on the new file, and one that
is refused. Three chunks make a first, a middle and a last one; a timeout of four
units leaves room between a tick and a timeout. The log of `Budget` is 64 MiB,
eight of the smallest chunks; nothing, 700 KiB or all of it belongs to the line that
crosses the cutoff (`Tails`); free spaces, loads and memories lie in each of the
throttle's classes. `Start` runs three commands, enough for a preflight, the run it
vouches for and the run after that, on a machine that has neither directories nor
files at first and changes twice; the sizes
parsed lie at 0, below one byte, at the size of the log and at the limit. `Release`
runs four commands with two faults: a bump that breaks off, a repair, a bump and
what is made of it.

| run | shows |
|---|---|
| `compact_gzip` | gzip output: nothing is lost, files are truthful, cuts at line ends, an exact copy where no mishap happened, stop and resume without a gap, verified output is readable, a completed run released its range, the tail is kept, the holes are one range at the start of the log, every step of a run brings its end nearer |
| `compact_plain` | plain output: the inductive invariant of the proofs (its first part is `TypeOK`), every punched byte can be read back, `Preservation` is implemented, every run ends |
| `compact_torn` | **violation**: after a crash inside a gzip append, the resumed run punches what a gzip reader cannot reach |
| `compact_resume` | **violation**: the same command is refused after the log has grown |
| `lock` | exclusion, how far it is lost and that it comes back, when a running job keeps its file, no stale refusal |
| `lock_race` | **violation**: force-unlock that overlaps an acquisition breaks exclusion |
| `watchdog` | a hang is noticed in one and a half timeouts, the emergency file fits together, at most one more chunk begins |
| `watchdog_exit` | **violation**: a run whose watchdog gave up may end as a success |
| `budget` | fresh runs: budget, disk, number of chunks, pauses |
| `budget_resume` | **violation**: the sample of a resumed run is taken in the holes |
| `start` | a passed preflight keeps its word for what it tried, a run that passed its checks fails at its first append or punch only for what no check tries, refusals and dry runs change neither the output nor the state file |
| `release` | one version after a bump, which grows; packages of one version; `dist`, `checksums`, `install` and `uninstall` do what they report |

The five violations are disagreements between the code and its own documents. They
are described, with the sentences they contradict, under `findings` in
`PROJECT.json`.

Three smaller disagreements have no run of their own: the properties that would hold
without them name them as exceptions, and TLC finds each as soon as its exception is
dropped.

* `README.md:72` of the repository says "Cuts only on newline boundaries." Without
  `-k` a tenth of the log is kept (`engine.go:147`), which is nothing of a log of
  fewer than ten bytes. The cutoff is then the end of the log, and a last line that
  has no newline yet is taken as it is (`engine.go:656`). The exception is
  `0 \notin Keeps` in `CutAtLineEnd` (the instance of `compact_plain` has such logs).
* `lock.go:53` says "ForceUnlock removes a lock file if the owning process is dead."
  When the truncation and the write both fail (`lock.go:24`), a force-unlock goes by
  an earlier owner's id and removes the file of a running job. The exception is
  `failed[p] = Calls` in `RunningJobKept`. (The other one there, a job of another
  user, is the same sentence and `lock.go:49`.)
* `MANUAL.md:70` says "Preflight validates source/output paths, regular-file status,
  write access". The preflight looks at the directory of the output only
  (`preflight.go:96`); when the output path is itself a directory, or a file that may not
  be written, the preflight passes and the first append fails (`engine.go:584`).
  The exception is `files[d] = "blocked"` in `AsPromised`.

`CHECK_DEADLOCK FALSE` stands in every configuration because each system really
stops: no run is left, all processes ended, the operator or developer is done.

**Fairness.** Only `RunEnds`, in `compact_plain`, needs it: weak fairness of the run's own steps
(`RunStep`), that is, every system call returns and the process is scheduled. No
fairness is assumed of the application, the operator, faults or the clock. The
code justifies it as far as any program can; a call that never returns is
what `Watchdog` is about, and there the property is a bound on time (a safety
property) and not a promise.

## 4. Proofs

All theorems hold for all values of the constants that satisfy the named
assumptions of the modules; further hypotheses are in the statements.

**Compact_proofs.** `NoLoss` (punched bytes are safe) is not inductive: that the next
punch is right depends on what the output holds for the current chunk, which
depends on what the loop resumed from, which depends on every version of the
state file a power loss might bring back. The invariant `IInv` is the conjunction
of `TypeOK`, `NoLoss`, `StateTruthful` and `EmergencyTruthful` (the offsets in
all versions of the files are true of holes and output), the same of the `jobState`
in memory, that a member holds only bytes of its range, and `ChunkInv`, which
says for each `pc` what is already known of the current chunk. One
lemma per action shows that it is preserved. From it follow: type
correctness, `NothingIsLost`, `StateFilesAreTruthful`,
`EmergencyIsTruthful`, `Refinement` (every step is a step of
`Preservation` or a stutter), `EveryByteKept`, `PlainIsReadable` (for plain
output), `VerifiedIsReadable`, `CutsAtLineEnds`, and `TailIsKept` (an action
property).

**Runs_proofs** continues from `IInv` with what a run leaves when it ends. Each result
needs a strengthening of its own, which TLC has checked on the instances of the two
runs before it was proved:

* `EveryStepAdvances` (an action property) is the part of "every run ends" that is
  safety: `Remaining`, seven steps for every byte up to the cutoff and those left
  of the present chunk, is a natural number that every step of a run lowers and no
  other step raises. It follows from `OffsetInv` (the offset never passes the
  cutoff, a chunk is never empty), and it bounds the steps of a run in every log,
  from every state file and with any other job at work. `RunEnds` adds to it only
  that the run is scheduled.
* `StopsAtBoundary`: what the state file records is what was punched when a run ends
  with success. `StopInv` follows the record through the chunk: at the loop head
  the record in the file is the one in memory or was moved away by `clean-state`.
* `HolesAreAPrefix`: holes, and durable holes, are one range from the start of the
  log, although `resume`, an undone hole and another job all choose where the next
  hole begins. Every range that is punched starts at or below the end of the last
  one, because the recorded offset is true (`IInv`).
* `CompletedRunsRelease` needs it: at the end of a run only the offset is known, and
  a line below it is released because everything below it is. When the loop ended
  since no whole line is left, the lines below the cutoff are below the offset.
* `CopyIsExact`: `ExactInv` says that, as long as nothing went wrong, each member
  starts where the one before it ended and has every byte of its range, and that
  the end of the last one is what the record, the offset and the loop agree on.
  `UndisturbedIsReadable` follows: the gzip output that cannot be read, which the run
  `compact_torn` shows, needs a mishap. `CompletedRunHasAll` puts the last two
  together: an undisturbed run says "completed" only when every whole line below its
  cutoff is in the output once, in order, and released.

**Lock_proofs.** The invariant says that a process past `Flock` holds the flock of
the file it has open, that a process holds at most the file it has open, and that,
until a file in use is removed, all open files are the one the path names.
Exclusion follows for any number of processes and force-unlocks
(`Exclusion`), and without the history variable if there are no force-unlocks
(`ExclusionWithoutForceUnlock`); further `NoStaleRefusal`. `RunningJobsKept` rests on
what a file can hold: the id read from the file of a running job is the job's own,
or both of its writes failed; with its own id the check finds it alive, unless it may not be
signalled, and nothing a process does later changes what failed.
How much a force-unlock can spoil is a matter of counting, done with the theorems on
finite sets: `fd` maps the running processes one to one into the file at the path and
the removed files that are still open (`RemovalsAreCounted`, so exclusion is back as
soon as those are closed), and there are no more removed files than force-unlocks that
have ended (`OneMorePerForceUnlock`). The processes and force-unlocks are assumed to be
finitely many.

**Watchdog_proofs.** `WInv` adds to the type invariant how age and phase bound each
other (so that a tick at a multiple of half the timeout sees an overdue chunk by
one and a half timeouts), the order of the offsets `lp`, `la` and `offset` at each
`pc`, and what the fields the watchdog has already read can still be compared
with. It gives `HangIsNoticed`, `EmergencyFileConsistent` and `RunStopsSoon` for
every number of chunks and every timeout.

**Budget_proofs.** `BInv` bounds the settings, relates the free space to what was
looked at, chosen and taken by others, and counts the chunks: all but the last are
at least of the smallest size, and the last one may be cut short by the line that is
left (`tail`). It gives
`ChunksAreFew`, `RunFitsOnDisk` (percentages up to 30, lines up to 1 MiB) and
`PauseIsShort` (timeouts above seven seconds). `ThrottleIsMonotone` is about the
table alone: a worse reading never makes the throttle more generous. Readings that
fail are not worse in this sense: an unreadable load or memory counts as a good one.
The budget has an invariant of its own (`WInv`): up to the next chunk the ratio
promises no more than the data in front of it gave (`RatioInv`, for a run whose ratio
was measured where it archives), and a chunk larger than the smallest, times that
ratio, is within the output limit (`LimitInv`, through both roundings of
`ChooseChunkSize`). The 30 percent between limit and budget then pay for a line that
reaches 1 MiB over the target, and for the smallest chunk at the worst ratio
(`WithinLimit`). Hence `FreshRunsWithinBudget`; and `LaterChunksWithinBudget`, which
confines the finding of `budget_resume` to the first chunk of a resumed run. That
lines reach at most 1 MiB over the target is a hypothesis of both: the code has no
bound on lines, and a longer one can exceed any budget.

**Start_proofs.** None of the three properties is inductive: what a run that has passed
its checks may count on depends on what each earlier check found, on what the checks
created since, and on nobody else having changed it. `SInv` carries, for every step, what the
checks before it have established on an unchanged machine (`RunInv`, `PreflightInv`),
that what a passed preflight looked at still holds (`TrustInv`), that the lock is
held from its check on, that the size and the keep size are the ones the cutoff is
made of, and that output and record are as they were until the first chunk. Two
lemmas carry the rest: what a command creates takes nothing away (`Made`), so no
check that passed would fail now (`PassesKept`). It gives `StartTypeCorrect`,
`PreflightIsTrue`, `ChecksAreEnough` and `RefusalsAreHarmless` for any machines,
command lines, sizes and number of changes. What the first two leave open is what
the code does not try: `AsPromised` and `Late` say for each outcome which it is.

**Release_proofs.** What a command reports at its end depends on what its steps left.
`RInv` says for every position of a command what the steps before it have
established: a bump has written its version into the files before the present one,
and that version is above the last one given out; behind a compile step the binary
is of the sources as they are; `dist` still has the artifacts it made; the sums
written and those still to write make up `dist/`. A step that breaks off ends the
command, so that nothing of this is promised any more. `Positions` tables where
each step occurs. All of the properties of the run `release` follow, for any
number of commands and faults.

**Only model-checked.** `RunEnds` is liveness, which the prover cannot treat; its safety
half is `EveryStepAdvances`. The fairness it assumes, and that some step of a run is
always enabled, are left to TLC. `FreshRunsWithinBudget` and the theorems about the disk
and the pauses hold under the hypotheses in their statements, which the
configurations meet. Every other property of a passing run is a theorem. What
recursive definitions compute for every input would need induction over data and is
out of reach too.

## 5. Not modelled

* Progress, events, the plan, what is written to the log file of a run, `status`,
  `list-state`, `FormatBytes`: output, on which nothing in a run depends. (Opening
  the log file is a check in `Start`.)
* The parsing of flags, of the state file and of /proc, and the hash in the names of
  a job: the models start from the values they yield.
* A rate or pause the user sets: they have no bound, so `PauseIsNoHang` is about the
  automatic ones.
* Rotation, truncation or replacement of the log under a run; a line without bound.
  Both are listed as hazards without a property.
* With more than 30 percent and a misjudged ratio an append may fill the disk; the
  code does not claim otherwise and neither does `FitsOnDisk`.
* A chunk that hangs after a stop request: `HangNoticed` excepts it, because the
  watchdog ends at the first tick after the request.
* The compiler and nfpm; the documents and directories that `install` makes besides
  the binary and the manual page. The source archive's list of files names Go
  sources that no longer exist, so it holds the documents and the configuration
  only; the model gives it just those.

## 6. Plan

Done, in this order: `Preservation`, `Compact` (with the other job), `Lock`,
`Watchdog`, `Budget` (with the whole throttle), `Start`, `Release`, each with its
runs and proofs.

Next:

1. User-set pacing and the timeout; the current-chunk offset of the emergency file
   on a resumed run (docs/runbook.md:100).
2. Rotation of the log under a run.
