-------------------------------- MODULE Start -------------------------------
(***************************************************************************)
(* How a command begins: the preflight checks of internal/preflight, and   *)
(* the checks compact.Run makes before its first chunk, up to the first    *)
(* punch.  The operator runs one command after the other; the machine may  *)
(* change between any two checks.                                          *)
(*                                                                         *)
(* Every check is named for what it looks at, and the two programs are the *)
(* orders in which they make their checks.                                 *)
(***************************************************************************)
EXTENDS Integers, Sequences

CONSTANTS
    Commands,      \* the command lines the operator may type
    Sizes,         \* possible sizes of the source
    FirstMachines, \* the machines the first command may find
    SizeLimit,     \* sizes are below this: 2^63 in the code
    MaxCommands,   \* bound on the commands that are run
    MaxChanges     \* bound on the changes of the machine

\* The output, the state file and the lock file, each in a directory of its own.
Dirs == {"output", "state", "lock"}

\* A directory that is missing can be made; one that is denied cannot be had.
DirStates == {"missing", "ready", "readOnly", "denied"}
Usable == {"missing", "ready"}

\* What is at the path itself: nothing, a file that can be written, or what cannot
\* be: a directory, a file of another user, a file system that is full.
FileStates == {"absent", "usable", "blocked"}

\* A size as it is typed: hundredths of a unit, and the unit in bytes.
Texts == [hundredths : Int, unit : Nat \ {0}]
NotGiven == [hundredths |-> 0, unit |-> 0]

CommandLines ==
    [mode : {"preflight", "dryRun", "run"}, usage : BOOLEAN,
     output : {"source", "other"}, keep : Texts \cup {NotGiven},
     stopAbove : Texts \cup {NotGiven}, verify : {"full", "none", "maybe"},
     gzip : BOOLEAN, force : BOOLEAN, logFile : {"usable", "blocked"}]

Machines ==
    [source : {"file", "link", "directory", "absent"}, size : Sizes,
     readable : BOOLEAN, writable : BOOLEAN, punchable : BOOLEAN,
     targetPunchable : BOOLEAN, dirs : [Dirs -> DirStates], files : [Dirs -> FileStates],
     locked : BOOLEAN, free : {"unknown", "tooLittle", "below2G", "plenty"}]

ASSUME StartAssumption ==
    /\ Commands \subseteq CommandLines /\ Sizes \subseteq Nat
    /\ FirstMachines \subseteq Machines
    /\ SizeLimit \in Nat /\ MaxCommands \in Nat /\ MaxChanges \in Nat

VARIABLES
    machine,     \* what the checks look at
    record,      \* cutoff in the state file; -1: no file, -2: another job's file
    output,      \* chunks in the output
    cmd,         \* the command under way, or run last
    step,        \* its next check; 0 when no command runs
    failed,      \* a check of the preflight failed
    size,        \* the size Run saw
    holds,       \* the command holds the lock of its job
    outcome,     \* how the last command ended: "none", the check that refused it...
    clean,       \* history: the machine is as it was when the command began
    trusted,     \* history: outputs whose preflight passed on this very machine
    before,      \* history: output and record when the command began
    commands, changes

kept == <<record, output>>
run  == <<cmd, step, failed, size, holds, outcome, before>>
vars == <<machine, kept, run, clean, trusted, commands, changes>>

-----------------------------------------------------------------------------
\* human.ParseSize

\* 0 when the text is refused: not positive, below one byte, or too large.
ParseSize(text) ==
    LET scaled == text.hundredths * text.unit
    IN  IF scaled < 100 \/ scaled >= SizeLimit * 100 THEN 0 ELSE scaled \div 100

\* What is kept of a log of n bytes: a tenth of it when -k is not given.  (The floor
\* of 64 MiB for logs above 640 MiB never takes effect: a tenth of them is as much.)
KeepLast(c, n) == IF c.keep = NotGiven THEN n \div 10 ELSE ParseSize(c.keep)

\* Faulty variant: a log that is kept whole is accepted.
AtMostTheLog(c, n) == KeepLast(c, n) <= n

ShorterThanLog(c, n) == KeepLast(c, n) < n
Cutoff(c, n) == n - KeepLast(c, n)

Accepted(text) == text = NotGiven \/ ParseSize(text) > 0

-----------------------------------------------------------------------------
\* The checks

\* Faulty variants: the preflight forgets the state directory; the run does not
\* try whether holes can be punched.
WithoutStateDir ==
    <<"same", "regular", "stat", "open", "punch", "output", "lock", "space">>
WithoutPunchTest ==
    <<"logFile", "sizes", "verify", "same", "stat", "empty", "keep", "lockFile", "locked",
      "outputDir", "open", "space", "sample", "plain", "budget">>

\* preflight.Run makes all of these checks, whichever of them fail.
PreflightSteps ==
    <<"same", "regular", "stat", "open", "punch", "output", "state", "lock", "space">>

\* compact.Run returns at the first of these checks that fails.
RunSteps ==
    <<"logFile", "sizes", "verify", "same", "stat", "empty", "keep", "lockFile", "locked",
      "outputDir", "punch", "open", "space", "sample", "plain", "budget">>

\* os.OpenFile with O_CREATE, for writing, in a directory that is there or can be made.
CanOpen(w, d) ==
    \/ w.files[d] = "usable" /\ w.dirs[d] # "denied"
    \/ w.files[d] = "absent" /\ w.dirs[d] \in Usable

\* Whether a check passes.  Lstat sees a symbolic link, Stat what it points to;
\* the paths are compared as text; the size is the one Run saw.  The preflight
\* writes into the directories, to files of its own; Run opens the lock file, and
\* only makes the directory of the output.
Passes(check, c, w, n) ==
    /\ check = "logFile" => c.logFile = "usable"
    /\ check = "sizes"   => Accepted(c.stopAbove)
    /\ check = "verify"  => c.verify # "maybe"
    /\ check = "same"    => c.output # "source"
    /\ check = "regular" => w.source = "file"
    /\ check = "stat"    => w.source # "absent"
    /\ check = "open"    => w.source \in {"file", "link"} /\ w.writable
    /\ check = "empty"   => n > 0
    /\ check = "keep"    => Accepted(c.keep) /\ ShorterThanLog(c, n)
    /\ check \in Dirs    => w.dirs[check] \in Usable
    /\ check = "lockFile" => CanOpen(w, "lock")
    /\ check = "outputDir" => w.dirs["output"] # "denied"
    /\ check = "locked"  => ~w.locked
    /\ check = "punch"   => w.punchable
    /\ check = "space"   => w.free # "unknown"
    /\ check = "sample"  => ~c.gzip \/ w.readable
    /\ check = "plain"   => c.gzip \/ c.force \/ w.free = "plenty"
    /\ check = "budget"  => w.free # "tooLittle"

\* MkdirAll, and a file that is created when it is opened.
MadeDir(w, d) == IF w.dirs[d] = "missing" THEN [w EXCEPT !.dirs[d] = "ready"] ELSE w
MadeFile(w, d) ==
    [MadeDir(w, d) EXCEPT !.files[d] = IF @ = "absent" THEN "usable" ELSE @]

\* Looking at a directory makes it; Acquire makes the lock file as well.
AfterCheck(check, w) ==
    CASE check \in Dirs       -> MadeDir(w, check)
      [] check = "outputDir"  -> MadeDir(w, "output")
      [] check = "lockFile"   -> MadeFile(w, "lock")
      [] OTHER                -> w

-----------------------------------------------------------------------------
\* The operator

\* The command line is split and validated: a wrong one ends here.
Begin(c) ==
    /\ step = 0
    /\ commands < MaxCommands
    /\ commands' = commands + 1
    /\ cmd' = c
    /\ IF c.usage THEN step' = 1 /\ outcome' = "none"
                  ELSE step' = 0 /\ outcome' = "usage"
    /\ failed' = FALSE /\ size' = 0 /\ holds' = FALSE /\ clean' = TRUE
    /\ before' = kept
    /\ UNCHANGED <<machine, kept, trusted, changes>>

\* The end of a command, which closes the lock file.
Finish(how) ==
    /\ step' = 0
    /\ outcome' = how
    /\ holds' = FALSE

-----------------------------------------------------------------------------
\* preflight.Run

PreflightCheck ==
    /\ cmd.mode = "preflight"
    /\ step \in DOMAIN PreflightSteps
    /\ LET check == PreflightSteps[step] IN
       /\ failed' = (failed \/ ~Passes(check, cmd, machine, size))
       /\ machine' = AfterCheck(check, machine)
    /\ step' = step + 1
    /\ UNCHANGED <<kept, cmd, size, holds, outcome, before, clean, trusted, commands, changes>>

\* A state file that is there is only a warning.
PreflightEnds ==
    /\ cmd.mode = "preflight"
    /\ step > Len(PreflightSteps)
    /\ Finish(IF failed THEN "failed" ELSE "passed")
    /\ trusted' = IF ~failed /\ clean THEN trusted \cup {cmd.output} ELSE trusted
    /\ UNCHANGED <<machine, kept, cmd, failed, size, before, clean, commands, changes>>

-----------------------------------------------------------------------------
\* compact.Run up to its first punch

RunCheck ==
    /\ cmd.mode # "preflight"
    /\ step \in DOMAIN RunSteps
    /\ LET check == RunSteps[step] IN
       /\ Passes(check, cmd, machine, size)
       /\ machine' = AfterCheck(check, machine)
       /\ size' = IF check = "stat" THEN machine.size ELSE size
       /\ holds' = (holds \/ check = "locked")
    /\ step' = step + 1
    /\ UNCHANGED <<kept, cmd, failed, outcome, before, clean, trusted, commands, changes>>

RunRefused ==
    /\ cmd.mode # "preflight"
    /\ step \in DOMAIN RunSteps
    /\ ~Passes(RunSteps[step], cmd, machine, size)
    /\ Finish(RunSteps[step])
    /\ UNCHANGED <<machine, kept, cmd, failed, size, before, clean, trusted, commands,
                   changes>>

Checked == cmd.mode # "preflight" /\ step = Len(RunSteps) + 1

\* Faulty variant: the state file is looked at first, and a new one written.
DryRunRecords ==
    /\ Checked
    /\ cmd.mode = "dryRun"
    /\ record' = Cutoff(cmd, size)
    /\ Finish("dryRun")
    /\ UNCHANGED <<machine, output, cmd, failed, size, before, clean, trusted, commands,
                   changes>>

DryRunEnds ==
    /\ Checked
    /\ cmd.mode = "dryRun"
    /\ Finish("dryRun")
    /\ UNCHANGED <<machine, kept, cmd, failed, size, before, clean, trusted, commands,
                   changes>>

\* The state file is another job's, or the log has grown since it was written.
RecordRefused ==
    /\ Checked
    /\ cmd.mode = "run"
    /\ record \notin {-1, Cutoff(cmd, size)}
    /\ Finish("record")
    /\ UNCHANGED <<machine, kept, cmd, failed, size, before, clean, trusted, commands,
                   changes>>

\* The record fits, or there is none: the loop begins.
Loop ==
    /\ Checked
    /\ cmd.mode = "run"
    /\ record \in {-1, Cutoff(cmd, size)}

\* The output is opened in a directory that must still be there.  This is where a
\* run finds out whether it can write to the path itself.
CanAppend(w) == w.dirs["output"] # "missing" /\ CanOpen(w, "output")

\* The first chunk is appended to the output and synced.
FirstChunk ==
    /\ Loop
    /\ CanAppend(machine)
    /\ machine' = MadeFile(machine, "output")
    /\ output' = output + 1
    /\ step' = step + 1
    /\ UNCHANGED <<record, cmd, failed, size, holds, outcome, before, clean, trusted,
                   commands, changes>>

AppendRefused ==
    /\ Loop
    /\ ~CanAppend(machine)
    /\ Finish("unappended")
    /\ UNCHANGED <<machine, kept, cmd, failed, size, before, clean, trusted, commands,
                   changes>>

\* The append breaks off, perhaps with a part of the chunk in the output; or the
\* log has no whole line in front of the cutoff, which ends the run without an error
\* and behind an empty gzip member.
AppendBreaksOff ==
    /\ Loop
    /\ CanAppend(machine)
    /\ machine' = MadeFile(machine, "output")
    /\ output' \in {output, output + 1}
    /\ \E how \in {"broken", "noLine"} : Finish(how)
    /\ UNCHANGED <<record, cmd, failed, size, before, clean, trusted, commands, changes>>

\* The chunk is recorded, before it is punched.  Only here a run finds out whether it
\* can write to its state directory, and replace the state file.
CanRecord(w) == w.dirs["state"] \in Usable /\ w.files["state"] # "blocked"

FirstRecord ==
    /\ step = Len(RunSteps) + 2
    /\ CanRecord(machine)
    /\ machine' = MadeFile(machine, "state")
    /\ record' = Cutoff(cmd, size)
    /\ step' = step + 1
    /\ UNCHANGED <<output, cmd, failed, size, holds, outcome, before, clean, trusted,
                   commands, changes>>

RecordFails ==
    /\ step = Len(RunSteps) + 2
    /\ ~CanRecord(machine)
    /\ machine' = MadeDir(machine, "state")
    /\ Finish("unrecorded")
    /\ UNCHANGED <<kept, cmd, failed, size, before, clean, trusted, commands, changes>>

\* The hole is punched where the log is; what was tried is the directory that the
\* source's name is in.
CanPunch(w) == IF w.source = "link" THEN w.targetPunchable ELSE w.punchable

FirstPunch ==
    /\ step = Len(RunSteps) + 3
    /\ Finish(IF CanPunch(machine) THEN "started" ELSE "unpunched")
    /\ UNCHANGED <<machine, kept, cmd, failed, size, before, clean, trusted, commands,
                   changes>>

-----------------------------------------------------------------------------
\* The machine

\* One thing changes: the source is replaced, grows or shrinks, permissions or
\* file systems change, files come and go, another run takes or leaves the lock, the
\* disk fills.  A directory that goes takes its file along.
Toggled(w) ==
    {[w EXCEPT !.readable = ~@], [w EXCEPT !.writable = ~@], [w EXCEPT !.punchable = ~@],
     [w EXCEPT !.targetPunchable = ~@], [w EXCEPT !.locked = ~@]}
DirsChanged(w) ==
    {[w EXCEPT !.dirs[d] = s] : d \in Dirs, s \in DirStates \ {"missing"}}
DirsGone(w) == {[w EXCEPT !.dirs[d] = "missing", !.files[d] = "absent"] : d \in Dirs}
FilesChanged(w) ==
    {[w EXCEPT !.files[d] = s] : d \in {e \in Dirs : w.dirs[e] # "missing"}, s \in FileStates}
Changed(w) ==
    {[w EXCEPT !.source = s] : s \in {"file", "link", "directory", "absent"}}
    \cup {[w EXCEPT !.size = n] : n \in Sizes}
    \cup {[w EXCEPT !.free = f] : f \in {"unknown", "tooLittle", "below2G", "plenty"}}
    \cup Toggled(w) \cup DirsChanged(w) \cup DirsGone(w) \cup FilesChanged(w)

Change ==
    /\ changes < MaxChanges
    /\ changes' = changes + 1
    /\ machine' \in Changed(machine) \ {machine}
    /\ clean' = FALSE
    /\ trusted' = {}
    /\ UNCHANGED <<kept, run, commands>>

\* The operator removes the state file, or finds another job's in its place.
OtherRecord ==
    /\ changes < MaxChanges
    /\ changes' = changes + 1
    /\ step = 0
    /\ record' \in {-1, -2} \ {record}
    /\ before' = <<record', output>>
    /\ UNCHANGED <<machine, output, cmd, step, failed, size, holds, outcome, clean, trusted,
                   commands>>

Killed ==
    /\ step # 0
    /\ changes < MaxChanges
    /\ changes' = changes + 1
    /\ Finish("killed")
    /\ UNCHANGED <<machine, kept, cmd, failed, size, before, clean, trusted, commands>>

-----------------------------------------------------------------------------

Init ==
    /\ machine \in FirstMachines
    /\ record \in {-1, -2} /\ output = 0
    /\ cmd \in Commands /\ step = 0
    /\ failed = FALSE /\ size = 0 /\ holds = FALSE /\ outcome = "none"
    /\ clean = TRUE /\ trusted = {} /\ before = kept
    /\ commands = 0 /\ changes = 0

Next ==
    \/ \E c \in Commands : Begin(c)
    \/ PreflightCheck \/ PreflightEnds
    \/ RunCheck \/ RunRefused \/ DryRunEnds \/ RecordRefused
    \/ FirstChunk \/ AppendRefused \/ AppendBreaksOff
    \/ FirstRecord \/ RecordFails \/ FirstPunch
    \/ Change \/ OtherRecord \/ Killed

Spec == Init /\ [][Next]_vars

-----------------------------------------------------------------------------
\* Properties

Outcomes ==
    {"none", "usage", "passed", "failed", "dryRun", "record", "started", "unappended",
     "broken", "noLine", "unrecorded", "unpunched", "killed"}
    \cup {RunSteps[i] : i \in DOMAIN RunSteps}

TypeOK ==
    /\ machine \in Machines
    /\ record \in {-1, -2} \cup (Nat \ {0}) /\ output \in Nat
    /\ cmd \in Commands /\ step \in 0..(Len(RunSteps) + 3)
    /\ failed \in BOOLEAN /\ size \in Nat /\ holds \in BOOLEAN
    /\ outcome \in Outcomes
    /\ clean \in BOOLEAN /\ trusted \subseteq {"source", "other"}
    /\ before \in Int \X Nat
    /\ commands \in Nat /\ changes \in Nat

\* What the preflight looks at just as a run does, and the outcome of a run that
\* cannot use the file in a directory the preflight tried.
LookedAt == {"same", "stat", "open", "punch", "outputDir", "space", "unpunched"}
Unusable == [output |-> "unappended", state |-> "unrecorded", lock |-> "lockFile"]

\* What a run that ended so says of its machine.
AsPromised(how, w) ==
    /\ how \notin LookedAt
    /\ \A d \in Dirs : how = Unusable[d] => w.files[d] = "blocked"

\* A preflight that passes keeps its word: on a machine nobody changed since, no
\* run with the same paths is refused for what the preflight looked at, fails to
\* punch, or fails for one of the three directories.  It may fail for the output, the
\* state file or the lock file itself, which the preflight does not try.
PreflightKeepsItsWord == cmd.output \in trusted => AsPromised(outcome, machine)

\* What can still go wrong behind the checks of a run.
Late(how, w) ==
    /\ how = "unappended" => w.dirs["output"] = "readOnly" \/ w.files["output"] = "blocked"
    /\ how = "unpunched" => w.source = "link"

\* A run on a machine nobody changes meanwhile does not archive a chunk it cannot
\* punch, but behind a symbolic link, where another directory was tried; and it is
\* refused by the output only for what it never tried, the right to write.
FailsLateOnlyUnchecked == step = 0 /\ clean => Late(outcome, machine)

\* A preflight, a dry run and a run that is refused change neither the output
\* nor the state file, and every end of a command frees the lock.
Begun == {"started", "broken", "noLine", "unrecorded", "unpunched", "killed"}
Harmless ==
    step = 0 =>
        /\ ~holds
        /\ outcome \notin Begun => kept = before
=============================================================================
