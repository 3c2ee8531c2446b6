---------------------------- MODULE Start_proofs ----------------------------
(***************************************************************************)
(* Proofs about Start for every command line, every machine and any number *)
(* of changes: what a passed preflight is worth, and for what a run can    *)
(* still fail when all its checks have passed.                             *)
(***************************************************************************)
EXTENDS Start, TLAPS

\* What the checks the preflight shares with a run, and the first record, need.
Fit(w) ==
    /\ w.source = "file" /\ w.writable /\ w.punchable
    /\ \A d \in Dirs : w.dirs[d] \in Usable
    /\ w.free # "unknown"

\* While nobody else changes the machine, the checks that were made still pass.
PreflightInv ==
    cmd.mode = "preflight" /\ clean /\ ~failed =>
        \A i \in 1..(step - 1) :
            i \in DOMAIN PreflightSteps => Passes(PreflightSteps[i], cmd, machine, size)

RunInv ==
    cmd.mode # "preflight" /\ clean =>
        /\ \A i \in 1..(step - 1) :
              i \in DOMAIN RunSteps => Passes(RunSteps[i], cmd, machine, size)
        /\ step > 5 => size = machine.size
        /\ step > 10 => machine.dirs["output"] \in {"ready", "readOnly"}

\* The lock is held from the check on.
HoldInv == step # 0 /\ cmd.mode # "preflight" /\ step > 9 => holds

\* What is kept is shorter than the size the run saw.
KeepInv == cmd.mode # "preflight" /\ step > 7 => KeepLast(cmd, size) < size

\* Nothing is written before all checks are made.
KeptInv ==
    /\ step = 0 => ~holds
    /\ step # 0 /\ (cmd.mode # "run" \/ step <= Len(RunSteps) + 1) => kept = before
    /\ step = 0 /\ outcome \notin Begun => kept = before
    /\ step > Len(RunSteps) + 1 => cmd.mode = "run"
    /\ step # 0 => outcome = "none"
    /\ cmd.mode = "preflight" => step <= Len(PreflightSteps) + 1

TrustInv == trusted # {} => trusted = {"other"} /\ Fit(machine) /\ clean

SInv ==
    /\ TypeOK
    /\ PreflightInv
    /\ RunInv
    /\ HoldInv
    /\ KeepInv
    /\ KeptInv
    /\ TrustInv
    /\ PreflightKeepsItsWord
    /\ FailsLateOnlyUnchecked

-----------------------------------------------------------------------------
\* The checks

LEMMA Orders ==
    /\ DOMAIN PreflightSteps = 1..9 /\ Len(PreflightSteps) = 9
    /\ DOMAIN RunSteps = 1..16 /\ Len(RunSteps) = 16
    /\ PreflightSteps[1] = "same" /\ PreflightSteps[2] = "regular"
    /\ PreflightSteps[3] = "stat" /\ PreflightSteps[4] = "open"
    /\ PreflightSteps[5] = "punch" /\ PreflightSteps[6] = "output"
    /\ PreflightSteps[7] = "state" /\ PreflightSteps[8] = "lock"
    /\ PreflightSteps[9] = "space"
    /\ RunSteps[1] = "logFile" /\ RunSteps[2] = "sizes" /\ RunSteps[3] = "verify"
    /\ RunSteps[4] = "same" /\ RunSteps[5] = "stat" /\ RunSteps[6] = "empty"
    /\ RunSteps[7] = "keep" /\ RunSteps[8] = "lockFile" /\ RunSteps[9] = "locked"
    /\ RunSteps[10] = "outputDir" /\ RunSteps[11] = "punch" /\ RunSteps[12] = "open"
    /\ RunSteps[13] = "space" /\ RunSteps[14] = "sample" /\ RunSteps[15] = "plain"
    /\ RunSteps[16] = "budget"
  BY DEF PreflightSteps, RunSteps

LEMMA StepNumbers == Len(RunSteps) + 3 = 19
  BY Orders

\* What each check looks at.
LEMMA Meaning ==
    ASSUME NEW c, NEW w, NEW n
    PROVE  /\ Passes("logFile", c, w, n) <=> c.logFile = "usable"
           /\ Passes("sizes", c, w, n) <=> Accepted(c.stopAbove)
           /\ Passes("verify", c, w, n) <=> c.verify # "maybe"
           /\ Passes("same", c, w, n) <=> c.output # "source"
           /\ Passes("regular", c, w, n) <=> w.source = "file"
           /\ Passes("stat", c, w, n) <=> w.source # "absent"
           /\ Passes("open", c, w, n) <=> w.source \in {"file", "link"} /\ w.writable
           /\ Passes("empty", c, w, n) <=> n > 0
           /\ Passes("keep", c, w, n) <=> Accepted(c.keep) /\ KeepLast(c, n) < n
           /\ Passes("output", c, w, n) <=> w.dirs["output"] \in Usable
           /\ Passes("state", c, w, n) <=> w.dirs["state"] \in Usable
           /\ Passes("lock", c, w, n) <=> w.dirs["lock"] \in Usable
           /\ Passes("lockFile", c, w, n) <=> CanOpen(w, "lock")
           /\ Passes("outputDir", c, w, n) <=> w.dirs["output"] # "denied"
           /\ Passes("locked", c, w, n) <=> ~w.locked
           /\ Passes("punch", c, w, n) <=> w.punchable
           /\ Passes("space", c, w, n) <=> w.free # "unknown"
           /\ Passes("sample", c, w, n) <=> ~c.gzip \/ w.readable
           /\ Passes("plain", c, w, n) <=> c.gzip \/ c.force \/ w.free = "plenty"
           /\ Passes("budget", c, w, n) <=> w.free # "tooLittle"
  BY DEF Passes, Dirs, ShorterThanLog

\* What a command does to the machine: it makes directories, and creates files.
Made(w, v) ==
    /\ v \in Machines
    /\ v.source = w.source /\ v.size = w.size /\ v.locked = w.locked /\ v.free = w.free
    /\ v.readable = w.readable /\ v.writable = w.writable
    /\ v.punchable = w.punchable /\ v.targetPunchable = w.targetPunchable
    /\ \A d \in Dirs :
          /\ v.dirs[d] = w.dirs[d] \/ (w.dirs[d] = "missing" /\ v.dirs[d] = "ready")
          /\ v.files[d] = w.files[d] \/ (w.files[d] = "absent" /\ v.files[d] = "usable")

LEMMA MadeDirMakes ==
    ASSUME NEW w \in Machines, NEW d \in Dirs
    PROVE  /\ Made(w, MadeDir(w, d))
           /\ MadeDir(w, d).dirs[d] # "missing"
           /\ MadeDir(w, d).files = w.files
  <1>1. w.dirs \in [Dirs -> DirStates] /\ w.files \in [Dirs -> FileStates]
    BY DEF Machines
  <1>2. CASE w.dirs[d] = "missing"
    <2> DEFINE ds == [w.dirs EXCEPT ![d] = "ready"]
    <2>1. MadeDir(w, d) = [w EXCEPT !.dirs = ds]
      BY <1>2 DEF MadeDir, Machines
    <2>2. ds \in [Dirs -> DirStates] /\ ds[d] = "ready"
          /\ \A e \in Dirs : ds[e] = w.dirs[e] \/ (w.dirs[e] = "missing" /\ ds[e] = "ready")
      BY <1>1, <1>2 DEF DirStates
    <2> HIDE DEF ds
    <2> QED BY <2>1, <2>2 DEF Made, Machines
  <1>3. CASE w.dirs[d] # "missing"
    BY <1>3 DEF MadeDir, Made
  <1> QED BY <1>2, <1>3

LEMMA MadeFileMakes ==
    ASSUME NEW w \in Machines, NEW d \in Dirs
    PROVE  Made(w, MadeFile(w, d))
  <1> DEFINE u == MadeDir(w, d)
             fs == [u.files EXCEPT ![d] = IF @ = "absent" THEN "usable" ELSE @]
  <1>1. Made(w, u) /\ u.files = w.files /\ u \in Machines
    BY MadeDirMakes DEF Made
  <1>2. MadeFile(w, d) = [u EXCEPT !.files = fs]
    BY DEF MadeFile, Machines
  <1>3. fs \in [Dirs -> FileStates]
        /\ \A e \in Dirs : fs[e] = w.files[e] \/ (w.files[e] = "absent" /\ fs[e] = "usable")
    BY <1>1 DEF Machines, FileStates
  <1> HIDE DEF u, fs
  <1> QED BY <1>1, <1>2, <1>3 DEF Made, Machines

LEMMA CheckMakes ==
    ASSUME NEW w \in Machines, NEW check
    PROVE  /\ Made(w, AfterCheck(check, w))
           /\ check = "outputDir" => AfterCheck(check, w).dirs["output"] # "missing"
  <1>1. CASE check \in Dirs
    BY <1>1, MadeDirMakes DEF AfterCheck, Dirs
  <1>2. CASE check = "outputDir"
    <2>1. AfterCheck(check, w) = MadeDir(w, "output") /\ "output" \in Dirs
      BY <1>2 DEF AfterCheck, Dirs
    <2> QED BY <2>1, MadeDirMakes
  <1>3. CASE check = "lockFile"
    <2>1. AfterCheck(check, w) = MadeFile(w, "lock") /\ "lock" \in Dirs
      BY <1>3 DEF AfterCheck, Dirs
    <2> QED BY <1>3, <2>1, MadeFileMakes
  <1>4. CASE check \notin Dirs \cup {"outputDir", "lockFile"}
    BY <1>4 DEF AfterCheck, Made
  <1> QED BY <1>1, <1>2, <1>3, <1>4

\* What passed still passes behind a check or a chunk.
LEMMA PassesKept ==
    ASSUME NEW w \in Machines, NEW v, Made(w, v)
    PROVE  /\ \A k, c, n : Passes(k, c, w, n) => Passes(k, c, v, n)
           /\ Fit(w) => Fit(v)
           /\ w.dirs["output"] \in {"ready", "readOnly"}
                 => v.dirs["output"] \in {"ready", "readOnly"}
           /\ \A d \in Dirs : w.files[d] = "blocked" <=> v.files[d] = "blocked"
  <1>1. \A d \in Dirs : /\ v.dirs[d] = "denied" <=> w.dirs[d] = "denied"
                        /\ v.dirs[d] \in Usable <=> w.dirs[d] \in Usable
                        /\ CanOpen(w, d) => CanOpen(v, d)
    BY DEF Made, Usable, CanOpen
  <1>2. "output" \in Dirs /\ "lock" \in Dirs
    BY DEF Dirs
  <1>3. \A k, c, n : Passes(k, c, w, n) => Passes(k, c, v, n)
    BY <1>1, <1>2 DEF Passes, Made
  <1>4. Fit(w) => Fit(v)
    BY <1>1 DEF Fit, Made
  <1> QED BY <1>2, <1>3, <1>4 DEF Made

\* A parsed size is a size, and what is kept is one.
LEMMA KeepType ==
    ASSUME NEW c \in CommandLines, NEW n \in Nat
    PROVE  KeepLast(c, n) \in Nat
  <1>1. CASE c.keep = NotGiven
    BY <1>1 DEF KeepLast
  <1>2. CASE c.keep # NotGiven
    <2>1. c.keep.hundredths \in Int /\ c.keep.unit \in Nat
      BY <1>2 DEF CommandLines, Texts
    <2>2. c.keep.hundredths * c.keep.unit \in Int
      BY <2>1
    <2> DEFINE p == c.keep.hundredths * c.keep.unit
    <2>3. ParseSize(c.keep) = IF p < 100 \/ p >= SizeLimit * 100 THEN 0 ELSE p \div 100
      BY DEF ParseSize
    <2> HIDE DEF p
    <2>4. p \in Int
      BY <2>2 DEF p
    <2>5. ParseSize(c.keep) \in Nat
      BY <2>3, <2>4
    <2> QED BY <1>2, <2>5 DEF KeepLast
  <1> QED BY <1>1, <1>2

\* Every step of a check, and every reason to refuse, is an outcome.
LEMMA OutcomeNames ==
    /\ {"none", "usage", "passed", "failed", "dryRun", "record", "started", "unappended",
        "broken", "noLine", "unrecorded", "unpunched", "killed"} \subseteq Outcomes
    /\ \A i \in 1..16 : RunSteps[i] \in Outcomes
  BY Orders DEF Outcomes

\* One change of the machine leaves it a machine.
LEMMA DirsChangedType ==
    ASSUME NEW w \in Machines, NEW v \in DirsChanged(w) PROVE v \in Machines
  <1>1. PICK d \in Dirs, s \in DirStates : v = [w EXCEPT !.dirs[d] = s]
    BY DEF DirsChanged
  <1>2. [w.dirs EXCEPT ![d] = s] \in [Dirs -> DirStates]
    BY <1>1 DEF Machines
  <1> QED BY <1>1, <1>2 DEF Machines

LEMMA DirsGoneType ==
    ASSUME NEW w \in Machines, NEW v \in DirsGone(w) PROVE v \in Machines
  <1>1. PICK d \in Dirs : v = [w EXCEPT !.dirs[d] = "missing", !.files[d] = "absent"]
    BY DEF DirsGone
  <1> DEFINE ds == [w.dirs EXCEPT ![d] = "missing"]
             fs == [w.files EXCEPT ![d] = "absent"]
  <1>2. ds \in [Dirs -> DirStates] /\ fs \in [Dirs -> FileStates]
    BY <1>1 DEF Machines, DirStates, FileStates
  <1>3. v = [w EXCEPT !.dirs = ds, !.files = fs]
    BY <1>1 DEF Machines
  <1> HIDE DEF ds, fs
  <1> QED BY <1>2, <1>3 DEF Machines

LEMMA FilesChangedType ==
    ASSUME NEW w \in Machines, NEW v \in FilesChanged(w) PROVE v \in Machines
  <1>1. PICK d \in Dirs, s \in FileStates : v = [w EXCEPT !.files[d] = s]
    BY DEF FilesChanged
  <1>2. [w.files EXCEPT ![d] = s] \in [Dirs -> FileStates]
    BY <1>1 DEF Machines
  <1> QED BY <1>1, <1>2 DEF Machines

LEMMA ChangedType == ASSUME NEW w \in Machines, NEW v \in Changed(w) PROVE v \in Machines
  <1>1. CASE v \in Toggled(w)
    <2>1. CASE v = [w EXCEPT !.readable = ~@]
      BY <2>1 DEF Machines
    <2>2. CASE v = [w EXCEPT !.writable = ~@]
      BY <2>2 DEF Machines
    <2>3. CASE v = [w EXCEPT !.punchable = ~@]
      BY <2>3 DEF Machines
    <2>4. CASE v = [w EXCEPT !.targetPunchable = ~@]
      BY <2>4 DEF Machines
    <2>5. CASE v = [w EXCEPT !.locked = ~@]
      BY <2>5 DEF Machines
    <2> QED BY <1>1, <2>1, <2>2, <2>3, <2>4, <2>5, Zenon DEF Toggled
  <1>2. CASE v \in {[w EXCEPT !.source = s] : s \in {"file", "link", "directory", "absent"}}
    BY <1>2 DEF Machines
  <1>3. CASE v \in {[w EXCEPT !.size = n] : n \in Sizes}
    BY <1>3 DEF Machines
  <1>4. CASE v \in {[w EXCEPT !.free = f] :
                       f \in {"unknown", "tooLittle", "below2G", "plenty"}}
    BY <1>4 DEF Machines
  <1> QED BY <1>1, <1>2, <1>3, <1>4, DirsChangedType, DirsGoneType, FilesChangedType
          DEF Changed

\* How a command that has just begun, or gone wrong early, stands to the promises.
LEMMA NoPromise ==
    ASSUME NEW how \in {"none", "usage", "passed", "failed", "dryRun", "record", "started",
                        "broken", "noLine", "killed"}
    PROVE  /\ \A w : AsPromised(how, w) /\ Late(how, w)
  BY DEF AsPromised, Late, LookedAt, Unusable, Dirs

-----------------------------------------------------------------------------
\* The invariant

LEMMA InitSInv == Init => SInv
  <1> SUFFICES ASSUME Init PROVE SInv
    OBVIOUS
  <1>2. machine \in Machines
    BY StartAssumption DEF Init
  <1>3. /\ record \in {-1, -2} /\ output = 0 /\ before = <<record, output>>
        /\ cmd \in Commands /\ step = 0 /\ failed = FALSE /\ size = 0 /\ holds = FALSE
        /\ outcome = "none" /\ clean = TRUE /\ trusted = {} /\ commands = 0 /\ changes = 0
    BY DEF Init, kept
  <1>4. before \in Int \X Nat
    BY <1>3
  <1>5. outcome \in Outcomes
    BY <1>3, OutcomeNames
  <1>6. TypeOK
    <2>1. machine \in Machines /\ cmd \in Commands /\ trusted \subseteq {"source", "other"}
      BY <1>2, <1>3
    <2>2. failed \in BOOLEAN /\ holds \in BOOLEAN /\ clean \in BOOLEAN
      BY <1>3
    <2>3. /\ record \in {-1, -2} \cup (Nat \ {0}) /\ output \in Nat /\ size \in Nat
          /\ commands \in Nat /\ changes \in Nat
      BY <1>3
    <2>4. step \in 0..(Len(RunSteps) + 3)
      BY <1>3, StepNumbers
    <2> QED BY <1>4, <1>5, <2>1, <2>2, <2>3, <2>4, Zenon DEF TypeOK
  <1>7. PreflightInv /\ RunInv /\ HoldInv /\ KeepInv /\ KeptInv /\ TrustInv
    BY <1>3, Orders DEF PreflightInv, RunInv, HoldInv, KeepInv, KeptInv, TrustInv, kept
  <1>8. PreflightKeepsItsWord /\ FailsLateOnlyUnchecked
    BY <1>3, NoPromise DEF PreflightKeepsItsWord, FailsLateOnlyUnchecked
  <1> QED BY <1>6, <1>7, <1>8 DEF SInv

LEMMA BeginStep == ASSUME SInv, NEW c \in Commands, Begin(c) PROVE SInv'
  <1>1. /\ step' \in {0, 1} /\ outcome' \in {"none", "usage"} /\ cmd' = c
        /\ failed' = FALSE /\ size' = 0 /\ holds' = FALSE /\ clean' = TRUE
        /\ before' = <<record, output>> /\ commands' = commands + 1
        /\ UNCHANGED <<machine, record, output, trusted, changes>>
    BY DEF Begin, kept
  <1>2. record \in Int /\ output \in Nat /\ commands \in Nat
    BY DEF SInv, TypeOK
  <1>3. before' \in Int \X Nat /\ commands' \in Nat /\ outcome' \in Outcomes
    BY <1>1, <1>2, OutcomeNames
  <1>4. TypeOK'
    <2>1. failed' \in BOOLEAN /\ holds' \in BOOLEAN /\ clean' \in BOOLEAN
      BY <1>1
    <2>2. step' \in 0..(Len(RunSteps) + 3) /\ size' \in Nat
      BY <1>1, StepNumbers
    <2> QED BY <1>1, <1>3, <2>1, <2>2, Zenon DEF SInv, TypeOK
  <1>5. PreflightInv' /\ RunInv' /\ HoldInv' /\ KeepInv'
    <2>1. step' = 0 \/ step' = 1
      BY <1>1
    <2>2. PreflightInv'
      BY <2>1 DEF PreflightInv
    <2>3. RunInv'
      BY <2>1 DEF RunInv
    <2>4. HoldInv' /\ KeepInv'
      BY <2>1 DEF HoldInv, KeepInv
    <2> QED BY <2>2, <2>3, <2>4
  <1>6. KeptInv'
    <2>1. step' # 0 => outcome' = "none"
      BY DEF Begin
    <2>2. step' \in {0, 1} /\ ~holds' /\ kept' = before' /\ outcome' \notin Begun
      BY <1>1 DEF kept, Begun
    <2> QED BY <2>1, <2>2, Orders DEF KeptInv
  <1>7. TrustInv'
    BY <1>1 DEF SInv, TrustInv
  <1>8. PreflightKeepsItsWord' /\ FailsLateOnlyUnchecked'
    BY <1>1, NoPromise DEF PreflightKeepsItsWord, FailsLateOnlyUnchecked
  <1> QED BY <1>4, <1>5, <1>6, <1>7, <1>8 DEF SInv

\* While a command runs it has no outcome, and breaks no promise.
LEMMA NotOver ==
    ASSUME SInv, step # 0, step' # 0, UNCHANGED outcome
    PROVE  PreflightKeepsItsWord' /\ FailsLateOnlyUnchecked'
  <1>1. outcome' = "none"
    BY DEF SInv, KeptInv
  <1> QED BY <1>1, NoPromise DEF PreflightKeepsItsWord, FailsLateOnlyUnchecked

\* A preflight goes on after a check; whatever passed so far still passes.
LEMMA PreflightCheckStep == ASSUME SInv, PreflightCheck PROVE SInv'
  <1> DEFINE check == PreflightSteps[step]
  <1>1. /\ cmd.mode = "preflight" /\ step \in 1..9 /\ step' = step + 1
        /\ failed' = (failed \/ ~Passes(check, cmd, machine, size))
        /\ machine' = AfterCheck(check, machine)
        /\ UNCHANGED <<record, output, cmd, size, holds, outcome, before, clean, trusted,
                       commands, changes>>
    BY Orders DEF PreflightCheck, kept
  <1>2. /\ machine' \in Machines
        /\ \A k, c, n : Passes(k, c, machine, n) => Passes(k, c, machine', n)
        /\ Fit(machine) => Fit(machine')
    <2>1. machine \in Machines
      BY DEF SInv, TypeOK
    <2>2. Made(machine, machine')
      BY <1>1, <2>1, CheckMakes
    <2> QED BY <2>1, <2>2, PassesKept DEF Made
  <1> HIDE DEF check
  <1>3. TypeOK'
    BY <1>1, <1>2, Orders DEF SInv, TypeOK
  <1>4. PreflightInv'
    <2> SUFFICES ASSUME clean, ~failed', NEW i \in 1..step, i \in DOMAIN PreflightSteps
                 PROVE  Passes(PreflightSteps[i], cmd, machine', size)
      BY <1>1 DEF PreflightInv, SInv, TypeOK
    <2>1. CASE i = step
      BY <1>1, <1>2, <2>1 DEF check
    <2>2. CASE i # step
      <3>1. i \in 1..(step - 1)
        BY <1>1, <2>2
      <3>2. Passes(PreflightSteps[i], cmd, machine, size)
        BY <1>1, <3>1 DEF SInv, PreflightInv
      <3> QED BY <1>2, <3>2
    <2> QED BY <2>1, <2>2
  <1>5. RunInv' /\ HoldInv' /\ KeepInv'
    BY <1>1 DEF RunInv, HoldInv, KeepInv
  <1>6. KeptInv' /\ TrustInv'
    BY <1>1, <1>2, Orders DEF SInv, KeptInv, TrustInv, kept
  <1>7. step # 0 /\ step' # 0 /\ UNCHANGED outcome
    BY <1>1
  <1> QED BY <1>3, <1>4, <1>5, <1>6, <1>7, NotOver DEF SInv

\* A preflight that passes on an unchanged machine has seen all of Fit.
LEMMA PreflightEndsStep == ASSUME SInv, PreflightEnds PROVE SInv'
  <1>1. /\ cmd.mode = "preflight" /\ step > 9 /\ step' = 0 /\ holds' = FALSE
        /\ outcome' \in {"failed", "passed"}
        /\ trusted' = IF ~failed /\ clean THEN trusted \cup {cmd.output} ELSE trusted
        /\ UNCHANGED <<machine, record, output, cmd, failed, size, before, clean,
                       commands, changes>>
    BY Orders DEF PreflightEnds, Finish, kept
  <1>2. cmd \in CommandLines
    BY StartAssumption DEF SInv, TypeOK
  <1>3. ASSUME ~failed, clean PROVE cmd.output = "other" /\ Fit(machine)
    <2>1. \A i \in 1..9 : Passes(PreflightSteps[i], cmd, machine, size)
      BY <1>1, <1>3, Orders DEF SInv, PreflightInv, TypeOK
    <2>2. /\ Passes("same", cmd, machine, size) /\ Passes("regular", cmd, machine, size)
          /\ Passes("open", cmd, machine, size) /\ Passes("punch", cmd, machine, size)
          /\ Passes("output", cmd, machine, size) /\ Passes("state", cmd, machine, size)
          /\ Passes("lock", cmd, machine, size) /\ Passes("space", cmd, machine, size)
      BY <2>1, Orders
    <2> QED BY <1>2, <2>2, Meaning DEF Fit, Dirs, CommandLines
  <1>4. TypeOK'
    <2>1. trusted' \subseteq {"source", "other"}
      BY <1>1, <1>2 DEF SInv, TypeOK, CommandLines
    <2>2. outcome' \in Outcomes
      BY <1>1, OutcomeNames
    <2>3. holds' \in BOOLEAN
      BY <1>1
    <2>4. step' \in 0..(Len(RunSteps) + 3)
      BY <1>1, StepNumbers
    <2> QED BY <1>1, <2>1, <2>2, <2>3, <2>4, Zenon DEF SInv, TypeOK
  <1>5. TrustInv'
    BY <1>1, <1>3 DEF SInv, TrustInv
  <1>6. PreflightInv' /\ RunInv' /\ HoldInv' /\ KeepInv'
    BY <1>1 DEF PreflightInv, RunInv, HoldInv, KeepInv
  <1>7. KeptInv'
    BY <1>1, Orders DEF SInv, KeptInv, kept
  <1>8. PreflightKeepsItsWord' /\ FailsLateOnlyUnchecked'
    BY <1>1, NoPromise DEF PreflightKeepsItsWord, FailsLateOnlyUnchecked
  <1> QED BY <1>4, <1>5, <1>6, <1>7, <1>8 DEF SInv

\* The size a run sees matters only to the checks behind the one that reads it.
LEMMA EarlyChecks ==
    ASSUME NEW c, NEW w, NEW n, NEW k, NEW i \in 1..5
    PROVE  Passes(RunSteps[i], c, w, n) => Passes(RunSteps[i], c, w, k)
  <1>1. i = 1 \/ i = 2 \/ i = 3 \/ i = 4 \/ i = 5
    OBVIOUS
  <1> QED BY <1>1, Orders, Meaning

LEMMA RunCheckStep == ASSUME SInv, RunCheck PROVE SInv'
  <1> DEFINE check == RunSteps[step]
  <1>1. /\ cmd.mode # "preflight" /\ step \in 1..16 /\ step' = step + 1
        /\ Passes(check, cmd, machine, size)
        /\ machine' = AfterCheck(check, machine)
        /\ UNCHANGED <<record, output, cmd, failed, outcome, before, clean, trusted,
                       commands, changes>>
    BY Orders DEF RunCheck, kept
  <1>2. size' = IF step = 5 THEN machine.size ELSE size
    <2>1. check = "stat" <=> step = 5
      <3>1. step \in {1, 2, 3, 4, 5, 6, 7, 8, 9, 10, 11, 12, 13, 14, 15, 16}
        BY <1>1
      <3> QED BY <3>1, Orders
    <2> QED BY <2>1 DEF RunCheck
  <1>3. holds' \in BOOLEAN /\ (holds => holds') /\ (step = 9 => holds')
    <2>1. step = 9 => check = "locked"
      BY Orders
    <2>2. holds' = (holds \/ check = "locked")
      BY DEF RunCheck
    <2> QED BY <2>1, <2>2, Zenon
  <1>4. /\ machine' \in Machines
        /\ \A k, c, n : Passes(k, c, machine, n) => Passes(k, c, machine', n)
        /\ Fit(machine) => Fit(machine')
        /\ machine'.size = machine.size
        /\ machine.dirs["output"] \in {"ready", "readOnly"}
              => machine'.dirs["output"] \in {"ready", "readOnly"}
        /\ step = 10 => machine'.dirs["output"] \in {"ready", "readOnly"}
    <2>1. machine \in Machines
      BY DEF SInv, TypeOK
    <2>2. Made(machine, machine')
      BY <1>1, <2>1, CheckMakes
    <2>3. step = 10 => machine'.dirs["output"] \in {"ready", "readOnly"}
      <3>1. SUFFICES ASSUME step = 10 PROVE machine'.dirs["output"] \in {"ready", "readOnly"}
        OBVIOUS
      <3>2. check = "outputDir"
        BY <3>1, Orders
      <3>3. machine.dirs["output"] # "denied" /\ machine'.dirs["output"] # "missing"
        BY <1>1, <2>1, <3>2, Meaning, CheckMakes
      <3>4. machine'.dirs["output"] # "denied" /\ machine'.dirs["output"] \in DirStates
        BY <2>2, <3>3 DEF Made, Machines, Dirs
      <3> QED BY <3>3, <3>4 DEF DirStates
    <2> HIDE DEF check
    <2> QED BY <2>1, <2>2, <2>3, PassesKept DEF Made
  <1> HIDE DEF check
  <1>5. TypeOK'
    <2>1. size' \in Nat
      BY <1>2, StartAssumption DEF SInv, TypeOK, Machines
    <2>2. step' \in 0..(Len(RunSteps) + 3)
      BY <1>1, StepNumbers
    <2> QED BY <1>1, <1>3, <1>4, <2>1, <2>2, Zenon DEF SInv, TypeOK
  <1>6. RunInv'
    <2> SUFFICES ASSUME clean
                 PROVE  /\ \A i \in 1..step :
                              i \in DOMAIN RunSteps => Passes(RunSteps[i], cmd, machine', size')
                        /\ step > 4 => size' = machine'.size
                        /\ step > 9 => machine'.dirs["output"] \in {"ready", "readOnly"}
      BY <1>1 DEF RunInv
    <2>1. /\ \A i \in 1..(step - 1) :
              i \in DOMAIN RunSteps => Passes(RunSteps[i], cmd, machine, size)
          /\ step > 5 => size = machine.size
          /\ step > 10 => machine.dirs["output"] \in {"ready", "readOnly"}
      BY <1>1 DEF SInv, RunInv
    <2>2. ASSUME NEW i \in 1..step, i \in DOMAIN RunSteps
          PROVE  Passes(RunSteps[i], cmd, machine', size')
      <3>1. Passes(RunSteps[i], cmd, machine, size)
        <4>1. CASE i = step
          BY <1>1, <4>1 DEF check
        <4>2. CASE i # step
          BY <1>1, <2>1, <2>2, <4>2
        <4> QED BY <4>1, <4>2
      <3>2. Passes(RunSteps[i], cmd, machine', size)
        BY <1>4, <3>1
      <3>3. CASE step = 5
        <4>1. i \in 1..5
          BY <2>2, <3>3
        <4> QED BY <3>2, <4>1, EarlyChecks
      <3>4. CASE step # 5
        BY <1>2, <3>2, <3>4
      <3> QED BY <3>3, <3>4
    <2>3. step > 4 => size' = machine'.size
      BY <1>1, <1>2, <1>4, <2>1
    <2>4. step > 9 => machine'.dirs["output"] \in {"ready", "readOnly"}
      BY <1>1, <1>4, <2>1
    <2> QED BY <2>2, <2>3, <2>4
  <1>7. HoldInv'
    BY <1>1, <1>3 DEF SInv, HoldInv
  <1>8. KeepInv'
    <2>1. CASE step = 7
      <3>1. check = "keep"
        BY <2>1, Orders DEF check
      <3>2. KeepLast(cmd, size) < size
        BY <1>1, <3>1, Meaning
      <3> QED BY <1>1, <1>2, <2>1, <3>2 DEF KeepInv
    <2>2. CASE step # 7
      <3>1. step > 7 => KeepLast(cmd, size) < size
        BY <1>1 DEF SInv, KeepInv
      <3> QED BY <1>1, <1>2, <2>2, <3>1 DEF KeepInv
    <2> QED BY <2>1, <2>2
  <1>9. PreflightInv' /\ KeptInv' /\ TrustInv'
    <2>1. PreflightInv'
      BY <1>1 DEF PreflightInv
    <2>2. KeptInv'
      BY <1>1, Orders DEF SInv, KeptInv, kept
    <2>3. TrustInv'
      BY <1>1, <1>4 DEF SInv, TrustInv
    <2> QED BY <2>1, <2>2, <2>3
  <1>10. step # 0 /\ step' # 0 /\ UNCHANGED outcome
    BY <1>1
  <1> QED BY <1>5, <1>6, <1>7, <1>8, <1>9, <1>10, NotOver DEF SInv

\* The end of a command, whatever ends it.
LEMMA EndStep ==
    ASSUME SInv, step # 0, NEW how \in Outcomes, Finish(how),
           UNCHANGED <<cmd, failed, size, before, clean, trusted, commands>>,
           machine' \in Machines, Fit(machine) => Fit(machine'),
           record' \in {-1, -2} \cup (Nat \ {0}), output' \in Nat, changes' \in Nat,
           how \in Begun \/ (kept = before /\ UNCHANGED kept),
           cmd.output \in trusted => AsPromised(how, machine'),
           clean => Late(how, machine')
    PROVE  SInv'
  <1>1. step' = 0 /\ outcome' = how /\ holds' = FALSE
    BY DEF Finish
  <1>2. TypeOK'
    <2>1. step' \in 0..(Len(RunSteps) + 3)
      BY <1>1, StepNumbers
    <2>2. holds' \in BOOLEAN
      BY <1>1
    <2> QED BY <1>1, <2>1, <2>2, Zenon DEF SInv, TypeOK
  <1>3. PreflightInv' /\ RunInv' /\ HoldInv' /\ KeepInv'
    BY <1>1 DEF PreflightInv, RunInv, HoldInv, KeepInv
  <1>4. KeptInv'
    BY <1>1, Orders DEF KeptInv, kept
  <1>5. TrustInv'
    BY DEF SInv, TrustInv
  <1>6. PreflightKeepsItsWord' /\ FailsLateOnlyUnchecked'
    BY <1>1 DEF PreflightKeepsItsWord, FailsLateOnlyUnchecked
  <1> QED BY <1>2, <1>3, <1>4, <1>5, <1>6 DEF SInv

\* On a machine a passed preflight saw, a run is refused for nothing it looked at;
\* the lock file it may be refused is one it cannot write.
LEMMA RunRefusedStep == ASSUME SInv, RunRefused PROVE SInv'
  <1> DEFINE check == RunSteps[step]
  <1>1. /\ step \in 1..16 /\ cmd.mode # "preflight"
        /\ ~Passes(check, cmd, machine, size)
        /\ Finish(check)
        /\ UNCHANGED <<machine, record, output, cmd, failed, size, before, clean, trusted,
                       commands, changes>>
    BY Orders DEF RunRefused, kept
  <1>2. check \in Outcomes
    BY <1>1, OutcomeNames
  <1>3. kept = before /\ UNCHANGED kept
    BY <1>1, Orders DEF SInv, KeptInv, kept
  <1>4. check \notin {"unappended", "unrecorded", "unpunched"}
    <2>1. step \in {1, 2, 3, 4, 5, 6, 7, 8, 9, 10, 11, 12, 13, 14, 15, 16}
      BY <1>1
    <2> QED BY <2>1, Orders
  <1> HIDE DEF check
  <1>5. Late(check, machine)
    BY <1>4 DEF Late
  <1>6. machine \in Machines /\ record \in {-1, -2} \cup (Nat \ {0}) /\ output \in Nat
        /\ changes \in Nat
    BY DEF SInv, TypeOK
  <1>7. ASSUME cmd.output \in trusted PROVE AsPromised(check, machine)
    <2>1. cmd.output = "other" /\ Fit(machine)
      BY <1>7 DEF SInv, TrustInv
    <2>2. check \notin LookedAt
      BY <1>1, <1>4, <2>1, Meaning DEF LookedAt, Fit, Dirs, Usable
    <2>3. check = "lockFile" => machine.files["lock"] = "blocked"
      <3>1. machine.dirs["lock"] \in Usable /\ machine.files["lock"] \in FileStates
        BY <1>6, <2>1 DEF Fit, Dirs, Machines
      <3> QED BY <1>1, <3>1, Meaning DEF CanOpen, Usable, FileStates
    <2> QED BY <1>4, <2>2, <2>3 DEF AsPromised, Unusable, Dirs
  <1>8. step # 0
    BY <1>1
  <1> QED BY <1>1, <1>2, <1>3, <1>5, <1>6, <1>7, <1>8, EndStep

LEMMA DryRunEndsStep == ASSUME SInv, DryRunEnds PROVE SInv'
  <1>1. /\ step = 17 /\ cmd.mode = "dryRun" /\ Finish("dryRun")
        /\ UNCHANGED <<machine, record, output, cmd, failed, size, before, clean, trusted,
                       commands, changes>>
    BY Orders DEF DryRunEnds, Checked, kept
  <1>2. kept = before /\ UNCHANGED kept
    BY <1>1 DEF SInv, KeptInv, kept
  <1>3. machine \in Machines /\ record \in {-1, -2} \cup (Nat \ {0}) /\ output \in Nat
        /\ changes \in Nat
    BY DEF SInv, TypeOK
  <1>4. "dryRun" \in Outcomes
    BY OutcomeNames
  <1>5. AsPromised("dryRun", machine') /\ Late("dryRun", machine')
    BY NoPromise
  <1>6. step # 0
    BY <1>1
  <1> QED BY <1>1, <1>2, <1>3, <1>4, <1>5, <1>6, EndStep

LEMMA RecordRefusedStep == ASSUME SInv, RecordRefused PROVE SInv'
  <1>1. /\ step = 17 /\ Finish("record")
        /\ UNCHANGED <<machine, record, output, cmd, failed, size, before, clean, trusted,
                       commands, changes>>
    BY Orders DEF RecordRefused, Checked, kept
  <1>2. kept = before /\ UNCHANGED kept
    BY <1>1, Orders DEF SInv, KeptInv, kept
  <1>3. machine \in Machines /\ record \in {-1, -2} \cup (Nat \ {0}) /\ output \in Nat
        /\ changes \in Nat
    BY DEF SInv, TypeOK
  <1>4. "record" \in Outcomes
    BY OutcomeNames
  <1>5. AsPromised("record", machine') /\ Late("record", machine')
    BY NoPromise
  <1>6. step # 0
    BY <1>1
  <1> QED BY <1>1, <1>2, <1>3, <1>4, <1>5, <1>6, EndStep

\* What a run behind its checks knows of a machine nobody changed.
LEMMA Behind ==
    ASSUME SInv, cmd.mode # "preflight", clean, step > 16
    PROVE  /\ machine.source \in {"file", "link"} /\ machine.punchable
           /\ machine.dirs["output"] \in {"ready", "readOnly"}
  <1>1. step \in Int
    BY DEF SInv, TypeOK
  <1>2. Passes(RunSteps[11], cmd, machine, size) /\ Passes(RunSteps[12], cmd, machine, size)
        /\ machine.dirs["output"] \in {"ready", "readOnly"}
    BY <1>1, Orders DEF SInv, RunInv
  <1> QED BY <1>2, Orders, Meaning

\* A directory the preflight could write to can be appended to, but for the file.
LEMMA AppendRefusedStep == ASSUME SInv, AppendRefused PROVE SInv'
  <1>1. /\ step = 17 /\ cmd.mode # "preflight" /\ Finish("unappended")
        /\ ~CanAppend(machine)
        /\ UNCHANGED <<machine, record, output, cmd, failed, size, before, clean, trusted,
                       commands, changes>>
    BY Orders DEF AppendRefused, Loop, Checked, kept
  <1>2. kept = before /\ UNCHANGED kept
    BY <1>1, Orders DEF SInv, KeptInv, kept
  <1>3. machine \in Machines /\ record \in {-1, -2} \cup (Nat \ {0}) /\ output \in Nat
        /\ changes \in Nat
    BY DEF SInv, TypeOK
  <1>4. "unappended" \in Outcomes
    BY OutcomeNames
  <1>5. ASSUME clean PROVE machine.dirs["output"] = "readOnly" \/ machine.files["output"] = "blocked"
    <2>1. machine.dirs["output"] \in {"ready", "readOnly"}
      BY <1>1, <1>5, Behind
    <2>2. machine.files["output"] \in FileStates
      BY <1>3 DEF Machines, Dirs
    <2> QED BY <1>1, <2>1, <2>2 DEF CanAppend, CanOpen, Usable, FileStates
  <1>6. ASSUME cmd.output \in trusted PROVE machine.files["output"] = "blocked"
    <2>1. machine.dirs["output"] \in Usable /\ clean
      BY <1>6 DEF SInv, TrustInv, Fit, Dirs
    <2> QED BY <1>5, <2>1 DEF Usable
  <1>7. cmd.output \in trusted => AsPromised("unappended", machine')
    BY <1>1, <1>6 DEF AsPromised, LookedAt, Unusable, Dirs
  <1>8. clean => Late("unappended", machine')
    BY <1>1, <1>5 DEF Late
  <1>9. step # 0
    BY <1>1
  <1> QED BY <1>1, <1>2, <1>3, <1>4, <1>7, <1>8, <1>9, EndStep

LEMMA AppendBreaksOffStep == ASSUME SInv, AppendBreaksOff PROVE SInv'
  <1>1. /\ step = 17 /\ machine' = MadeFile(machine, "output")
        /\ output' \in {output, output + 1}
        /\ UNCHANGED <<record, cmd, failed, size, before, clean, trusted, commands,
                       changes>>
    BY Orders DEF AppendBreaksOff, Loop, Checked
  <1>2. machine \in Machines /\ record \in {-1, -2} \cup (Nat \ {0}) /\ output \in Nat
        /\ changes \in Nat
    BY DEF SInv, TypeOK
  <1>3. machine' \in Machines /\ (Fit(machine) => Fit(machine'))
    BY <1>1, <1>2, MadeFileMakes, PassesKept DEF Made, Dirs
  <1>4. PICK how \in {"broken", "noLine"} : Finish(how)
    BY DEF AppendBreaksOff
  <1>5. how \in Outcomes /\ how \in Begun
    BY OutcomeNames DEF Begun
  <1>6. AsPromised(how, machine') /\ Late(how, machine')
    BY NoPromise
  <1>7. output' \in Nat /\ step # 0
    BY <1>1, <1>2
  <1> QED BY <1>1, <1>2, <1>3, <1>4, <1>5, <1>6, <1>7, EndStep

LEMMA KilledStep == ASSUME SInv, Killed PROVE SInv'
  <1>1. /\ Finish("killed") /\ changes' = changes + 1 /\ step # 0
        /\ UNCHANGED <<machine, record, output, cmd, failed, size, before, clean, trusted,
                       commands>>
    BY DEF Killed, kept
  <1>2. /\ machine \in Machines /\ record \in {-1, -2} \cup (Nat \ {0}) /\ output \in Nat
        /\ changes \in Nat
    BY DEF SInv, TypeOK
  <1>3. changes' \in Nat
    BY <1>1, <1>2
  <1>4. "killed" \in Outcomes /\ "killed" \in Begun
    BY OutcomeNames DEF Begun
  <1>5. AsPromised("killed", machine') /\ Late("killed", machine')
    BY NoPromise
  <1> QED BY <1>1, <1>2, <1>3, <1>4, <1>5, EndStep

\* A step behind the checks that goes on with the loop, and may create a file.
LEMMA LoopStep ==
    ASSUME SInv, cmd.mode = "run", step \in {17, 18}, step' = step + 1,
           Made(machine, machine'),
           record' \in {-1, -2} \cup (Nat \ {0}), output' \in Nat,
           UNCHANGED <<cmd, failed, size, holds, outcome, before, clean, trusted, commands,
                       changes>>
    PROVE  SInv'
  <1>1. machine \in Machines /\ machine' \in Machines /\ step \in Int
    BY DEF SInv, TypeOK, Made
  <1>2. TypeOK'
    <2>1. step' \in 0..(Len(RunSteps) + 3)
      BY StepNumbers
    <2> QED BY <1>1, <2>1, Zenon DEF SInv, TypeOK
  <1>3. RunInv'
    <2> SUFFICES ASSUME clean
                 PROVE  /\ \A i \in 1..16 : Passes(RunSteps[i], cmd, machine', size)
                        /\ size = machine'.size
                        /\ machine'.dirs["output"] \in {"ready", "readOnly"}
      BY Orders DEF RunInv
    <2>1. /\ \A i \in 1..16 : Passes(RunSteps[i], cmd, machine, size)
          /\ size = machine.size
          /\ machine.dirs["output"] \in {"ready", "readOnly"}
      BY Orders DEF SInv, RunInv
    <2> QED BY <1>1, <2>1, PassesKept DEF Made
  <1>4. PreflightInv' /\ HoldInv' /\ KeepInv'
    BY DEF SInv, PreflightInv, HoldInv, KeepInv
  <1>5. KeptInv'
    BY Orders DEF SInv, KeptInv
  <1>6. TrustInv'
    BY <1>1, PassesKept DEF SInv, TrustInv
  <1>7. step # 0 /\ step' # 0
    OBVIOUS
  <1> QED BY <1>2, <1>3, <1>4, <1>5, <1>6, <1>7, NotOver DEF SInv

LEMMA FirstChunkStep == ASSUME SInv, FirstChunk PROVE SInv'
  <1>1. /\ step = 17 /\ cmd.mode = "run" /\ step' = step + 1 /\ output' = output + 1
        /\ machine' = MadeFile(machine, "output")
        /\ UNCHANGED <<record, cmd, failed, size, holds, outcome, before, clean,
                       trusted, commands, changes>>
    BY Orders DEF FirstChunk, Loop, Checked
  <1>2. /\ machine \in Machines /\ record \in {-1, -2} \cup (Nat \ {0}) /\ output \in Nat
    BY DEF SInv, TypeOK
  <1>3. Made(machine, machine')
    BY <1>1, <1>2, MadeFileMakes DEF Dirs
  <1>4. output' \in Nat /\ record' \in {-1, -2} \cup (Nat \ {0})
    BY <1>1, <1>2
  <1> QED BY <1>1, <1>3, <1>4, LoopStep

LEMMA FirstRecordStep == ASSUME SInv, FirstRecord PROVE SInv'
  <1>1. /\ step = 18 /\ step' = step + 1 /\ machine' = MadeFile(machine, "state")
        /\ record' = Cutoff(cmd, size)
        /\ UNCHANGED <<output, cmd, failed, size, holds, outcome, before, clean, trusted,
                       commands, changes>>
    BY Orders DEF FirstRecord
  <1>2. cmd.mode = "run" /\ cmd \in CommandLines /\ size \in Nat
    BY <1>1, Orders, StartAssumption DEF SInv, KeptInv, TypeOK
  <1>3. machine \in Machines /\ output' \in Nat
    BY <1>1 DEF SInv, TypeOK
  <1>4. Made(machine, machine')
    BY <1>1, <1>3, MadeFileMakes DEF Dirs
  <1>5. Cutoff(cmd, size) \in Nat \ {0}
    <2>1. KeepLast(cmd, size) \in Nat /\ KeepLast(cmd, size) < size
      BY <1>1, <1>2, KeepType DEF SInv, KeepInv
    <2> QED BY <1>2, <2>1 DEF Cutoff
  <1>6. record' \in {-1, -2} \cup (Nat \ {0})
    BY <1>1, <1>5
  <1> QED BY <1>1, <1>2, <1>3, <1>4, <1>6, LoopStep

\* A directory the preflight could write to takes the state file, but for the file.
LEMMA RecordFailsStep == ASSUME SInv, RecordFails PROVE SInv'
  <1>1. /\ step = 18 /\ Finish("unrecorded") /\ ~CanRecord(machine)
        /\ machine' = MadeDir(machine, "state")
        /\ UNCHANGED <<record, output, cmd, failed, size, before, clean, trusted, commands,
                       changes>>
    BY Orders DEF RecordFails, kept
  <1>2. machine \in Machines /\ record' \in {-1, -2} \cup (Nat \ {0}) /\ output' \in Nat
        /\ changes' \in Nat
    BY <1>1 DEF SInv, TypeOK
  <1>3. Made(machine, machine')
    BY <1>1, <1>2, MadeDirMakes DEF Dirs
  <1>4. machine' \in Machines /\ (Fit(machine) => Fit(machine'))
    BY <1>2, <1>3, PassesKept DEF Made
  <1>5. "unrecorded" \in Outcomes /\ "unrecorded" \in Begun
    BY OutcomeNames DEF Begun
  <1>6. cmd.output \in trusted => AsPromised("unrecorded", machine')
    <2>1. SUFFICES ASSUME cmd.output \in trusted PROVE AsPromised("unrecorded", machine')
      OBVIOUS
    <2>2. machine.dirs["state"] \in Usable
      BY <2>1 DEF SInv, TrustInv, Fit, Dirs
    <2>3. machine.files["state"] = "blocked"
      BY <1>1, <2>2 DEF CanRecord
    <2>4. machine'.files["state"] = "blocked"
      BY <1>2, <1>3, <2>3, PassesKept DEF Dirs
    <2> QED BY <2>4 DEF AsPromised, LookedAt, Unusable, Dirs
  <1>7. Late("unrecorded", machine')
    BY DEF Late
  <1>8. step # 0
    BY <1>1
  <1> QED BY <1>1, <1>2, <1>4, <1>5, <1>6, <1>7, <1>8, EndStep

\* Where the punch was tried, it works; behind a link it was tried elsewhere.
LEMMA FirstPunchStep == ASSUME SInv, FirstPunch PROVE SInv'
  <1> DEFINE how == IF CanPunch(machine) THEN "started" ELSE "unpunched"
  <1>1. /\ step = 19 /\ Finish(how)
        /\ UNCHANGED <<machine, record, output, cmd, failed, size, before, clean, trusted,
                       commands, changes>>
    BY Orders DEF FirstPunch, kept
  <1>2. machine \in Machines /\ record \in {-1, -2} \cup (Nat \ {0}) /\ output \in Nat
        /\ changes \in Nat
    BY DEF SInv, TypeOK
  <1>3. how \in Outcomes /\ how \in Begun
    BY OutcomeNames DEF Begun
  <1>4. cmd.output \in trusted => how = "started"
    BY DEF SInv, TrustInv, Fit, CanPunch
  <1>5. clean /\ how # "started" => machine.source = "link"
    <2>1. cmd.mode # "preflight"
      BY <1>1, Orders DEF SInv, KeptInv
    <2>2. clean => machine.punchable
      BY <1>1, <2>1, Behind
    <2> QED BY <2>2 DEF CanPunch
  <1>6. how = "started" \/ how = "unpunched"
    OBVIOUS
  <1> HIDE DEF how
  <1>7. cmd.output \in trusted => AsPromised(how, machine')
    BY <1>4, NoPromise
  <1>8. clean => Late(how, machine')
    BY <1>1, <1>5, <1>6 DEF Late
  <1>9. step # 0
    BY <1>1
  <1> QED BY <1>1, <1>2, <1>3, <1>7, <1>8, <1>9, EndStep

LEMMA ChangeStep == ASSUME SInv, Change PROVE SInv'
  <1>1. /\ changes' = changes + 1 /\ clean' = FALSE /\ trusted' = {}
        /\ UNCHANGED <<record, output, cmd, step, failed, size, holds, outcome, before,
                       commands>>
    BY DEF Change, kept, run
  <1>2. machine' \in Machines /\ changes' \in Nat
    BY <1>1, ChangedType DEF Change, SInv, TypeOK
  <1>3. clean' \in BOOLEAN /\ trusted' \subseteq {"source", "other"}
    BY <1>1
  <1>4. TypeOK'
    BY <1>1, <1>2, <1>3, Zenon DEF SInv, TypeOK
  <1>5. PreflightInv' /\ RunInv' /\ HoldInv' /\ KeepInv'
    BY <1>1 DEF SInv, PreflightInv, RunInv, HoldInv, KeepInv
  <1>6. KeptInv' /\ TrustInv'
    BY <1>1 DEF SInv, KeptInv, TrustInv, kept
  <1>7. PreflightKeepsItsWord' /\ FailsLateOnlyUnchecked'
    BY <1>1 DEF SInv, PreflightKeepsItsWord, FailsLateOnlyUnchecked
  <1> QED BY <1>4, <1>5, <1>6, <1>7 DEF SInv

LEMMA OtherRecordStep == ASSUME SInv, OtherRecord PROVE SInv'
  <1>1. /\ step = 0 /\ changes' = changes + 1 /\ record' \in {-1, -2}
        /\ before' = <<record', output>>
        /\ UNCHANGED <<machine, output, cmd, step, failed, size, holds, outcome, clean,
                       trusted, commands>>
    BY DEF OtherRecord
  <1>2. before' \in Int \X Nat /\ changes' \in Nat
    BY <1>1 DEF SInv, TypeOK
  <1>3. record' \in {-1, -2} \cup (Nat \ {0})
    BY <1>1
  <1>4. TypeOK'
    BY <1>1, <1>2, <1>3, Zenon DEF SInv, TypeOK
  <1>5. PreflightInv' /\ RunInv' /\ HoldInv' /\ KeepInv'
    BY <1>1 DEF SInv, PreflightInv, RunInv, HoldInv, KeepInv
  <1>6. KeptInv' /\ TrustInv'
    BY <1>1 DEF SInv, KeptInv, TrustInv, kept
  <1>7. PreflightKeepsItsWord' /\ FailsLateOnlyUnchecked'
    BY <1>1 DEF SInv, PreflightKeepsItsWord, FailsLateOnlyUnchecked
  <1> QED BY <1>4, <1>5, <1>6, <1>7 DEF SInv

\* SInv is inductive.
THEOREM StartInvariant == Spec => []SInv
  <1>1. Init => SInv
    BY InitSInv
  <1>2. ASSUME SInv, [Next]_vars PROVE SInv'
    <2>1. CASE UNCHANGED vars
      <3>1. UNCHANGED <<machine, record, output, cmd, step, failed, size, holds, outcome,
                        before, clean, trusted, commands, changes>>
        BY <2>1 DEF vars, kept, run
      <3> QED BY <1>2, <3>1 DEF SInv, TypeOK, PreflightInv, RunInv, HoldInv, KeepInv,
                  KeptInv, TrustInv, PreflightKeepsItsWord, FailsLateOnlyUnchecked, kept
    <2> QED BY <1>2, <2>1, BeginStep, PreflightCheckStep, PreflightEndsStep, RunCheckStep,
               RunRefusedStep, DryRunEndsStep, RecordRefusedStep, FirstChunkStep,
               AppendRefusedStep, AppendBreaksOffStep, FirstRecordStep, RecordFailsStep,
               FirstPunchStep, ChangeStep, OtherRecordStep, KilledStep
               DEF Next
  <1> QED BY <1>1, <1>2, PTL DEF Spec

\* Type correctness: a run records only a cutoff above zero.
THEOREM StartTypeCorrect == Spec => []TypeOK
  <1>1. SInv => TypeOK
    BY DEF SInv
  <1> QED BY <1>1, StartInvariant, PTL

\* Whatever the command lines and the sizes are, a passed preflight keeps its word:
\* on an unchanged machine a run is not refused for what was looked at, finds its
\* source punchable, and fails for a directory only by the file in it.
THEOREM PreflightIsTrue == Spec => []PreflightKeepsItsWord
  <1>1. SInv => PreflightKeepsItsWord
    BY DEF SInv
  <1> QED BY <1>1, StartInvariant, PTL

\* On an unchanged machine a run that passes its checks fails to punch only behind a
\* symbolic link, and to open its output only for a file or a directory it may not
\* write to.
THEOREM ChecksAreEnough == Spec => []FailsLateOnlyUnchecked
  <1>1. SInv => FailsLateOnlyUnchecked
    BY DEF SInv
  <1> QED BY <1>1, StartInvariant, PTL

\* A command that does not get to its first chunk changes neither the output nor the
\* state file, and frees the lock.
THEOREM RefusalsAreHarmless == Spec => []Harmless
  <1>1. SInv => Harmless
    BY DEF SInv, KeptInv, Harmless
  <1> QED BY <1>1, StartInvariant, PTL
=============================================================================
