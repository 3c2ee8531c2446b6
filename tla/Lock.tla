-------------------------------- MODULE Lock --------------------------------
(***************************************************************************)
(* The lock of one (source, output) pair: lock.Acquire and its release, and *)
(* lock.ForceUnlock, of internal/lock/lock.go.                             *)
(*                                                                         *)
(* The lock is an flock on the file that the lock path names when it is    *)
(* opened.  The file is never removed by its owner: it keeps the process   *)
(* id that was written last, and only force-unlock removes it.             *)
(***************************************************************************)
EXTENDS Naturals, FiniteSets

CONSTANTS
    Procs,        \* processes that run a job, by process id
    Unlockers,    \* invocations of logcut force-unlock
    Inodes,       \* identities of the files that were ever at the lock path
    Foreign,      \* processes of another user: signal 0 is not permitted
    NoFile,       \* the lock path names no file, or nothing is open
    NoPid         \* no holder, or a file without a readable process id

ASSUME DistinctAssumption == NoFile \notin Inodes /\ NoPid \notin Procs
ASSUME ForeignAssumption == Foreign \subseteq Procs
ASSUME FiniteAssumption == IsFiniteSet(Procs) /\ IsFiniteSet(Unlockers)

VARIABLES
    path,          \* the file at the lock path
    created,       \* the files that exist or existed
    content,       \* the process id in each file
    holder,        \* the process that has the flock on each file
    pc, fd,        \* of each process: where it is, and the file it has open
    upc, seen,     \* of each unlocker: where it is, and the process id it read
    removedInUse,  \* history: force-unlock removed a file a process had open
    failed,        \* history: the calls of each process whose error went unnoticed
    ranAtRead      \* history: the processes that ran on the file each unlocker read

lockFile  == <<path, created, content, holder>>
processes == <<pc, fd>>
unlockers == <<upc, seen>>
history == <<removedInUse, failed, ranAtRead>>
vars == <<lockFile, processes, unlockers, history>>

\* The calls of Acquire whose errors are ignored.
Calls == {"truncate", "write"}

TypeOK ==
    /\ created \subseteq Inodes
    /\ path \in created \cup {NoFile}
    /\ content \in [Inodes -> Procs \cup {NoPid}]
    /\ holder \in [Inodes -> Procs \cup {NoPid}]
    /\ pc \in [Procs -> {"new", "opened", "locked", "truncated", "running",
                         "refused", "gone"}]
    /\ fd \in [Procs -> created \cup {NoFile}]
    /\ upc \in [Unlockers -> {"new", "check", "remove", "done"}]
    /\ seen \in [Unlockers -> Procs \cup {NoPid}]
    /\ removedInUse \in BOOLEAN
    /\ failed \in [Procs -> SUBSET Calls]
    /\ ranAtRead \in [Unlockers -> SUBSET Procs]

\* A process that has the lock file open, and one that exists at all.
HasOpen == {"opened", "locked", "truncated", "running"}
Alive(p) == pc[p] \in HasOpen

-----------------------------------------------------------------------------
\* Acquire

Goto(p, label) == pc' = [pc EXCEPT ![p] = label]

\* os.OpenFile with O_CREATE.
Open(p) ==
    /\ pc[p] = "new"
    /\ \/ /\ path # NoFile
          /\ fd' = [fd EXCEPT ![p] = path]
          /\ UNCHANGED <<path, created>>
       \/ /\ path = NoFile
          /\ \E f \in Inodes \ created :
                /\ path' = f
                /\ created' = created \cup {f}
                /\ fd' = [fd EXCEPT ![p] = f]
    /\ Goto(p, "opened")
    /\ UNCHANGED <<content, holder, unlockers, history>>

\* Faulty variants: the file is taken for the lock, or the result of flock is
\* not looked at.
ContentFree(f) == content[f] = NoPid
AlwaysFree(f) == TRUE

FlockFree(f) == holder[f] = NoPid

\* flock with LOCK_NB: it never waits.
Flock(p) ==
    /\ pc[p] = "opened"
    /\ FlockFree(fd[p])
    /\ holder' = [holder EXCEPT ![fd[p]] = p]
    /\ Goto(p, "locked")
    /\ UNCHANGED <<path, created, content, fd, unlockers, history>>

FlockRefused(p) ==
    /\ pc[p] = "opened"
    /\ ~FlockFree(fd[p])
    /\ fd' = [fd EXCEPT ![p] = NoFile]
    /\ Goto(p, "refused")
    /\ UNCHANGED <<lockFile, unlockers, history>>

\* A call fails and nobody looks at its error.
Fails(p, call) == failed' = [failed EXCEPT ![p] = @ \cup {call}]

\* Faulty variant: the process id of the last owner stays in the file.
Untruncated(p) == content

Truncated(p) == [content EXCEPT ![fd[p]] = NoPid]

\* The file is emptied, or the call fails and the earlier owner's id stays.
Truncate(p) ==
    /\ pc[p] = "locked"
    /\ \/ content' = Truncated(p) /\ UNCHANGED failed
       \/ Fails(p, "truncate") /\ UNCHANGED content
    /\ Goto(p, "truncated")
    /\ UNCHANGED <<path, created, holder, fd, unlockers, removedInUse, ranAtRead>>

\* Faulty variant: the number of the descriptor is written.
DescriptorWritten(p) == [content EXCEPT ![fd[p]] = fd[p]]

PidWritten(p) == [content EXCEPT ![fd[p]] = p]

\* A shorter id written over a longer one leaves digits behind it: the file has no
\* readable id.
Overwritten(p) == [content EXCEPT ![fd[p]] = NoPid]

\* The process id is written, or the write fails.  The process runs its job in
\* either case.
WritePid(p) ==
    /\ pc[p] = "truncated"
    /\ \/ content' = PidWritten(p) /\ UNCHANGED failed
       \/ /\ "truncate" \in failed[p]
          /\ content' = Overwritten(p)
          /\ UNCHANGED failed
       \/ Fails(p, "write") /\ UNCHANGED content
    /\ Goto(p, "running")
    /\ UNCHANGED <<path, created, holder, fd, unlockers, removedInUse, ranAtRead>>

\* Run returns, or the process dies anywhere after the open: the descriptor is
\* closed, which releases the flock, and the file stays.
Leave(p) ==
    /\ Alive(p)
    /\ holder' = [f \in Inodes |-> IF holder[f] = p THEN NoPid ELSE holder[f]]
    /\ fd' = [fd EXCEPT ![p] = NoFile]
    /\ Goto(p, "gone")
    /\ UNCHANGED <<path, created, content, unlockers, history>>

-----------------------------------------------------------------------------
\* ForceUnlock

UGoto(u, label) == upc' = [upc EXCEPT ![u] = label]

\* The processes whose job runs on the file at the path.
RunsAtPath == {p \in Procs : pc[p] = "running" /\ fd[p] = path}

\* ReadPID: a missing file, or one without a process id, is an error.
ReadPid(u) ==
    /\ upc[u] = "new"
    /\ IF path # NoFile /\ content[path] # NoPid
       THEN /\ seen' = [seen EXCEPT ![u] = content[path]]
            /\ ranAtRead' = [ranAtRead EXCEPT ![u] = RunsAtPath]
            /\ UGoto(u, "check")
       ELSE UGoto(u, "done") /\ UNCHANGED <<seen, ranAtRead>>
    /\ UNCHANGED <<lockFile, processes, removedInUse, failed>>

\* IsProcessAlive: signal 0 reaches the process.  A process of another user
\* counts as dead.
SeenAlive(p) == Alive(p) /\ p \notin Foreign

CheckAlive(u) ==
    /\ upc[u] = "check"
    /\ UGoto(u, IF SeenAlive(seen[u]) THEN "done" ELSE "remove")
    /\ UNCHANGED <<lockFile, processes, seen, history>>

\* os.Remove of whatever the path names by now.
InUse(f) == \E p \in Procs : fd[p] = f
Remove(u) ==
    /\ upc[u] = "remove"
    /\ path' = NoFile
    /\ removedInUse' = (removedInUse \/ (path # NoFile /\ InUse(path)))
    /\ UGoto(u, "done")
    /\ UNCHANGED <<created, content, holder, processes, seen, failed, ranAtRead>>

-----------------------------------------------------------------------------

Init ==
    /\ path = NoFile /\ created = {}
    /\ content = [f \in Inodes |-> NoPid]
    /\ holder = [f \in Inodes |-> NoPid]
    /\ pc = [p \in Procs |-> "new"]
    /\ fd = [p \in Procs |-> NoFile]
    /\ upc = [u \in Unlockers |-> "new"]
    /\ seen = [u \in Unlockers |-> NoPid]
    /\ removedInUse = FALSE
    /\ failed = [p \in Procs |-> {}]
    /\ ranAtRead = [u \in Unlockers |-> {}]

ProcStep(p) ==
    Open(p) \/ Flock(p) \/ FlockRefused(p) \/ Truncate(p) \/ WritePid(p) \/ Leave(p)

UnlockStep(u) == ReadPid(u) \/ CheckAlive(u) \/ Remove(u)

Next ==
    \/ \E p \in Procs : ProcStep(p)
    \/ \E u \in Unlockers : UnlockStep(u)

Spec == Init /\ [][Next]_vars

-----------------------------------------------------------------------------
\* Properties

\* Two processes never run the same job at the same time.
MutualExclusion ==
    \A p, q \in Procs : pc[p] = "running" /\ pc[q] = "running" => p = q

\* The only way to lose mutual exclusion is a force-unlock that removes the
\* file while some process has it open, at whatever point of Acquire.
ExclusiveUnlessRemoved == ~removedInUse => MutualExclusion

\* u is about to remove the lock file of a job that ran when u read the file and
\* runs still.
AboutToRemove(u, p) ==
    /\ upc[u] = "remove"
    /\ p \in ranAtRead[u]
    /\ pc[p] = "running" /\ fd[p] = path

\* A force-unlock that looks at the file while a job runs on it leaves that job its
\* file, whoever owned the file before: but for a job that may not be signalled, or
\* one for which both the truncation and the write failed.
RunningJobKept ==
    \A u \in Unlockers, p \in Procs :
        AboutToRemove(u, p) => p \in Foreign \/ failed[p] = Calls

\* How much is lost by such removals, however many overlap: each file that was
\* removed under a process lets one process more run the job, and only for as long
\* as somebody has that file open.  When it is closed, exclusion is back.
Running == {p \in Procs : pc[p] = "running"}
Lost == {f \in created \ {path} : InUse(f)}
RunnersCounted == Cardinality(Running) <= 1 + Cardinality(Lost)

\* The file a dead process leaves behind keeps nobody out: a process is refused
\* only while another process that exists holds the lock.
RefusedOnlyByLive ==
    [][\A p \in Procs :
          pc[p] = "opened" /\ pc'[p] = "refused" =>
              \E q \in Procs \ {p} : Alive(q) /\ holder[fd[p]] = q]_vars
=============================================================================
