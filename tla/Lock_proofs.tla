---------------------------- MODULE Lock_proofs -----------------------------
(***************************************************************************)
(* Proofs about Lock for any processes, force-unlocks and lock files: only  *)
(* the removal of a file in use can break mutual exclusion.                *)
(***************************************************************************)
EXTENDS Lock, FiniteSetTheorems, TLAPS

Holding == {"locked", "truncated", "running"}

\* A process has a file open exactly while it is between open and close; one
\* that passed flock holds the flock of that file, and unless its calls failed the
\* file has no foreign process id in it; and as long as no file in use was removed,
\* the file that is open is the one at the path.
FdInv(p) ==
    /\ pc[p] \in HasOpen => fd[p] \in created
    /\ pc[p] \notin HasOpen => fd[p] = NoFile
    /\ pc[p] \in Holding => holder[fd[p]] = p
    /\ pc[p] \in {"new", "opened", "locked"} => failed[p] = {}
    /\ pc[p] = "truncated" =>
          \/ failed[p] = {} /\ content[fd[p]] = NoPid
          \/ failed[p] = {"truncate"}
    /\ pc[p] = "running" => content[fd[p]] \in {p, NoPid} \/ failed[p] = Calls
    /\ ~removedInUse /\ pc[p] \in HasOpen => path = fd[p]

LockInv == TypeOK /\ \A p \in Procs : FdInv(p)

LEMMA InitLock == Init => LockInv
  BY DEF Init, LockInv, TypeOK, FdInv, HasOpen, Holding, Calls

LEMMA ProcStepLock ==
    ASSUME LockInv, NEW p \in Procs, ProcStep(p)
    PROVE  LockInv'
  <1> USE DistinctAssumption DEF LockInv
  <1>1. CASE Open(p)
    <2>1. TypeOK'
      BY <1>1 DEF Open, TypeOK, Goto, lockFile, unlockers, history
    <2>2. PICK f \in created' : /\ fd' = [fd EXCEPT ![p] = f]
                                /\ path' = f
                                /\ path # NoFile => path' = path
                                /\ path = NoFile => f \notin created
                                /\ created \subseteq created'
      BY <1>1 DEF Open, TypeOK
    <2>3. /\ pc[p] = "new" /\ pc' = [pc EXCEPT ![p] = "opened"]
          /\ UNCHANGED <<content, holder, removedInUse, failed>>
      BY <1>1 DEF Open, Goto, history
    <2>4. ASSUME NEW q \in Procs PROVE FdInv(q)'
      <3>1. FdInv(q)
        OBVIOUS
      <3>2. CASE q = p
        BY <2>1, <2>2, <2>3, <3>2 DEF FdInv, TypeOK, HasOpen, Holding
      <3>3. CASE q # p
        BY <2>2, <2>3, <3>1, <3>3 DEF FdInv, TypeOK, HasOpen, Holding
      <3> QED BY <3>2, <3>3
    <2> QED BY <2>1, <2>4
  <1>2. CASE Flock(p)
    <2>1. TypeOK'
      BY <1>2 DEF Flock, TypeOK, Goto, unlockers, history
    <2>2. ASSUME NEW q \in Procs PROVE FdInv(q)'
      <3>1. FdInv(q) /\ FdInv(p)
        OBVIOUS
      <3>2. q # p /\ pc[q] \in Holding => fd[q] # fd[p]
        BY <1>2, <3>1 DEF Flock, FlockFree, FdInv
      <3> QED BY <1>2, <3>1, <3>2
              DEF Flock, FlockFree, Goto, FdInv, TypeOK, HasOpen, Holding, history
    <2> QED BY <2>1, <2>2
  <1>3. CASE FlockRefused(p)
    <2>1. TypeOK'
      BY <1>3 DEF FlockRefused, TypeOK, Goto, lockFile, unlockers, history
    <2>2. ASSUME NEW q \in Procs PROVE FdInv(q)'
      BY <1>3, <2>1 DEF FlockRefused, Goto, FdInv, TypeOK, lockFile, HasOpen, Holding, history
    <2> QED BY <2>1, <2>2
  <1>4. CASE Truncate(p)
    <2>1. TypeOK'
      BY <1>4 DEF Truncate, Truncated, Fails, Calls, TypeOK, Goto, unlockers
    <2>2. ASSUME NEW q \in Procs PROVE FdInv(q)'
      <3>1. FdInv(q) /\ FdInv(p)
        OBVIOUS
      <3>2. q # p /\ pc[q] \in Holding => fd[q] # fd[p]
        BY <1>4, <3>1 DEF Truncate, FdInv, Holding
      <3> QED BY <1>4, <3>1, <3>2
              DEF Truncate, Truncated, Fails, Goto, FdInv, TypeOK, HasOpen, Holding
    <2> QED BY <2>1, <2>2
  <1>5. CASE WritePid(p)
    <2>1. TypeOK'
      BY <1>5 DEF WritePid, PidWritten, Overwritten, Fails, Calls, TypeOK, Goto, unlockers
    <2>2. ASSUME NEW q \in Procs PROVE FdInv(q)'
      <3>1. FdInv(q) /\ FdInv(p)
        OBVIOUS
      <3>2. q # p /\ pc[q] \in Holding => fd[q] # fd[p]
        BY <1>5, <3>1 DEF WritePid, FdInv, Holding
      <3>3. /\ pc[p] = "truncated" /\ pc' = [pc EXCEPT ![p] = "running"]
            /\ UNCHANGED <<path, created, holder, fd, removedInUse>>
        BY <1>5 DEF WritePid, Goto
      <3>4. /\ \A f \in Inodes \ {fd[p]} : content'[f] = content[f]
            /\ \A r \in Procs \ {p} : failed'[r] = failed[r]
            /\ content'[fd[p]] \in {p, NoPid} \/ failed'[p] = Calls
        BY <1>5, <3>1, <3>3
           DEF WritePid, PidWritten, Overwritten, Fails, Calls, FdInv, TypeOK, HasOpen
      <3>5. pc[q] \in HasOpen => fd[q] \in Inodes
        BY <3>1 DEF FdInv, TypeOK
      <3> QED BY <3>1, <3>2, <3>3, <3>4, <3>5 DEF FdInv, TypeOK, HasOpen, Holding
    <2> QED BY <2>1, <2>2
  <1>6. CASE Leave(p)
    <2>1. TypeOK'
      BY <1>6 DEF Leave, TypeOK, Goto, unlockers, history
    <2>2. ASSUME NEW q \in Procs PROVE FdInv(q)'
      BY <1>6 DEF Leave, Goto, FdInv, TypeOK, HasOpen, Holding, Alive, history
    <2> QED BY <2>1, <2>2
  <1> QED BY <1>1, <1>2, <1>3, <1>4, <1>5, <1>6 DEF ProcStep

LEMMA UnlockStepLock ==
    ASSUME LockInv, NEW u \in Unlockers, UnlockStep(u)
    PROVE  LockInv'
  <1> USE DistinctAssumption DEF LockInv
  <1>1. CASE ReadPid(u) \/ CheckAlive(u)
    <2>1. TypeOK'
      BY <1>1 DEF ReadPid, CheckAlive, RunsAtPath, TypeOK, UGoto, lockFile, processes, history
    <2>2. \A p \in Procs : FdInv(p)'
      BY <1>1 DEF ReadPid, CheckAlive, FdInv, lockFile, processes, history
    <2> QED BY <2>1, <2>2
  <1>2. CASE Remove(u)
    <2>1. TypeOK'
      BY <1>2 DEF Remove, TypeOK, UGoto, processes
    <2>2. ASSUME NEW p \in Procs PROVE FdInv(p)'
      <3>1. FdInv(p)
        OBVIOUS
      <3>2. pc[p] \in HasOpen => removedInUse'
        BY <1>2, <3>1 DEF Remove, InUse, FdInv, TypeOK
      <3> QED BY <1>2, <3>1, <3>2 DEF Remove, FdInv, processes
    <2> QED BY <2>1, <2>2
  <1> QED BY <1>1, <1>2 DEF UnlockStep

LEMMA NextLock == LockInv /\ [Next]_vars => LockInv'
  <1> SUFFICES ASSUME LockInv, [Next]_vars PROVE LockInv'
    OBVIOUS
  <1>1. CASE \E p \in Procs : ProcStep(p)
    BY <1>1, ProcStepLock
  <1>2. CASE \E u \in Unlockers : UnlockStep(u)
    BY <1>2, UnlockStepLock
  <1>3. CASE UNCHANGED vars
    BY <1>3 DEF vars, lockFile, processes, unlockers, history, LockInv, TypeOK, FdInv
  <1> QED BY <1>1, <1>2, <1>3 DEF Next

LEMMA LockInvariant == Spec => []LockInv
  BY InitLock, NextLock, PTL DEF Spec

\* Type correctness of the lock file, the processes and the force-unlocks.
THEOREM LockTypeCorrect == Spec => []TypeOK
  <1>1. LockInv => TypeOK
    BY DEF LockInv
  <1> QED BY <1>1, LockInvariant, PTL

\* Two processes run the same job at the same time only after a force-unlock
\* removed a file that a process had open.
THEOREM Exclusion == Spec => []ExclusiveUnlessRemoved
  <1>1. LockInv => ExclusiveUnlessRemoved
    <2> SUFFICES ASSUME LockInv, ~removedInUse,
                        NEW p \in Procs, NEW q \in Procs,
                        pc[p] = "running", pc[q] = "running"
                 PROVE  p = q
      BY DEF ExclusiveUnlessRemoved, MutualExclusion
    <2>1. FdInv(p) /\ FdInv(q)
      BY DEF LockInv
    <2>2. fd[p] = path /\ fd[q] = path
      BY <2>1 DEF FdInv, HasOpen
    <2>3. holder[path] = p /\ holder[path] = q
      BY <2>1, <2>2 DEF FdInv, Holding
    <2> QED BY <2>3
  <1> QED BY <1>1, LockInvariant, PTL

\* What a force-unlock has read is the id of the job that ran on the file, if that
\* one runs still and its calls did not both fail; past the check it was not to be
\* signalled.
SeenInv(u, p) ==
    /\ p \in ranAtRead[u] => pc[p] \in {"running", "gone"}
    /\ upc[u] \in {"check", "remove"} /\ p \in ranAtRead[u] /\ pc[p] = "running" =>
          \/ failed[p] = Calls
          \/ seen[u] = p /\ (upc[u] = "remove" => p \in Foreign)

AllSeen == \A u \in Unlockers, p \in Procs : SeenInv(u, p)

LEMMA NextSeen == LockInv /\ AllSeen /\ [Next]_vars => AllSeen'
  <1> SUFFICES ASSUME LockInv, AllSeen, [Next]_vars,
                      NEW u \in Unlockers, NEW p \in Procs
               PROVE  SeenInv(u, p)'
    BY DEF AllSeen
  <1>1. SeenInv(u, p)
    BY DEF AllSeen
  \* A job that ran makes no call of Acquire any more; it can only end.
  <1>2. CASE \E q \in Procs : ProcStep(q)
    <2>1. PICK q \in Procs : ProcStep(q)
      BY <1>2
    <2>2. UNCHANGED <<upc, seen, ranAtRead>>
      BY <2>1 DEF ProcStep, Open, Flock, FlockRefused, Truncate, WritePid, Leave,
                  unlockers, history
    <2>3. ASSUME pc[p] \in {"running", "gone"}
          PROVE  pc'[p] \in {pc[p], "gone"} /\ failed'[p] = failed[p]
      BY <2>1, <2>3
         DEF ProcStep, Open, Flock, FlockRefused, Truncate, WritePid, Leave, Fails, Goto,
             Alive, HasOpen, history, LockInv, TypeOK
    <2> QED BY <1>1, <2>2, <2>3 DEF SeenInv
  <1>3. CASE \E v \in Unlockers : UnlockStep(v)
    <2>1. PICK v \in Unlockers : UnlockStep(v)
      BY <1>3
    <2>2. UNCHANGED <<pc, failed>>
      BY <2>1 DEF UnlockStep, ReadPid, CheckAlive, Remove, processes, history
    <2>3. CASE v # u
      <3>1. upc'[u] = upc[u] /\ seen'[u] = seen[u] /\ ranAtRead'[u] = ranAtRead[u]
        BY <2>1, <2>3
           DEF UnlockStep, ReadPid, CheckAlive, Remove, UGoto, history, LockInv, TypeOK
      <3> QED BY <1>1, <2>2, <3>1 DEF SeenInv
    <2>4. CASE v = u /\ ReadPid(u)
      <3>1. CASE upc'[u] = "done"
        BY <1>1, <2>2, <2>4, <3>1 DEF ReadPid, RunsAtPath, SeenInv, LockInv, TypeOK
      <3>2. CASE upc'[u] # "done"
        <4>1. /\ path # NoFile /\ content[path] # NoPid
              /\ seen'[u] = content[path] /\ ranAtRead'[u] = RunsAtPath
              /\ upc'[u] = "check"
          BY <2>4, <3>2 DEF ReadPid, UGoto, LockInv, TypeOK
        <4>2. FdInv(p)
          BY DEF LockInv
        <4> QED BY <2>2, <4>1, <4>2 DEF RunsAtPath, SeenInv, FdInv
      <3> QED BY <3>1, <3>2
    <2>5. CASE v = u /\ CheckAlive(u)
      BY <1>1, <2>2, <2>5
         DEF CheckAlive, SeenAlive, Alive, HasOpen, UGoto, history, SeenInv, LockInv, TypeOK
    <2>6. CASE v = u /\ Remove(u)
      BY <1>1, <2>2, <2>6 DEF Remove, UGoto, SeenInv, LockInv, TypeOK
    <2> QED BY <2>1, <2>3, <2>4, <2>5, <2>6 DEF UnlockStep
  <1>4. CASE UNCHANGED vars
    BY <1>1, <1>4 DEF vars, processes, unlockers, history, SeenInv
  <1> QED BY <1>2, <1>3, <1>4 DEF Next

\* A force-unlock that looks at the file while a job runs on it does not go on to
\* remove it under that job, but for one that may not be signalled or whose calls
\* both failed.
THEOREM RunningJobsKept == Spec => []RunningJobKept
  <1>1. Init => AllSeen
    BY DEF Init, AllSeen, SeenInv
  <1>2. AllSeen => RunningJobKept
    BY DEF AllSeen, SeenInv, RunningJobKept, AboutToRemove
  <1> QED BY <1>1, <1>2, NextSeen, LockInvariant, PTL DEF Spec

\* Without force-unlock the lock excludes, whatever processes die.
THEOREM ExclusionWithoutForceUnlock ==
    ASSUME Unlockers = {} PROVE Spec => []MutualExclusion
  <1>1. Init => ~removedInUse
    BY DEF Init
  <1>2. ~removedInUse /\ [Next]_vars => ~removedInUse'
    BY DEF Next, ProcStep, Open, Flock, FlockRefused, Truncate, WritePid, Leave, vars, history
  <1>3. ~removedInUse /\ ExclusiveUnlessRemoved => MutualExclusion
    BY DEF ExclusiveUnlessRemoved
  <1> QED BY <1>1, <1>2, <1>3, Exclusion, PTL DEF Spec

\* A flock is held by a process that is between flock and close, on the file it
\* has open: the kernel drops it with the last descriptor.
HolderInv ==
    \A f \in Inodes : holder[f] # NoPid =>
        holder[f] \in Procs /\ fd[holder[f]] = f /\ pc[holder[f]] \in Holding

LEMMA InitHolder == Init => HolderInv
  BY DEF Init, HolderInv

LEMMA NextHolder == LockInv /\ HolderInv /\ [Next]_vars => HolderInv'
  <1> SUFFICES ASSUME LockInv, HolderInv, [Next]_vars,
                      NEW f \in Inodes, holder'[f] # NoPid
               PROVE  /\ holder'[f] \in Procs
                      /\ fd'[holder'[f]] = f
                      /\ pc'[holder'[f]] \in Holding
    BY DEF HolderInv
  <1> USE DistinctAssumption DEF HolderInv, LockInv, TypeOK
  <1>1. CASE \E p \in Procs : ProcStep(p)
    <2>1. PICK p \in Procs : ProcStep(p)
      BY <1>1
    <2>2. CASE Open(p)
      BY <2>2 DEF Open, Goto, Holding
    <2>3. CASE Flock(p)
      BY <2>3 DEF Flock, Goto, Holding, FdInv, HasOpen
    <2>4. CASE FlockRefused(p)
      BY <2>4 DEF FlockRefused, Goto, Holding, lockFile
    <2>5. CASE Truncate(p) \/ WritePid(p)
      BY <2>5 DEF Truncate, WritePid, Goto, Holding
    <2>6. CASE Leave(p)
      BY <2>6 DEF Leave, Goto, Holding
    <2> QED BY <2>1, <2>2, <2>3, <2>4, <2>5, <2>6 DEF ProcStep
  <1>2. CASE \E u \in Unlockers : UnlockStep(u)
    BY <1>2 DEF UnlockStep, ReadPid, CheckAlive, Remove, lockFile, processes
  <1>3. CASE UNCHANGED vars
    BY <1>3 DEF vars, lockFile, processes
  <1> QED BY <1>1, <1>2, <1>3 DEF Next

\* The lock file of a dead process keeps nobody out: whoever is refused was
\* refused by another process that exists and holds the flock.
THEOREM NoStaleRefusal == Spec => RefusedOnlyByLive
  <1>1. LockInv /\ HolderInv /\ [Next]_vars =>
          [\A p \in Procs :
              pc[p] = "opened" /\ pc'[p] = "refused" =>
                  \E q \in Procs \ {p} : Alive(q) /\ holder[fd[p]] = q]_vars
    <2> SUFFICES ASSUME LockInv, HolderInv, Next, NEW p \in Procs,
                        pc[p] = "opened", pc'[p] = "refused"
                 PROVE  \E q \in Procs \ {p} : Alive(q) /\ holder[fd[p]] = q
      OBVIOUS
    <2>1. CASE \E r \in Procs : ProcStep(r)
      <3>1. PICK r \in Procs : ProcStep(r)
        BY <2>1
      <3>2. FlockRefused(p)
        BY <3>1 DEF ProcStep, Open, Flock, FlockRefused, Truncate, WritePid, Leave,
                    Goto, LockInv, TypeOK
      <3>3. fd[p] \in Inodes /\ holder[fd[p]] # NoPid
        BY <3>2 DEF FlockRefused, FlockFree, LockInv, FdInv, HasOpen, TypeOK
      <3>4. holder[fd[p]] \in Procs \ {p} /\ Alive(holder[fd[p]])
        BY <3>3 DEF HolderInv, Holding, Alive, HasOpen
      <3> QED BY <3>4
    <2>2. CASE \E u \in Unlockers : UnlockStep(u)
      BY <2>2 DEF UnlockStep, ReadPid, CheckAlive, Remove, processes
    <2> QED BY <2>1, <2>2 DEF Next
  <1>2. Spec => []HolderInv
    BY InitHolder, NextHolder, LockInvariant, PTL DEF Spec
  <1> QED BY <1>1, <1>2, LockInvariant, PTL DEF Spec, RefusedOnlyByLive

\* The files a process has open are finitely many.
LEMMA LostFinite == ASSUME TypeOK PROVE IsFiniteSet(Lost)
  <1> DEFINE Opened == {fd[p] : p \in Procs}
  <1>1. IsFiniteSet(Opened)
    <2> DEFINE S == Procs
    <2>1. fd \in Surjection(Procs, Opened)
      BY DEF TypeOK, Surjection
    <2> HIDE DEF Opened
    <2> QED BY <2>1, FS_Surjection, FiniteAssumption
  <1>2. Lost \in SUBSET Opened
    BY DEF Lost, InUse
  <1> HIDE DEF Opened
  <1> QED BY <1>1, <1>2, FS_Subset

\* RunnersCounted: no two processes run on one file, so that all of them but one
\* run on files that were removed and are still open.
THEOREM RemovalsAreCounted == Spec => []RunnersCounted
  <1>1. LockInv => RunnersCounted
    <2> SUFFICES ASSUME LockInv PROVE RunnersCounted
      OBVIOUS
    <2> DEFINE files == Lost \cup {path}
               g == [p \in Running |-> fd[p]]
    <2>1. IsFiniteSet(Lost)
      BY LostFinite DEF LockInv
    <2>2. IsFiniteSet(files) /\ Cardinality(files) <= Cardinality(Lost) + 1
      <3> HIDE DEF files
      <3>1. Cardinality(Lost) \in Nat
        BY <2>1, FS_CardinalityType
      <3> QED BY <2>1, <3>1, FS_AddElement DEF files
    <2>3. \A p \in Running : holder[fd[p]] = p /\ fd[p] \in files
      BY DEF Running, Lost, InUse, LockInv, FdInv, HasOpen, Holding
    <2>4. g \in Injection(Running, files)
      BY <2>3 DEF Injection, IsInjective
    <2> HIDE DEF files, g
    <2>5. Cardinality(Running) <= Cardinality(files)
      BY <2>2, <2>4, FS_Injection
    <2>6. /\ Cardinality(Running) \in Nat /\ Cardinality(files) \in Nat
          /\ Cardinality(Lost) \in Nat
      <3>1. IsFiniteSet(Running)
        BY <2>2, <2>4, FS_Injection
      <3> QED BY <3>1, <2>1, <2>2, FS_CardinalityType
    <2> QED BY <2>2, <2>5, <2>6 DEF RunnersCounted
  <1> QED BY <1>1, LockInvariant, PTL

\* The files that are no longer at the path were removed, each by a force-unlock of
\* its own that has ended.
Ended == {u \in Unlockers : upc[u] = "done"}
Removed == created \ {path}
RemovedInv == IsFiniteSet(Removed) /\ Cardinality(Removed) <= Cardinality(Ended)

\* A set grows by at least the element it did not have.
LEMMA EndedGrows ==
    ASSUME TypeOK, NEW u \in Unlockers, upc[u] # "done",
           upc' = [upc EXCEPT ![u] = "done"]
    PROVE  /\ IsFiniteSet(Ended) /\ Cardinality(Ended) \in Nat
           /\ Cardinality(Ended') = Cardinality(Ended) + 1
  <1>1. Ended' = Ended \cup {u} /\ u \notin Ended
    BY DEF TypeOK, Ended
  <1>2. IsFiniteSet(Ended)
    BY FiniteAssumption, FS_Subset DEF Ended
  <1> QED BY <1>1, <1>2, FS_AddElement, FS_CardinalityType

LEMMA NextRemoved == LockInv /\ RemovedInv /\ [Next]_vars => RemovedInv'
  <1> SUFFICES ASSUME LockInv, RemovedInv, [Next]_vars PROVE RemovedInv'
    OBVIOUS
  <1> USE DistinctAssumption DEF LockInv
  <1>1. CASE \E p \in Procs : Open(p)
    <2>1. Removed' = Removed /\ Ended' = Ended
      BY <1>1 DEF Open, Removed, Ended, unlockers, TypeOK
    <2> QED BY <2>1 DEF RemovedInv
  <1>2. CASE (\E p \in Procs : ProcStep(p) /\ ~Open(p)) \/ UNCHANGED vars
    <2>1. UNCHANGED <<path, created, upc>>
      BY <1>2 DEF ProcStep, Flock, FlockRefused, Truncate, WritePid, Leave, vars,
                  lockFile, unlockers
    <2>2. Removed' = Removed /\ Ended' = Ended
      BY <2>1 DEF Removed, Ended
    <2> QED BY <2>2 DEF RemovedInv
  <1>3. CASE \E u \in Unlockers : ReadPid(u) \/ CheckAlive(u)
    <2>1. Removed' = Removed
      BY <1>3 DEF ReadPid, CheckAlive, Removed, lockFile
    <2>2. PICK u \in Unlockers : ReadPid(u) \/ CheckAlive(u)
      BY <1>3
    <2>3. upc[u] # "done" /\ \E l \in {"check", "remove", "done"} :
                                upc' = [upc EXCEPT ![u] = l]
      BY <2>2 DEF ReadPid, CheckAlive, UGoto
    <2>4. CASE upc' = [upc EXCEPT ![u] = "done"]
      <3>1. Cardinality(Ended) \in Nat /\ Cardinality(Ended') = Cardinality(Ended) + 1
        BY <2>3, <2>4, EndedGrows
      <3>2. Cardinality(Removed) \in Nat /\ Cardinality(Removed) <= Cardinality(Ended)
        BY FS_CardinalityType DEF RemovedInv
      <3>3. Cardinality(Removed) <= Cardinality(Ended')
        BY <3>1, <3>2
      <3> QED BY <2>1, <3>3 DEF RemovedInv
    <2>5. CASE upc' # [upc EXCEPT ![u] = "done"]
      <3>1. Ended' = Ended
        BY <2>3, <2>5 DEF Ended, TypeOK
      <3> QED BY <2>1, <3>1 DEF RemovedInv
    <2> QED BY <2>4, <2>5
  <1>4. CASE \E u \in Unlockers : Remove(u)
    <2>1. PICK u \in Unlockers : Remove(u)
      BY <1>4
    <2>2. /\ path' = NoFile /\ created' = created
          /\ upc[u] # "done" /\ upc' = [upc EXCEPT ![u] = "done"]
      BY <2>1 DEF Remove, UGoto
    <2>3. Cardinality(Ended) \in Nat /\ Cardinality(Ended') = Cardinality(Ended) + 1
      BY <2>2, EndedGrows
    <2>4. /\ Cardinality(Removed) \in Nat /\ Cardinality(Removed) <= Cardinality(Ended)
          /\ IsFiniteSet(Removed)
      BY FS_CardinalityType DEF RemovedInv
    <2>5. Removed' = Removed \/ Removed' = Removed \cup {path}
      BY <2>2 DEF Removed, TypeOK
    <2>6. IsFiniteSet(Removed') /\ Cardinality(Removed') <= Cardinality(Removed) + 1
      BY <2>4, <2>5, FS_AddElement
    <2>7. Cardinality(Removed') \in Nat
      BY <2>6, FS_CardinalityType
    <2>8. Cardinality(Removed') <= Cardinality(Ended')
      BY <2>3, <2>4, <2>6, <2>7
    <2> QED BY <2>6, <2>8 DEF RemovedInv
  <1> QED BY <1>1, <1>2, <1>3, <1>4 DEF Next, ProcStep, UnlockStep

\* However they overlap, the force-unlocks that have ended admit one process each: as
\* many processes as there were, and one, may run the same job.
THEOREM OneMorePerForceUnlock ==
    Spec => [](Cardinality(Running) <= 1 + Cardinality(Ended))
  <1>1. Init => RemovedInv
    <2> SUFFICES ASSUME Init PROVE RemovedInv
      OBVIOUS
    <2>1. Removed = {} /\ IsFiniteSet(Ended)
      BY FiniteAssumption, FS_Subset DEF Init, Removed, Ended
    <2>2. Cardinality(Ended) \in Nat
      BY <2>1, FS_CardinalityType
    <2> QED BY <2>1, <2>2, FS_EmptySet DEF RemovedInv
  <1>2. Spec => []RemovedInv
    BY <1>1, NextRemoved, LockInvariant, PTL DEF Spec
  <1>3. RemovedInv /\ RunnersCounted => Cardinality(Running) <= 1 + Cardinality(Ended)
    <2> SUFFICES ASSUME RemovedInv, RunnersCounted
                 PROVE  Cardinality(Running) <= 1 + Cardinality(Ended)
      OBVIOUS
    <2>1. Lost \in SUBSET Removed
      BY DEF Lost, Removed
    <2>2. IsFiniteSet(Running) /\ IsFiniteSet(Ended)
      BY FiniteAssumption, FS_Subset DEF Running, Ended
    <2>3. IsFiniteSet(Lost) /\ Cardinality(Lost) <= Cardinality(Removed)
      BY <2>1, FS_Subset DEF RemovedInv
    <2>4. /\ Cardinality(Running) \in Nat /\ Cardinality(Ended) \in Nat
          /\ Cardinality(Lost) \in Nat /\ Cardinality(Removed) \in Nat
      BY <2>2, <2>3, FS_CardinalityType DEF RemovedInv
    <2> QED BY <2>3, <2>4 DEF RemovedInv, RunnersCounted
  <1> QED BY <1>2, <1>3, RemovalsAreCounted, PTL
=============================================================================
