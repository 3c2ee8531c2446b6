--------------------------- MODULE Compact_proofs ---------------------------
(***************************************************************************)
(* Proofs about Compact for every log, every set of keep-last values and   *)
(* every bound: the inductive invariant IInv, and from it that no byte is  *)
(* lost, that the offsets on disk are true, and that the job implements    *)
(* Preservation.                                                           *)
(***************************************************************************)
EXTENDS Compact, TLAPS

-----------------------------------------------------------------------------
\* Lemmas about the output

\* What is on disk stays safe when the members on disk stay as they are: what
\* every append, sync and power loss does to the output.
LEMMA SafeMonotone ==
    ASSUME UNCHANGED elsewhere,
           \A i \in DOMAIN archive : OnDisk(i) =>
               /\ i \in DOMAIN archive'
               /\ archive'[i].data = archive[i].data
               /\ OnDisk(i)'
    PROVE  Safe \subseteq Safe'
  BY DEF Safe, Copied

\* Appending a member that is not yet on disk leaves the others alone.
LEMMA AppendOutput ==
    ASSUME TypeOK,
           NEW m \in Members,
           UNCHANGED elsewhere,
           archive' = Append(archive, m)
    PROVE  /\ archive' \in Seq(Members)
           /\ Len(archive') = Len(archive) + 1
           /\ DOMAIN archive' = DOMAIN archive \cup {Len(archive) + 1}
           /\ \A i \in DOMAIN archive : archive'[i] = archive[i]
           /\ archive'[Len(archive')] = m
           /\ Safe \subseteq Safe'
  <1>1. /\ archive' \in Seq(Members)
        /\ Len(archive') = Len(archive) + 1
        /\ DOMAIN archive' = DOMAIN archive \cup {Len(archive) + 1}
        /\ \A i \in DOMAIN archive : archive'[i] = archive[i]
        /\ archive'[Len(archive')] = m
    BY DEF TypeOK
  <1>2. Safe \subseteq Safe'
    BY <1>1, SafeMonotone DEF OnDisk
  <1> QED BY <1>1, <1>2

\* An fsync changes no member but for where it is.
LEMMA FlushedMembers ==
    ASSUME NEW s \in Seq(Members), NEW r \in {"safe", "lost"}
    PROVE  /\ Flushed(s, r) \in Seq(Members)
           /\ Len(Flushed(s, r)) = Len(s)
           /\ DOMAIN Flushed(s, r) = DOMAIN s
           /\ \A i \in DOMAIN s :
                /\ Flushed(s, r)[i].from = s[i].from /\ Flushed(s, r)[i].to = s[i].to
                /\ Flushed(s, r)[i].data = s[i].data
                /\ Flushed(s, r)[i].torn = s[i].torn
                /\ s[i].disk = "dirty" => Flushed(s, r)[i].disk = r
                /\ s[i].disk # "dirty" => Flushed(s, r)[i].disk = s[i].disk
  <1> DEFINE F == Flushed(s, r)
  <1>1. \A i \in DOMAIN s : s[i] \in Members
    OBVIOUS
  <1>2. F = [i \in 1..Len(s) |->
               IF s[i].disk = "dirty" THEN [s[i] EXCEPT !.disk = r] ELSE s[i]]
    BY DEF Flushed
  <1>3. \A i \in 1..Len(s) : F[i] \in Members
    <2> TAKE i \in 1..Len(s)
    <2>1. s[i] \in Members
      BY <1>1
    <2>2. [s[i] EXCEPT !.disk = r] \in Members
      BY <2>1 DEF Members
    <2>3. F[i] = s[i] \/ F[i] = [s[i] EXCEPT !.disk = r]
      BY <1>2
    <2> QED BY <2>1, <2>2, <2>3
  <1>4. F \in Seq(Members) /\ Len(F) = Len(s) /\ DOMAIN F = DOMAIN s
    BY <1>2, <1>3
  <1>5. \A i \in DOMAIN s :
                /\ F[i].from = s[i].from /\ F[i].to = s[i].to
                /\ F[i].data = s[i].data
                /\ F[i].torn = s[i].torn
                /\ s[i].disk = "dirty" => F[i].disk = r
                /\ s[i].disk # "dirty" => F[i].disk = s[i].disk
    BY <1>1, <1>2 DEF Members
  <1> QED BY <1>4, <1>5

LEMMA FlushOutput ==
    ASSUME TypeOK,
           NEW r \in {"safe", "lost"},
           UNCHANGED elsewhere,
           archive' = Flushed(archive, r)
    PROVE  /\ archive' \in Seq(Members)
           /\ DOMAIN archive' = DOMAIN archive
           /\ Len(archive') = Len(archive)
           /\ \A i \in DOMAIN archive : archive'[i].data = archive[i].data
           /\ Safe \subseteq Safe'
  <1>1. archive \in Seq(Members)
    BY DEF TypeOK
  <1> QED BY <1>1, FlushedMembers, SafeMonotone DEF OnDisk

LEMMA AppendFlushOutput ==
    ASSUME TypeOK,
           NEW m \in Members,
           NEW r \in {"safe", "lost"},
           UNCHANGED elsewhere,
           archive' = Flushed(Append(archive, m), r)
    PROVE  /\ archive' \in Seq(Members)
           /\ Len(archive') = Len(archive) + 1
           /\ DOMAIN archive' = DOMAIN archive \cup {Len(archive) + 1}
           /\ \A i \in DOMAIN archive : archive'[i].data = archive[i].data
           /\ archive'[Len(archive) + 1].data = m.data
           /\ Safe \subseteq Safe'
  <1> DEFINE A == Append(archive, m)
  <1>1. /\ archive \in Seq(Members)
        /\ A \in Seq(Members)
        /\ Len(A) = Len(archive) + 1
        /\ DOMAIN A = DOMAIN archive \cup {Len(archive) + 1}
        /\ \A i \in DOMAIN archive : A[i] = archive[i]
        /\ A[Len(archive) + 1] = m
    BY DEF TypeOK
  <1> HIDE DEF A
  <1>2. archive' = Flushed(A, r)
    BY DEF A
  <1>3. /\ archive' \in Seq(Members)
        /\ Len(archive') = Len(archive) + 1
        /\ DOMAIN archive' = DOMAIN archive \cup {Len(archive) + 1}
        /\ \A i \in DOMAIN A :
                /\ archive'[i].data = A[i].data
                /\ archive'[i].torn = A[i].torn
                /\ A[i].disk # "dirty" => archive'[i].disk = A[i].disk
    BY <1>1, <1>2, FlushedMembers
  <1>4. Safe \subseteq Safe'
    BY <1>1, <1>3, SafeMonotone DEF OnDisk
  <1> QED BY <1>1, <1>3, <1>4

\* A member is a record of the output, and holds bytes of the log only.
LEMMA MemberType ==
    ASSUME TypeOK, NEW to \in 0..size, NEW torn \in BOOLEAN
    PROVE  /\ Member(offset, to, torn) \in Members
           /\ Member(offset, to, torn).data \subseteq 0..(size - 1)
  BY DEF TypeOK, Member, Members
-----------------------------------------------------------------------------
\* Lemmas about the claims

\* The part of IInv about what is safe, without the types and the position
\* inside a run.
Claims ==
    /\ NoLoss
    /\ StateTruthful
    /\ EmergencyTruthful
    /\ Truthful(job)
    /\ \A i \in DOMAIN archive : archive[i].data \subseteq 0..(size - 1)

\* A claim stays true while durable holes and safe bytes only grow.
LEMMA TruthfulKept ==
    ASSUME NEW s, Truthful(s),
           holes \ softHoles \subseteq holes' \ softHoles',
           Safe \subseteq Safe'
    PROVE  /\ 0..(s.lp - 1) \subseteq holes' \ softHoles'
           /\ 0..(s.la - 1) \subseteq Safe'
  BY DEF Truthful

\* Nothing is claimed when nothing was done.
LEMMA NothingClaimed ==
    /\ Truthful(NoState) /\ Truthful(BadState) /\ Truthful(NoEmergency)
    /\ Truthful([lp |-> 0, la |-> 0])
  BY DEF Truthful, NoState, BadState, NoEmergency

\* A step that leaves the source and the files alone keeps the claims when the
\* output only grows.
LEMMA ClaimsKept ==
    ASSUME Claims, UNCHANGED <<source, files, job, elsewhere>>,
           Safe \subseteq Safe',
           \A i \in DOMAIN archive' : archive'[i].data \subseteq 0..(size - 1)
    PROVE  Claims'
  <1>1. UNCHANGED <<size, holes, softHoles, stateFile, stateSeen, emergency, job>>
    BY DEF source, files
  <1>2. NoLoss'
    BY <1>1 DEF Claims, NoLoss
  <1>3. StateTruthful' /\ EmergencyTruthful' /\ Truthful(job)'
    BY <1>1 DEF Claims, StateTruthful, EmergencyTruthful, Truthful
  <1> QED BY <1>1, <1>2, <1>3 DEF Claims

LEMMA SafeUnchanged == ASSUME UNCHANGED <<archive, elsewhere>> PROVE Safe' = Safe
  BY DEF Safe, Copied, OnDisk

LEMMA ClaimsUnchanged ==
    ASSUME Claims, UNCHANGED <<source, files, job, archive, elsewhere>> PROVE Claims'
  <1>1. \A i \in DOMAIN archive' : archive'[i].data \subseteq 0..(size - 1)
    BY DEF Claims
  <1> QED BY <1>1, ClaimsKept, SafeUnchanged

LEMMA IInvParts == IInv <=> TypeOK /\ Claims /\ ChunkInv
  BY DEF IInv, Claims

-----------------------------------------------------------------------------
\* The steps of a run, one lemma for each that changes a file

\* The steps that only move the control of a run.
LEMMA ControlStep ==
    ASSUME IInv,
           \/ GiveUp \/ LoadFresh \/ LoadUnreadable \/ LoadRefused \/ LoopDone \/ LoopStop
           \/ LoopError \/ VerifyOk \/ VerifyFails \/ VerifySkipped
    PROVE  IInv'
  <1> USE DEF Mishap, GiveUp, LoadFresh, LoadUnreadable, LoadRefused,
              LoopDone, LoopStop, LoopError,
              VerifyOk, VerifyFails, VerifySkipped, Finish
  <1>1. UNCHANGED <<source, archive, files, job, cutoff, offset, end, elsewhere>>
    BY DEF local
  <1>2. pc' \in {"idle", "loop", "verify"}
    OBVIOUS
  <1>3. TypeOK'
    BY <1>1 DEF IInv, TypeOK, Pcs, source, files, local
  <1>4. Claims'
    BY <1>1, ClaimsUnchanged, IInvParts
  <1>5. pc' = "loop" => pc = "load"
    OBVIOUS
  <1>6. ChunkInv'
    BY <1>1, <1>2, <1>5 DEF IInv, ChunkInv, source
  <1> QED BY <1>3, <1>4, <1>6 DEF IInv, Claims

LEMMA LoadResumeStep == ASSUME IInv, LoadResume PROVE IInv'
  <1> USE DEF LoadResume
  <1>1. UNCHANGED <<size, holes, softHoles, archive, stateFile, stateSeen, emergency,
                    cutoff, end, elsewhere>>
    BY DEF source, files
  <1>2. stateFile \in States /\ Truthful(stateFile)
    BY DEF IInv, StateTruthful
  <1>3. job' \in Offsets /\ job'.lp = stateFile.lp /\ job'.la = stateFile.la
        /\ offset' = stateFile.lp /\ stateFile.lp \in Nat
    BY <1>2 DEF States, Offsets, ResumeOffset
  <1>4. TypeOK'
    BY <1>1, <1>3 DEF IInv, TypeOK, Pcs
  <1>5. Safe' = Safe
    BY <1>1, SafeUnchanged
  <1>6. Claims'
    <2>1. NoLoss' /\ StateTruthful' /\ EmergencyTruthful'
      BY <1>1, <1>5 DEF IInv, NoLoss, StateTruthful, EmergencyTruthful, Truthful
    <2>2. Truthful(job)'
      BY <1>1, <1>2, <1>3, <1>5 DEF Truthful
    <2> QED BY <1>1, <2>1, <2>2 DEF IInv, Claims
  <1>7. offset' <= size'
    <2>1. 0..(stateFile.lp - 1) \subseteq 0..(size - 1)
      BY <1>2 DEF IInv, TypeOK, Truthful
    <2>2. stateFile.lp > 0 => stateFile.lp - 1 \in 0..(stateFile.lp - 1)
      BY <1>3
    <2>3. size \in Nat
      BY DEF IInv, TypeOK
    <2> QED BY <1>1, <1>3, <2>1, <2>2, <2>3
  <1>8. ChunkInv'
    BY <1>3, <1>7 DEF ChunkInv
  <1> QED BY <1>4, <1>6, <1>8 DEF IInv, Claims

LEMMA StartStep ==
    ASSUME IInv, NEW keep \in Keeps, NEW verify \in BOOLEAN, Start(keep, verify)
    PROVE  IInv'
  <1> USE DEF Start
  <1>1. UNCHANGED <<size, holes, softHoles, archive, stateFile, stateSeen, emergency, elsewhere>>
    BY DEF source, files
  <1>2. cutoff' \in Nat
    BY KeepAssumption DEF LongEnough, IInv, TypeOK
  <1>3. TypeOK'
    <2>1. [lp |-> 0, la |-> 0] \in Offsets /\ runs' \in Nat
      BY DEF Offsets, IInv, TypeOK
    <2> QED BY <1>1, <1>2, <2>1 DEF IInv, TypeOK, Pcs
  <1>4. Safe' = Safe
    BY <1>1, SafeUnchanged
  <1>5. Claims'
    <2>1. NoLoss' /\ StateTruthful' /\ EmergencyTruthful'
      BY <1>1, <1>4 DEF IInv, NoLoss, StateTruthful, EmergencyTruthful, Truthful
    <2>2. Truthful(job)'
      BY <1>1 DEF Truthful
    <2> QED BY <1>1, <2>1, <2>2 DEF IInv, Claims
  <1>6. ChunkInv'
    BY <1>1 DEF ChunkInv, IInv, TypeOK
  <1> QED BY <1>3, <1>5, <1>6 DEF IInv, Claims

\* Lines and chunks end inside the log and below the cutoff.
LEMMA LineBounds ==
    ASSUME TypeOK, NEW e \in {offset} \cup WholeLines(offset), offset <= size
    PROVE  e \in 0..size
  BY DEF TypeOK, WholeLines, LineEnds

\* Appends change the output only, and leave the loop.
LEMMA AppendedClaims ==
    ASSUME IInv, UNCHANGED <<source, files, job, elsewhere>>,
           NEW e \in 0..size, NEW torn \in BOOLEAN, NEW r \in {"safe", "lost"},
           \/ archive' = Append(archive, Member(offset, e, torn))
           \/ archive' = Flushed(Append(archive, Member(offset, e, torn)), r)
    PROVE  archive' \in Seq(Members) /\ Claims' /\ Safe \subseteq Safe'
  <1> DEFINE m == Member(offset, e, torn)
  <1>1. m \in Members /\ m.data \subseteq 0..(size - 1)
    BY MemberType DEF IInv
  <1> HIDE DEF m
  <1>2. /\ archive' \in Seq(Members)
        /\ DOMAIN archive' = DOMAIN archive \cup {Len(archive) + 1}
        /\ \A i \in DOMAIN archive : archive'[i].data = archive[i].data
        /\ archive'[Len(archive) + 1].data = m.data
        /\ Safe \subseteq Safe'
    <2>1. CASE archive' = Append(archive, m)
      BY <1>1, <2>1, AppendOutput DEF IInv
    <2>2. CASE archive' = Flushed(Append(archive, m), r)
      BY <1>1, <2>2, AppendFlushOutput DEF IInv
    <2> QED BY <2>1, <2>2 DEF m
  <1>3. \A i \in DOMAIN archive' : archive'[i].data \subseteq 0..(size - 1)
    BY <1>1, <1>2 DEF IInv
  <1>4. Claims'
    BY <1>2, <1>3, ClaimsKept, IInvParts
  <1> QED BY <1>2, <1>4

LEMMA FlushedClaims ==
    ASSUME IInv, UNCHANGED <<source, files, job, elsewhere>>,
           NEW r \in {"safe", "lost"}, archive' = Flushed(archive, r)
    PROVE  archive' \in Seq(Members) /\ Claims' /\ Safe \subseteq Safe'
  <1>1. /\ archive' \in Seq(Members)
        /\ DOMAIN archive' = DOMAIN archive
        /\ \A i \in DOMAIN archive : archive'[i].data = archive[i].data
        /\ Safe \subseteq Safe'
    BY FlushOutput DEF IInv
  <1>2. \A i \in DOMAIN archive' : archive'[i].data \subseteq 0..(size - 1)
    BY <1>1 DEF IInv
  <1> QED BY <1>1, <1>2, ClaimsKept, IInvParts

\* A step that leaves the files, the log and the run's offsets alone and moves
\* to a position where ChunkInv says nothing needs its claims only.
LEMMA OutputStep ==
    ASSUME IInv, UNCHANGED <<source, files, local, elsewhere>>,
           archive' \in Seq(Members), Claims',
           pc' \in {"idle", "verify"}, mishaps' \in Nat, runs' = runs,
           outcome' \in {outcome, "ok", "verified", "error", "refused", "crashed"}
    PROVE  IInv'
  <1>1. TypeOK'
    BY DEF IInv, TypeOK, Pcs, source, files, local
  <1>2. ChunkInv'
    BY DEF ChunkInv
  <1> QED BY <1>1, <1>2 DEF IInv, Claims

LEMMA AppendNothingStep == ASSUME IInv, AppendNothing PROVE IInv' /\ Safe \subseteq Safe'
  <1>1. /\ UNCHANGED <<source, files, local, outcome, runs, elsewhere>>
        /\ pc' = "verify"
        /\ offset \in 0..size
    BY DEF AppendNothing, IInv, TypeOK, ChunkInv
  <1>2. UNCHANGED <<source, files, job, elsewhere>>
    BY <1>1 DEF local
  <1>3. PICK torn \in BOOLEAN, r \in {"safe", "lost"} :
            /\ archive' = Flushed(
                 IF Gzip THEN Append(archive, Member(offset, offset, torn)) ELSE archive, r)
            /\ IF torn \/ r = "lost" THEN Mishap ELSE UNCHANGED mishaps
    BY DEF AppendNothing
  <1>4. mishaps' \in Nat
    BY <1>3 DEF Mishap, IInv, TypeOK
  <1>5. archive' \in Seq(Members) /\ Claims' /\ Safe \subseteq Safe'
    <2>1. CASE Gzip
      BY <1>1, <1>2, <1>3, <2>1, AppendedClaims
    <2>2. CASE ~Gzip
      BY <1>2, <1>3, <2>2, FlushedClaims
    <2> QED BY <2>1, <2>2
  <1> QED BY <1>1, <1>4, <1>5, OutputStep

LEMMA AppendFailsStep == ASSUME IInv, AppendFails PROVE IInv' /\ Safe \subseteq Safe'
  <1>1. /\ UNCHANGED <<source, files, local, runs, elsewhere>>
        /\ pc' = "idle" /\ outcome' = "error" /\ mishaps' \in Nat
        /\ offset <= size
    BY DEF AppendFails, Finish, Mishap, IInv, TypeOK, ChunkInv
  <1>2. UNCHANGED <<source, files, job, elsewhere>>
    BY <1>1 DEF local
  <1>3. archive' \in Seq(Members) /\ Claims' /\ Safe \subseteq Safe'
    <2>1. CASE UNCHANGED archive
      BY <1>2, <2>1, ClaimsUnchanged, SafeUnchanged, IInvParts DEF IInv, TypeOK
    <2>2. CASE \E e \in {offset} \cup WholeLines(offset), torn \in BOOLEAN,
                   r \in {"safe", "lost"} :
                archive' = Flushed(Append(archive, Member(offset, e, torn)), r)
      <3>1. PICK e \in {offset} \cup WholeLines(offset), torn \in BOOLEAN,
                 r \in {"safe", "lost"} :
                archive' = Flushed(Append(archive, Member(offset, e, torn)), r)
        BY <2>2
      <3>2. e \in 0..size
        BY <1>1, LineBounds DEF IInv
      <3> QED BY <1>2, <3>1, <3>2, AppendedClaims
    <2> QED BY <2>1, <2>2 DEF AppendFails
  <1> QED BY <1>1, <1>3, OutputStep

LEMMA CrashStep == ASSUME IInv, Crash PROVE IInv' /\ Safe \subseteq Safe'
  <1>1. /\ UNCHANGED <<source, files, local, runs, elsewhere>>
        /\ pc' = "idle" /\ outcome' = "crashed" /\ mishaps' \in Nat
    BY DEF Crash, Finish, Mishap, IInv, TypeOK
  <1>2. UNCHANGED <<source, files, job, elsewhere>>
    BY <1>1 DEF local
  <1>3. archive' \in Seq(Members) /\ Claims' /\ Safe \subseteq Safe'
    <2>1. CASE UNCHANGED archive
      BY <1>2, <2>1, ClaimsUnchanged, SafeUnchanged, IInvParts DEF IInv, TypeOK
    <2>2. CASE /\ pc = "loop"
               /\ \E e \in {offset} \cup WholeLines(offset) :
                    archive' = Append(archive, Member(offset, e, TRUE))
      <3>1. PICK e \in {offset} \cup WholeLines(offset) :
                    archive' = Append(archive, Member(offset, e, TRUE))
        BY <2>2
      <3>2. e \in 0..size
        BY <2>2, LineBounds DEF IInv, ChunkInv
      <3> QED BY <1>2, <3>1, <3>2, AppendedClaims
    <2> QED BY <2>1, <2>2 DEF Crash
  <1> QED BY <1>1, <1>3, OutputStep

LEMMA AppendChunkStep ==
    ASSUME IInv, NEW target \in 1..(cutoff - offset), AppendChunk(target)
    PROVE  IInv' /\ Safe \subseteq Safe'
  <1>1. PICK e \in ChunkEnds(offset, target) :
            /\ archive' = Append(archive, Member(offset, e, FALSE))
            /\ end' = e
    BY DEF AppendChunk
  <1>2. /\ UNCHANGED <<source, files, full, cutoff, offset, job, stopReason, fired,
                       outcome, runs, mishaps, elsewhere>>
        /\ pc = "loop" /\ pc' = "sync"
    BY DEF AppendChunk
  <1>3. e \in 0..size
    BY LineBounds DEF ChunkEnds, IInv, ChunkInv, TypeOK, WholeLines, LineEnds
  <1>4. archive' \in Seq(Members) /\ Claims' /\ Safe \subseteq Safe'
    BY <1>1, <1>2, <1>3, AppendedClaims
  <1>5. TypeOK'
    <2>1. end' \in Nat
      BY <1>1, <1>3 DEF IInv, TypeOK
    <2>2. UNCHANGED <<size, holes, softHoles, stateFile, stateSeen, emergency>>
      BY <1>2 DEF source, files
    <2> QED BY <1>2, <1>4, <2>1, <2>2 DEF IInv, TypeOK, Pcs
  <1>6. Member(offset, e, FALSE) \in Members
    BY <1>3, MemberType DEF IInv
  <1>7. /\ Len(archive') = Len(archive) + 1
        /\ archive'[Len(archive')] = Member(offset, e, FALSE)
    BY <1>1, <1>2, <1>6, AppendOutput DEF IInv
  <1>8. archive' # <<>>
    BY <1>4, <1>7 DEF IInv, TypeOK
  <1>9. ChunkInv'
    <2>1. offset' = job'.lp /\ end' <= size'
      BY <1>1, <1>2, <1>3 DEF IInv, ChunkInv, source, TypeOK
    <2>2. /\ Chunk' \ holes' \subseteq archive'[Len(archive')].data
          /\ ~archive'[Len(archive')].torn
          /\ archive'[Len(archive')].disk = "dirty"
      BY <1>1, <1>2, <1>7 DEF Member, Chunk, source
    <2> QED BY <1>2, <1>8, <2>1, <2>2 DEF ChunkInv
  <1> QED BY <1>4, <1>5, <1>9 DEF IInv, Claims

\* What the run records after the sync of the output is true: the chunk is safe,
\* and what is below it is punched, and a hole is safe.
LEMMA ArchivedTruthful ==
    ASSUME IInv, offset = job.lp,
           Chunk' \subseteq Safe', Safe \subseteq Safe',
           UNCHANGED <<offset, end, holes, softHoles>>,
           job' = [lp |-> job.lp, la |-> end]
    PROVE  Truthful(job)'
  <1>1. /\ job.lp \in Nat /\ end \in Nat
        /\ 0..(job.lp - 1) \subseteq holes \ softHoles
        /\ holes \subseteq Safe
    BY DEF IInv, TypeOK, Offsets, Truthful, NoLoss
  <1>2. 0..(end - 1) \subseteq 0..(job.lp - 1) \cup Chunk'
    BY <1>1 DEF Chunk
  <1>3. 0..(end - 1) \subseteq Safe'
    BY <1>1, <1>2
  <1> QED BY <1>1, <1>3 DEF Truthful

\* What it records after the sync of the source is true: the chunk is a durable
\* hole, and so is what is below it.
LEMMA PunchedTruthful ==
    ASSUME IInv, offset = job.lp, Chunk \subseteq holes,
           UNCHANGED <<holes, archive, elsewhere>>, softHoles' = {},
           job' = [lp |-> end, la |-> job.la]
    PROVE  Truthful(job)'
  <1>1. /\ job.lp \in Nat /\ end \in Nat
        /\ 0..(job.lp - 1) \subseteq holes
        /\ 0..(job.la - 1) \subseteq Safe
    BY DEF IInv, TypeOK, Offsets, Truthful
  <1>2. 0..(end - 1) \subseteq 0..(job.lp - 1) \cup Chunk
    BY <1>1 DEF Chunk
  <1>3. 0..(end - 1) \subseteq holes' \ softHoles'
    BY <1>1, <1>2
  <1> QED BY <1>1, <1>3, SafeUnchanged DEF Truthful

\* After the sync of the output the whole chunk is safe: what was not a hole
\* when it was read is in the last member, and every hole was safe before.
LEMMA SyncOutputStep == ASSUME IInv, SyncOutput PROVE IInv' /\ Safe \subseteq Safe'
  <1>1. /\ UNCHANGED <<source, files, full, cutoff, offset, end, stopReason, fired,
                       outcome, runs, mishaps, elsewhere>>
        /\ pc = "sync" /\ pc' = "saveArchived"
        /\ archive' = Flushed(archive, "safe")
        /\ job' = [job EXCEPT !.la = end]
    BY DEF SyncOutput
  <1>2. UNCHANGED <<size, holes, softHoles, stateFile, stateSeen, emergency>>
    BY <1>1 DEF source, files
  <1>3. job' = [lp |-> job.lp, la |-> end] /\ job.lp \in Nat /\ end \in Nat
    BY <1>1 DEF IInv, TypeOK, Offsets
  <1>4. /\ archive' \in Seq(Members)
        /\ DOMAIN archive' = DOMAIN archive
        /\ \A i \in DOMAIN archive : archive'[i].data = archive[i].data
        /\ Safe \subseteq Safe'
    BY <1>1, FlushOutput DEF IInv
  <1>5. job' \in Offsets
    BY <1>3 DEF Offsets
  <1>6. TypeOK'
    BY <1>1, <1>2, <1>4, <1>5 DEF IInv, TypeOK, Pcs
  <1>7. Chunk' \subseteq Safe'
    <2> DEFINE n == Len(archive)
    <2>1. /\ archive \in Seq(Members) /\ archive # <<>>
          /\ Chunk \ holes \subseteq archive[n].data
          /\ ~archive[n].torn
          /\ archive[n].disk = "dirty"
      BY <1>1 DEF IInv, TypeOK, ChunkInv
    <2>2. n \in DOMAIN archive
      BY <2>1
    <2>3. /\ DOMAIN archive' = DOMAIN archive
          /\ archive'[n].data = archive[n].data
          /\ archive'[n].torn = archive[n].torn
          /\ archive'[n].disk = "safe"
      BY <1>1, <2>1, <2>2, FlushedMembers
    <2>4. archive'[n].data \subseteq Safe'
      BY <2>1, <2>2, <2>3 DEF Safe, Copied, OnDisk
    <2>5. holes \subseteq Safe'
      BY <1>4 DEF IInv, NoLoss
    <2> QED BY <1>1, <2>1, <2>3, <2>4, <2>5 DEF Chunk
  <1>8. Truthful(job)'
    BY <1>1, <1>2, <1>3, <1>4, <1>7, ArchivedTruthful DEF IInv, ChunkInv
  <1>9. Claims'
    <2>1. NoLoss' /\ StateTruthful' /\ EmergencyTruthful'
      BY <1>2, <1>4 DEF IInv, NoLoss, StateTruthful, EmergencyTruthful, Truthful
    <2>2. \A i \in DOMAIN archive' : archive'[i].data \subseteq 0..(size' - 1)
      BY <1>2, <1>4 DEF IInv
    <2> QED BY <1>8, <2>1, <2>2 DEF Claims
  <1>10. ChunkInv'
    BY <1>1, <1>2, <1>3, <1>7 DEF IInv, ChunkInv
  <1> QED BY <1>4, <1>6, <1>9, <1>10 DEF IInv, Claims

LEMMA SyncOutputFailsStep == ASSUME IInv, SyncOutputFails PROVE IInv' /\ Safe \subseteq Safe'
  <1>1. /\ UNCHANGED <<source, files, local, runs, elsewhere>>
        /\ pc' = "idle" /\ outcome' = "error" /\ mishaps' \in Nat
        /\ archive' = Flushed(archive, "lost")
    BY DEF SyncOutputFails, Finish, Mishap, IInv, TypeOK
  <1>2. UNCHANGED <<source, files, job, elsewhere>>
    BY <1>1 DEF local
  <1>3. archive' \in Seq(Members) /\ Claims' /\ Safe \subseteq Safe'
    BY <1>1, <1>2, FlushedClaims
  <1> QED BY <1>1, <1>3, OutputStep

-----------------------------------------------------------------------------
\* The steps that write the state file or punch the source

\* The state file gets the offsets of the job state in memory, which are true.
LEMMA SavedClaims ==
    ASSUME IInv, UNCHANGED <<source, archive, emergency, job, elsewhere>>, Save(job.lp, job.la)
    PROVE  /\ Claims'
           /\ stateFile' \in StateFiles /\ stateSeen' \subseteq StateFiles
  <1>1. UNCHANGED <<size, holes, softHoles>> /\ Safe' = Safe
    BY SafeUnchanged DEF source
  <1>2. stateFile' = [cutoff |-> cutoff, lp |-> job.lp, la |-> job.la]
        /\ stateSeen' = stateSeen \cup {stateFile'}
    BY DEF Save
  <1>3. Truthful(stateFile')
    BY <1>2 DEF IInv, Truthful
  <1>4. \A s \in stateSeen' \cup {stateFile'} : Truthful(s)
    BY <1>2, <1>3 DEF IInv, StateTruthful
  <1>5. StateTruthful' /\ EmergencyTruthful' /\ Truthful(job)'
    BY <1>1, <1>4 DEF IInv, StateTruthful, EmergencyTruthful, Truthful
  <1>6. Claims'
    BY <1>1, <1>5 DEF IInv, Claims, NoLoss
  <1>7. stateFile' \in StateFiles /\ stateSeen' \subseteq StateFiles
    BY <1>2 DEF IInv, TypeOK, StateFiles, States, Offsets
  <1> QED BY <1>6, <1>7

LEMMA SaveArchivedStep == ASSUME IInv, SaveArchived PROVE IInv'
  <1>1. /\ UNCHANGED <<source, archive, emergency, local, outcome, runs, mishaps, elsewhere>>
        /\ pc = "saveArchived" /\ pc' = "punch"
        /\ Save(job.lp, job.la)
    BY DEF SaveArchived
  <1>2. UNCHANGED <<size, holes, job, offset, end>>
    BY <1>1 DEF source, local
  <1>3. Claims' /\ stateFile' \in StateFiles /\ stateSeen' \subseteq StateFiles
    BY <1>1, <1>2, SavedClaims
  <1>4. TypeOK'
    BY <1>1, <1>3 DEF IInv, TypeOK, Pcs, source, local
  <1>5. Safe' = Safe
    BY <1>1, SafeUnchanged
  <1>6. ChunkInv'
    BY <1>1, <1>2, <1>5 DEF IInv, ChunkInv, Chunk
  <1> QED BY <1>3, <1>4, <1>6 DEF IInv, Claims

LEMMA SavePunchedStep == ASSUME IInv, SavePunched PROVE IInv'
  <1>1. /\ UNCHANGED <<source, archive, emergency, full, cutoff, end, job,
                       stopReason, fired, outcome, runs, mishaps, elsewhere>>
        /\ pc = "savePunched" /\ pc' = "loop" /\ offset' = end
        /\ Save(job.lp, job.la)
    BY DEF SavePunched
  <1>2. Claims' /\ stateFile' \in StateFiles /\ stateSeen' \subseteq StateFiles
    BY <1>1, SavedClaims
  <1>3. TypeOK'
    BY <1>1, <1>2 DEF IInv, TypeOK, Pcs, source
  <1>4. ChunkInv'
    BY <1>1 DEF IInv, ChunkInv, source
  <1> QED BY <1>2, <1>3, <1>4 DEF IInv, Claims

LEMMA SaveFailsStep == ASSUME IInv, SaveFails PROVE IInv'
  <1>1. /\ UNCHANGED <<source, archive, files, local, runs, elsewhere>>
        /\ pc' = "idle" /\ outcome' = "error" /\ mishaps' \in Nat
    BY DEF SaveFails, Finish, Mishap, IInv, TypeOK
  <1>2. UNCHANGED <<source, files, job, archive, elsewhere>>
    BY <1>1 DEF local
  <1>3. TypeOK'
    BY <1>1 DEF IInv, TypeOK, Pcs, source, files, local
  <1>4. Claims'
    BY <1>2, ClaimsUnchanged, IInvParts
  <1>5. ChunkInv'
    BY <1>1 DEF ChunkInv
  <1> QED BY <1>3, <1>4, <1>5 DEF IInv, Claims

\* Releasing a part of a safe chunk keeps the claims: what was durably punched
\* stays so, and the new holes are safe.
LEMMA ReleasedClaims ==
    ASSUME IInv, pc = "punch", NEW to \in 0..end, Release(to),
           UNCHANGED <<size, archive, stateFile, stateSeen, job, elsewhere>>,
           emergency' \in {emergency, job, NoEmergency}
    PROVE  /\ Claims'
           /\ holes' \subseteq 0..(size - 1) /\ softHoles' \subseteq holes'
  <1>1. /\ holes' = holes \cup (offset..(to - 1))
        /\ softHoles' = softHoles \cup ((offset..(to - 1)) \ holes)
    BY DEF Release
  <1>2. /\ offset \in Nat /\ end \in Nat /\ end <= size /\ size \in Nat
        /\ offset..(end - 1) \subseteq Safe
        /\ holes \subseteq 0..(size - 1) /\ softHoles \subseteq holes
    BY DEF IInv, TypeOK, ChunkInv, Chunk
  <1>3. offset..(to - 1) \subseteq offset..(end - 1) /\ to <= size
    BY <1>2
  <1>4. holes' \subseteq 0..(size - 1) /\ softHoles' \subseteq holes'
    BY <1>1, <1>2, <1>3
  <1>5. Safe' = Safe
    BY SafeUnchanged
  <1>6. holes \softHoles \subseteq holes' \ softHoles'
    BY <1>1
  <1>7. NoLoss'
    BY <1>1, <1>2, <1>3, <1>5 DEF IInv, NoLoss
  <1>8. StateTruthful' /\ EmergencyTruthful' /\ Truthful(job)'
    BY <1>5, <1>6, NothingClaimed
       DEF IInv, StateTruthful, EmergencyTruthful, Truthful
  <1> QED BY <1>4, <1>7, <1>8 DEF IInv, Claims

LEMMA PunchStep == ASSUME IInv, Punch PROVE IInv'
  <1>1. /\ UNCHANGED <<size, archive, files, local, outcome, runs, mishaps, elsewhere>>
        /\ pc = "punch" /\ pc' = "srcSync" /\ Release(end)
    BY DEF Punch
  <1>2. UNCHANGED <<stateFile, stateSeen, emergency, job, offset, end>>
    BY <1>1 DEF files, local
  <1>3. /\ Claims'
        /\ holes' \subseteq 0..(size - 1) /\ softHoles' \subseteq holes'
    BY <1>1, <1>2, ReleasedClaims DEF IInv, TypeOK
  <1>4. TypeOK'
    BY <1>1, <1>3 DEF IInv, TypeOK, Pcs, files, local
  <1>5. Safe' = Safe
    BY <1>1, SafeUnchanged
  <1>6. ChunkInv'
    BY <1>1, <1>2, <1>5 DEF IInv, ChunkInv, Chunk, Release
  <1> QED BY <1>3, <1>4, <1>6 DEF IInv, Claims

LEMMA PunchFailsStep == ASSUME IInv, PunchFails PROVE IInv'
  <1>1. /\ UNCHANGED <<size, archive, stateFile, stateSeen, local, runs, elsewhere>>
        /\ pc = "punch" /\ pc' = "idle" /\ outcome' = "error" /\ mishaps' \in Nat
        /\ emergency' \in {emergency, job, NoEmergency}
    BY DEF PunchFails, Finish, Mishap, IInv, TypeOK, WriteEmergency, EmergencyOfJob
  <1>2. UNCHANGED job
    BY <1>1 DEF local
  <1>3. PICK e \in offset..end : Release(e)
    BY DEF PunchFails
  <1>4. e \in 0..end
    BY <1>3 DEF IInv, TypeOK
  <1>5. /\ Claims'
        /\ holes' \subseteq 0..(size - 1) /\ softHoles' \subseteq holes'
    BY <1>1, <1>2, <1>3, <1>4, ReleasedClaims
  <1>6. TypeOK'
    BY <1>1, <1>5 DEF IInv, TypeOK, Pcs, local, NoEmergency, Offsets
  <1>7. ChunkInv'
    BY <1>1 DEF ChunkInv
  <1> QED BY <1>5, <1>6, <1>7 DEF IInv, Claims

LEMMA SyncSourceStep == ASSUME IInv, SyncSource PROVE IInv'
  <1>1. /\ UNCHANGED <<size, holes, archive, files, full, cutoff, offset, end,
                       stopReason, fired, outcome, runs, mishaps, elsewhere>>
        /\ pc = "srcSync" /\ pc' = "savePunched" /\ softHoles' = {}
        /\ job' = [job EXCEPT !.lp = end]
    BY DEF SyncSource
  <1>2. UNCHANGED <<stateFile, stateSeen, emergency>>
    BY <1>1 DEF files
  <1>3. job' = [lp |-> end, la |-> job.la] /\ job.la \in Nat /\ end \in Nat
    BY <1>1 DEF IInv, TypeOK, Offsets
  <1>4. job' \in Offsets
    BY <1>3 DEF Offsets
  <1>5. TypeOK'
    BY <1>1, <1>4 DEF IInv, TypeOK, Pcs, files
  <1>6. Safe' = Safe
    BY <1>1, SafeUnchanged
  <1>7. holes \ softHoles \subseteq holes' \ softHoles'
    BY <1>1
  <1>8. Truthful(job)'
    BY <1>1, <1>3, PunchedTruthful DEF IInv, ChunkInv
  <1>9. StateTruthful' /\ EmergencyTruthful'
    BY <1>2, <1>6, <1>7 DEF IInv, StateTruthful, EmergencyTruthful, Truthful
  <1>10. Claims'
    BY <1>1, <1>6, <1>8, <1>9 DEF IInv, Claims, NoLoss
  <1>11. ChunkInv'
    BY <1>1, <1>3 DEF IInv, ChunkInv
  <1> QED BY <1>5, <1>10, <1>11 DEF IInv, Claims

\* The emergency file gets true offsets, or none.
LEMMA EmergencyClaims ==
    ASSUME IInv, UNCHANGED <<source, archive, stateFile, stateSeen, job, elsewhere>>,
           WriteEmergency
    PROVE  Claims' /\ emergency' \in Offsets
  <1>1. UNCHANGED <<size, holes, softHoles>> /\ Safe' = Safe
    BY SafeUnchanged DEF source
  <1>2. emergency' \in {job, emergency, NoEmergency}
    BY DEF WriteEmergency, EmergencyOfJob
  <1>3. Truthful(emergency') /\ emergency' \in Offsets
    BY <1>2, NothingClaimed DEF IInv, EmergencyTruthful, TypeOK, NoEmergency, Offsets
  <1>4. StateTruthful' /\ EmergencyTruthful' /\ Truthful(job)'
    BY <1>1, <1>3 DEF IInv, StateTruthful, EmergencyTruthful, Truthful
  <1> QED BY <1>1, <1>3, <1>4 DEF IInv, Claims, NoLoss

LEMMA SyncSourceFailsStep == ASSUME IInv, SyncSourceFails PROVE IInv'
  <1>1. /\ UNCHANGED <<source, archive, stateFile, stateSeen, local, runs, elsewhere>>
        /\ pc' = "idle" /\ outcome' = "error" /\ mishaps' \in Nat
        /\ WriteEmergency
    BY DEF SyncSourceFails, Finish, Mishap, IInv, TypeOK
  <1>2. Claims' /\ emergency' \in Offsets
    BY <1>1, EmergencyClaims DEF local
  <1>3. TypeOK'
    BY <1>1, <1>2 DEF IInv, TypeOK, Pcs, source, local
  <1>4. ChunkInv'
    BY <1>1 DEF ChunkInv
  <1> QED BY <1>2, <1>3, <1>4 DEF IInv, Claims

-----------------------------------------------------------------------------
\* The steps of the world around the run

LEMMA WatchdogStep == ASSUME IInv, WatchdogFires PROVE IInv'
  <1>1. /\ UNCHANGED <<source, archive, stateFile, stateSeen, pc, full, cutoff, offset,
                       end, job, stopReason, outcome, runs, elsewhere>>
        /\ fired' = TRUE /\ mishaps' \in Nat
        /\ WriteEmergency
    BY DEF WatchdogFires, Mishap, IInv, TypeOK
  <1>2. UNCHANGED <<size, holes, softHoles>> /\ Safe' = Safe
    BY <1>1, SafeUnchanged DEF source
  <1>3. Claims' /\ emergency' \in Offsets
    BY <1>1, EmergencyClaims
  <1>4. TypeOK'
    BY <1>1, <1>2, <1>3 DEF IInv, TypeOK
  <1>5. ChunkInv'
    BY <1>1, <1>2 DEF IInv, ChunkInv, Chunk
  <1> QED BY <1>3, <1>4, <1>5 DEF IInv, Claims

LEMMA AppAppendStep == ASSUME IInv, AppAppend PROVE IInv'
  <1>1. /\ UNCHANGED <<holes, softHoles, archive, files, pc, local, outcome,
                       runs, mishaps, elsewhere>>
        /\ size' = size + 1
    BY DEF AppAppend
  <1>2. UNCHANGED <<stateFile, stateSeen, emergency, job, offset, end>>
    BY <1>1 DEF files, local
  <1>3. size \in Nat /\ 0..(size - 1) \subseteq 0..(size' - 1) /\ size' \in Nat
    BY <1>1 DEF IInv, TypeOK
  <1>4. TypeOK'
    BY <1>1, <1>3 DEF IInv, TypeOK, Pcs, files, local
  <1>5. Safe' = Safe
    BY <1>1, SafeUnchanged
  <1>6. Claims'
    BY <1>1, <1>2, <1>3, <1>5
       DEF IInv, Claims, NoLoss, StateTruthful, EmergencyTruthful, Truthful
  <1>7. ChunkInv'
    BY <1>1, <1>2, <1>3, <1>5 DEF IInv, ChunkInv, Chunk, TypeOK
  <1> QED BY <1>4, <1>6, <1>7 DEF IInv, Claims

LEMMA CleanStateStep == ASSUME IInv, CleanState PROVE IInv'
  <1>1. /\ UNCHANGED <<source, archive, emergency, pc, local, outcome, runs, elsewhere>>
        /\ stateFile' = NoState /\ stateSeen' = stateSeen \cup {NoState}
        /\ mishaps' \in Nat
    BY DEF CleanState, Mishap, IInv, TypeOK
  <1>2. UNCHANGED <<size, holes, softHoles, job, offset, end>>
    BY <1>1 DEF source, local
  <1>3. NoState \in StateFiles
    BY DEF StateFiles
  <1>4. TypeOK'
    BY <1>1, <1>2, <1>3 DEF IInv, TypeOK, Pcs, local
  <1>5. Safe' = Safe
    BY <1>1, SafeUnchanged
  <1>6. \A s \in stateSeen' \cup {stateFile'} : Truthful(s)
    BY <1>1, NothingClaimed DEF IInv, StateTruthful
  <1>7. Claims'
    BY <1>1, <1>2, <1>5, <1>6
       DEF IInv, Claims, NoLoss, StateTruthful, EmergencyTruthful, Truthful
  <1>8. ChunkInv'
    BY <1>1, <1>2, <1>5 DEF IInv, ChunkInv, Chunk
  <1> QED BY <1>4, <1>7, <1>8 DEF IInv, Claims

\* A power loss keeps every member that is on disk, every durable hole, and one
\* of the versions of the state file that were true.
LEMMA PowerLossStep == ASSUME IInv, PowerLoss PROVE IInv' /\ Safe \subseteq Safe'
  <1>1. /\ UNCHANGED <<size, local, runs, elsewhere>>
        /\ holes' \in {holes, holes \ softHoles} /\ softHoles' = {}
        /\ stateFile' \in stateSeen \cup {BadState} /\ stateSeen' = {stateFile'}
        /\ emergency' \in {emergency, NoEmergency}
        /\ pc' = "idle" /\ outcome' = "crashed" /\ mishaps' \in Nat
    <2>1. mishaps' \in Nat
      <3>1. Mishap
        BY DEF PowerLoss
      <3> QED BY <3>1 DEF Mishap, IInv, TypeOK
    <2>2. stateFile' \in stateSeen \cup {BadState}
      BY DEF PowerLoss
    <2> QED BY <2>1, <2>2 DEF PowerLoss, Finish
  <1>2. PICK n \in 0..Len(archive), cut \in SUBSET DOMAIN archive :
        /\ \A i \in DOMAIN archive : archive[i].disk = "safe" => i <= n /\ i \notin cut
        /\ archive' = [i \in 1..n |-> [archive[i] EXCEPT
                         !.torn = @ \/ i \in cut, !.disk = "safe"]]
    BY DEF PowerLoss
  <1>3. archive \in Seq(Members) /\ Len(archive) \in Nat /\ DOMAIN archive = 1..Len(archive)
    BY DEF IInv, TypeOK
  <1>4. \A i \in 1..n :
            /\ i \in DOMAIN archive
            /\ archive[i] \in Members
            /\ archive'[i] = [archive[i] EXCEPT !.torn = archive[i].torn \/ i \in cut,
                                                !.disk = "safe"]
    <2> TAKE i \in 1..n
    <2>1. i \in DOMAIN archive
      BY <1>3
    <2>2. archive[i] \in Members
      BY <1>3, <2>1
    <2>3. archive'[i] = [archive[i] EXCEPT !.torn = archive[i].torn \/ i \in cut,
                                           !.disk = "safe"]
      BY <1>2, Zenon
    <2> QED BY <2>1, <2>2, <2>3
  <1>5. \A i \in 1..n :
            /\ archive'[i] \in Members
            /\ archive'[i].data = archive[i].data
            /\ archive'[i].torn = (archive[i].torn \/ i \in cut)
            /\ archive'[i].disk = "safe"
    <2> TAKE i \in 1..n
    <2> DEFINE t == archive[i].torn \/ i \in cut
    <2>1. archive[i] \in Members /\ t \in BOOLEAN
      BY <1>4 DEF Members
    <2>2. archive'[i] = [archive[i] EXCEPT !.torn = t, !.disk = "safe"]
      BY <1>4
    <2> HIDE DEF t
    <2>3. /\ archive'[i] \in Members
          /\ archive'[i].data = archive[i].data
          /\ archive'[i].torn = t
          /\ archive'[i].disk = "safe"
      BY <2>1, <2>2 DEF Members
    <2> QED BY <2>3 DEF t
  <1>6. archive' \in Seq(Members) /\ DOMAIN archive' = 1..n
    <2>1. archive' \in [1..n -> Members]
      BY <1>2, <1>5
    <2>2. n \in Nat
      BY <1>3
    <2> QED BY <2>1, <2>2
  <1>7. Safe \subseteq Safe'
    <2>1. \A i \in DOMAIN archive : OnDisk(i) =>
               /\ i \in DOMAIN archive'
               /\ archive'[i].data = archive[i].data
               /\ OnDisk(i)'
      <3> SUFFICES ASSUME NEW i \in DOMAIN archive, OnDisk(i)
                   PROVE  /\ i \in DOMAIN archive'
                          /\ archive'[i].data = archive[i].data
                          /\ ~archive'[i].torn /\ archive'[i].disk = "safe"
        BY DEF OnDisk
      <3>1. ~archive[i].torn /\ i <= n /\ i \notin cut
        BY <1>2 DEF OnDisk
      <3>2. i \in 1..n
        BY <1>3, <3>1
      <3>3. /\ archive'[i].data = archive[i].data
            /\ archive'[i].torn = (archive[i].torn \/ i \in cut)
            /\ archive'[i].disk = "safe"
        BY <1>5, <3>2
      <3> QED BY <1>6, <3>1, <3>2, <3>3
    <2> QED BY <1>1, <2>1, SafeMonotone
  <1>8. \A i \in DOMAIN archive' : archive'[i].data \subseteq 0..(size - 1)
    BY <1>4, <1>5, <1>6 DEF IInv
  <1>9. holes \ softHoles \subseteq holes' \ softHoles' /\ holes' \subseteq holes
    BY <1>1
  <1>10. stateFile' \in StateFiles /\ NoEmergency \in Offsets
    BY <1>1 DEF IInv, TypeOK, StateFiles, NoEmergency, Offsets
  <1>11. TypeOK'
    BY <1>1, <1>6, <1>9, <1>10 DEF IInv, TypeOK, Pcs, local
  <1>12. Truthful(stateFile') /\ Truthful(emergency') /\ Truthful(job')
    BY <1>1, NothingClaimed DEF IInv, StateTruthful, EmergencyTruthful, local
  <1>13. StateTruthful' /\ EmergencyTruthful' /\ Truthful(job)'
    BY <1>1, <1>7, <1>9, <1>12 DEF StateTruthful, EmergencyTruthful, Truthful
  <1>14. Claims'
    BY <1>1, <1>7, <1>8, <1>9, <1>13 DEF IInv, Claims, NoLoss
  <1>15. ChunkInv'
    BY <1>1 DEF ChunkInv
  <1> QED BY <1>7, <1>11, <1>14, <1>15 DEF IInv, Claims

\* The other job only adds copies of bytes of the log.
LEMMA OtherArchivesStep == ASSUME IInv, OtherArchives PROVE IInv' /\ Safe \subseteq Safe'
  <1>1. /\ UNCHANGED <<source, archive, files, pc, local, outcome, runs>>
        /\ mishaps' \in Nat
    BY DEF OtherArchives, Mishap, IInv, TypeOK
  <1>2. UNCHANGED <<size, holes, softHoles, stateFile, stateSeen, emergency, job,
                    offset, end>>
    BY <1>1 DEF source, files, local
  <1>3. PICK p \in LineEnds(0) : elsewhere' = elsewhere \cup ((0..(p - 1)) \ holes)
    BY DEF OtherArchives
  <1>4. p \in 0..size /\ size \in Nat /\ elsewhere \subseteq 0..(size - 1)
    BY <1>3 DEF LineEnds, IInv, TypeOK
  <1>5. elsewhere' \subseteq 0..(size - 1)
    <2>1. (0..(p - 1)) \ holes \subseteq 0..(size - 1)
      BY <1>4
    <2> QED BY <1>3, <1>4, <2>1
  <1>6. Safe \subseteq Safe'
    BY <1>1, <1>3 DEF Safe, Copied, OnDisk
  <1>7. TypeOK'
    BY <1>1, <1>2, <1>5 DEF IInv, TypeOK, local
  <1>8. Claims'
    BY <1>1, <1>2, <1>6
       DEF IInv, Claims, NoLoss, StateTruthful, EmergencyTruthful, Truthful
  <1>9. ChunkInv'
    BY <1>1, <1>2, <1>6 DEF IInv, ChunkInv, Chunk
  <1> QED BY <1>6, <1>7, <1>8, <1>9 DEF IInv, Claims

\* What the other job punches has a copy in its output or was a hole.
LEMMA OtherPunchesStep ==
    ASSUME IInv, OtherPunches
    PROVE  /\ IInv'
           /\ UNCHANGED <<size, archive, elsewhere>>
           /\ holes \subseteq holes' /\ holes' \ holes \subseteq Safe
  <1>1. /\ UNCHANGED <<size, archive, files, pc, local, outcome, runs, elsewhere>>
        /\ mishaps' \in Nat
    BY DEF OtherPunches, Mishap, IInv, TypeOK
  <1>2. UNCHANGED <<size, stateFile, stateSeen, emergency, job, offset, end>>
    BY <1>1 DEF files, local
  <1>3. PICK p \in 1..size :
            /\ 0..(p - 1) \subseteq elsewhere \cup holes
            /\ holes' = holes \cup 0..(p - 1)
            /\ softHoles' = softHoles \cup ((0..(p - 1)) \ holes)
    BY DEF OtherPunches
  <1>4. Safe' = Safe /\ elsewhere \subseteq Safe
    BY <1>1, SafeUnchanged DEF Safe
  <1>5. /\ holes \subseteq holes' /\ holes' \ holes \subseteq Safe
        /\ holes \ softHoles \subseteq holes' \ softHoles'
    BY <1>3, <1>4
  <1>6. TypeOK'
    <2>1. holes' \subseteq 0..(size - 1) /\ softHoles' \subseteq holes'
      BY <1>3 DEF IInv, TypeOK
    <2> QED BY <1>1, <1>2, <2>1 DEF IInv, TypeOK, local
  <1>7. Claims'
    <2>1. NoLoss'
      BY <1>4, <1>5 DEF IInv, NoLoss
    <2>2. StateTruthful' /\ EmergencyTruthful' /\ Truthful(job)'
      BY <1>2, <1>4, <1>5 DEF IInv, StateTruthful, EmergencyTruthful, Truthful
    <2> QED BY <1>1, <2>1, <2>2 DEF IInv, Claims
  <1>8. ChunkInv'
    BY <1>1, <1>2, <1>4, <1>5 DEF IInv, ChunkInv, Chunk
  <1> QED BY <1>1, <1>5, <1>6, <1>7, <1>8 DEF IInv, Claims

-----------------------------------------------------------------------------
\* The inductive invariant

LEMMA InitIInv == Init => IInv
  <1> SUFFICES ASSUME Init PROVE IInv
    OBVIOUS
  <1> USE DEF Init
  <1>1. size \in Nat
    BY LogAssumption
  <1>2. TypeOK
    <2>1. NoState \in StateFiles /\ NoEmergency \in Offsets
      BY DEF StateFiles, NoEmergency, Offsets
    <2>2. archive \in Seq(Members)
      OBVIOUS
    <2> QED BY <1>1, <2>1, <2>2 DEF TypeOK, Pcs, Offsets
  <1>3. NoLoss /\ StateTruthful /\ EmergencyTruthful /\ Truthful(job)
    BY NothingClaimed DEF NoLoss, StateTruthful, EmergencyTruthful
  <1>4. ChunkInv
    BY DEF ChunkInv
  <1> QED BY <1>2, <1>3, <1>4 DEF IInv

LEMMA NextIInv == IInv /\ [Next]_vars => IInv'
  <1> SUFFICES ASSUME IInv, [Next]_vars PROVE IInv'
    OBVIOUS
  <1>1. CASE RunStep
    <2>1. CASE \/ GiveUp \/ LoadFresh \/ LoadUnreadable \/ LoadRefused \/ LoopDone \/ LoopStop
               \/ LoopError \/ VerifyOk \/ VerifyFails \/ VerifySkipped
      BY <2>1, ControlStep
    <2>2. CASE LoadResume
      BY <2>2, LoadResumeStep
    <2>3. CASE AppendNothing \/ AppendFails
      BY <2>3, AppendNothingStep, AppendFailsStep
    <2>4. CASE \E target \in 1..(cutoff - offset) : AppendChunk(target)
      BY <2>4, AppendChunkStep
    <2>5. CASE SyncOutput \/ SyncOutputFails
      BY <2>5, SyncOutputStep, SyncOutputFailsStep
    <2>6. CASE SaveArchived \/ SavePunched \/ SaveFails
      BY <2>6, SaveArchivedStep, SavePunchedStep, SaveFailsStep
    <2>7. CASE Punch \/ PunchFails
      BY <2>7, PunchStep, PunchFailsStep
    <2>8. CASE SyncSource \/ SyncSourceFails
      BY <2>8, SyncSourceStep, SyncSourceFailsStep
    <2> QED BY <1>1, <2>1, <2>2, <2>3, <2>4, <2>5, <2>6, <2>7, <2>8 DEF RunStep
  <1>2. CASE EnvStep
    <2>1. CASE \E keep \in Keeps, verify \in BOOLEAN : Start(keep, verify)
      BY <2>1, StartStep
    <2>2. CASE WatchdogFires \/ AppAppend \/ Crash \/ PowerLoss \/ CleanState
      BY <2>2, WatchdogStep, AppAppendStep, CrashStep, PowerLossStep, CleanStateStep
    <2>3. CASE OtherArchives \/ OtherPunches
      BY <2>3, OtherArchivesStep, OtherPunchesStep
    <2> QED BY <1>2, <2>1, <2>2, <2>3 DEF EnvStep
  <1>3. CASE UNCHANGED vars
    <2>1. UNCHANGED <<source, archive, files, pc, local, outcome, runs, mishaps, elsewhere>>
      BY <1>3 DEF vars
    <2>2. UNCHANGED job
      BY <2>1 DEF local
    <2>3. TypeOK'
      BY <2>1 DEF IInv, TypeOK, source, files, local
    <2>4. Claims'
      BY <2>1, <2>2, ClaimsUnchanged, IInvParts
    <2>5. Safe' = Safe
      BY <2>1, SafeUnchanged
    <2>6. ChunkInv'
      BY <2>1, <2>5 DEF IInv, ChunkInv, Chunk, source, local
    <2> QED BY <2>3, <2>4, <2>6 DEF IInv, Claims
  <1> QED BY <1>1, <1>2, <1>3 DEF Next

\* Every state a job can be in satisfies the inductive invariant.
THEOREM Invariant == Spec => []IInv
  <1> QED BY InitIInv, NextIInv, PTL DEF Spec

\* Type correctness of the job, its files and the log.
THEOREM TypeCorrect == Spec => []TypeOK
  <1>1. IInv => TypeOK
    BY DEF IInv
  <1> QED BY <1>1, Invariant, PTL

\* logcut never destroys the only copy of a byte, whatever crashes, failed
\* calls, power losses and reruns happen between the steps of its runs.
THEOREM NothingIsLost == Spec => []NoLoss
  <1>1. IInv => NoLoss
    BY DEF IInv
  <1> QED BY <1>1, Invariant, PTL

\* StateTruthful: every version of the state file that may be read back tells the
\* truth about what is archived and punched, at all times.
THEOREM StateFilesAreTruthful == Spec => []StateTruthful
  <1>1. IInv => StateTruthful
    BY DEF IInv
  <1> QED BY <1>1, Invariant, PTL

\* EmergencyTruthful: what the emergency file says of holes and output stays true
\* however late it is read, also after power losses and further runs.
THEOREM EmergencyIsTruthful == Spec => []EmergencyTruthful
  <1>1. IInv => EmergencyTruthful
    BY DEF IInv
  <1> QED BY <1>1, Invariant, PTL
-----------------------------------------------------------------------------
\* The job implements the abstract promise

\* A step that keeps the log and undoes at most holes copies bytes to safety.
LEMMA CopyStep ==
    ASSUME IInv, IInv', size' = size, holes' \subseteq holes, Safe \subseteq Safe'
    PROVE  P!Copy
  <1>1. /\ \A i \in DOMAIN archive' : archive'[i].data \subseteq 0..(size - 1)
        /\ elsewhere' \subseteq 0..(size - 1)
    BY DEF IInv, TypeOK
  <1>2. Safe' \subseteq 0..(size - 1)
    BY <1>1 DEF Safe, Copied
  <1>3. holes \subseteq Safe
    BY DEF IInv, NoLoss
  <1>4. Safe' \subseteq Safe \cup ((0..(size - 1)) \ holes)
    BY <1>2, <1>3
  <1>5. (0..(size - 1)) \ holes \subseteq (0..(size' - 1)) \ holes'
    OBVIOUS
  <1> QED BY <1>4, <1>5 DEF P!Copy, P!Written

\* A step that punches safe bytes releases them.
LEMMA ReleaseStep ==
    ASSUME IInv, pc = "punch", NEW to \in 0..end, Release(to),
           UNCHANGED <<size, archive, elsewhere>>
    PROVE  P!Release
  <1>1. holes' = holes \cup (offset..(to - 1))
    BY DEF Release
  <1>2. offset..(end - 1) \subseteq Safe /\ offset \in Nat /\ end \in Nat
    BY DEF IInv, ChunkInv, Chunk, TypeOK
  <1>3. offset..(to - 1) \subseteq Safe
    BY <1>2
  <1>4. Safe' = Safe
    BY SafeUnchanged
  <1> QED BY <1>1, <1>3, <1>4 DEF P!Release

LEMMA WriteStep == ASSUME IInv, AppAppend PROVE P!Write
  <1>1. size' = size + 1 /\ holes' = holes /\ UNCHANGED <<archive, elsewhere>>
    BY DEF AppAppend
  <1>2. size \in Nat /\ holes \subseteq 0..(size - 1)
    BY DEF IInv, TypeOK
  <1>3. (0..(size' - 1)) \ holes' = ((0..(size - 1)) \ holes) \cup {size}
    BY <1>1, <1>2
  <1>4. Safe' = Safe
    BY <1>1, SafeUnchanged
  <1> QED BY <1>1, <1>3, <1>4 DEF P!Write

LEMMA InitPreserves == Init => P!Init
  <1> SUFFICES ASSUME Init PROVE P!Init
    OBVIOUS
  <1>1. size \in Nat /\ holes = {} /\ archive = <<>> /\ elsewhere = {}
    BY LogAssumption DEF Init
  <1>2. Safe = {}
    BY <1>1 DEF Safe, Copied
  <1> QED BY <1>1, <1>2 DEF P!Init, P!Written

LEMMA NextPreserves == IInv /\ IInv' /\ [Next]_vars => [P!Next]_(P!vars)
  <1> SUFFICES ASSUME IInv, IInv', [Next]_vars PROVE P!Copy \/ P!Write \/ P!Release
    BY DEF P!Next
  <1>1. CASE UNCHANGED <<source, archive, elsewhere>>
    BY <1>1, SafeUnchanged, CopyStep DEF source
  <1>2. CASE \/ AppendNothing \/ AppendFails \/ SyncOutput \/ SyncOutputFails \/ Crash
    <2>1. Safe \subseteq Safe'
      BY <1>2, AppendNothingStep, AppendFailsStep, SyncOutputStep,
         SyncOutputFailsStep, CrashStep
    <2>2. UNCHANGED <<size, holes>>
      BY <1>2 DEF AppendNothing, AppendFails, SyncOutput, SyncOutputFails, Crash, source
    <2> QED BY <2>1, <2>2, CopyStep
  <1>3. CASE \E target \in 1..(cutoff - offset) : AppendChunk(target)
    BY <1>3, AppendChunkStep, CopyStep DEF AppendChunk, source
  <1>4. CASE SyncSource
    BY <1>4, SafeUnchanged, CopyStep DEF SyncSource
  <1>5. CASE PowerLoss
    BY <1>5, PowerLossStep, CopyStep DEF PowerLoss
  <1>6. CASE Punch
    <2>1. end \in 0..end
      BY DEF IInv, TypeOK
    <2> QED BY <1>6, <2>1, ReleaseStep DEF Punch
  <1>7. CASE PunchFails
    <2>1. PICK e \in offset..end : Release(e)
      BY <1>7 DEF PunchFails
    <2>2. e \in 0..end
      BY <2>1 DEF IInv, TypeOK
    <2> QED BY <1>7, <2>1, <2>2, ReleaseStep DEF PunchFails
  <1>8. CASE AppAppend
    BY <1>8, WriteStep
  <1>9. CASE \/ GiveUp \/ LoadFresh \/ LoadUnreadable \/ LoadRefused \/ LoopDone \/ LoopStop
             \/ LoopError \/ VerifyOk \/ VerifyFails \/ VerifySkipped
    BY <1>1, <1>9 DEF GiveUp, LoadFresh, LoadUnreadable, LoadRefused,
              LoopDone, LoopStop, LoopError,
                      VerifyOk, VerifyFails, VerifySkipped
  <1>10. CASE LoadResume \/ SaveArchived \/ SavePunched \/ SaveFails
               \/ SyncSourceFails \/ CleanState \/ WatchdogFires
    BY <1>1, <1>10 DEF LoadResume, SaveArchived, SavePunched, SaveFails,
                       SyncSourceFails, CleanState, WatchdogFires
  <1>11. CASE \E keep \in Keeps, verify \in BOOLEAN : Start(keep, verify)
    BY <1>1, <1>11 DEF Start
  <1>12. CASE UNCHANGED vars
    BY <1>1, <1>12 DEF vars
  <1>13. CASE OtherArchives
    BY <1>13, OtherArchivesStep, CopyStep DEF OtherArchives, source
  <1>14. CASE OtherPunches
    <2>1. Safe' = Safe
      BY <1>14, OtherPunchesStep, SafeUnchanged
    <2> QED BY <1>14, <2>1, OtherPunchesStep DEF P!Release
  <1> QED BY <1>2, <1>3, <1>4, <1>5, <1>6, <1>7, <1>8, <1>9, <1>10, <1>11, <1>12,
             <1>13, <1>14 DEF Next, RunStep, EnvStep

\* Compact implements Preservation: the source gives up bytes only when they
\* are safe, and a byte that is safe stays safe.
THEOREM Refinement == Spec => Preserves
  <1>1. IInv /\ IInv' /\ [Next]_vars => [P!Next]_(P!vars)
    BY NextPreserves
  <1> QED BY <1>1, InitPreserves, Invariant, PTL DEF Spec, Preserves, P!Spec

\* Whatever happens, every byte that was ever written is in the source or safe.
THEOREM EveryByteKept == Spec => []P!NothingLost
  <1>1. IInv => P!NothingLost
    BY DEF IInv, NoLoss, P!NothingLost, P!Written
  <1> QED BY <1>1, Invariant, PTL

-----------------------------------------------------------------------------
\* Reading the output back

\* In a plain file there is nothing in front of a member that could hide it:
\* what was punched can always be read back.
THEOREM PlainIsReadable == ASSUME ~Gzip PROVE Spec => []PunchedReadable
  <1>1. IInv => PunchedReadable
    <2>1. Safe \subseteq Readable \cup elsewhere
      BY DEF Safe, Copied, Readable, OnDisk
    <2> QED BY <2>1 DEF IInv, NoLoss, PunchedReadable
  <1> QED BY <1>1, Invariant, PTL

\* Nothing appends to a verified output before the next run begins.
VerifiedInv ==
    outcome = "verified" =>
        pc = "idle" /\ \A i \in DOMAIN archive : ~archive[i].torn

LEMMA InitVerified == Init => VerifiedInv
  BY DEF Init, VerifiedInv

LEMMA NextVerified == VerifiedInv /\ [Next]_vars => VerifiedInv'
  <1> SUFFICES ASSUME VerifiedInv, [Next]_vars PROVE VerifiedInv'
    OBVIOUS
  <1>1. CASE RunStep
    <2>1. pc # "idle"
      BY <1>1 DEF RunStep, GiveUp, LoadFresh, LoadUnreadable, LoadResume, LoadRefused, LoopDone,
           LoopStop, LoopError, AppendNothing, AppendChunk, AppendFails, SyncOutput,
           SyncOutputFails, SaveArchived, Punch, PunchFails, SyncSource,
           SyncSourceFails, SavePunched, SaveFails, VerifyOk, VerifyFails,
           VerifySkipped
    <2>2. CASE VerifyOk
      BY <2>2 DEF VerifyOk, Finish, AllIntact, VerifiedInv
    <2>3. CASE ~VerifyOk
      <3>1. outcome' \in {outcome, "dryRun", "ok", "error", "refused"}
        BY <1>1, <2>3 DEF RunStep, GiveUp, LoadFresh, LoadUnreadable, LoadResume, LoadRefused,
             LoopDone, LoopStop, LoopError, AppendNothing, AppendChunk, AppendFails,
             SyncOutput, SyncOutputFails, SaveArchived, Punch, PunchFails,
             SyncSource, SyncSourceFails, SavePunched, SaveFails, VerifyFails,
             VerifySkipped, Finish
      <3> QED BY <2>1, <3>1 DEF VerifiedInv
    <2> QED BY <2>2, <2>3
  <1>2. CASE EnvStep
    BY <1>2 DEF EnvStep, Start, WatchdogFires, AppAppend, Crash, PowerLoss, CleanState,
                OtherArchives, OtherPunches, Finish, VerifiedInv
  <1>3. CASE UNCHANGED vars
    BY <1>3 DEF vars, VerifiedInv
  <1> QED BY <1>1, <1>2, <1>3 DEF Next

\* A run that ends with a successful verification leaves an output from which a
\* standard reader gets back every byte that was punched.
THEOREM VerifiedIsReadable == Spec => []VerifiedReadable
  <1>1. IInv /\ VerifiedInv => VerifiedReadable
    <2> SUFFICES ASSUME IInv, VerifiedInv, outcome = "verified"
                 PROVE  holes \subseteq Readable \cup elsewhere
      BY DEF VerifiedReadable
    <2>1. \A i \in DOMAIN archive : ~archive[i].torn
      BY DEF VerifiedInv
    <2>2. \A i \in DOMAIN archive : \A h \in 1..i : h \in DOMAIN archive
      BY DEF IInv, TypeOK
    <2>3. Safe \subseteq Readable \cup elsewhere
      BY <2>1, <2>2 DEF Safe, Copied, Readable, OnDisk
    <2> QED BY <2>3 DEF IInv, NoLoss
  <1>2. Spec => []VerifiedInv
    BY InitVerified, NextVerified, PTL DEF Spec
  <1> QED BY <1>1, <1>2, Invariant, PTL

-----------------------------------------------------------------------------
\* Where chunks end

\* Inside a run the cutoff is below the size when something is kept, and a chunk
\* ends at or below the cutoff, after a newline.
CutInv ==
    /\ CutAtLineEnd
    /\ 0 \notin Keeps /\ pc # "idle" => cutoff < size
    /\ pc \in {"sync", "saveArchived", "punch", "srcSync", "savePunched"} =>
            /\ end <= cutoff
            /\ 0 \notin Keeps => end - 1 \in Newlines

LEMMA InitCut == Init => CutInv
  BY DEF Init, CutInv, CutAtLineEnd, AtLineEnd, NoState

LEMMA NextCut == IInv /\ CutInv /\ [Next]_vars => CutInv'
  <1> SUFFICES ASSUME IInv, CutInv, [Next]_vars PROVE CutInv'
    OBVIOUS
  <1>1. CASE \/ GiveUp \/ LoadFresh \/ LoadUnreadable \/ LoadRefused \/ LoopDone \/ LoopStop
             \/ LoopError \/ VerifyOk \/ VerifyFails \/ VerifySkipped
             \/ AppendNothing \/ AppendFails \/ SyncOutputFails
             \/ Punch \/ PunchFails \/ SyncSourceFails \/ SaveFails
             \/ WatchdogFires \/ Crash \/ OtherArchives \/ OtherPunches
    BY <1>1 DEF OtherArchives, OtherPunches, CutInv, CutAtLineEnd, AtLineEnd,
         GiveUp, LoadFresh, LoadUnreadable, LoadRefused,
         LoopDone, LoopStop, LoopError, VerifyOk, VerifyFails, VerifySkipped,
         AppendNothing, AppendFails, SyncOutputFails, Punch, PunchFails,
         SyncSourceFails, SaveFails, WatchdogFires, Crash, Finish, local, files, source
  <1>2. CASE LoadResume
    BY <1>2 DEF CutInv, CutAtLineEnd, AtLineEnd, LoadResume, files, source
  <1>3. CASE \E keep \in Keeps, verify \in BOOLEAN : Start(keep, verify)
    BY <1>3, KeepAssumption DEF CutInv, CutAtLineEnd, AtLineEnd, Start, LongEnough,
         files, source, IInv, TypeOK
  <1>4. CASE \E target \in 1..(cutoff - offset) : AppendChunk(target)
    <2>1. PICK target \in 1..(cutoff - offset) : AppendChunk(target)
      BY <1>4
    <2>2. PICK e \in ChunkEnds(offset, target) : end' = e
      BY <2>1 DEF AppendChunk
    <2>3. e <= cutoff /\ (e = size \/ e - 1 \in Newlines)
      BY <2>2 DEF ChunkEnds, WholeLines, LineEnds
    <2>4. 0 \notin Keeps => e - 1 \in Newlines
      BY <2>1, <2>3 DEF CutInv, AppendChunk, IInv, TypeOK
    <2> QED BY <2>1, <2>2, <2>3, <2>4
            DEF CutInv, CutAtLineEnd, AtLineEnd, AppendChunk, files, source
  <1>5. CASE SaveArchived \/ SavePunched
    <2>1. 0 \notin Keeps => \A s \in stateSeen' \cup {stateFile'} : AtLineEnd(s)
      BY <1>5 DEF CutInv, CutAtLineEnd, AtLineEnd, SaveArchived, SavePunched, Save
    <2> QED BY <1>5, <2>1 DEF CutInv, CutAtLineEnd, AtLineEnd, SaveArchived,
           SavePunched, source, local
  <1>10. CASE SyncOutput \/ SyncSource
    <2>1. job \in Offsets
      BY DEF IInv, TypeOK
    <2>2. 0 \notin Keeps => AtLineEnd(job')
      BY <1>10, <2>1 DEF CutInv, CutAtLineEnd, AtLineEnd, SyncOutput, SyncSource,
           Offsets
    <2> QED BY <1>10, <2>2 DEF CutInv, CutAtLineEnd, AtLineEnd, SyncOutput,
           SyncSource, source, files
  <1>6. CASE AppAppend
    BY <1>6 DEF CutInv, CutAtLineEnd, AtLineEnd, AppAppend, files, local, IInv, TypeOK
  <1>7. CASE PowerLoss
    <2>1. /\ stateFile' \in stateSeen \cup {BadState} /\ stateSeen' = {stateFile'}
          /\ job' = job /\ pc' = "idle"
      BY <1>7 DEF PowerLoss, Finish, local
    <2>2. 0 \notin Keeps => AtLineEnd(stateFile') /\ AtLineEnd(job')
      BY <2>1 DEF CutInv, CutAtLineEnd, AtLineEnd, BadState
    <2> QED BY <2>1, <2>2 DEF CutInv, CutAtLineEnd, AtLineEnd
  <1>8. CASE CleanState
    BY <1>8 DEF CutInv, CutAtLineEnd, AtLineEnd, CleanState, NoState, local, source
  <1>9. CASE UNCHANGED vars
    BY <1>9 DEF CutInv, CutAtLineEnd, AtLineEnd, vars, local, files, source
  <1> QED BY <1>1, <1>2, <1>3, <1>4, <1>5, <1>6, <1>7, <1>8, <1>9, <1>10
          DEF Next, RunStep, EnvStep

LEMMA CutInvariant == Spec => []CutInv
  BY InitCut, NextCut, Invariant, PTL DEF Spec

\* Progress is recorded only at line ends of the log, in every version of the
\* state file, when something is kept.
THEOREM CutsAtLineEnds == Spec => []CutAtLineEnd
  <1>1. CutInv => CutAtLineEnd
    BY DEF CutInv
  <1> QED BY <1>1, CutInvariant, PTL

\* No step of a run punches at or behind the cutoff of that run.
THEOREM TailIsKept == Spec => TailKept
  <1>1. IInv /\ CutInv /\ [Next]_vars
          => [pc' # pc => holes' \ holes \subseteq 0..(cutoff - 1)]_vars
    <2> SUFFICES ASSUME IInv, CutInv, Next, pc' # pc
                 PROVE  holes' \ holes \subseteq 0..(cutoff - 1)
      OBVIOUS
    <2>1. CASE Punch \/ PunchFails
      <3>1. PICK e \in 0..end : Release(e)
        BY <2>1 DEF Punch, PunchFails, IInv, TypeOK
      <3>2. end <= cutoff /\ offset \in Nat /\ end \in Nat /\ cutoff \in Nat
        BY <2>1 DEF CutInv, Punch, PunchFails, IInv, TypeOK
      <3> QED BY <3>1, <3>2 DEF Release
    <2>2. CASE ~(Punch \/ PunchFails)
      <3>1. holes' \subseteq holes
        BY <2>2 DEF Next, RunStep, EnvStep, GiveUp, LoadFresh, LoadUnreadable, LoadResume,
             LoadRefused, LoopDone, LoopStop, LoopError, AppendNothing, AppendChunk,
             AppendFails, SyncOutput, SyncOutputFails, SaveArchived, SyncSource,
             SyncSourceFails, SavePunched, SaveFails, VerifyOk, VerifyFails,
             VerifySkipped, Start, WatchdogFires, AppAppend, Crash, PowerLoss,
             CleanState, OtherArchives, OtherPunches, source
      <3> QED BY <3>1
    <2> QED BY <2>1, <2>2
  <1> QED BY <1>1, Invariant, CutInvariant, PTL DEF Spec, TailKept
=============================================================================
