---------------------------- MODULE Runs_proofs -----------------------------
(***************************************************************************)
(* Proofs about what a run of Compact leaves when it ends: every step      *)
(* brings the end nearer, a stopped run has recorded what it punched, a    *)
(* completed run has released every line, and a run that nothing disturbs  *)
(* makes an exact copy.  All of them rest on IInv of Compact_proofs.       *)
(***************************************************************************)
EXTENDS Compact_proofs

\* A run is between the append of a chunk and the record that it is punched.
InChunk == pc \in {"sync", "saveArchived", "punch", "srcSync", "savePunched"}

\* The steps that end a run, and those that only move its control.
Ending ==
    \/ GiveUp \/ LoadRefused \/ LoopError \/ AppendFails \/ SyncOutputFails
    \/ PunchFails \/ SyncSourceFails \/ SaveFails
    \/ VerifyOk \/ VerifyFails \/ VerifySkipped \/ Crash \/ PowerLoss
Around == WatchdogFires \/ AppAppend \/ CleanState \/ OtherArchives \/ OtherPunches
Leaving == LoopDone \/ LoopStop \/ AppendNothing
Chunking == SyncOutput \/ SaveArchived \/ Punch \/ SyncSource

\* The actions, grouped by what they do to the position of a run.
LEMMA Groups ==
    ASSUME [Next]_vars
    PROVE  \/ Ending \/ Around \/ Leaving \/ Chunking
           \/ LoadFresh \/ LoadUnreadable \/ LoadResume \/ SavePunched
           \/ \E target \in 1..(cutoff - offset) : AppendChunk(target)
           \/ \E keep \in Keeps, verify \in BOOLEAN : Start(keep, verify)
           \/ UNCHANGED vars
  BY DEF Next, RunStep, EnvStep, Ending, Around, Leaving, Chunking

\* A step that ends a run.
LEMMA EndingStep == ASSUME Ending PROVE pc' = "idle"
  BY DEF Ending, GiveUp, LoadRefused, LoopError, AppendFails, SyncOutputFails, PunchFails,
         SyncSourceFails, SaveFails, VerifyOk, VerifyFails, VerifySkipped, Crash,
         PowerLoss, Finish

\* What happens around a run leaves its position alone, and the log only grows.
LEMMA AroundStep ==
    ASSUME TypeOK, Around
    PROVE  /\ UNCHANGED <<pc, full, cutoff, offset, end, job, stopReason, outcome>>
           /\ size <= size' /\ size' \in Nat /\ holes \subseteq holes'
  BY DEF Around, WatchdogFires, AppAppend, CleanState, OtherArchives, OtherPunches,
         source, local, TypeOK

\* The ways out of the loop.
LEMMA LeavingStep ==
    ASSUME Leaving
    PROVE  /\ pc = "loop" /\ pc' = "verify"
           /\ UNCHANGED <<size, holes, softHoles, stateFile, stateSeen, full, cutoff, offset,
                          end, job, outcome>>
  BY DEF Leaving, LoopDone, LoopStop, AppendNothing, source, files, local

\* The steps inside a chunk.
LEMMA ChunkingStep ==
    ASSUME Chunking
    PROVE  /\ \/ pc = "sync" /\ pc' = "saveArchived"
              \/ pc = "saveArchived" /\ pc' = "punch"
              \/ pc = "punch" /\ pc' = "srcSync"
              \/ pc = "srcSync" /\ pc' = "savePunched"
           /\ UNCHANGED <<size, full, cutoff, offset, end, stopReason, outcome, mishaps>>
  BY DEF Chunking, SyncOutput, SaveArchived, Punch, SyncSource, source, local

-----------------------------------------------------------------------------
\* Where a run is

\* A run starts at 0, stays at or below its cutoff, and a chunk is not empty.
OffsetInv ==
    /\ pc = "load" => offset = 0
    /\ pc # "idle" => cutoff <= size
    /\ pc \notin {"idle", "verify"} => offset <= cutoff
    /\ InChunk => offset < end /\ end <= cutoff

LEMMA InitOffset == Init => OffsetInv
  BY DEF Init, OffsetInv, InChunk

\* A chunk ends behind its start and not behind the cutoff.
LEMMA ChunkAdvances ==
    ASSUME TypeOK, NEW target \in 1..(cutoff - offset), AppendChunk(target)
    PROVE  offset < end' /\ end' <= cutoff /\ end' \in Nat
  <1>1. PICK e \in ChunkEnds(offset, target) : end' = e
    BY DEF AppendChunk
  <1>2. e \in (offset + 1)..size /\ e <= cutoff
    BY DEF ChunkEnds, WholeLines, LineEnds
  <1> QED BY <1>1, <1>2 DEF TypeOK

LEMMA NextOffset == IInv /\ OffsetInv /\ [Next]_vars => OffsetInv'
  <1> SUFFICES ASSUME IInv, OffsetInv, [Next]_vars PROVE OffsetInv'
    OBVIOUS
  <1>0. TypeOK /\ size \in Nat /\ cutoff \in Nat /\ offset \in Nat /\ end \in Nat
    BY DEF IInv, TypeOK
  <1>1. CASE Ending
    BY <1>1, EndingStep DEF OffsetInv, InChunk
  <1>2. CASE Around
    BY <1>0, <1>2, AroundStep DEF OffsetInv, InChunk
  <1>3. CASE Leaving
    BY <1>3, LeavingStep DEF OffsetInv, InChunk
  <1>4. CASE Chunking
    BY <1>4, ChunkingStep DEF OffsetInv, InChunk
  <1>5. CASE LoadFresh \/ LoadUnreadable
    BY <1>5 DEF LoadFresh, LoadUnreadable, source, local, OffsetInv, InChunk
  <1>6. CASE LoadResume
    BY <1>6 DEF LoadResume, ResumeOffset, source, OffsetInv, InChunk
  <1>7. CASE SavePunched
    BY <1>7 DEF SavePunched, source, OffsetInv, InChunk
  <1>8. CASE \E target \in 1..(cutoff - offset) : AppendChunk(target)
    <2>1. PICK target \in 1..(cutoff - offset) : AppendChunk(target)
      BY <1>8
    <2>2. offset < end' /\ end' <= cutoff
      BY <1>0, <2>1, ChunkAdvances
    <2> QED BY <2>1, <2>2 DEF AppendChunk, source, OffsetInv, InChunk
  <1>9. CASE \E keep \in Keeps, verify \in BOOLEAN : Start(keep, verify)
    BY <1>0, <1>9, KeepAssumption DEF Start, LongEnough, source, OffsetInv, InChunk
  <1>10. CASE UNCHANGED vars
    BY <1>10 DEF vars, source, local, OffsetInv, InChunk
  <1> QED BY <1>1, <1>2, <1>3, <1>4, <1>5, <1>6, <1>7, <1>8, <1>9, <1>10, Groups

LEMMA OffsetInvariant == Spec => []OffsetInv
  BY InitOffset, NextOffset, Invariant, PTL DEF Spec

-----------------------------------------------------------------------------
\* Every step brings the end of a run nearer

\* The bound on what is left is a natural number.
LEMMA RemainingType == ASSUME TypeOK, OffsetInv PROVE Remaining \in Nat
  <1>1. CASE pc \in {"idle", "verify"}
    BY <1>1 DEF Remaining, Rank
  <1>2. CASE pc \notin {"idle", "verify"}
    <2>1. cutoff - offset \in Nat
      BY <1>2 DEF TypeOK, OffsetInv
    <2>2. Rank[pc] \in Nat
      BY DEF TypeOK, Pcs, Rank
    <2> QED BY <1>2, <2>1, <2>2 DEF Remaining
  <1> QED BY <1>1, <1>2

\* A step of a run makes it smaller.
LEMMA RunStepAdvances ==
    ASSUME TypeOK, OffsetInv, OffsetInv', RunStep
    PROVE  Remaining' < Remaining
  <1>0. /\ cutoff \in Nat /\ offset \in Nat /\ end \in Nat
        /\ pc # "idle" => cutoff - offset \in Nat \/ pc = "verify"
    BY DEF TypeOK, OffsetInv
  <1>1. CASE Ending
    <2>1. pc # "idle" /\ pc \in Pcs
      BY DEF RunStep, TypeOK, GiveUp, LoadFresh, LoadUnreadable, LoadResume, LoadRefused,
             LoopDone, LoopStop, LoopError, AppendNothing, AppendChunk, AppendFails,
             SyncOutput, SyncOutputFails, SaveArchived, Punch, PunchFails, SyncSource,
             SyncSourceFails, SavePunched, SaveFails, VerifyOk, VerifyFails, VerifySkipped
    <2>2. Remaining' = 0
      BY <1>1, EndingStep DEF Remaining, Rank
    <2>3. Rank[pc] \in Nat \ {0}
      BY <2>1 DEF Pcs, Rank
    <2>4. Remaining > 0
      BY <1>0, <2>1, <2>3 DEF Remaining
    <2> QED BY <2>2, <2>4
  <1>2. CASE Leaving
    BY <1>0, <1>2, LeavingStep DEF Remaining, Rank, OffsetInv
  <1>3. CASE Chunking
    BY <1>0, <1>3, ChunkingStep DEF Remaining, Rank
  <1>4. CASE LoadFresh \/ LoadUnreadable
    BY <1>0, <1>4 DEF LoadFresh, LoadUnreadable, local, Remaining, Rank
  <1>5. CASE LoadResume
    <2>1. /\ pc = "load" /\ pc' = "loop" /\ offset = 0 /\ cutoff' = cutoff
          /\ offset' \in Nat /\ offset' <= cutoff
      BY <1>5 DEF LoadResume, ResumeOffset, States, OffsetInv
    <2>2. Remaining = 9 + 7 * cutoff
      BY <1>0, <2>1 DEF Remaining, Rank
    <2>3. Remaining' = 8 + 7 * (cutoff - offset')
      BY <1>0, <2>1 DEF Remaining, Rank
    <2>4. \A c, k \in Nat : 8 + 7 * (c - k) < 9 + 7 * c
      OBVIOUS
    <2>5. 8 + 7 * (cutoff - offset') < 9 + 7 * cutoff
      BY <1>0, <2>1, <2>4
    <2> QED BY <2>2, <2>3, <2>5
  <1>6. CASE SavePunched
    <2>1. /\ pc = "savePunched" /\ pc' = "loop" /\ offset' = end /\ cutoff' = cutoff
          /\ offset < end /\ end <= cutoff
      BY <1>6 DEF SavePunched, OffsetInv, InChunk
    <2> QED BY <1>0, <2>1 DEF Remaining, Rank
  <1>7. CASE \E target \in 1..(cutoff - offset) : AppendChunk(target)
    <2>1. pc = "loop" /\ pc' = "sync" /\ UNCHANGED <<cutoff, offset>>
      BY <1>7 DEF AppendChunk
    <2> QED BY <1>0, <2>1 DEF Remaining, Rank
  <1> QED BY <1>1, <1>2, <1>3, <1>4, <1>5, <1>6, <1>7
          DEF RunStep, Ending, Leaving, Chunking

\* What happens around a run, or ends it from outside, makes it no larger.
LEMMA NothingMovesEndAway ==
    ASSUME TypeOK, OffsetInv, OffsetInv', [Next]_vars, pc # "idle",
           Remaining' \in Nat
    PROVE  Remaining' <= Remaining
  <1>1. Remaining \in Nat /\ Remaining' \in Nat
    BY RemainingType
  <1>2. CASE RunStep
    BY <1>1, <1>2, RunStepAdvances
  <1>3. CASE Crash \/ PowerLoss
    <2>1. Remaining' = 0
      BY <1>3, EndingStep DEF Ending, Remaining, Rank
    <2> QED BY <1>1, <2>1
  <1>4. CASE Around
    <2>1. Remaining' = Remaining
      BY <1>4, AroundStep DEF Remaining
    <2> QED BY <1>1, <2>1
  <1>5. CASE UNCHANGED vars
    <2>1. Remaining' = Remaining
      BY <1>5 DEF vars, local, Remaining
    <2> QED BY <1>1, <2>1
  <1>6. ~ \E keep \in Keeps, verify \in BOOLEAN : Start(keep, verify)
    BY DEF Start
  <1> QED BY <1>2, <1>3, <1>4, <1>5, <1>6 DEF Next, EnvStep, Around

\* RunsAdvance: a run takes at most as many steps as Remaining says when it
\* starts, whatever its state file, the lines of the log and the other job are.
THEOREM EveryStepAdvances == Spec => RunsAdvance
  <1>1. /\ IInv /\ OffsetInv /\ IInv' /\ OffsetInv' /\ [Next]_vars
        => [ /\ RunStep => Remaining' \in 0..(Remaining - 1)
             /\ pc # "idle" => Remaining' <= Remaining ]_vars
    <2> SUFFICES ASSUME IInv, OffsetInv, IInv', OffsetInv', [Next]_vars
                 PROVE  /\ RunStep => Remaining' \in 0..(Remaining - 1)
                        /\ pc # "idle" => Remaining' <= Remaining
      OBVIOUS
    <2>1. TypeOK /\ TypeOK'
      BY DEF IInv
    <2>2. Remaining \in Nat /\ Remaining' \in Nat
      <3>1. Remaining \in Nat
        BY <2>1, RemainingType
      <3>2. (TypeOK /\ OffsetInv => Remaining \in Nat)'
        BY RemainingType, PTL
      <3> QED BY <2>1, <3>1, <3>2
    <2>3. RunStep => Remaining' < Remaining
      BY <2>1, RunStepAdvances
    <2>4. pc # "idle" => Remaining' <= Remaining
      BY <2>1, <2>2, NothingMovesEndAway
    <2> QED BY <2>2, <2>3, <2>4
  <1> QED BY <1>1, Invariant, OffsetInvariant, PTL DEF Spec, RunsAdvance

-----------------------------------------------------------------------------
\* What a run that is stopped has recorded

\* The state file has the offset of the run, or was moved away.
Recorded ==
    \/ stateFile.lp = offset /\ stateFile.la >= offset
    \/ stateFile = NoState /\ mishaps > 0

\* No offsets claim that more is punched than archived; inside a chunk the
\* archived offset is the chunk's end; at the loop head and behind the loop the
\* run is where its record says.
StopInv ==
    /\ \A s \in stateSeen \cup {stateFile} : s.lp <= s.la
    /\ job.lp <= job.la
    /\ pc \in {"saveArchived", "punch", "srcSync", "savePunched"} => job.la = end
    /\ pc \in {"loop", "verify"} \/ outcome = "ok" =>
            offset = job.lp /\ (offset > 0 => Recorded)
    /\ outcome \in {"ok", "verified"} => pc = "idle"

LEMMA InitStop == Init => StopInv
  BY DEF Init, StopInv, NoState

\* The record stays what it is when only the number of mishaps grows.
LEMMA RecordedKept ==
    ASSUME TypeOK, Recorded, UNCHANGED <<stateFile, offset>>, mishaps' \in {mishaps, mishaps + 1}
    PROVE  Recorded'
  BY DEF Recorded, TypeOK

\* A step of a run starts from a run that has no outcome yet.
LEMMA NoOutcomeYet ==
    ASSUME StopInv, pc # "idle"
    PROVE  outcome \notin {"ok", "verified"}
  BY DEF StopInv

\* The end of a run that was not verified: its record stays.
LEMMA SkippedStop == ASSUME IInv, StopInv, VerifySkipped PROVE StopInv'
  <1>1. /\ pc = "verify" /\ pc' = "idle" /\ outcome' = "ok"
        /\ UNCHANGED <<stateFile, stateSeen, offset, job, end, mishaps>>
    BY DEF VerifySkipped, Finish, files, local
  <1>2. offset = job.lp /\ (offset > 0 => Recorded')
    BY <1>1, RecordedKept DEF StopInv, IInv
  <1> QED BY <1>1, <1>2 DEF StopInv

\* The other ends of a run report something else.
LEMMA EndingStop == ASSUME StopInv, Ending, ~VerifySkipped PROVE StopInv'
  <1>1. pc' = "idle" /\ outcome' # "ok" /\ job' = job
    BY DEF Ending, GiveUp, LoadRefused, LoopError, AppendFails, SyncOutputFails, PunchFails,
           SyncSourceFails, SaveFails, VerifyOk, VerifyFails, Crash, PowerLoss, Finish, local
  <1>2. \A s \in stateSeen' \cup {stateFile'} :
            s = BadState \/ s \in stateSeen \cup {stateFile}
    <2>1. CASE PowerLoss
      <3>1. stateFile' \in stateSeen \cup {BadState} /\ stateSeen' = {stateFile'}
        BY <2>1 DEF PowerLoss
      <3> QED BY <3>1
    <2>2. CASE ~PowerLoss
      <3>1. UNCHANGED <<stateFile, stateSeen>>
        BY <2>2 DEF Ending, GiveUp, LoadRefused, LoopError, AppendFails, SyncOutputFails,
             PunchFails, SyncSourceFails, SaveFails, VerifyOk, VerifyFails, Crash, files
      <3> QED BY <3>1
    <2> QED BY <2>1, <2>2
  <1>3. \A s \in stateSeen' \cup {stateFile'} : s.lp <= s.la
    BY <1>2 DEF StopInv, BadState
  <1> QED BY <1>1, <1>3 DEF StopInv

\* Around a run the record stays, or is moved away by a mishap.
LEMMA AroundStop == ASSUME IInv, StopInv, Around PROVE StopInv'
  <1>0. TypeOK /\ mishaps \in Nat
    BY DEF IInv, TypeOK
  <1>1. UNCHANGED <<pc, offset, end, job, outcome>>
    BY <1>0, AroundStep
  <1>2. CASE CleanState
    <2>1. /\ stateFile' = NoState /\ stateSeen' = stateSeen \cup {NoState}
          /\ mishaps' = mishaps + 1
      BY <1>2 DEF CleanState, Mishap
    <2>2. Recorded'
      BY <1>0, <2>1 DEF Recorded
    <2>3. \A s \in stateSeen' \cup {stateFile'} : s.lp <= s.la
      BY <2>1 DEF StopInv, NoState
    <2> QED BY <1>1, <2>2, <2>3 DEF StopInv
  <1>3. CASE ~CleanState
    <2>1. UNCHANGED <<stateFile, stateSeen>> /\ mishaps' \in {mishaps, mishaps + 1}
      BY <1>3 DEF Around, WatchdogFires, AppAppend, OtherArchives, OtherPunches, Mishap, files
    <2>2. Recorded => Recorded'
      BY <1>0, <1>1, <2>1, RecordedKept
    <2> QED BY <1>1, <2>1, <2>2 DEF StopInv
  <1> QED BY <1>2, <1>3

\* Into the loop: from nothing, or from a record that matches.
LEMMA LoadStop ==
    ASSUME IInv, OffsetInv, StopInv, LoadFresh \/ LoadUnreadable \/ LoadResume
    PROVE  StopInv'
  <1>1. /\ pc = "load" /\ pc' = "loop" /\ offset = 0
        /\ UNCHANGED <<stateFile, stateSeen, outcome>>
    BY DEF LoadFresh, LoadUnreadable, LoadResume, OffsetInv, files
  <1>2. outcome' \notin {"ok", "verified"}
    BY <1>1, NoOutcomeYet
  <1>3. CASE LoadFresh \/ LoadUnreadable
    <2>1. UNCHANGED <<offset, job>> /\ offset = job.lp
      BY <1>1, <1>3 DEF LoadFresh, LoadUnreadable, local, IInv, ChunkInv
    <2> QED BY <1>1, <1>2, <2>1 DEF StopInv
  <1>4. CASE LoadResume
    <2>1. /\ job' = [lp |-> stateFile.lp, la |-> stateFile.la]
          /\ offset' = stateFile.lp /\ stateFile \in States
      BY <1>4 DEF LoadResume, ResumeOffset
    <2>2. stateFile.lp <= stateFile.la /\ stateFile.lp \in Nat /\ stateFile.la \in Nat
      BY <2>1 DEF StopInv, States
    <2>3. Recorded'
      BY <1>1, <2>1, <2>2 DEF Recorded
    <2> QED BY <1>1, <1>2, <2>1, <2>2, <2>3 DEF StopInv
  <1> QED BY <1>3, <1>4

\* The steps of a chunk up to the punch and the sync of the source.
LEMMA ChunkingStop ==
    ASSUME IInv, OffsetInv, StopInv, Chunking
    PROVE  StopInv'
  <1>0. job \in Offsets /\ end \in Nat /\ offset \in Nat
    BY DEF IInv, TypeOK
  <1>1. outcome' \notin {"ok", "verified"} /\ pc' \notin {"loop", "verify"}
        /\ UNCHANGED <<offset, end>>
    BY ChunkingStep, NoOutcomeYet
  <1>2. CASE SyncOutput
    <2>1. /\ job' = [lp |-> job.lp, la |-> end] /\ offset < end /\ offset = job.lp
          /\ UNCHANGED <<stateFile, stateSeen>>
      BY <1>0, <1>2 DEF SyncOutput, files, IInv, ChunkInv, OffsetInv, InChunk, Offsets
    <2> QED BY <1>0, <1>1, <2>1 DEF StopInv
  <1>3. CASE SaveArchived
    <2>1. /\ job' = job /\ pc = "saveArchived"
          /\ stateFile' = [cutoff |-> cutoff, lp |-> job.lp, la |-> job.la]
          /\ stateSeen' = stateSeen \cup {stateFile'}
      BY <1>3 DEF SaveArchived, Save, local
    <2>2. \A s \in stateSeen' \cup {stateFile'} : s.lp <= s.la
      BY <2>1 DEF StopInv
    <2> QED BY <1>1, <2>1, <2>2 DEF StopInv
  <1>4. CASE Punch
    BY <1>1, <1>4 DEF StopInv, Punch, files, local
  <1>5. CASE SyncSource
    <2>1. job' = [lp |-> end, la |-> job.la] /\ job.la = end
          /\ UNCHANGED <<stateFile, stateSeen>>
      BY <1>0, <1>5 DEF SyncSource, files, StopInv, Offsets
    <2> QED BY <1>0, <1>1, <2>1 DEF StopInv
  <1> QED BY <1>2, <1>3, <1>4, <1>5 DEF Chunking

\* The record that ends a chunk.
LEMMA SavePunchedStop == ASSUME IInv, StopInv, SavePunched PROVE StopInv'
  <1>1. /\ pc = "savePunched" /\ pc' = "loop" /\ offset' = end
        /\ UNCHANGED <<end, job, outcome>>
        /\ stateFile' = [cutoff |-> cutoff, lp |-> job.lp, la |-> job.la]
        /\ stateSeen' = stateSeen \cup {stateFile'}
    BY DEF SavePunched, Save
  <1>2. end = job.lp /\ job.la = end /\ end \in Nat
    BY <1>1 DEF IInv, ChunkInv, StopInv, TypeOK
  <1>3. Recorded'
    BY <1>1, <1>2 DEF Recorded
  <1>4. \A s \in stateSeen' \cup {stateFile'} : s.lp <= s.la
    BY <1>1 DEF StopInv
  <1>5. outcome' \notin {"ok", "verified"}
    BY <1>1, NoOutcomeYet
  <1> QED BY <1>1, <1>2, <1>3, <1>4, <1>5 DEF StopInv

\* Out of the loop: the record is where the run is.
LEMMA LeavingStop == ASSUME IInv, StopInv, Leaving PROVE StopInv'
  <1>1. /\ pc = "loop" /\ pc' = "verify"
        /\ UNCHANGED <<stateFile, stateSeen, offset, end, job, outcome>>
    BY LeavingStep
  <1>2. mishaps' \in {mishaps, mishaps + 1}
    BY DEF Leaving, LoopDone, LoopStop, AppendNothing, Mishap
  <1>3. Recorded => Recorded'
    BY <1>1, <1>2, RecordedKept DEF IInv
  <1> QED BY <1>1, <1>3 DEF StopInv

LEMMA NextStop == IInv /\ OffsetInv /\ StopInv /\ [Next]_vars => StopInv'
  <1> SUFFICES ASSUME IInv, OffsetInv, StopInv, [Next]_vars PROVE StopInv'
    OBVIOUS
  <1>1. CASE Ending \/ Around \/ Leaving \/ Chunking \/ SavePunched
             \/ LoadFresh \/ LoadUnreadable \/ LoadResume
    BY <1>1, SkippedStop, EndingStop, AroundStop, LeavingStop, ChunkingStop,
       SavePunchedStop, LoadStop
  <1>2. CASE \E target \in 1..(cutoff - offset) : AppendChunk(target)
    <2>1. /\ pc = "loop" /\ pc' = "sync"
          /\ UNCHANGED <<stateFile, stateSeen, offset, job, outcome>>
      BY <1>2 DEF AppendChunk, files
    <2>2. outcome' \notin {"ok", "verified"}
      BY <2>1, NoOutcomeYet
    <2> QED BY <2>1, <2>2 DEF StopInv
  <1>3. CASE \E keep \in Keeps, verify \in BOOLEAN : Start(keep, verify)
    BY <1>3 DEF Start, files, StopInv
  <1>4. CASE UNCHANGED vars
    <2>1. UNCHANGED <<stateFile, stateSeen, pc, offset, end, job, outcome, mishaps>>
      BY <1>4 DEF vars, files, local
    <2> QED BY <2>1 DEF StopInv, Recorded
  <1> QED BY <1>1, <1>2, <1>3, <1>4, Groups

LEMMA StopInvariant == Spec => []StopInv
  BY InitStop, NextStop, Invariant, OffsetInvariant, PTL DEF Spec

\* StopAtBoundary: a run that was stopped, or anything else that ended it with
\* success, has recorded exactly what it punched.
THEOREM StopsAtBoundary == Spec => []StopAtBoundary
  <1>1. IInv /\ StopInv => StopAtBoundary
    <2> SUFFICES ASSUME IInv, StopInv, outcome = "ok", offset > 0
                 PROVE  /\ 0..(offset - 1) \subseteq holes
                        /\ \/ stateFile.lp = offset /\ stateFile.la >= offset
                           \/ stateFile = NoState /\ mishaps > 0
      BY DEF StopAtBoundary
    <2>1. offset = job.lp /\ Recorded
      BY DEF StopInv
    <2> QED BY <2>1 DEF Recorded, IInv, Truthful
  <1> QED BY <1>1, Invariant, StopInvariant, PTL

-----------------------------------------------------------------------------
\* The shape of the holes

\* A prefix grows by a range that begins in it or right behind it.
LEMMA PrefixGrows ==
    ASSUME NEW S, IsPrefix(S), NEW a \in Nat, NEW b \in Int, 0..(a - 1) \subseteq S
    PROVE  IsPrefix(S \cup (a..(b - 1)))
  <1> SUFFICES ASSUME NEW x \in S \cup (a..(b - 1)), NEW y \in 0..x
               PROVE  y \in S \cup (a..(b - 1))
    BY DEF IsPrefix
  <1>1. CASE x \in S
    BY <1>1 DEF IsPrefix
  <1>2. CASE x \in a..(b - 1)
    <2>1. CASE y < a
      <3>1. y \in 0..(a - 1)
        BY <2>1, <1>2
      <3> QED BY <3>1
    <2>2. CASE a <= y
      BY <2>2, <1>2
    <2> QED BY <2>1, <2>2, <1>2
  <1> QED BY <1>1, <1>2

LEMMA InitHoles == Init => HolesAtTheStart
  BY DEF Init, HolesAtTheStart, IsPrefix

\* New holes of this run begin where its durable holes end.
LEMMA ReleaseHoles ==
    ASSUME IInv, HolesAtTheStart, pc = "punch", NEW e \in Nat, Release(e)
    PROVE  HolesAtTheStart'
  <1>1. /\ holes' = holes \cup (offset..(e - 1))
        /\ softHoles' = softHoles \cup ((offset..(e - 1)) \ holes)
    BY DEF Release
  <1>2. offset \in Nat /\ 0..(offset - 1) \subseteq holes
    BY DEF IInv, TypeOK, ChunkInv, Truthful
  <1>3. IsPrefix(holes \cup (offset..(e - 1)))
    BY <1>2, PrefixGrows DEF HolesAtTheStart
  <1>4. holes' \ softHoles' = holes \ softHoles
    BY <1>1
  <1> QED BY <1>1, <1>3, <1>4 DEF HolesAtTheStart

LEMMA OtherPunchesHoles == ASSUME HolesAtTheStart, TypeOK, OtherPunches PROVE HolesAtTheStart'
  <1>1. PICK q \in 1..size :
            /\ holes' = holes \cup 0..(q - 1)
            /\ softHoles' = softHoles \cup ((0..(q - 1)) \ holes)
    BY DEF OtherPunches
  <1>2. q \in Int /\ 0 \in Nat /\ 0..(0 - 1) \subseteq holes
    BY DEF TypeOK
  <1>3. IsPrefix(holes \cup (0..(q - 1)))
    BY <1>2, PrefixGrows DEF HolesAtTheStart
  <1>4. holes' \ softHoles' = holes \ softHoles
    BY <1>1
  <1> QED BY <1>1, <1>3, <1>4 DEF HolesAtTheStart

LEMMA NextHoles == IInv /\ HolesAtTheStart /\ [Next]_vars => HolesAtTheStart'
  <1> SUFFICES ASSUME IInv, HolesAtTheStart, [Next]_vars PROVE HolesAtTheStart'
    OBVIOUS
  <1>1. CASE Punch
    BY <1>1, ReleaseHoles DEF Punch, IInv, TypeOK
  <1>2. CASE PunchFails
    <2>1. PICK e \in offset..end : Release(e)
      BY <1>2 DEF PunchFails
    <2>2. e \in Nat
      BY DEF IInv, TypeOK
    <2> QED BY <1>2, <2>1, <2>2, ReleaseHoles DEF PunchFails
  <1>3. CASE SyncSource
    <2>1. holes' = holes /\ softHoles' = {}
      BY <1>3 DEF SyncSource
    <2>2. holes' \ softHoles' = holes
      BY <2>1
    <2> QED BY <2>1, <2>2 DEF HolesAtTheStart
  <1>4. CASE PowerLoss
    <2>1. holes' \in {holes, holes \ softHoles} /\ softHoles' = {}
      BY <1>4 DEF PowerLoss
    <2>2. holes' \ softHoles' = holes'
      BY <2>1
    <2>3. IsPrefix(holes')
      BY <2>1 DEF HolesAtTheStart
    <2> QED BY <2>2, <2>3 DEF HolesAtTheStart
  <1>5. CASE OtherPunches
    BY <1>5, OtherPunchesHoles DEF IInv
  <1>6. CASE ~(Punch \/ PunchFails \/ SyncSource \/ PowerLoss \/ OtherPunches)
    <2>1. UNCHANGED <<holes, softHoles>>
      BY <1>6 DEF Next, RunStep, EnvStep, GiveUp, LoadFresh, LoadUnreadable, LoadResume,
           LoadRefused, LoopDone, LoopStop, LoopError, AppendNothing, AppendChunk,
           AppendFails, SyncOutput, SyncOutputFails, SaveArchived, SyncSourceFails,
           SavePunched, SaveFails, VerifyOk, VerifyFails, VerifySkipped, Start,
           WatchdogFires, AppAppend, Crash, CleanState, OtherArchives, source, vars
    <2> QED BY <2>1 DEF HolesAtTheStart
  <1> QED BY <1>1, <1>2, <1>3, <1>4, <1>5, <1>6

\* HolesAtTheStart: the log is never punched behind bytes it still holds, also
\* after failures, power losses and the work of another job.
THEOREM HolesAreAPrefix == Spec => []HolesAtTheStart
  BY InitHoles, NextHoles, Invariant, PTL DEF Spec

-----------------------------------------------------------------------------
\* What a run that completes has released

\* Every whole line below the cutoff.
AllReleased == \A p \in Newlines : p < cutoff => 0..p \subseteq holes
DoneInv ==
    /\ stopReason = "completed" /\ (pc = "verify" \/ outcome \in {"ok", "verified"})
            => AllReleased
    /\ outcome \in {"ok", "verified"} => pc = "idle"

LEMMA InitDone == Init => DoneInv
  BY DEF Init, DoneInv

\* The offset has reached the cutoff: everything below it is a hole.
LEMMA DoneReleases == ASSUME IInv, LoopDone PROVE AllReleased
  <1>1. /\ 0..(offset - 1) \subseteq holes /\ cutoff <= offset
        /\ cutoff \in Nat /\ offset \in Nat
    BY DEF LoopDone, AtCutoff, IInv, TypeOK, ChunkInv, Truthful
  <1>2. ASSUME NEW p \in Newlines, p < cutoff PROVE 0..p \subseteq holes
    <2>1. p \in Nat
      BY LogAssumption
    <2> QED BY <1>1, <1>2, <2>1
  <1> QED BY <1>2 DEF AllReleased

\* No whole line is left: every newline below the cutoff is behind the offset or
\* in a hole, and in front of a hole there are only holes.
LEMMA NothingReleases ==
    ASSUME IInv, OffsetInv, HolesAtTheStart, AppendNothing
    PROVE  AllReleased
  <1>1. /\ 0..(offset - 1) \subseteq holes /\ cutoff <= size
        /\ cutoff \in Nat /\ offset \in Nat /\ size \in Nat
        /\ WholeLines(offset) = {}
    BY DEF AppendNothing, OffsetInv, IInv, TypeOK, ChunkInv, Truthful
  <1>2. ASSUME NEW p \in Newlines, p < cutoff PROVE 0..p \subseteq holes
    <2>1. p \in Nat
      BY LogAssumption
    <2>2. CASE p < offset
      BY <1>1, <2>1, <2>2
    <2>3. CASE offset <= p
      <3>1. p + 1 \in (offset + 1)..size /\ p + 1 <= cutoff /\ (p + 1) - 1 = p
        BY <1>1, <1>2, <2>1, <2>3
      <3>2. p \notin holes => p + 1 \in LineEnds(offset)
        BY <3>1 DEF LineEnds
      <3>3. p \in holes
        BY <1>1, <3>1, <3>2 DEF WholeLines
      <3> QED BY <3>3 DEF HolesAtTheStart, IsPrefix
    <2> QED BY <1>1, <2>1, <2>2, <2>3
  <1> QED BY <1>2 DEF AllReleased

LEMMA NextDone == IInv /\ OffsetInv /\ HolesAtTheStart /\ DoneInv /\ [Next]_vars => DoneInv'
  <1> SUFFICES ASSUME IInv, OffsetInv, HolesAtTheStart, DoneInv, [Next]_vars PROVE DoneInv'
    OBVIOUS
  <1>0. TypeOK
    BY DEF IInv
  <1>1. CASE VerifyOk \/ VerifySkipped
    <2>1. pc = "verify" /\ pc' = "idle" /\ UNCHANGED <<stopReason, holes, cutoff>>
      BY <1>1 DEF VerifyOk, VerifySkipped, Finish, source, local
    <2> QED BY <2>1 DEF DoneInv, AllReleased
  <1>2. CASE Ending /\ ~(VerifyOk \/ VerifySkipped)
    <2>1. pc' = "idle" /\ outcome' \notin {"ok", "verified"}
      BY <1>2 DEF Ending, GiveUp, LoadRefused, LoopError, AppendFails, SyncOutputFails,
           PunchFails, SyncSourceFails, SaveFails, VerifyFails, Crash, PowerLoss, Finish
    <2> QED BY <2>1 DEF DoneInv
  <1>3. CASE Around
    <2>1. UNCHANGED <<pc, stopReason, outcome, cutoff>> /\ holes \subseteq holes'
      BY <1>0, <1>3, AroundStep
    <2> QED BY <2>1 DEF DoneInv, AllReleased
  <1>4. CASE LoopStop
    BY <1>4 DEF LoopStop, DoneInv
  <1>5. CASE LoopDone \/ AppendNothing
    <2>1. AllReleased
      BY <1>5, DoneReleases, NothingReleases
    <2>2. pc = "loop" /\ UNCHANGED <<outcome, holes, cutoff>>
      BY <1>5, LeavingStep DEF Leaving
    <2> QED BY <2>1, <2>2 DEF DoneInv, AllReleased
  <1>6. CASE \/ Chunking \/ LoadFresh \/ LoadUnreadable \/ LoadResume \/ SavePunched
             \/ \E target \in 1..(cutoff - offset) : AppendChunk(target)
    <2>1. pc # "idle" /\ pc' \notin {"idle", "verify"} /\ outcome' = outcome
      BY <1>6, ChunkingStep DEF LoadFresh, LoadUnreadable, LoadResume, SavePunched, AppendChunk
    <2> QED BY <2>1 DEF DoneInv
  <1>7. CASE \E keep \in Keeps, verify \in BOOLEAN : Start(keep, verify)
    BY <1>7 DEF Start, DoneInv
  <1>8. CASE UNCHANGED vars
    BY <1>8 DEF vars, source, local, DoneInv, AllReleased
  <1> QED BY <1>1, <1>2, <1>3, <1>4, <1>5, <1>6, <1>7, <1>8, Groups DEF Leaving

LEMMA DoneInvariant == Spec => []DoneInv
  BY InitDone, NextDone, Invariant, OffsetInvariant, HolesAreAPrefix, PTL DEF Spec

\* CompletedReleases: a run that reports "completed" has released every whole
\* line below its cutoff.
THEOREM CompletedRunsRelease == Spec => []CompletedReleases
  <1>1. DoneInv => CompletedReleases
    BY DEF DoneInv, AllReleased, CompletedReleases
  <1> QED BY <1>1, DoneInvariant, PTL

-----------------------------------------------------------------------------
\* What an undisturbed job archives

\* The members follow each other and hold every byte of their ranges.
Exact(s) ==
    \A i \in DOMAIN s :
        /\ s[i].from = (IF i = 1 THEN 0 ELSE s[i - 1].to)
        /\ s[i].data = s[i].from..(s[i].to - 1)
        /\ ~s[i].torn
EndOf(s) == IF s = <<>> THEN 0 ELSE s[Len(s)].to

\* A member that continues an exact copy keeps it exact.
LEMMA ExactAppend ==
    ASSUME NEW s \in Seq(Members), Exact(s), NEW m \in Members,
           m.from = EndOf(s), m.data = m.from..(m.to - 1), ~m.torn
    PROVE  Exact(Append(s, m)) /\ EndOf(Append(s, m)) = m.to
  <1> DEFINE A == Append(s, m)
             n == Len(s)
  <1>1. /\ DOMAIN A = 1..(n + 1) /\ DOMAIN s = 1..n /\ n \in Nat
        /\ A[n + 1] = m /\ \A i \in 1..n : A[i] = s[i]
        /\ Len(A) = n + 1 /\ A # <<>>
    OBVIOUS
  <1>2. s = <<>> <=> n = 0
    OBVIOUS
  <1> HIDE DEF A
  <1>3. EndOf(A) = m.to
    BY <1>1 DEF EndOf
  <1>4. ASSUME NEW i \in DOMAIN A
        PROVE  /\ A[i].from = (IF i = 1 THEN 0 ELSE A[i - 1].to)
               /\ A[i].data = A[i].from..(A[i].to - 1)
               /\ ~A[i].torn
    <2>1. CASE i = n + 1
      <3>1. i # 1 => i - 1 \in 1..n /\ i - 1 = n
        BY <1>1, <2>1
      <3>2. m.from = (IF i = 1 THEN 0 ELSE A[i - 1].to)
        BY <1>1, <1>2, <2>1, <3>1 DEF EndOf
      <3> QED BY <1>1, <2>1, <3>2
    <2>2. CASE i \in 1..n
      <3>1. i # 1 => i - 1 \in 1..n
        BY <1>1, <2>2
      <3> QED BY <1>1, <2>2, <3>1 DEF Exact
    <2> QED BY <1>1, <2>1, <2>2
  <1>5. Exact(A)
    BY <1>4 DEF Exact
  <1> QED BY <1>3, <1>5 DEF A

\* An fsync keeps it exact.
LEMMA ExactFlush ==
    ASSUME NEW s \in Seq(Members), Exact(s), NEW r \in {"safe", "lost"}
    PROVE  Exact(Flushed(s, r)) /\ EndOf(Flushed(s, r)) = EndOf(s)
  <1> DEFINE F == Flushed(s, r)
  <1>1. /\ F \in Seq(Members) /\ Len(F) = Len(s) /\ DOMAIN F = DOMAIN s
        /\ \A i \in DOMAIN s : /\ F[i].from = s[i].from /\ F[i].to = s[i].to
                               /\ F[i].data = s[i].data /\ F[i].torn = s[i].torn
    BY FlushedMembers
  <1> HIDE DEF F
  <1>2. DOMAIN s = 1..Len(s) /\ Len(s) \in Nat
    OBVIOUS
  <1>3. ASSUME NEW i \in DOMAIN F
        PROVE  /\ F[i].from = (IF i = 1 THEN 0 ELSE F[i - 1].to)
               /\ F[i].data = F[i].from..(F[i].to - 1)
               /\ ~F[i].torn
    <2>1. i # 1 => i - 1 \in DOMAIN s
      BY <1>1, <1>2
    <2> QED BY <1>1, <2>1 DEF Exact
  <1>4. Exact(F)
    BY <1>3 DEF Exact
  <1>5. EndOf(F) = EndOf(s)
    <2>1. F = <<>> <=> s = <<>>
      BY <1>1
    <2>2. s # <<>> => Len(s) \in DOMAIN s
      BY <1>2
    <2> QED BY <1>1, <2>1, <2>2 DEF EndOf
  <1> QED BY <1>4, <1>5 DEF F

\* As long as nothing went wrong, the archive is exact, nothing is punched behind
\* its end, and the record, the offset and the chunk's end are that end.
ExactInv ==
    mishaps = 0 =>
        /\ Exact(archive)
        /\ holes \subseteq 0..(EndOf(archive) - 1)
        /\ pc \in {"idle", "load", "loop", "verify"} => stateFile.lp = EndOf(archive)
        /\ pc = "loop" => offset = EndOf(archive)
        /\ InChunk => end = EndOf(archive)

LEMMA InitExact == Init => ExactInv
  BY DEF Init, ExactInv, Exact, EndOf, InChunk, NoState

\* What counts as a mishap leaves nothing to show.
LEMMA MishapExact == ASSUME TypeOK, mishaps' = mishaps + 1 PROVE ExactInv'
  BY DEF TypeOK, ExactInv

\* A chunk that is read right behind the archive has no holes in it.
LEMMA AppendChunkExact ==
    ASSUME IInv, OffsetInv, ExactInv,
           NEW target \in 1..(cutoff - offset), AppendChunk(target)
    PROVE  ExactInv'
  <1>1. PICK e \in ChunkEnds(offset, target) :
            archive' = Append(archive, Member(offset, e, FALSE)) /\ end' = e
    BY DEF AppendChunk
  <1>2. /\ offset < e /\ e <= size /\ e \in Nat /\ offset \in Nat
        /\ archive \in Seq(Members)
        /\ UNCHANGED <<holes, mishaps>> /\ pc = "loop" /\ pc' = "sync"
    BY <1>1 DEF ChunkEnds, WholeLines, LineEnds, IInv, TypeOK, AppendChunk, source
  <1> DEFINE m == Member(offset, e, FALSE)
  <1>3. m \in Members /\ m.from = offset /\ m.to = e /\ ~m.torn
        /\ m.data = (offset..(e - 1)) \ holes
    <2>1. e \in 0..size
      BY <1>2 DEF IInv, TypeOK
    <2> QED BY <2>1, MemberType DEF IInv, Member
  <1> HIDE DEF m
  <1>4. SUFFICES ASSUME mishaps = 0 PROVE ExactInv'
    BY <1>2 DEF ExactInv
  <1>5. offset = EndOf(archive) /\ Exact(archive) /\ holes \subseteq 0..(offset - 1)
    BY <1>2, <1>4 DEF ExactInv
  <1>6. m.data = offset..(e - 1)
    BY <1>2, <1>3, <1>5
  <1>7. Exact(archive') /\ EndOf(archive') = e
    BY <1>1, <1>2, <1>3, <1>5, <1>6, ExactAppend DEF m
  <1>8. holes' \subseteq 0..(e - 1)
    BY <1>2, <1>5
  <1> QED BY <1>1, <1>2, <1>7, <1>8 DEF ExactInv

\* The empty member that closes the output of a run without a whole line.
LEMMA AppendNothingExact ==
    ASSUME IInv, ExactInv, AppendNothing PROVE ExactInv'
  <1>1. PICK torn \in (IF Gzip THEN BOOLEAN ELSE {FALSE}), r \in {"safe", "lost"} :
            /\ archive' = Flushed(
                 IF Gzip THEN Append(archive, Member(offset, offset, torn)) ELSE archive, r)
            /\ IF torn \/ r = "lost" THEN Mishap ELSE UNCHANGED mishaps
    BY DEF AppendNothing
  <1>2. /\ UNCHANGED <<holes, stateFile>> /\ pc = "loop" /\ pc' = "verify"
        /\ archive \in Seq(Members) /\ offset \in 0..size
    BY DEF AppendNothing, source, files, IInv, TypeOK, ChunkInv
  <1>3. CASE torn \/ r = "lost"
    BY <1>1, <1>3, MishapExact DEF Mishap, IInv
  <1>4. CASE ~torn /\ r = "safe"
    <2>1. mishaps' = mishaps /\ torn = FALSE
      BY <1>1, <1>4
    <2>2. SUFFICES ASSUME mishaps = 0 PROVE ExactInv'
      BY <2>1 DEF ExactInv
    <2>3. /\ offset = EndOf(archive) /\ Exact(archive) /\ stateFile.lp = EndOf(archive)
          /\ holes \subseteq 0..(EndOf(archive) - 1)
      BY <1>2, <2>2 DEF ExactInv
    <2> DEFINE m == Member(offset, offset, FALSE)
    <2>4. /\ m \in Members /\ m.from = offset /\ m.to = offset /\ ~m.torn
          /\ m.data = offset..(offset - 1)
      <3>1. offset \in Int /\ size \in Nat /\ offset..(offset - 1) = {}
        BY <1>2 DEF IInv, TypeOK
      <3>2. m.data = {} /\ m.from = offset /\ m.to = offset /\ m.torn = FALSE
        BY <3>1 DEF Member
      <3> QED BY <1>2, <3>1, <3>2, MemberType DEF IInv
    <2> HIDE DEF m
    <2> DEFINE A == IF Gzip THEN Append(archive, m) ELSE archive
    <2>5. A \in Seq(Members) /\ Exact(A) /\ EndOf(A) = EndOf(archive)
      <3>1. CASE Gzip
        BY <1>2, <2>3, <2>4, <3>1, ExactAppend
      <3>2. CASE ~Gzip
        BY <1>2, <2>3, <3>2
      <3> QED BY <3>1, <3>2
    <2>6. archive' = Flushed(A, r)
      BY <1>1, <2>1 DEF m
    <2> HIDE DEF A
    <2>7. Exact(archive') /\ EndOf(archive') = EndOf(archive)
      BY <2>5, <2>6, ExactFlush
    <2> QED BY <1>2, <2>3, <2>7 DEF ExactInv, InChunk
  <1> QED BY <1>1, <1>3, <1>4

\* The steps of a chunk behind the append.
LEMMA ChunkingExact ==
    ASSUME IInv, ExactInv, Chunking PROVE ExactInv'
  <1>1. InChunk /\ InChunk' /\ pc' \notin {"idle", "load", "loop", "verify"}
        /\ UNCHANGED <<offset, end, mishaps>>
    BY ChunkingStep DEF InChunk
  <1>2. SUFFICES ASSUME mishaps = 0
                 PROVE  /\ Exact(archive') /\ EndOf(archive') = end
                        /\ holes' \subseteq 0..(end - 1)
    BY <1>1 DEF ExactInv
  <1>3. Exact(archive) /\ EndOf(archive) = end /\ holes \subseteq 0..(end - 1)
    BY <1>1, <1>2 DEF ExactInv
  <1>4. CASE SyncOutput
    <2>1. archive \in Seq(Members) /\ archive' = Flushed(archive, "safe") /\ holes' = holes
      BY <1>4 DEF SyncOutput, source, IInv, TypeOK
    <2> QED BY <1>3, <2>1, ExactFlush
  <1>5. CASE SaveArchived \/ SyncSource
    BY <1>3, <1>5 DEF SaveArchived, SyncSource, source
  <1>6. CASE Punch
    <2>1. archive' = archive /\ holes' = holes \cup (offset..(end - 1))
          /\ offset \in Nat /\ end \in Nat
      BY <1>6 DEF Punch, Release, IInv, TypeOK
    <2> QED BY <1>3, <2>1
  <1> QED BY <1>4, <1>5, <1>6 DEF Chunking

LEMMA NextExact == IInv /\ OffsetInv /\ ExactInv /\ [Next]_vars => ExactInv'
  <1> SUFFICES ASSUME IInv, OffsetInv, ExactInv, [Next]_vars PROVE ExactInv'
    OBVIOUS
  <1>0. TypeOK
    BY DEF IInv
  <1>1. CASE \/ AppendFails \/ SyncOutputFails \/ PunchFails \/ SyncSourceFails \/ SaveFails
             \/ Crash \/ PowerLoss \/ LoadUnreadable
             \/ WatchdogFires \/ CleanState \/ OtherArchives \/ OtherPunches
    BY <1>0, <1>1, MishapExact DEF AppendFails, SyncOutputFails, PunchFails, SyncSourceFails,
       SaveFails, Crash, PowerLoss, LoadUnreadable, WatchdogFires, CleanState,
       OtherArchives, OtherPunches, Mishap
  <1>2. CASE \/ GiveUp \/ LoadRefused \/ LoopError \/ VerifyOk \/ VerifyFails \/ VerifySkipped
             \/ LoopDone \/ LoopStop
    <2>1. /\ UNCHANGED <<archive, holes, stateFile>> /\ (mishaps' = 0 => mishaps = 0)
          /\ pc \in {"load", "loop", "verify"} /\ pc' \in {"idle", "verify"}
      BY <1>0, <1>2 DEF GiveUp, LoadRefused, LoopError, VerifyOk, VerifyFails, Mishap,
         VerifySkipped, LoopDone, LoopStop, Finish, source, files, TypeOK
    <2> QED BY <2>1 DEF ExactInv, InChunk
  <1>3. CASE LoadFresh
    <2>1. /\ UNCHANGED <<archive, holes, stateFile, mishaps, offset>>
          /\ pc = "load" /\ pc' = "loop" /\ stateFile.lp = 0 /\ offset = 0
      BY <1>3 DEF LoadFresh, source, files, local, NoState, OffsetInv
    <2> QED BY <2>1 DEF ExactInv, InChunk
  <1>4. CASE LoadResume
    <2>1. /\ UNCHANGED <<archive, holes, stateFile, mishaps>>
          /\ pc = "load" /\ pc' = "loop" /\ offset' = stateFile.lp
      BY <1>4 DEF LoadResume, ResumeOffset, source, files
    <2> QED BY <2>1 DEF ExactInv, InChunk
  <1>5. CASE AppendNothing
    BY <1>5, AppendNothingExact
  <1>6. CASE \E target \in 1..(cutoff - offset) : AppendChunk(target)
    BY <1>6, AppendChunkExact
  <1>7. CASE Chunking
    BY <1>7, ChunkingExact
  <1>8. CASE SavePunched
    <2>1. /\ UNCHANGED <<archive, holes, mishaps, end>> /\ pc = "savePunched" /\ pc' = "loop"
          /\ stateFile'.lp = job.lp /\ offset' = end /\ job.lp = end
      BY <1>8 DEF SavePunched, Save, source, IInv, ChunkInv
    <2> QED BY <2>1 DEF ExactInv, InChunk
  <1>9. CASE AppAppend \/ UNCHANGED vars
    <2>1. UNCHANGED <<archive, holes, stateFile, mishaps, pc, offset, end>>
      BY <1>9 DEF AppAppend, vars, source, files, local
    <2> QED BY <2>1 DEF ExactInv, InChunk
  <1>10. CASE \E keep \in Keeps, verify \in BOOLEAN : Start(keep, verify)
    <2>1. UNCHANGED <<archive, holes, stateFile, mishaps>> /\ pc = "idle" /\ pc' = "load"
      BY <1>10 DEF Start, source, files
    <2> QED BY <2>1 DEF ExactInv, InChunk
  <1> QED BY <1>1, <1>2, <1>3, <1>4, <1>5, <1>6, <1>7, <1>8, <1>9, <1>10
          DEF Next, RunStep, EnvStep, Chunking

LEMMA ExactInvariant == Spec => []ExactInv
  BY InitExact, NextExact, Invariant, OffsetInvariant, PTL DEF Spec

\* ExactCopy: without a mishap, any number of runs that are stopped, resumed or
\* ended early leave the log's prefix in the output, byte for byte and once.
THEOREM CopyIsExact == Spec => []ExactCopy
  <1>1. ExactInv => ExactCopy
    BY DEF ExactInv, Exact, ExactCopy
  <1> QED BY <1>1, ExactInvariant, PTL

\* Also a gzip reader gets every punched byte back when nothing went wrong: only
\* a mishap leaves a member cut short (what the run compact_torn shows).
THEOREM UndisturbedIsReadable == Spec => [](mishaps = 0 => PunchedReadable)
  <1>1. IInv /\ ExactInv => (mishaps = 0 => PunchedReadable)
    <2> SUFFICES ASSUME IInv, ExactInv, mishaps = 0
                 PROVE  holes \subseteq Readable \cup elsewhere
      BY DEF PunchedReadable
    <2>1. \A i \in DOMAIN archive : ~archive[i].torn
      BY DEF ExactInv, Exact
    <2>2. \A i \in DOMAIN archive : \A h \in 1..i : h \in DOMAIN archive
      BY DEF IInv, TypeOK
    <2>3. Safe \subseteq Readable \cup elsewhere
      BY <2>1, <2>2 DEF Safe, Copied, Readable, OnDisk
    <2> QED BY <2>3 DEF IInv, NoLoss
  <1> QED BY <1>1, Invariant, ExactInvariant, PTL

\* What the two results mean together for a run that nothing disturbed: it reports
\* "completed" only when every whole line below its cutoff is in the output, once and
\* in order, and released.
HasAll ==
    mishaps = 0 /\ stopReason = "completed" /\ outcome \in {"ok", "verified"} =>
        /\ Exact(archive)
        /\ \A p \in Newlines :
              p < cutoff => p < EndOf(archive) /\ 0..p \subseteq holes

\* A completed, undisturbed run has copied exactly and released all of its lines.
THEOREM CompletedRunHasAll == Spec => []HasAll
  <1>1. TypeOK /\ ExactInv /\ DoneInv => HasAll
    <2> SUFFICES ASSUME TypeOK, ExactInv, DoneInv, mishaps = 0, stopReason = "completed",
                        outcome \in {"ok", "verified"}
                 PROVE  /\ Exact(archive)
                        /\ \A p \in Newlines :
                              p < cutoff => p < EndOf(archive) /\ 0..p \subseteq holes
      BY DEF HasAll
    <2>1. Exact(archive) /\ holes \subseteq 0..(EndOf(archive) - 1) /\ AllReleased
      BY DEF ExactInv, DoneInv
    <2>2. EndOf(archive) \in Int
      <3>1. archive \in Seq(Members)
        BY DEF TypeOK
      <3>2. archive # <<>> => archive[Len(archive)] \in Members
        BY <3>1
      <3> QED BY <3>2 DEF EndOf, Members
    <2>3. ASSUME NEW p \in Newlines, p < cutoff
          PROVE  p < EndOf(archive) /\ 0..p \subseteq holes
      <3>1. 0..p \subseteq holes /\ p \in Nat
        BY <2>1, <2>3, LogAssumption DEF AllReleased
      <3>2. p \in 0..(EndOf(archive) - 1)
        BY <2>1, <3>1
      <3> QED BY <2>2, <3>1, <3>2
    <2> QED BY <2>1, <2>3
  <1> QED BY <1>1, TypeCorrect, ExactInvariant, DoneInvariant, PTL
=============================================================================
