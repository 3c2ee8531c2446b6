--------------------------- MODULE Watchdog_proofs --------------------------
(***************************************************************************)
(* Proofs about Watchdog for any number of chunks and any timeout: when a  *)
(* hang is noticed, that the emergency file is consistent, and how soon a  *)
(* run stops.                                                              *)
(***************************************************************************)
EXTENDS Watchdog, TLAPS

\* While the watchdog waits, the inactivity it has not seen yet is at most what
\* passed since its last tick.
TimeInv ==
    /\ wpc = "wait" /\ ~requested => age <= 2 * Half + phase
    /\ wpc = "gone" => requested \/ closed

\* How the offsets of the loop are ordered at each of its calls.
InChunk == {"stopper", "begin", "append", "saveArchived", "punch", "sync",
            "savePunched"}
OffsetInv ==
    /\ pc \in InChunk => offset < Chunks
    /\ pc \notin {"savePunched", "exited"} => lp = offset
    /\ pc = "savePunched" => lp = offset + 1
    /\ pc \in {"saveArchived", "punch", "sync"} => la = offset + 1
    /\ wOffset <= offset /\ offset <= lp /\ lp <= la /\ la <= most

\* What the watchdog has read so far fits together, and stays below what the
\* loop has reached.
NoteInv ==
    /\ wpc \in Writing => note.at <= lp
    /\ wpc \in Writing \ {"punched"} => note.at <= note.lp /\ note.lp <= lp
    /\ wpc \in {"write", "close"} => note.lp <= note.la /\ note.la <= most

\* The one chunk that may still begin is begun from a loop head that looked
\* before the request.
StopInv ==
    /\ begun <= 1
    /\ begun = 1 => requested \/ closed
    /\ pc = "begin" => begun = 0
    /\ pc = "stopper" /\ begun = 1 => requested

WInv == TypeOK /\ TimeInv /\ OffsetInv /\ NoteInv /\ EmergencyConsistent /\ StopInv

LEMMA InitWInv == Init => WInv
  <1> SUFFICES ASSUME Init PROVE WInv
    OBVIOUS
  <1> USE ChunksAssumption, TimeoutAssumption DEF Init
  <1>1. TypeOK
    <2>1. note \in Notes /\ emergency \in Notes \cup {NoFile}
      BY DEF Notes
    <2>2. /\ offset \in 0..Chunks /\ lp \in 0..Chunks /\ la \in 0..Chunks
          /\ wOffset \in 0..Chunks /\ begun \in 0..Chunks /\ most \in 0..Chunks
      OBVIOUS
    <2>3. age \in 0..MaxAge /\ phase \in 0..Half
      OBVIOUS
    <2> QED BY <2>1, <2>2, <2>3 DEF TypeOK
  <1>2. TimeInv /\ OffsetInv /\ NoteInv /\ EmergencyConsistent /\ StopInv
    BY DEF TimeInv, OffsetInv, InChunk, NoteInv, Writing, EmergencyConsistent, StopInv
  <1> QED BY <1>1, <1>2 DEF WInv

\* The steps of the loop leave the watchdog alone.
LEMMA LoopStepWInv == ASSUME WInv, LoopStep PROVE WInv'
  <1> USE ChunksAssumption, TimeoutAssumption
      DEF WInv, TypeOK, Goto, Exit, Bump, time, watch, history
  <1>1. CASE Head
    <2> USE <1>1 DEF Head, WatchdogDone
    <2>1. TypeOK'
      BY DEF Notes
    <2>2. TimeInv'
      BY DEF TimeInv
    <2>3. OffsetInv'
      BY DEF OffsetInv, InChunk
    <2>4. NoteInv' /\ EmergencyConsistent'
      BY DEF NoteInv, EmergencyConsistent
    <2>5. StopInv'
      BY DEF StopInv
    <2> QED BY <2>1, <2>2, <2>3, <2>4, <2>5
  <1>2. CASE LoopDone \/ Stopper \/ EndAtHead \/ AppendEnds \/ SaveFails \/ Pace \/ Verify
    <2> USE <1>2 DEF LoopDone, Stopper, EndAtHead, AppendEnds, SaveFails, Pace, Verify
    <2>1. UNCHANGED <<offset, lp, la, age, phase, wpc, note, closed, wOffset,
                      emergency, requested, begun, most>>
      OBVIOUS
    <2>2. TypeOK'
      BY <2>1
    <2>3. TimeInv' /\ NoteInv' /\ EmergencyConsistent'
      BY <2>1 DEF TimeInv, NoteInv, EmergencyConsistent
    <2>4. OffsetInv'
      BY DEF OffsetInv, InChunk
    <2>5. StopInv'
      BY DEF StopInv
    <2> QED BY <2>2, <2>3, <2>4, <2>5
  <1>3. CASE Begin
    <2> USE <1>3 DEF Begin
    <2>1. begun = 0 /\ Chunks >= 1
      BY DEF StopInv, OffsetInv, InChunk
    <2>2. TypeOK'
      BY <2>1
    <2>3. TimeInv' /\ NoteInv' /\ EmergencyConsistent'
      BY DEF TimeInv, NoteInv, EmergencyConsistent
    <2>4. OffsetInv'
      BY DEF OffsetInv, InChunk
    <2>5. StopInv'
      BY <2>1 DEF StopInv
    <2> QED BY <2>2, <2>3, <2>4, <2>5
  <1>4. CASE Append
    <2> USE <1>4 DEF Append, ArchivedNow
    <2>1. TypeOK'
      BY DEF OffsetInv, InChunk
    <2>2. most <= most'
      OBVIOUS
    <2>3. TimeInv' /\ NoteInv' /\ EmergencyConsistent'
      BY <2>2 DEF TimeInv, NoteInv, EmergencyConsistent, Notes, Writing
    <2>4. OffsetInv'
      BY DEF OffsetInv, InChunk
    <2>5. StopInv'
      BY DEF StopInv
    <2> QED BY <2>1, <2>3, <2>4, <2>5
  <1>5. CASE SaveArchived \/ Punch
    <2> USE <1>5 DEF SaveArchived, Punch
    <2>1. TypeOK'
      OBVIOUS
    <2>2. TimeInv' /\ NoteInv' /\ EmergencyConsistent'
      BY DEF TimeInv, NoteInv, EmergencyConsistent
    <2>3. OffsetInv'
      BY DEF OffsetInv, InChunk
    <2>4. StopInv'
      BY DEF StopInv
    <2> QED BY <2>1, <2>2, <2>3, <2>4
  <1>6. CASE Sync
    <2> USE <1>6 DEF Sync
    <2>1. TypeOK'
      BY DEF OffsetInv, InChunk
    <2>2. lp <= lp'
      BY DEF OffsetInv, InChunk
    <2>3. TimeInv' /\ NoteInv' /\ EmergencyConsistent'
      BY <2>2 DEF TimeInv, NoteInv, EmergencyConsistent, Notes, Writing
    <2>4. OffsetInv'
      BY DEF OffsetInv, InChunk
    <2>5. StopInv'
      BY DEF StopInv
    <2> QED BY <2>1, <2>3, <2>4, <2>5
  <1>7. CASE PunchOrSyncFails
    <2> USE <1>7 DEF PunchOrSyncFails
    <2> DEFINE e == [at |-> offset, lp |-> lp, la |-> la]
    <2>1. e \in Notes /\ e.at = offset /\ e.lp = lp /\ e.la = la
      BY DEF Notes
    <2>2. emergency' \in {emergency, e}
      OBVIOUS
    <2> HIDE DEF e
    <2>3. TypeOK'
      BY <2>1, <2>2
    <2>4. EmergencyConsistent'
      BY <2>1, <2>2 DEF EmergencyConsistent, OffsetInv, InChunk
    <2>5. TimeInv' /\ NoteInv' /\ OffsetInv' /\ StopInv'
      BY DEF TimeInv, NoteInv, OffsetInv, InChunk, StopInv
    <2> QED BY <2>3, <2>4, <2>5
  <1>8. CASE SavePunched
    <2> USE <1>8 DEF SavePunched
    <2>1. TypeOK'
      BY DEF OffsetInv, InChunk
    <2>2. TimeInv' /\ NoteInv' /\ EmergencyConsistent'
      BY DEF TimeInv, NoteInv, EmergencyConsistent
    <2>3. OffsetInv'
      BY DEF OffsetInv, InChunk
    <2>4. StopInv'
      BY DEF StopInv
    <2> QED BY <2>1, <2>2, <2>3, <2>4
  <1> QED BY <1>1, <1>2, <1>3, <1>4, <1>5, <1>6, <1>7, <1>8 DEF LoopStep

\* The steps of the watchdog leave the loop alone.
LEMMA WatchStepWInv == ASSUME WInv, WatchStep PROVE WInv'
  <1> USE ChunksAssumption, TimeoutAssumption DEF WInv, TypeOK, loop, time, watch, history
  <1>1. CASE Tick
    <2> USE <1>1 DEF Tick, Period, Overdue
    <2>1. UNCHANGED <<pc, offset, lp, la, code, age, closed, wOffset, emergency,
                      requested, begun, most>>
      OBVIOUS
    <2>2. note' \in Notes /\ (wpc' = "punched" => note'.at = wOffset)
      BY DEF Notes
    <2>3. wpc' \in {"wait", "gone", "punched"}
      OBVIOUS
    <2>4. TypeOK'
      BY <2>1, <2>2, <2>3 DEF Writing
    <2>5. TimeInv'
      BY DEF TimeInv
    <2>6. NoteInv'
      BY <2>1, <2>2, <2>3 DEF NoteInv, Writing, OffsetInv
    <2>7. OffsetInv' /\ StopInv' /\ EmergencyConsistent'
      BY <2>1 DEF OffsetInv, StopInv, EmergencyConsistent
    <2> QED BY <2>4, <2>5, <2>6, <2>7
  <1>2. CASE ReadPunched \/ ReadArchived
    <2> USE <1>2 DEF ReadPunched, ReadArchived
    <2>1. UNCHANGED <<pc, offset, lp, la, code, age, phase, closed, wOffset,
                      emergency, requested, begun, most>>
      OBVIOUS
    <2>2. note' \in Notes
      BY DEF Notes
    <2>3. TypeOK'
      BY <2>1, <2>2 DEF Writing
    <2>4. NoteInv'
      BY <2>1 DEF NoteInv, Writing, OffsetInv, Notes
    <2>5. TimeInv' /\ OffsetInv' /\ StopInv' /\ EmergencyConsistent'
      BY <2>1 DEF TimeInv, OffsetInv, StopInv, EmergencyConsistent
    <2> QED BY <2>3, <2>4, <2>5
  <1>3. CASE Write \/ Close
    <2> USE <1>3 DEF Write, Close
    <2>1. UNCHANGED <<pc, offset, lp, la, code, age, phase, note, wOffset, requested,
                      begun, most>>
      OBVIOUS
    <2>2. TypeOK'
      BY <2>1 DEF Writing
    <2>3. EmergencyConsistent'
      BY <2>1 DEF EmergencyConsistent, NoteInv, Writing
    <2>4. TimeInv' /\ NoteInv' /\ OffsetInv' /\ StopInv'
      BY <2>1 DEF TimeInv, NoteInv, OffsetInv, StopInv, Writing
    <2> QED BY <2>2, <2>3, <2>4
  <1> QED BY <1>1, <1>2, <1>3 DEF WatchStep

LEMMA NextWInv == WInv /\ [Next]_vars => WInv'
  <1> SUFFICES ASSUME WInv, [Next]_vars PROVE WInv'
    OBVIOUS
  <1> USE ChunksAssumption, TimeoutAssumption
  <1>1. CASE Pass
    <2> USE <1>1 DEF Pass, Period, loop, watch, history
    <2>1. TypeOK'
      BY DEF WInv, TypeOK
    <2>2. TimeInv'
      BY DEF WInv, TypeOK, TimeInv
    <2>3. OffsetInv' /\ NoteInv' /\ EmergencyConsistent' /\ StopInv'
      BY DEF WInv, OffsetInv, NoteInv, EmergencyConsistent, StopInv
    <2> QED BY <2>1, <2>2, <2>3 DEF WInv
  <1>2. CASE Signal
    BY <1>2 DEF Signal, loop, time, watch, history, WInv, TypeOK, TimeInv, OffsetInv,
                NoteInv, EmergencyConsistent, StopInv
  <1>3. CASE UNCHANGED vars
    BY <1>3 DEF vars, loop, time, watch, history, WInv, TypeOK, TimeInv, OffsetInv,
                NoteInv, EmergencyConsistent, StopInv
  <1> QED BY <1>1, <1>2, <1>3, LoopStepWInv, WatchStepWInv DEF Next

LEMMA WInvariant == Spec => []WInv
  BY InitWInv, NextWInv, PTL DEF Spec

\* Type correctness of the loop, the watchdog and the clock.
THEOREM WatchdogTypeCorrect == Spec => []TypeOK
  <1>1. WInv => TypeOK
    BY DEF WInv
  <1> QED BY <1>1, WInvariant, PTL

\* With a ticker of half the timeout, no hang is longer than one and a half
\* timeouts before the watchdog writes the emergency file, unless a stop was
\* requested: for any timeout and any number of chunks.
THEOREM HangIsNoticed == Spec => []HangNoticed
  <1>1. WInv => HangNoticed
    BY TimeoutAssumption DEF WInv, TypeOK, TimeInv, HangNoticed, Caught, Writing
  <1> QED BY <1>1, WInvariant, PTL

\* The emergency file is consistent, whatever the loop does while the watchdog
\* reads the job state field by field.
THEOREM EmergencyFileConsistent == Spec => []EmergencyConsistent
  <1>1. WInv => EmergencyConsistent
    BY DEF WInv
  <1> QED BY <1>1, WInvariant, PTL

\* A run begins at most one chunk after a stop request or a timeout.
THEOREM RunStopsSoon == Spec => []StopsSoon
  <1>1. WInv => StopsSoon
    BY DEF WInv, StopInv, StopsSoon
  <1> QED BY <1>1, WInvariant, PTL
=============================================================================
