------------------------------ MODULE Watchdog ------------------------------
(***************************************************************************)
(* The three goroutines of a run: the chunk loop of compact.Run, the       *)
(* watchdog of startWatchdog, and the control.Stopper that turns a signal  *)
(* into a flag.  They share the time of the last activity, the stop flag,  *)
(* the channel the watchdog closes and, without a lock, the job state.     *)
(*                                                                         *)
(* Offsets count chunks.  Time passes in units; the chunk timeout is       *)
(* 2 * Half of them and the watchdog's ticker fires every Half.            *)
(***************************************************************************)
EXTENDS Integers

CONSTANTS
    Chunks,   \* chunks below the cutoff
    Half,     \* half the chunk timeout
    MaxAge    \* bound: inactivity longer than this is not told apart

ASSUME ChunksAssumption == Chunks \in Nat
ASSUME TimeoutAssumption == Half \in Nat \ {0} /\ MaxAge \in Nat /\ MaxAge > 3 * Half

VARIABLES
    \* --- the chunk loop
    pc,          \* the call it is in
    offset,      \* start of the current chunk
    lp, la,      \* LastPunchedOffset, LastArchivedOffset of jobState
    code,        \* result of Run
    \* --- time
    age,         \* since lastActivity
    phase,       \* since the last tick was taken
    \* --- the watchdog
    wpc,         \* where it is
    note,        \* the fields it has read for the emergency file
    wOffset,     \* the offset it shares with the loop
    closed,      \* it closed the channel the loop looks at
    emergency,   \* the emergency file
    \* --- the stopper
    requested,
    \* --- history
    begun,       \* chunks begun after a stop request or a timeout
    most         \* the highest offset that was ever archived

loop   == <<pc, offset, lp, la, code>>
time   == <<age, phase>>
watch  == <<wpc, note, closed>>
history == <<begun, most>>
vars == <<loop, time, watch, wOffset, emergency, requested, history>>

NoFile == [at |-> -1, lp |-> 0, la |-> 0]
Notes == [at : Nat, lp : Nat, la : Nat]
Writing == {"punched", "archived", "write", "close"}

TypeOK ==
    /\ pc \in {"head", "stopper", "begin", "append", "saveArchived", "punch",
               "sync", "savePunched", "pace", "verify", "exited"}
    /\ offset \in 0..Chunks /\ lp \in 0..Chunks /\ la \in 0..Chunks
    /\ code \in {"none", "ok", "error"}
    /\ age \in 0..MaxAge
    /\ phase \in 0..Half
    /\ wpc \in {"wait", "gone"} \cup Writing
    /\ note \in Notes
    /\ wOffset \in 0..Chunks
    /\ closed \in BOOLEAN
    /\ emergency \in Notes \cup {NoFile}
    /\ requested \in BOOLEAN
    /\ begun \in 0..Chunks /\ most \in 0..Chunks

-----------------------------------------------------------------------------
\* The chunk loop

Goto(label) == pc' = label /\ UNCHANGED code
Exit(how) == pc' = "exited" /\ code' = how

\* bumpActivity.
Bump == age' = 0 /\ UNCHANGED phase

\* Faulty variant: the closed channel is not looked at.
Unseen == FALSE

\* The non-blocking receive from the watchdog's channel.
WatchdogDone == closed

\* The loop head: activity, then the watchdog's channel.
Head ==
    /\ pc = "head"
    /\ offset < Chunks
    /\ Bump
    /\ IF WatchdogDone THEN Exit("error") ELSE Goto("stopper")
    /\ UNCHANGED <<offset, lp, la, watch, wOffset, emergency, requested, history>>

LoopDone ==
    /\ pc = "head"
    /\ offset = Chunks
    /\ Goto("verify")
    /\ UNCHANGED <<offset, lp, la, time, watch, wOffset, emergency, requested, history>>

Stopper ==
    /\ pc = "stopper"
    /\ Goto(IF requested THEN "verify" ELSE "begin")
    /\ UNCHANGED <<offset, lp, la, time, watch, wOffset, emergency, requested, history>>

\* The other checks of the loop head end the run or let the chunk begin.
EndAtHead ==
    /\ pc = "begin"
    /\ Goto("verify") \/ Exit("error")
    /\ UNCHANGED <<offset, lp, la, time, watch, wOffset, emergency, requested, history>>

Begin ==
    /\ pc = "begin"
    /\ Bump
    /\ Goto("append")
    /\ begun' = IF requested \/ closed THEN begun + 1 ELSE begun
    /\ UNCHANGED <<offset, lp, la, watch, wOffset, emergency, requested, most>>

\* Faulty variants: the archived offset lags behind, or runs ahead.
ArchivedBefore == la
ArchivedNext == offset + 2

\* The append returns the end of the chunk, which is noted in jobState.
ArchivedNow == offset + 1
Append ==
    /\ pc = "append"
    /\ la' = ArchivedNow
    /\ most' = IF offset + 1 > most THEN offset + 1 ELSE most
    /\ Goto("saveArchived")
    /\ UNCHANGED <<offset, lp, time, watch, wOffset, emergency, requested, begun>>

\* Nothing was left to append, or the append failed.
AppendEnds ==
    /\ pc = "append"
    /\ Goto("verify") \/ Exit("error")
    /\ UNCHANGED <<offset, lp, la, time, watch, wOffset, emergency, requested, history>>

SaveArchived ==
    /\ pc = "saveArchived"
    /\ Bump
    /\ Goto("punch")
    /\ UNCHANGED <<offset, lp, la, watch, wOffset, emergency, requested, history>>

Punch ==
    /\ pc = "punch"
    /\ Bump
    /\ Goto("sync")
    /\ UNCHANGED <<offset, lp, la, watch, wOffset, emergency, requested, history>>

Sync ==
    /\ pc = "sync"
    /\ Bump
    /\ lp' = offset + 1
    /\ Goto("savePunched")
    /\ UNCHANGED <<offset, la, watch, wOffset, emergency, requested, history>>

\* The punch or the sync failed: the loop writes the emergency file itself,
\* perhaps while the watchdog does.
PunchOrSyncFails ==
    /\ pc \in {"punch", "sync"}
    /\ emergency' \in {emergency, [at |-> offset, lp |-> lp, la |-> la]}
    /\ Exit("error")
    /\ UNCHANGED <<offset, lp, la, time, watch, wOffset, requested, history>>

SaveFails ==
    /\ pc \in {"saveArchived", "savePunched"}
    /\ Exit("error")
    /\ UNCHANGED <<offset, lp, la, time, watch, wOffset, emergency, requested, history>>

SavePunched ==
    /\ pc = "savePunched"
    /\ offset' = offset + 1
    /\ wOffset' = offset + 1
    /\ Goto("pace")
    /\ UNCHANGED <<lp, la, time, watch, emergency, requested, history>>

\* applyPacing sleeps; the sleep counts as inactivity.
Pace ==
    /\ pc = "pace"
    /\ Goto("head")
    /\ UNCHANGED <<offset, lp, la, time, watch, wOffset, emergency, requested, history>>

\* The verification, if any, counts as inactivity as well.
Verify ==
    /\ pc = "verify"
    /\ Exit("ok") \/ Exit("error")
    /\ UNCHANGED <<offset, lp, la, time, watch, wOffset, emergency, requested, history>>

-----------------------------------------------------------------------------
\* The watchdog

\* Faulty variant: the ticker fires once per timeout.
WholePeriod == 2 * Half

Period == Half

Overdue == age > 2 * Half

\* One tick: a watchdog that sees a stop request goes away for good.
Tick ==
    /\ pc # "exited"
    /\ wpc = "wait"
    /\ phase = Period
    /\ phase' = 0
    /\ \/ requested /\ wpc' = "gone" /\ UNCHANGED note
       \/ ~requested /\ ~Overdue /\ UNCHANGED <<wpc, note>>
       \/ /\ ~requested /\ Overdue
          /\ wpc' = "punched"
          /\ note' = [note EXCEPT !.at = wOffset]
    /\ UNCHANGED <<loop, age, closed, wOffset, emergency, requested, history>>

\* writeEmergency reads the fields of the job state one by one, while the loop
\* may go on.
ReadPunched ==
    /\ pc # "exited"
    /\ wpc = "punched"
    /\ note' = [note EXCEPT !.lp = lp]
    /\ wpc' = "archived"
    /\ UNCHANGED <<loop, time, closed, wOffset, emergency, requested, history>>

ReadArchived ==
    /\ pc # "exited"
    /\ wpc = "archived"
    /\ note' = [note EXCEPT !.la = la]
    /\ wpc' = "write"
    /\ UNCHANGED <<loop, time, closed, wOffset, emergency, requested, history>>

\* An error of the write is ignored.
Write ==
    /\ pc # "exited"
    /\ wpc = "write"
    /\ emergency' \in {emergency, note}
    /\ wpc' = "close"
    /\ UNCHANGED <<loop, time, note, closed, wOffset, requested, history>>

Close ==
    /\ pc # "exited"
    /\ wpc = "close"
    /\ closed' = TRUE
    /\ wpc' = "gone"
    /\ UNCHANGED <<loop, time, note, wOffset, emergency, requested, history>>

-----------------------------------------------------------------------------
\* Time and signals

\* Time passes, but a tick that is due is taken first: the watchdog is not
\* starved while it waits.
Pass ==
    /\ pc # "exited"
    /\ wpc = "wait" => phase < Period
    /\ age' = IF age < MaxAge THEN age + 1 ELSE age
    /\ phase' = IF phase < Period THEN phase + 1 ELSE phase
    /\ UNCHANGED <<loop, watch, wOffset, emergency, requested, history>>

\* SIGINT or SIGTERM reaches the stopper.  Later signals change nothing.
Signal ==
    /\ pc # "exited"
    /\ ~requested
    /\ requested' = TRUE
    /\ UNCHANGED <<loop, time, watch, wOffset, emergency, history>>

-----------------------------------------------------------------------------

\* A run starts at the punched offset of the state it resumes, where more may be
\* archived already; wOffset starts at 0 all the same.
Init ==
    /\ pc = "head" /\ code = "none"
    /\ offset \in 0..Chunks /\ lp = offset
    /\ la \in offset..Chunks
    /\ age = 0 /\ phase = 0
    /\ wpc = "wait" /\ note = [at |-> 0, lp |-> 0, la |-> 0]
    /\ wOffset = 0 /\ closed = FALSE /\ emergency = NoFile
    /\ requested = FALSE
    /\ begun = 0 /\ most = la

LoopStep ==
    \/ Head \/ LoopDone \/ Stopper \/ EndAtHead \/ Begin
    \/ Append \/ AppendEnds \/ SaveArchived \/ Punch \/ Sync
    \/ PunchOrSyncFails \/ SaveFails \/ SavePunched \/ Pace \/ Verify

WatchStep == Tick \/ ReadPunched \/ ReadArchived \/ Write \/ Close

Next == LoopStep \/ WatchStep \/ Pass \/ Signal

Spec == Init /\ [][Next]_vars

-----------------------------------------------------------------------------
\* Properties

Caught == wpc \in Writing \/ closed

\* A chunk that hangs is noticed: after one and a half timeouts without
\* activity the watchdog is writing the emergency file or has written it,
\* unless a stop was requested: then nothing watches the last chunk any more.
HangNoticed ==
    age > 3 * Half /\ pc # "exited" /\ ~requested => Caught

\* The emergency file is consistent although it is read field by field from a
\* job state that the loop is changing: the chunk starts at or below what is
\* punched, which is at or below what is archived, and nothing is claimed that
\* the loop has not done.
EmergencyConsistent ==
    emergency # NoFile =>
        /\ emergency.at <= emergency.lp
        /\ emergency.lp <= emergency.la
        /\ emergency.lp <= lp /\ emergency.la <= most

\* After a stop request, or after the watchdog gave up, at most one more chunk
\* is begun: the one whose loop head had just looked.
StopsSoon == begun <= 1

\* A run whose watchdog gave up does not end as a success ("logcut writes an
\* emergency state file and exits with code 3").
TimeoutIsFailure == pc = "exited" /\ closed => code = "error"
=============================================================================
