----------------------------- MODULE MC_Compact -----------------------------
(***************************************************************************)
(* Small instances of Compact for TLC.  The log has a newline at positions *)
(* 1 and 3: one line of two bytes, one of two, and a line that is never    *)
(* finished.                                                               *)
(***************************************************************************)
EXTENDS Compact

MCNewlines == {1, 3}
MCInitSizes == {1, 5}
=============================================================================
