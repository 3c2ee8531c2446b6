----------------------------- MODULE MC_Release -----------------------------
(***************************************************************************)
(* A small instance of Release for TLC.                                    *)
(***************************************************************************)
EXTENDS Release

MCOverrides == {9}
=============================================================================
