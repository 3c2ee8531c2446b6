----------------------------- MODULE MC_Budget ------------------------------
(***************************************************************************)
(* Small instances of Budget for TLC.  The free spaces lie at the smallest *)
(* one that lets a chunk begin at 30 and at 20 percent, and where the      *)
(* auto-throttle changes its mind.                                         *)
(***************************************************************************)
EXTENDS Budget

MCTotal == 64 * MiB
\* The cutoff at the end of a line, behind a part of one, and a range without lines.
MCTails == {0, 700, MCTotal}
MCFrees == {39 * MiB, 58 * MiB, 2 * GiB, 5 * GiB}
\* Idle, busy and overloaded; memory that is unreadable, a small machine half
\* used, a large one with plenty, with little, and with nearly nothing left.
MCLoads == {0, 70, 100, 150}
MCMemories == {[available |-> 0, total |-> 0], [available |-> 2048, total |-> 5120],
               [available |-> 4096, total |-> 8192], [available |-> 12288, total |-> 16384],
               [available |-> 2048, total |-> 16384], [available |-> 512, total |-> 16384]}
MCSpikes == {24 * MiB, -(600 * MiB)}
=============================================================================
