------------------------------ MODULE MC_Start ------------------------------
(***************************************************************************)
(* Small instances of Start for TLC: the plain form of every command, and  *)
(* one command line for every way an option can be wrong or matter.        *)
(***************************************************************************)
EXTENDS Start

Run == [mode |-> "run", usage |-> TRUE, output |-> "other", keep |-> NotGiven,
        stopAbove |-> NotGiven, verify |-> "full", gzip |-> TRUE, force |-> FALSE,
        logFile |-> "usable"]

Text(hundredths, unit) == [hundredths |-> hundredths, unit |-> unit]

MCSizes == {0, 5, 12}
Plain ==
    [source |-> "file", size |-> 12, readable |-> TRUE, writable |-> TRUE,
     punchable |-> TRUE, targetPunchable |-> TRUE,
     dirs |-> [d \in Dirs |-> "missing"], files |-> [d \in Dirs |-> "absent"],
     locked |-> FALSE, free |-> "plenty"]
MCFirstMachines == {Plain}
MCSizeLimit == 64
MCCommands ==
    {Run, [Run EXCEPT !.mode = "preflight"], [Run EXCEPT !.mode = "dryRun"],
     [Run EXCEPT !.output = "source"],
     [Run EXCEPT !.output = "source", !.mode = "preflight"],
     [Run EXCEPT !.usage = FALSE], [Run EXCEPT !.logFile = "blocked"],
     [Run EXCEPT !.verify = "maybe"],
     [Run EXCEPT !.gzip = FALSE], [Run EXCEPT !.gzip = FALSE, !.force = TRUE],
     \* 2.5 units of two bytes, a size that is too large, half a byte, "-1"
     [Run EXCEPT !.keep = Text(250, 2)], [Run EXCEPT !.keep = Text(6400, 1)],
     [Run EXCEPT !.stopAbove = Text(50, 1)], [Run EXCEPT !.keep = Text(-100, 1)]}
=============================================================================
