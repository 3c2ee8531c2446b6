\* A preflight and two runs, in any order, on a machine that changes twice.
CONSTANTS
    Commands <- MCCommands
    Sizes <- MCSizes
    FirstMachines <- MCFirstMachines
    SizeLimit <- MCSizeLimit
    MaxCommands = 3
    MaxChanges = 2
SPECIFICATION Spec
INVARIANTS
    TypeOK
    PreflightKeepsItsWord
    FailsLateOnlyUnchecked
    Harmless
\* The operator stops.
CHECK_DEADLOCK FALSE
