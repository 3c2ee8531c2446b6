\* Four commands with two failures, kills or repairs.
CONSTANTS
    FirstVersion = 3
    Overrides <- MCOverrides
    MaxCommands = 4
    MaxFaults = 2
SPECIFICATION Spec
INVARIANTS
    TypeOK
    BumpAgrees
    PackagesAgree
    DistComplete
    SumsMatch
    InstalledAsSaid
PROPERTIES
    VersionsGrow
\* The developer stops.
CHECK_DEADLOCK FALSE
