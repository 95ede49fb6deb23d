CONSTANTS
    Malformed = Malformed
    Environments <- MCEnvironments
    MaxFailures = 6
SPECIFICATION Spec
INVARIANTS
    AcceptedConfigWires
    LoadKeepsProbeSchedule
    StartupIsNeverCancelled
PROPERTIES
    StartupEnds
    TermStops
\* The process ends.
CHECK_DEADLOCK FALSE
