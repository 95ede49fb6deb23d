CONSTANTS
    Malformed = Malformed
    Environments <- MCEnvironments
    MaxFailures = 6
SPECIFICATION Spec
INVARIANT BadTelemetryIsRefused
CHECK_DEADLOCK FALSE
