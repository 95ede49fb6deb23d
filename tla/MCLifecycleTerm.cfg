CONSTANTS
    Malformed = Malformed
    Environments <- MCEnvironments
    MaxFailures = 6
SPECIFICATION Spec
PROPERTY TermIsHeard
CHECK_DEADLOCK FALSE
