CONSTANTS
    MaxSize = 2
    MaxAge = 1
    MaxLines = 5
    MaxSeconds = 3
    Ids = {"RequestID"}
    Labels = {"TenantID"}
    Keys = {"tool"}
    Values = {va, vb}
    MaxLoggers = 4
    MaxRequests = 2
SPECIFICATION TelemetrySpec
SYMMETRY Symmetry
INVARIANTS
    LossHasACause
    FilesAreBounded
    LineIsItsDerivation
