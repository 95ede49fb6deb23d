CONSTANTS
    MaxVersion = 1
    PipeSize = 1
    MayAnswerBlank = FALSE
SPECIFICATION Spec
PROPERTY
    RefreshReachesServer
