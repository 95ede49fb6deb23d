CONSTANTS
    MaxVersion = 1
    PipeSize = 1
    MayAnswerBlank = TRUE
SPECIFICATION Spec
INVARIANTS
    StaleClientWillRelist
    ContractFollowsOffer
PROPERTIES
    OnlyOverlapGoesBack
    HupPublishesRecent
    ClientCatchesUp
