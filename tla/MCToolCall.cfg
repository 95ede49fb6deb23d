SPECIFICATION Spec
CONSTANTS
    Tools <- OneOfEachKind
    Offered <- MostOffered
    IdWords = {}
    MaxTries = 2
    MaxRequests = 2
INVARIANT SuccessIsWhole
INVARIANT RedCostsOneCall
PROPERTY EveryCallEnds
PROPERTY IsAtMostOnce
