SPECIFICATION Spec
CONSTANTS
    Tools = {"walk", "get"}
    Offered <- MostOffered
    IdWords = {"missing"}
    MaxTries = 1
    MaxRequests = 2
INVARIANT NotFoundMeansMissing
