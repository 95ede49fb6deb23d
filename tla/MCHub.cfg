CONSTANTS
    Publishers <- MCPublishers
    Names <- MCNames
    Readers <- MCReaders
    Schemas <- MCSchemas
    Requests <- MCRequests
    Tools <- MCNames
    Entries <- HubEntries
    Agents = {"a"}
    Contexts <- HubContexts
    Rules <- HubRules
    AdmitsAll = FALSE
    MayErr = TRUE
    MaxSeen = 3
SPECIFICATION HubSpec
INVARIANTS
    IndicesAgree
    ListedAtOneInstant
PROPERTIES
    RefusalsChangeNothing
    OnlyOwnerWithdraws
    ViewsAreIsolated
    IsCatalogue
