\* Two accounts of one identity, a bad credential and a reconfiguration.
SPECIFICATION Spec
CONSTANTS
    Calls = {p1, p2}
    Auths = {a1, a2}
    Creds = {c1, bad}
    BadCreds = {bad}
    Identities = {i1}
    IdentityOf <- SameIdentity
    StoreAvailable = TRUE
    SaveOutcomes <- AnySave
    MaxConfig = 1
    MaxMarks = 1
INVARIANTS
    ServedCatalogWasSaved
    ReturnsFinalUnlessReplaced
PROPERTIES
    CallsReturn
    LateCallsDoNotPublish
    CatalogNeverRegresses
CHECK_DEADLOCK FALSE
