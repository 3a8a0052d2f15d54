CONSTANTS
    Mine = {m1}
    Theirs = {t1}
    None = None
    PageSize = 1
    MaxIncidents = 1
    MaxRetries = 1
SPECIFICATION FairSpec
INVARIANTS
    SyncIsComplete
    OneRowPerMessage
    ErasedStaysErased
PROPERTIES
    NothingWaitsForever
    CatchesUp
