CONSTANTS
    Uploaders = {pc, phone}
    None = None
    Size = 5
    ChunkSize = 2
    Window = 2
    MaxCrashes = 1
    MaxFaults = 1
SPECIFICATION FairSpec
INVARIANTS
    PartIsPrefix
    PublishedIsWhole
PROPERTIES
    UploadSucceeds
CHECK_DEADLOCK FALSE
