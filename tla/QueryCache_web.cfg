SPECIFICATION FairCacheSpec
CONSTANTS
    Keys = {"queue", "findings"}
    Resources = {"approvals", "findings"}
    ResourceOf <- ResourceOfKey
    Polled = {"queue"}
    Mutations = {"decide", "save"}
    Writes <- ResourceWritten
    Invalidates <- KeysInvalidated
    MaxVersion = 3
INVARIANTS
    CacheTypeOK
    SavedIsShown
PROPERTIES
    ShowsServer
    PolledCatchUp
CHECK_DEADLOCK FALSE
