SPECIFICATION Spec
CONSTANTS
    Payloads <- AllPayloads
    Configs <- AllConfigs
    Keep = 1
    BuildEvery = 2
    PeerInstalls = TRUE
    UserInstalls = "recovery"
    WriteFails = TRUE
    MaxLog = 3
    MaxInstalls = 1
    MaxCrash = 1
CONSTRAINT ShortLog
INVARIANTS
    TypeOK
    SnapshotsCatchUp
    CaughtUpAgrees
    HotSnapshotExact
    PurgedIsCovered
    AdvertisedIsServed
CHECK_DEADLOCK FALSE
