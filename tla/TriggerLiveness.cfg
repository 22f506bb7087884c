SPECIFICATION FairSpec
CONSTANTS
    Payloads <- StandbyPayloads
    Configs <- StandbyConfigs
    Keep = 1
    BuildEvery = 2
    PeerInstalls = TRUE
    UserInstalls = "none"
    WriteFails = FALSE
    MaxLog = 3
    MaxInstalls = 0
    MaxCrash = 2
PROPERTY
    TriggersCovered
CHECK_DEADLOCK FALSE
