SPECIFICATION Spec
CONSTANTS
    Payloads <- VoterPayloads
    Configs <- HotConfigs
    Keep = 1
    BuildEvery = 2
    PeerInstalls = FALSE
    UserInstalls = "none"
    WriteFails = FALSE
    MaxLog = 3
    MaxInstalls = 0
    MaxCrash = 1
INVARIANTS
    RestartRebuilds
CHECK_DEADLOCK FALSE
