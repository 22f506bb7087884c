SPECIFICATION Spec
CONSTANTS
    v1 = v1
    v2 = v2
    Standby = Standby
    Voters <- TwoVoters
    Recorders = {t1, t2}
    Ads = {a, b}
    Unreadable = Unreadable
    MaxCalls = 2
    MaxCrash = 1
SYMMETRY Symmetry
INVARIANTS
    TypeOK
    ListedOnce
    AnnouncedIsPersisted
    VotersTold
CHECK_DEADLOCK FALSE
