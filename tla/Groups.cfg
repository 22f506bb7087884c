SPECIFICATION Spec
CONSTANTS
    Members = {n1, n2}
    Standbys = {s1}
    Groups = {g1, g2}
    Callers = {c1, c2}
    Configs <- AllConfigs
    Overlap = FALSE
    MaxFaults = 1
    MaxStarts = 4
    MaxRafts = 3
SYMMETRY Symmetry
INVARIANTS
    TypeOK
    OneRaftPerGroup
    ShutdownIsComplete
    InitializedOnce
    CreatedIsInitialized
CHECK_DEADLOCK FALSE
