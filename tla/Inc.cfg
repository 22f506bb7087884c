SPECIFICATION Spec
CONSTANTS
    Nodes = {n1, n2}
    Ops = {o1, o2}
    IdemSpace = 4
    MaxRestart = 1
SYMMETRY Symmetry
INVARIANTS
    TypeOK
    AckedIsCounted
    CountedOnce
CHECK_DEADLOCK FALSE
