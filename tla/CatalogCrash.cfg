SPECIFICATION Spec
CONSTANTS
    Writers = {w1, w2}
    Readers = {}
    Indices = {1, 2}
    keep = 1
    MaxFaults = 1
    PowerLoss = FALSE
    Absent = Absent
    Partial = Partial
    Mixed = Mixed
SYMMETRY Symmetry
INVARIANTS
    CrashKeepsServed
CHECK_DEADLOCK FALSE
