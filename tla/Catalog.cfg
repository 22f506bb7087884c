SPECIFICATION InUse
CONSTANTS
    Writers = {w1, w2, w3}
    Readers = {r1}
    Indices = {1, 2}
    keep = 1
    MaxFaults = 2
    PowerLoss = TRUE
    Absent = Absent
    Partial = Partial
    Mixed = Mixed
SYMMETRY Symmetry
INVARIANTS
    TypeOK
    ReadsAreWhole
    AckedIsServed
    Pruned
CHECK_DEADLOCK FALSE
