SPECIFICATION Spec
CONSTANTS
    Terms = {1, 2}
    Ranks = {1, 2}
    MaxIndex = 3
    MaxBatch = 2
    None = None
INVARIANTS
    TypeOK
    MirrorsFiles
    AckedSurvives
    Recoverable
PROPERTY
    ImplementsLogStore
