SPECIFICATION FairSpec
CONSTANTS
    Groups = {g1}
    Callbacks = {c1, c2}
    Leaders = {n1}
    None = None
    MaxChanges = 2
INVARIANT
    TypeOK
PROPERTY
    ToldTheLeader
CHECK_DEADLOCK FALSE
