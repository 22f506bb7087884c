SPECIFICATION Spec
CONSTANTS
    n1 = n1
    n2 = n2
    p1 = p1
    p2 = p2
    Nodes = {n1, n2}
    Deployments <- BothDeployments
    None = None
    MaxCommits = 2
    MaxCreates = 1
INVARIANTS
    TypeOK
    ReadIsLinearizable
    ServedWhenStable
CHECK_DEADLOCK FALSE
