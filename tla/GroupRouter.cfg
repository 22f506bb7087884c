SPECIFICATION Spec
CONSTANTS
    n1 = n1
    g1 = g1
    g2 = g2
    c1 = c1
    c2 = c2
    Nodes = {n1}
    Groups = {g1, g2}
    Callers = {c1, c2}
    NodeOf <- TargetNode
    GroupOf <- TargetGroup
    Backends = {"InProcess", "Grpc"}
    Buffer = 1
    MaxSends <- SendBound
    MaxStarts = 2
    MaxRepeats = 1
INVARIANTS
    TypeOK
    UpIsReachable
    OneLinkPerPeer
PROPERTIES
    HandledInOrder
    SendReturns
CHECK_DEADLOCK FALSE
