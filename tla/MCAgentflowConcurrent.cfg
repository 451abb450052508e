SPECIFICATION Spec
CONSTANTS
    a = a
    h = h
    p = p
    b = b
    j = j
    NoNode = NoNode
    Nodes <- NodesVal
    Kind <- KindVal
    Edges <- EdgesVal
    Inside <- InsideVal
    LoopTo <- LoopToVal
    MaxLoop <- MaxLoopVal
    Requests = {r1, r2, r3, r4}
    MaxActive = 3
    MaxRecords = 2
    MaxIterations = 20
    MaxItems = 0
    Asked = {NoNode}
    MayFail = {p, b}
    MaxAborts = 1
    MaxDeletes = 1
    MaxCrashes = 1
SYMMETRY Symmetry
INVARIANTS
    FailureIsLast
    FedByFinished
    InProgressOwned
CHECK_DEADLOCK FALSE
