SPECIFICATION Spec
CONSTANTS
    a = a
    h = h
    p = p
    b = b
    j = j
    NoNode = NoNode
    Nodes <- NodesVal
    Kind <- KindVal
    Edges <- EdgesVal
    Inside <- InsideVal
    LoopTo <- LoopToVal
    MaxLoop <- MaxLoopVal
    Requests = {r1}
    MaxActive = 1
    MaxRecords = 1
    MaxIterations = 20
    MaxItems = 0
    Asked = {NoNode}
    MayFail = {}
    MaxAborts = 0
    MaxDeletes = 0
    MaxCrashes = 0
INVARIANTS
    StopsOnlyCurrentRoute
CHECK_DEADLOCK FALSE
