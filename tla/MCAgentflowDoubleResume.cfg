SPECIFICATION Spec
CONSTANTS
    a = a
    h = h
    p = p
    b = b
    j = j
    NoNode = NoNode
    Nodes <- NodesVal
    Kind <- KindVal
    Edges <- EdgesVal
    Inside <- InsideVal
    LoopTo <- LoopToVal
    MaxLoop <- MaxLoopVal
    Requests = {r1, r2, r3}
    MaxActive = 2
    MaxRecords = 2
    MaxIterations = 20
    MaxItems = 0
    Asked = {NoNode}
    MayFail = {}
    MaxAborts = 0
    MaxDeletes = 0
    MaxCrashes = 0
PROPERTIES
    ResumesOnlyStopped
CHECK_DEADLOCK FALSE
