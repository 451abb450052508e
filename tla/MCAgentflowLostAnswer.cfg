SPECIFICATION Spec
CONSTANTS
    a = a
    i = i
    s = s
    g = g
    w = w
    d = d
    l1 = l1
    l2 = l2
    z = z
    NoNode = NoNode
    Nodes <- NodesVal
    Kind <- KindVal
    Edges <- EdgesVal
    Inside <- InsideVal
    LoopTo <- LoopToVal
    MaxLoop <- MaxLoopVal
    Requests = {r1, r2}
    MaxActive = 1
    MaxRecords = 1
    MaxIterations = 20
    MaxItems = 1
    Asked = {NoNode}
    MayFail = {}
    MaxAborts = 0
    MaxDeletes = 0
    MaxCrashes = 0
INVARIANTS
    AnswerConsumed
CHECK_DEADLOCK FALSE
