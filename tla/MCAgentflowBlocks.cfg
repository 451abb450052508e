SPECIFICATION FairSpec
CONSTANTS
    a = a
    i = i
    s = s
    g = g
    w = w
    d = d
    l1 = l1
    l2 = l2
    z = z
    NoNode = NoNode
    Nodes <- NodesVal
    Kind <- KindVal
    Edges <- EdgesVal
    Inside <- InsideVal
    LoopTo <- LoopToVal
    MaxLoop <- MaxLoopVal
    Requests = {r1}
    MaxActive = 1
    MaxRecords = 3
    MaxIterations = 10
    MaxItems = 2
    Asked = {NoNode}
    MayFail = {s, w}
    MaxAborts = 1
    MaxDeletes = 1
    MaxCrashes = 0
INVARIANTS
    RecordMatchesData
    LoopRunsBounded
    WorkBounded
PROPERTIES
    RunsEnd
CHECK_DEADLOCK FALSE
