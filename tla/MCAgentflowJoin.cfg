SPECIFICATION FairSpec
CONSTANTS
    a = a
    b = b
    d = d
    x = x
    y = y
    j = j
    m = m
    NoNode = NoNode
    Nodes <- NodesVal
    Kind <- KindVal
    Edges <- EdgesVal
    Inside <- InsideVal
    LoopTo <- LoopToVal
    MaxLoop <- MaxLoopVal
    Requests = {r1, r2}
    MaxActive = 2
    MaxRecords = 2
    MaxIterations = 20
    MaxItems = 0
    Asked = {NoNode}
    MayFail = {b, x}
    MaxAborts = 1
    MaxDeletes = 0
    MaxCrashes = 0
INVARIANTS
    JoinComplete
    JoinsServed
    UnconditionalRunOnce
    OnlyFulfilledBranches
PROPERTIES
    RunsEnd
    AbortHeard
CHECK_DEADLOCK FALSE
