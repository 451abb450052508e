SPECIFICATION Spec
CONSTANTS
    a = a
    h = h
    p = p
    g = g
    NoNode = NoNode
    Nodes <- NodesVal
    Kind <- KindVal
    Edges <- EdgesVal
    Inside <- InsideVal
    LoopTo <- LoopToVal
    MaxLoop <- MaxLoopVal
    Requests = {r1, r2, r3, r4}
    MaxActive = 1
    MaxRecords = 2
    MaxIterations = 20
    MaxItems = 0
    Asked = {NoNode, h, p}
    MayFail = {h, p}
    MaxAborts = 1
    MaxDeletes = 1
    MaxCrashes = 1
SYMMETRY Symmetry
INVARIANTS
    TypeOK
    StoppedIsResumable
    AnswerConsumed
PROPERTIES
    FinishedWorkKept
    ImplementsLifecycle
CHECK_DEADLOCK FALSE
