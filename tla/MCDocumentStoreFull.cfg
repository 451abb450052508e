SPECIFICATION Spec
CONSTANTS
    r1 = r1
    r2 = r2
    r3 = r3
    d1 = d1
    d2 = d2
    Requests = {r1, r2, r3}
    Loaders = {d1, d2}
    NoLoader = NoLoader
    NoRequest = NoRequest
    Splits = {2}
    Setups <- FullSetups
    MaxFaults = 1
    MaxCrashes = 2
INVARIANTS
    FullCleansOnlyDeleted
CHECK_DEADLOCK FALSE
