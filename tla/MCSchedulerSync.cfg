SPECIFICATION Spec
CONSTANTS
    often = often
    rarely = rarely
    NoCron = NoCron
    Targets = {t1}
    Crons <- CronsVal
    Period = 3
    Slots <- SlotsVal
    Fallback = often
    Ends <- EndsVal
    Calls = {k1}
    Firings = {p1}
    BatchSize = 1
    MaxCalls = 2
    MaxFaults = 0
    MaxCrashes = 0
INVARIANTS
    InSync
