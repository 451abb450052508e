SPECIFICATION FairSpec
CONSTANTS
    often = often
    rarely = rarely
    NoCron = NoCron
    Targets = {t1}
    Crons <- CronsVal
    Period = 3
    Slots <- SlotsVal
    Fallback = often
    Ends <- EndsVal
    Calls = {k1}
    Firings = {p1, p2}
    BatchSize = 1
    MaxCalls = 3
    MaxFaults = 1
    MaxCrashes = 1
INVARIANTS
    TypeOK
    RunsOnSlot
PROPERTIES
    OrphanTimersGo
    ExpiredStops
    KeepsRunning
