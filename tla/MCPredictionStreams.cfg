SPECIFICATION FairSpec
CONSTANTS
    r1 = r1
    r2 = r2
    l1 = l1
    c1 = c1
    c2 = c2
    near = near
    far = far
    Requests = {r1, r2}
    Listeners = {l1}
    Chats = {c1, c2}
    Replicas = {near, far}
    Setups <- SetupsVal
    MaxTokens = 1
    MaxFaults = 1
    MaxClicks = 1
    MaxCommands = 3
INVARIANTS
    TypeOK
    OneEndPerStream
    AbortsReachTheRun
    StreamGetsEvents
    ChannelsMarked
    OneVerdict
PROPERTIES
    NothingAfterEnd
    NoSilentDetach
    RequestsEnd
    StaleChannelsGo
    ClosedPanelsGo
CHECK_DEADLOCK FALSE
