SPECIFICATION InspectorSpec
CONSTANTS
    q1 = q1
    q2 = q2
    Queries = {q1, q2}
    RingSize = 1
    MaxCalls = 2
    MaxIncidents = 2
    NoQueue = NoQueue
    HostPaths = {"a"}
    RecentLimit = 2
    MaxEvents = 5
    None = None
    Boxen = {"s1", "s2"}
    Threads = {q1, q2}
    MaxRequests = 3
    MaxMoves = 2
    Pids = {1, 2}
    Pane = 1
    Attempts = 2
    MaxOps = 3
    MaxCheckpoints = 2
    MaxChanges = 2
    MaxCaptures = 2
    MaxInspections = 2
    MaxFaults = 1
SYMMETRY Sym
INVARIANTS
    
    InspectorIsTrue
CHECK_DEADLOCK FALSE
