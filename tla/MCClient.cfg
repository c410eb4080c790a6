SPECIFICATION ClientSpec
CONSTANTS
    MaxTurns = 2
    MaxForks = 2
    MaxPreforks = 1
    TraceTurns = 3
    MaxFaults = 2
    MaxSkips = 1
    Items = {1, 2, 3}
    SetupWorkers = 2
    RunWorkers = 2
    Trace = 2
    Chunks = 2
    Steps = 4
    Branches = 2
    MaxFails = 2
    c0 = c0 c1 = c1 c2 = c2 f1 = f1 h1 = h1 h2 = h2 h3 = h3
    g1 = g1 g2 = g2 e1 = e1 e2 = e2 l1 = l1 l2 = l2
    Creates = {c0, c1, c2}
    Existing = {c0}
    Forks = {f1}
    MaxRows = 2
    MaxBoots = 1
    MaxCrashes = 1
    HostPorts = {h1, h2, h3}
    GuestPorts = {g1, g2}
    Exposers = {e1, e2}
    Releasers = {l1, l2}
    MaxPorts = 2
    MaxStarts = 1
    Commands = {"ls", "cat", "pwd"}
    Fallback = "pwd"
    SpecLen = 3
    MaxBoxes = 3
    MaxDups = 1
    MaxRestores = 2
    MaxClock = 3
SYMMETRY Sym
INVARIANTS
    
    ReplaysAreSound
    RestBeforeEnd
    
    SpeculationIsFaithful
    
CHECK_DEADLOCK FALSE
