SPECIFICATION DaemonSpec
CONSTANTS
    t1 = t1 t2 = t2 t3 = t3 s1 = s1 s2 = s2 i1 = i1 i2 = i2
    Threads <- MCThreads
    Activities <- MCActivities
    Sweeps <- MCSweeps
    Ids <- MCIds
    Ops <- MCOps
    MaxWork = 2
    MaxGwCrashes = 1
    Stoppers = {s1, s2}
    EngineBoxes = {i1, i2}
    NoStopper = NoStopper
    Client = Client
    MaxStepFaults = 1
SYMMETRY Sym
INVARIANTS
    QuiescentLifecycle
    StopsAreSafe
    StopIsOrderly
PROPERTIES
    CommandWaitsForCheckpoint
CHECK_DEADLOCK FALSE
