CONSTANTS
    a = a b = b p1 = p1 p2 = p2 p3 = p3 x = x y = y n1 = n1 n2 = n2 n3 = n3
    Execs <- OneOfEach
    Timed <- TimedExecs
    Streams <- StreamExec
    Captured <- OneOfEach
    Forks <- Two
    MaxCkpts = 3
    MaxUserDeletes = 1
    Launches <- Two
    Images <- Names
    NoOne = NoOne
    MaxStarts = 2
    MaxCrashes = 1
    Sandboxes <- Three
    Namespaces <- MCNamespaces
    None = None
    LastIndex = 3
    Callers <- Two
    MaxOps = 4
    MaxCommandFaults = 3
    Launchers <- Two
    SandboxIds <- Names
    Routes <- BothRoutes
    MaxLaunchFaults = 3
SYMMETRY Sym
SPECIFICATION Spec
INVARIANTS
    ExecsAreSound
    
    
    
CHECK_DEADLOCK FALSE
