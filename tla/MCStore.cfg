SPECIFICATION StoreSpec
CONSTANTS
    b1 = b1 b2 = b2 s1 = s1 s2 = s2 d1 = d1 d2 = d2
    MaxMergeFaults = 1
    Mergers = {s1, s2}
    ForkSet = {d1, d2}
    Records = 2
    MaxPmCalls = 2
    MaxPmFaults = 2
    BaseLines = 3
    Source = "s"
    ForkVols <- TwoForkVols
    Blobs = {b1, b2}
    Nothing = Nothing
    MaxZfsCkpts = 2
    PromoteTries = 8
    MaxZfsFaults = 1
    Boxes = {s1, s2}
    CkNames = {"c1"}
    Bytes = {b1, b2}
    Gone = Gone
    Diffs = {d1, d2}
    MaxBtrfsFaults = 2
    Versions = {"v1", "v2"}
    TraceLen = 2
    MaxPoints = 1
    MaxKills = 2
    MaxRaw = 4
SYMMETRY Sym
INVARIANTS
    
    
    
    TracesAreParsed
PROPERTIES
    StoreRefined
CHECK_DEADLOCK FALSE
