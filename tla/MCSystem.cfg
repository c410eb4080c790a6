SPECIFICATION SystemSpec
CONSTANTS
    a = a b = b e1 = e1 e2 = e2
    Workers <- Two
    MaxRequests = 1
    MaxSaves = 2
    MaxEvents = 2
    MaxManual = 1
    MaxMishaps = 1
    MaxFtxFaults = 3
    MaxFtxCalls = 5
    FleetSize = 3
    MaxFleetFaults = 3
    MaxCheckpoints = 3
    MaxWrites = 2
    MaxChain = 2
    Retentions = {"keep_all", "latest_only", "delete_after_restore"}
    RollbackRetentions = {"keep_all", "delete_after_restore"}
    AutoRetentions = {"latest_only"}
    Clients = {e1, e2}
    Asked <- RequestsOf
    Quota <- QuotaOf
    MaxCmds = 3
    MaxTxns = 2
SYMMETRY Sym
INVARIANTS
    
    RecoveriesAreSound
    ForksAreSound
    
CHECK_DEADLOCK FALSE
