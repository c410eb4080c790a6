CONSTANTS
    r1 = r1
    r2 = r2
    r3 = r3
    g1 = g1
    j1 = j1
    j2 = j2
    j3 = j3
    k1 = k1
    k2 = k2
    Groups = {g1}
    NoGroup = NoGroup
    GroupOf <- MCGroupOf
    Captures = {k1, k2}
    NoRequest = NoRequest
    RequestOf <- MCRequestOf
    Jobs = {j1, j2, j3}
    QueueSize = 1
    Reactive = TRUE
    UrgentQuota = 1
    Callers = {1}
    MaxTxns = 2
    Parts = {"gate", "transactions", "executor"}
    Requests = {r1, r2}
    Workers = {1}
    Restores = {x1}
    Threads = {t1, t2}
    MaxRetries = 0
SPECIFICATION PassesSpec
INVARIANTS
    GateIsSound
    NothingEscapesOpenTxn
    TxnMergeExclusion
    SlotsConserved
    JobsAreAccounted
PROPERTIES
    ReleasedForGood
SYMMETRY ThreadSymmetry
