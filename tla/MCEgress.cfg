SPECIFICATION EgressSpec
CONSTANTS
    w1 = w1 w2 = w2 o1 = o1 x1 = x1 x2 = x2
    Writes = {w1, w2, o1}
    Opaque = {o1}
    OpaqueEffects = "seal"
    MaxTxns = 2
    MaxQueue = 2
    MaxCrashes = 1
    Conns = {x1, x2}
    MaxConns = 2
    Processes = {1}
    MaxAppends = 6
    MaxTears = 4
SYMMETRY Sym
INVARIANTS
    DeferredOnlyIfCommitted
    SentOnceInOrder
    FlowsAreFaithful
    JournalIsSound
CHECK_DEADLOCK FALSE
