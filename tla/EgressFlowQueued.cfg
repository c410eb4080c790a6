SPECIFICATION FSpec
CONSTANTS
    Conns = {1}
    MaxConns = 1
INVARIANT QueuedIsAlwaysWhole
CHECK_DEADLOCK FALSE
