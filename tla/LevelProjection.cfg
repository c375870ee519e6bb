CONSTANTS
    k1 = k1
    k2 = k2
    r1 = r1
    r2 = r2
    w1 = w1
    None = None
    Keys <- TwoKeys
    Requests <- TwoRequests
    Workers <- OneWorker
    Modes <- OnOrOff
    MaxAttempts = 2
    Threshold = 1
    MaxEvents = 2
SPECIFICATION Spec
INVARIANTS TypeOK SyncedIsDelivered LedgerLinear
PROPERTIES Converges
