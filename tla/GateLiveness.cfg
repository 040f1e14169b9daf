CONSTANTS
    d1 = d1
    d2 = d2
    w1 = w1
    w2 = w2
    Decisions <- MCDecisions
    Workers <- MCOneWorker
    Sizings <- MCSizings
    Observed <- MCNothing
    MaxClock = 3
    Timeout = 1
    MaxAttempts = 1
    MaxOrders = 1
SPECIFICATION FairSpec
PROPERTY PendingResolved
