CONSTANTS
    d1 = d1
    d2 = d2
    w1 = w1
    w2 = w2
    Decisions <- MCDecisions
    Workers <- MCWorkers
    Sizings <- MCSizings
    Observed <- MCObserved
    MaxClock = 2
    Timeout = 1
    MaxAttempts = 1
    MaxOrders = 2
SPECIFICATION Spec
SYMMETRY MCSymmetry
INVARIANTS
    OrdersAccounted
    FillMatchesStatus
    OneStoryPerDecision
    NoEarlyExpiry
    EventsFollowCommits
PROPERTY
    Lifecycle
