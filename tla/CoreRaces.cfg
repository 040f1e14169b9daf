CONSTANTS
    d1 = d1
    d2 = d2
    d3 = d3
    d4 = d4
    w1 = w1
    w2 = w2
    a1 = a1
    a2 = a2
    e1 = e1
    e2 = e2
    Decisions <- MCOneDecision
    Workers <- MCOneWorker
    Callers <- MCTwoCallers
    Evaluators <- MCTwoEvaluators
    Sizings <- MCBelow
    Modes <- MCSim
    Observed <- MCNothing
    MaxClock = 2
    Timeout = 1
    MaxAttempts = 1
    MaxOrders = 2
    MaxAudits = 2
    DailyLimit = 1
    DayLength = 2
    LockoutTime = 1
SYMMETRY MCSymmetry
SPECIFICATION CoreSpec
INVARIANTS
    OneBuyUnlessUndone
    ClosedIffExited
    PassAuditsFollowConfirms
PROPERTY ImplementsLifecycle
CONSTRAINT MCNothingUndone
