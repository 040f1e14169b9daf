CONSTANTS
    d1 = d1
    d2 = d2
    d3 = d3
    d4 = d4
    w1 = w1
    w2 = w2
    a1 = a1
    a2 = a2
    e1 = e1
    e2 = e2
    Decisions <- MCThreeDecisions
    Workers <- MCOneWorker
    Callers <- MCOneCaller
    Evaluators <- MCNobody
    Sizings <- MCAllSizings
    Modes <- MCAllModes
    Observed <- MCNothing
    MaxClock = 2
    Timeout = 1
    MaxAttempts = 1
    MaxOrders = 3
    MaxAudits = 3
    DailyLimit = 1
    DayLength = 2
    LockoutTime = 1
SPECIFICATION MCUnattendedSpec
SYMMETRY MCSymmetryTwo
INVARIANTS
    BreakersRespected
    LimitOverrunBounded
CHECK_DEADLOCK FALSE
