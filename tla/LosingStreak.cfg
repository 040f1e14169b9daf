CONSTANTS
    d1 = d1
    d2 = d2
    d3 = d3
    d4 = d4
    w1 = w1
    w2 = w2
    a1 = a1
    a2 = a2
    e1 = e1
    e2 = e2
    Decisions <- MCFourDecisions
    Workers <- MCOneWorker
    Callers <- MCOneCaller
    Evaluators <- MCNobody
    Sizings <- MCFits
    Modes <- MCSim
    Observed <- MCNothing
    MaxClock = 1
    Timeout = 1
    MaxAttempts = 1
    MaxOrders = 4
    MaxAudits = 4
    DailyLimit = 9
    DayLength = 2
    LockoutTime = 2
SPECIFICATION MCLosingStreakSpec

PROPERTY LockoutHolds
