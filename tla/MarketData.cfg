SPECIFICATION GateSpec
CONSTANTS
    c1 = c1
    c2 = c2
    Callers <- MCCallers
    Series = {"TAIEX", "chip"}
    SourcesOf <- MCSourcesOf
    Index = "TAIEX"
    StaleDays = 0
    MaxDay = 4
    Weekend = {3}
    FirstToday = 2
    Window = 2
    MaxCalls = 2
    Conditions <- MCConditions
    SeriesFor <- MCSeriesFor
    TTL = 2
    MaxClock = 2
SYMMETRY MCSymmetry
INVARIANTS
    AnswersAgree
    ServedFresh
CHECK_DEADLOCK FALSE
