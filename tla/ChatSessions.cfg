SPECIFICATION FairSpec
CONSTANTS
    Sessions = {"s1"}
    MaxRequests = 2
    Deleters = {"d1"}
    MaxTurns = 2
    Limit = 3
    MaxHistory = 2
    MaxCalls = 1
INVARIANTS
    StoredAsSeen
    QuestionHeard
PROPERTIES
    TitlesEarned
    QuestionsEnd
CHECK_DEADLOCK FALSE
