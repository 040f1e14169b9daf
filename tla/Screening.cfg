SPECIFICATION ScoreSpec
CONSTANTS
    c1 = c1
    c2 = c2
    s1 = s1
    s2 = s2
    Callers <- MCCallers
    Streams <- MCStreams
    QueueSize = 1
    Whitelist <- MCWhitelist
    Denylist = {"symbol", "symbols"}
    MaxTaken = 2
    Symbols = {1, 2, 3}
    MarketOf <- MCMarketOf
    KY = {2}
    Listings = {{3}, {1, 2, 3}}
    MaxDay = 9
    Lookback = 8
    AvgDays = 2
    BarOf <- MCBarOf
    BarsToCome <- MCBarsToCome
    Histories <- MCHistories
    Requests <- MCRequests
    MaxOps = 2
    MinCloses = 3
    HistoryDays = 5
    Lookbacks <- MCLookbacks
    Scale = 10080
    Disposed = {}
    Asofs = {9}
    Pages <- MCPages
    Trigger = 1
    W <- MCW
    BarsAsked = 7
    Weekend = {3}
    FlowOf <- MCFlowOf
    Scans <- MCScans
SYMMETRY MCSymmetry
INVARIANTS
    StreamsFaithful
    ScreensPublished
    ScansRanked
    StagesAgree
PROPERTY RatingsSettle
CHECK_DEADLOCK FALSE
