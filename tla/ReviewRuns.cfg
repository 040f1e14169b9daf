SPECIFICATION FairSpec
CONSTANTS
    Reviews = {v1, v2}
    Clis = {"cli"}
    MaxRuns = 2
    MaxCrashes = 1
INVARIANTS
    ListedIsComplete
    OutputsInOrder
    NodesReported
PROPERTY RowEitherWay
CHECK_DEADLOCK FALSE
