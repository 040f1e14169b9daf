SPECIFICATION Spec
CONSTANTS
    Symbols = {1, 2}
    LastDay = 5
    Bars <- MCBars
    Quantities = {1, 2}
    SmaQuantity = 1
    Capital = 2600
    Slippage = 3
    FeeFloor = 20
    FeeRate = 399
    TaxRate = 30
    Warmup = 1
    MaxIntents = 3
INVARIANTS
    Conserved
    BooksBalance
    IntentsAccounted
    SmaHoldsOneLot
    TripsAreFifo
    DrawdownsAgree
CHECK_DEADLOCK FALSE
