SPECIFICATION Spec
CONSTANTS
    still = still
    gallon = gallon
    Products = {still}
    Tracked = {}
    Returnable = {}
    LastDay = 2
    Today = 2
    DaysPerMonth = 1
    Expiries = {1, 3}
    Statuses = {"active", "quarantined"}
    Quantities = {1, 2}
    Starts = {0, 1, 2}
    MaxLots = 2
    MaxOuts = 2
    MaxReturns = 0
    MaxLines = 1
    MonthsClose = FALSE
CHECK_DEADLOCK FALSE
INVARIANT NothingAllocatedTwice
INVARIANT AllocationsAreMeetable
INVARIANT NoIdleStock
PROPERTY AlwaysShortageAsked
INVARIANT ReviewHasShortage
PROPERTY AlwaysMatchedInOrder
