SPECIFICATION Spec
CONSTANTS
    still = still
    gallon = gallon
    Products = {still, gallon}
    Tracked = {gallon}
    Returnable = {gallon}
    LastDay = 2
    Today = 2
    DaysPerMonth = 1
    Expiries = {2, 3}
    Statuses = {"active"}
    Quantities = {1}
    Starts = {0, 2}
    MaxLots = 2
    MaxOuts = 2
    MaxReturns = 2
    MaxLines = 2
    MonthsClose = TRUE
CHECK_DEADLOCK FALSE
INVARIANT DepositNotNegative
PROPERTY AlwaysClosedMonthUnchanged
