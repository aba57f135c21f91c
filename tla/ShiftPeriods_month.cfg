SPECIFICATION Spec
CONSTANTS
    p1 = p1
    r1 = r1
    r2 = r2
    m1 = m1
    m2 = m2
    Staff = {p1}
    Days = {1, 2}
    Months = {m1}
    MonthOf <- MCOneMonth
    Sundays = {2}
    Requests = {r1, r2}
    Of <- MCOf
    Span <- MCSpan
    Allowance = 3
    Openings = {2}
    Imports = {{2}}
INVARIANT NoDoubleLeave
INVARIANT UsedNotAboveApproved
INVARIANT ApprovedDayIsSettled
 
