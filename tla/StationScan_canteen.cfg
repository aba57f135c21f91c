SPECIFICATION Spec
CONSTANTS
    MealCards = {m1}
    VisitCards = {v1}
    Staff = {s1}
    HolderOf <- Owner
    Scans = {x1, x2}
    Passes = {p1, p2}
    RetryLimit = 1
    StaleDays = 1
    LastDay = 1
    Entitled <- Planned
    MaxEnds = 1
    MaxEdits = 1
SYMMETRY Symmetry
CHECK_DEADLOCK FALSE
INVARIANT OneAdmissionPerMeal
INVARIANT AdmissionHasMeal
INVARIANT OneExitPerVisit
INVARIANT SyncedScanIsLogged
