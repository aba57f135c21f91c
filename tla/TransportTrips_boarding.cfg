SPECIFICATION Spec
CONSTANTS
    Trips = {t1, t2}
    PlanTrips = {t2}
    Near <- NearTrips
    Staff = {s1}
    Unknown = unknown
    Buses = {b1}
    NoBus = NoBus
    Seats = {1}
    Scans = {e1}
SYMMETRY Symmetry
INVARIANT ScannedIsNotLeftBehind
INVARIANT BusSharedOnlyUnchecked
