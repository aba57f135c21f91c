SPECIFICATION Spec
CONSTANTS
    Bags = {a}
    Garments = {g1, g2}
    BagOf <- OneBag
    Requests = {r1, r2}
    NoBag = NoBag
    MaxPulls = 1
    MaxTakeBacks = 1
    MaxReports = 1
SYMMETRY Symmetry
INVARIANT ReadyToldOnce
INVARIANT DeliveredOnce
INVARIANT RequestsConsistent
