SPECIFICATION Spec
CONSTANTS
    r1 = r1
    b1 = b1
    NoRoom = NoRoom
    NoOwner = NoOwner
    Persons = {p1, p2}
    Rooms = {r1, r2}
    Items = {z1}
    MaxImports = 1
    Capacity <- MCCapacity
    BlockOf <- MCBlockOf
    WalkOrder <- MCWalkOrder
SYMMETRY Symmetry
INVARIANT NoSharedBed
INVARIANT OccupancyWithinBeds
INVARIANT NoOccupantInQuarantine
INVARIANT NoOrphanRows
PROPERTY AlwaysDepartureEndsStay
PROPERTY AlwaysPlacementKeepsOneShift
PROPERTY AlwaysDepartureSettlesZimmet
PROPERTY KeepsRegistry
