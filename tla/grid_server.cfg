SPECIFICATION Spec
CONSTANTS
    h1 = h1
    h12 = h12
    h2 = h2
    Address <- Neighbours
    Within <- PartOf
    Pool <- TwoIds
    MaxConns = 4
INVARIANTS
    TypeOK
    FirstIdsUnique
    OrderlyUnique
    Accounted
    ServedWithinCapacity
PROPERTIES
    Handled
CHECK_DEADLOCK FALSE
