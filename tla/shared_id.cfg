SPECIFICATION Spec
CONSTANTS
    h1 = h1
    h12 = h12
    h2 = h2
    Address <- Neighbours
    Within <- PartOf
    Pool <- ThreeIds
    MaxConns = 4
INVARIANTS
    IdsUnique
CHECK_DEADLOCK FALSE
