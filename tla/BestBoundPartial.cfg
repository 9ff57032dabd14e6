CONSTANTS
    Items <- FourItems
    Weight <- FourWeights
    Capacity = 5
    CanStall = FALSE
    OverCovers = FALSE
    max_nodes = 9
SPECIFICATION Spec
INVARIANTS LowerBoundCertified
CHECK_DEADLOCK FALSE
