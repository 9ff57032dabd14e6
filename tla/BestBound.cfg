CONSTANTS
    Items <- FourItems
    Weight <- FourWeights
    Capacity = 5
    CanStall = TRUE
    OverCovers = TRUE
    max_nodes = 5
SPECIFICATION Spec
INVARIANTS QueuedFeasible TypeOK Coverage QueueBounds OptimalUnlessStalled PartialBoundSound
CHECK_DEADLOCK FALSE
