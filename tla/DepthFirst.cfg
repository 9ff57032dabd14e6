CONSTANTS
    Items <- FourItems
    Weight <- FourWeights
    Capacity = 5
    CanStall = TRUE
    OverCovers = TRUE
    max_nodes = 5
SPECIFICATION FairSpec
INVARIANTS Coverage OptimalIsOptimal
PROPERTIES Terminates Implements
CHECK_DEADLOCK FALSE
