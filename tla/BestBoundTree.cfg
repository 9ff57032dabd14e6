CONSTANTS
    Items <- ThreeItems
    Weight <- ThreeWeights
    Capacity = 3
    CanStall = FALSE
    OverCovers = TRUE
    max_nodes = 9
SPECIFICATION Spec
INVARIANTS TreeBound
PROPERTIES Implements
CHECK_DEADLOCK FALSE
