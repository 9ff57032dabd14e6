CONSTANTS
    Items <- FourItems
    Weight <- FourWeights
    Capacity = 6
    BinCost = 5
    DualVectors <- RoundedDuals
    CutDuals <- NoCuts
    Nodes <- TiedNodes
    max_candidates = 2
SPECIFICATION Spec
INVARIANTS BranchOracleExact
CHECK_DEADLOCK FALSE
