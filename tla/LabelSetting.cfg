CONSTANTS
    Items <- FiveItems
    Weight <- FiveWeights
    Capacity = 8
    BinCost = 6
    DualVectors <- SomeDuals
    CutDuals <- SomeCuts
    Nodes <- SomeNodes
    max_candidates = 2
SPECIFICATION Spec
INVARIANTS LabelsPriced CandidatesSound PricedExactly OraclesAgree
CHECK_DEADLOCK FALSE
