CONSTANTS
    Items <- FourItems
    Weight <- FourWeights
    Capacity = 4
    BinCost = 24
    Unit = 2
    Nodes <- SomeNodes
    WarmStarts <- SomeWarmStarts
    max_columns_per_iteration = 2
    max_iterations = 12
    max_sr3_cuts_per_round = 1
    max_sr3_cuts_total = 2
    max_sr3_separation_rounds = 2
    epsilon_scaled = 9
SPECIFICATION Spec
INVARIANTS CertifiedBoundValid EarlyStopHarmless BudgetSuffices
PROPERTIES FreshCuts
CHECK_DEADLOCK FALSE
