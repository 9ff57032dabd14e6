CONSTANTS
    Items <- FourItems
    Weight <- FourWeights
    Capacity = 4
    BinCost = 24
    Unit = 2
    Nodes <- RootOnly
    WarmStarts <- NoWarmStart
    max_columns_per_iteration = 2
    max_iterations = 20
    max_sr3_cuts_per_round = 1
    max_sr3_cuts_total = 0
    max_sr3_separation_rounds = 1
    epsilon_scaled = 2
    populate_max_columns = 10
    kMaxRounds = 2
    kMaxRestrictedNodes = 3
SPECIFICATION MipSpec
INVARIANTS SafeMipCertificateValid
CHECK_DEADLOCK FALSE
