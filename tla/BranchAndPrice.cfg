CONSTANTS
    Items <- FourItems
    Weight <- FourWeights
    Capacity = 3
    CanStall = FALSE
    OverCovers = TRUE
    diving_down_budget = 1
SPECIFICATION FairSolveSpec
INVARIANTS TypeOK BudgetConserved ShallowStack DiveFeasible FinalCertificate FinalBoundSound
PROPERTIES SolveTerminates
CHECK_DEADLOCK FALSE
