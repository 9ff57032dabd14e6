CONSTANTS
    Items <- FiveItems
    Weight <- FiveWeights
    Capacity = 11
    One = 4
    Columns <- FiveColumns
    Tolerance = 0
    Pools <- FivePools
    SeparatedCuts <- FiveCuts
SPECIFICATION NodeSpec
INVARIANTS NodeTypeOK NoPairMeansIntegral BothSidesProgress PicksBest CapturedIfRounded
CHECK_DEADLOCK FALSE
