CONSTANTS
    Items <- FiveItems
    Weight <- FiveWeights
    Capacity = 5
    One = 3
    Columns <- FiveColumns
SPECIFICATION Spec
INVARIANTS TypeOK ReturnsPacking NoTwoBinsMerge PartitionCaptured
CHECK_DEADLOCK FALSE
