SPECIFICATION Spec
CONSTANTS
    RewardsAggregationEpochs = 2
    First = 2
    Last = 5
    MaxVersion = 1
    Skew = 1
INVARIANTS
    WindowExact
    RowExact
CHECK_DEADLOCK FALSE
