SPECIFICATION FairRunSpec
CONSTANTS
    RewardsAggregationEpochs = 2
    First = 2
    Last = 6
    MaxVersion = 2
    Skew = 0
INVARIANTS
    RowsTile
    NoEpochDropped
PROPERTY WindowsWritten
CHECK_DEADLOCK FALSE
