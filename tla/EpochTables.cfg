SPECIFICATION Spec
CONSTANTS
    SlotsPerEpoch = 1
    FirstFinalized = 8
    LastEpoch = 9
    WindowSize = 4
    MaxTroubles = 1
INVARIANTS
    NoTransitionLost
    PoolsSummed
    StatusKept
CHECK_DEADLOCK FALSE
