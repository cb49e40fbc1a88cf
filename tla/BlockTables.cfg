SPECIFICATION Spec
CONSTANTS
    LastSlot = 2
    FuluFrom = 2
    MaxFaults = 2
INVARIANTS
    RowsOfChain
    FeesRecovered
CHECK_DEADLOCK FALSE
