SPECIFICATION Spec
CONSTANTS
    LastSlot = 2
    FuluFrom = 2
    MaxFaults = 0
INVARIANT CountedOnce
CHECK_DEADLOCK FALSE
