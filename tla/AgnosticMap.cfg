SPECIFICATION FairSpec
CONSTANTS
    Keys = {k1, k2}
    Values = {v1, v2}
    Waiters = {w1, w2}
    None = None
INVARIANTS
    NoLostWakeup
    EvictionNeverRefused
    RegisteredOnce
    ReturnsValue
PROPERTIES
    WaiterServed
    SetCompletes
CHECK_DEADLOCK FALSE
