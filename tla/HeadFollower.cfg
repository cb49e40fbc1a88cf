SPECIFICATION FairSpec
CONSTANTS
    SlotsPerEpoch = 2
    InitSlot = 0
    HeadSlot = 12
    FinalizedSlot = 8
    LastSlotOfRun = 15
    Empty = {4, 14}
    HeadCap = 1
    RateLimit = 1
    MaxPages = 2
    KeepEpochs = 3
    MaxRetries = 2
    Lag = 1
    MaxAhead = 3
    MaxRepeats = 1
INVARIANTS
    NoBlockTakenForMissed
    SwitchSound
    StateByRoot
PROPERTY
    SlotsInTurn
    EventsServed
CHECK_DEADLOCK FALSE
