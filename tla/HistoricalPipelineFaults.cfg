SPECIFICATION FairSpec
CONSTANTS
    SlotsPerEpoch = 2
    InitSlot = 10
    FinalSlot = 12
    RateLimit = 1
    MaxPages = 2
    KeepEpochs = 5
    Faults = {"block", "state", "metrics", "close"}
    Prompt = TRUE
PROPERTY CloseReturns
CHECK_DEADLOCK FALSE
