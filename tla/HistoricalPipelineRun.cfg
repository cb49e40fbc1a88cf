SPECIFICATION FairSpec
CONSTANTS
    SlotsPerEpoch = 2
    InitSlot = 0
    FinalSlot = 12
    RateLimit = 1
    MaxPages = 2
    KeepEpochs = 5
    Faults = {"fatal"}
    Prompt = TRUE
INVARIANTS
    NeededNotEvicted
    EpochsInTurn
    RewardsAfterBlocks
    AllAnalyzed
PROPERTY Finishes
CHECK_DEADLOCK FALSE
