SPECIFICATION Spec
CONSTANTS
    SlotsPerEpoch = 2
    MaxEpoch = 10
    MaxForks = 2
    MaxDepth = 2
    MaxMissed = 1
    MaxGaps = 0
    LastTrouble = 11
    MaxPasses = 1
    Failing = {}
    KeepEpochs = 2
INVARIANT
    FinalBlocksWritten
CHECK_DEADLOCK FALSE
