SPECIFICATION Spec
CONSTANTS
    SlotsPerEpoch = 2
    MaxEpoch = 10
    MaxForks = 3
    MaxDepth = 2
    MaxMissed = 1
    MaxGaps = 1
    LastTrouble = 11
    MaxPasses = 1
    Failing = {5}
    KeepEpochs = 2
INVARIANTS
    StatesHaveBlocks
    NoStaleRow
    FinalStateWritten
    ReorgRepaired
    PassNotBlocked
    WalkNotBlocked
CHECK_DEADLOCK FALSE
