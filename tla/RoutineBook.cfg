SPECIFICATION FairSpec
CONSTANTS
    Routines <- RoutinesMC
    Watchers <- WatchersMC
    Keys <- KeysMC
    Size = 2
    Nothing = Nothing
INVARIANTS
    TypeOK
    WithinCapacity
    SendNeverBlocks
    HolderVisible
    NothingLost
PROPERTIES
    WatchSound
    AcquireAnswered
