CONSTANTS
    MaxRuns = 2
    MaxPrints = 2
    ConsoleLimit = 1
    MayReturn = FALSE
    MaxListed = 2
    MaxListFails = 1
SPECIFICATION WatchSpec
INVARIANTS
    ConsoleOnce
PROPERTIES
    RunSettles
    EndedShown
CHECK_DEADLOCK FALSE
