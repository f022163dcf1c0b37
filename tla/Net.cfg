SPECIFICATION FairSpec
CONSTANTS
    MaxItems = 2
    Capacity = 2
    BatchSize = 2
    Buffer = 2
    MaxConns = 3
    MaxDrops = 1
    Cancels = {"out", "in"}
    Slow = {"producer", "consumer"}
INVARIANTS CreditsAcrossWire AckedHasArrived NothingMissing EndIsComplete
PROPERTIES IsChannel EndOrStarve
