SPECIFICATION FairSpec
CONSTANTS
    MaxItems = 2
    Capacity = 2
    BatchSize = 2
    Buffer = 2
    MaxConns = 3
    MaxDrops = 1
    Cancels = {}
    Slow = {}
PROPERTIES BothEnd
CHECK_DEADLOCK FALSE
