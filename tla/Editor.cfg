SPECIFICATION Spec
CONSTANTS
    Flows = {"a", "b"}
    MaxEdits = 3
    MaxSaves = 2
    MaxEvents = 2
    HistoryLimit = 1
    Hurried = {}
INVARIANTS TypeOK NoEditLost CleanIsOnDisk SyncUnderWay FlowsApart
PROPERTIES NothingOverwrittenUnseen CatchesUp
CHECK_DEADLOCK FALSE
