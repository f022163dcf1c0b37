CONSTANTS
    MaxChanges = 2
    MaxBacks = 2
    Kinds = {"source", "sink", "comb"}
    FarmNumbers = {0, 1}
    MaxAsks = 3
    MaxEvents = 2
    Hasty = FALSE
    MaxSignIns = 2
    MaxEnds = 1
    MaxSilences = 1
    MaxPending = 1
    MaxTyped = 2
    TypesOn = FALSE
    MaxWrites = 1
    MaxQuestions = 3
    Wanders = FALSE
    MaxSchedules = 2
    MaxForms = 1
    MaxTouches = 2
    MaxWorks = 1
    Early = FALSE
    MaxOrders = 2
    Hops = FALSE
    MaxMade = 3
    MaxDeeds = 2
    MaxElsewhere = 1
    Lingers = FALSE
SPECIFICATION WebSpec
INVARIANTS
    TreeSound
    SelectionSound
    DrawnWhole
    PanelAgrees
    TurnsApart
    SessionAgrees
    SectionsApart
    DotTruthful
    OwnParameters
    UsersTruthful
    FlowsKept
PROPERTIES
    AppendedInOrder
CHECK_DEADLOCK FALSE
