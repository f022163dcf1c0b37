SPECIFICATION FairSpec
CONSTANTS
    Nodes <- SideNodes
    Edges <- SideEdges
    Src <- SideSrc
    Dst <- SideDst
    Out <- SideOut
    In <- SideIn
    Order <- SideOrder
    Capacity <- SideCapacity
    BatchSize <- SideBatch
    Policy <- SidePolicy
    Supply <- SideSupply
    Fanout <- SideFanout
    Back <- NoBack
    LoopNodes = {}
    Heads <- NoLoop
    Recycle <- NoRecycle
    Raw = {"t"}
    Prefer <- SidePrefer
    MayStop = {}
    MayFail = {}
    StallLimit = 2
INVARIANTS CreditConservation EndIsLast
PROPERTIES NoFalseDeadlock EdgesAreChannels EveryRunEnds
