SPECIFICATION FairSpec
CONSTANTS
    Nodes <- LoopNodeSet
    Edges <- LoopEdges
    Src <- LoopSrc
    Dst <- LoopDst
    Out <- LoopOut
    In <- LoopIn
    Order <- LoopOrder
    Capacity <- LoopCapacity
    BatchSize <- LoopBatch
    Policy <- LoopPolicy
    Supply <- LoopSupply
    Fanout <- LoopFanout
    Back <- LoopBack
    LoopNodes = {"h", "v", "w"}
    Heads <- LoopHeads
    Recycle <- LoopRecycle
    Raw = {}
    Prefer <- NoPrefer
    MayStop = {"v"}
    MayFail = {}
    StallLimit = 2
INVARIANTS NoDeadlock
