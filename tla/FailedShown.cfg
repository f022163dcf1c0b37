SPECIFICATION FairSpec
CONSTANTS
    Nodes <- PipeNodes
    Edges <- PipeEdges
    Src <- PipeSrc
    Dst <- PipeDst
    Out <- PipeOut
    In <- PipeIn
    Order <- PipeOrder
    Capacity <- PipeCapacity
    BatchSize <- PipeBatch
    Policy <- PipePolicy
    Supply <- PipeSupply
    Fanout <- PipeFanout
    Back <- NoBack
    LoopNodes = {}
    Heads <- NoLoop
    Recycle <- NoRecycle
    Raw = {}
    Prefer <- NoPrefer
    MayStop = {"c"}
    MayFail = {"b"}
    StallLimit = 2
INVARIANTS FailedIsShown
