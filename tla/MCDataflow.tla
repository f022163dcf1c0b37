----------------------------- MODULE MCDataflow -----------------------------
(***************************************************************************)
(* Small graphs for Dataflow.                                              *)
(***************************************************************************)
EXTENDS Dataflow

\* a -> b -> c, batched, one item more than fits.
PipeNodes == {"a", "b", "c"}
PipeEdges == {"ab", "bc"}
PipeSrc == [e \in PipeEdges |-> IF e = "ab" THEN "a" ELSE "b"]
PipeDst == [e \in PipeEdges |-> IF e = "ab" THEN "b" ELSE "c"]
PipeOut == [n \in PipeNodes |-> CASE n = "a" -> <<"ab">> [] n = "b" -> <<"bc">> [] OTHER -> <<>>]
PipeIn == [n \in PipeNodes |-> CASE n = "b" -> <<"ab">> [] n = "c" -> <<"bc">> [] OTHER -> <<>>]
PipeOrder == <<"a", "b", "c">>
PipeCapacity == [ab |-> 2, bc |-> 1]
PipeBatch == [ab |-> 2, bc |-> 2]
PipePolicy == [n \in PipeNodes |-> "round_robin"]
PipeSupply == [a |-> 3, b |-> 0, c |-> 0]
PipeFanout == [a |-> {0}, b |-> {1}, c |-> {0}]

\* s -> t and s -> w -> t.  t reads the edge from w to its end before the other,
\* and holds back what s sends it meanwhile: the run can lock up.
SideNodes == {"s", "t", "w"}
SideEdges == {"st", "sw", "wt"}
SideSrc == [st |-> "s", sw |-> "s", wt |-> "w"]
SideDst == [st |-> "t", sw |-> "w", wt |-> "t"]
SideOut == [s |-> <<"st", "sw">>, t |-> <<>>, w |-> <<"wt">>]
SideIn == [s |-> <<>>, t |-> <<"st", "wt">>, w |-> <<"sw">>]
SideOrder == <<"s", "w", "t">>
SideCapacity == [st |-> 2, sw |-> 1, wt |-> 1]
SideBatch == [st |-> 2, sw |-> 1, wt |-> 1]
SidePolicy == [n \in SideNodes |-> IF n = "s" THEN "scatter" ELSE "round_robin"]
SideSupply == [s |-> 2, t |-> 0, w |-> 0]
SideFanout == [s |-> {0}, t |-> {0}, w |-> {0, 1}]
SidePrefer == [s |-> {}, t |-> {"wt"}, w |-> {}]

\* s -> h -> v, w, emitting on demand, and v, w feeding back to h, the head.
LoopNodeSet == {"s", "h", "v", "w"}
LoopEdges == {"sh", "hv", "hw", "vh", "wh"}
LoopSrc == [sh |-> "s", hv |-> "h", hw |-> "h", vh |-> "v", wh |-> "w"]
LoopDst == [sh |-> "h", hv |-> "v", hw |-> "w", vh |-> "h", wh |-> "h"]
LoopOut == [s |-> <<"sh">>, h |-> <<"hv", "hw">>, v |-> <<>>, w |-> <<>>]
LoopBack == [s |-> <<>>, h |-> <<>>, v |-> <<"vh">>, w |-> <<"wh">>]
LoopIn == [s |-> <<>>, h |-> <<"sh", "vh", "wh">>, v |-> <<"hv">>, w |-> <<"hw">>]
LoopOrder == <<"s", "h", "v", "w">>
LoopCapacity == [e \in LoopEdges |-> 1]
LoopBatch == [e \in LoopEdges |-> 1]
LoopPolicy == [n \in LoopNodeSet |-> IF n = "h" THEN "on_demand" ELSE "round_robin"]
LoopSupply == [n \in LoopNodeSet |-> IF n = "s" THEN 2 ELSE 0]
LoopFanout == [n \in LoopNodeSet |-> IF n = "h" THEN {1} ELSE {0}]
LoopRecycle == [n \in LoopNodeSet |-> IF n \in {"v", "w"} THEN 1 ELSE 0]
LoopHeads == <<"h">>

NoLoop == <<>>
NoBack == [n \in Nodes |-> <<>>]
NoRecycle == [n \in Nodes |-> 0]
NoPrefer == [n \in Nodes |-> {}]
-----------------------------------------------------------------------------
Chan(e) == INSTANCE Channel WITH
    Limit <- Capacity[e] + Batch(e),
    sent <- put[e],
    given <- got[e],
    ended <- e \in ended /\ kept[e] = <<>>,
    gone <- done[Dst[e]],
    cancelled <- cancelled

\* What the receiver is handed are the next items of the edge, in order.
HandedInOrder(e) ==
    got'[e] # got[e] => taken'[Dst[e]] = [i \in 1..(got'[e] - got[e]) |-> got[e] + i]

\* Every edge starts as a bounded FIFO channel, and every step of the runtime is,
\* on every edge, a step of that channel or none at all: nothing is lost, repeated
\* or overtaken, however the items are batched, routed or held back, and the end
\* comes after the last of them (channel.py's Outbox and Inbox, FirstCome).
EdgesAreChannels ==
    /\ \A e \in Edges : Chan(e)!Init
    /\ [][\A e \in Edges : [Chan(e)!Next]_(Chan(e)!vars) /\ HandedInOrder(e)]_vars

\* Items of the loop that some node still has to finish: on an edge inside it, held
\* back at its entrance, or with a node's code.
Numbers(e) == IF done[Dst[e]] THEN {}
              ELSE IF InLoop(e) THEN (got[e] + 1)..put[e]
              ELSE IF EntersLoop(e) THEN 1..Len(kept[e]) ELSE {}
Unfinished == UNION {{e} \X Numbers(e) : e \in Edges}
Owers == {n \in Nodes : owes[n]}
InsideLoop == Cardinality(Unfinished) + Cardinality(Owers)

\* The loop's counter is the number of items inside the loop, so it closes when
\* the last one is finished and not before.
TokensCountItems == ~cancelled => tokens = InsideLoop /\ (closed => tokens = 0)
=============================================================================
