----------------------------- MODULE LoopProofs -----------------------------
(***************************************************************************)
(* The feedback loop: its counter is the number of items inside it, so it  *)
(* closes when the last of them is finished and not before, and what a     *)
(* graph with a loop delivers is what a graph without one does.            *)
(***************************************************************************)
EXTENDS StreamProofs, MCDataflow

\* A loop as the builder makes one: feedback edges stay inside it, and each of its
\* nodes is fed from inside.  Code inside it sends nothing before it has read, and
\* does not stop early.
LoopSound ==
    /\ \A e \in Edges : Feedback(e) => InLoop(e)
    /\ \A n \in LoopNodes : /\ n \notin MayStop /\ Supply[n] = 0
                            /\ \E e \in Edges : InLoop(e) /\ Dst[e] = n

\* A graph without a loop is one whose loop is well formed.
LEMMA FreeIsSound == LoopFree => LoopSound
  BY FreeFlows DEF LoopFree, LoopSound
-----------------------------------------------------------------------------
(* The invariant.                                                          *)

Onto(e) == Dst[e] \in LoopNodes

\* n still has to send for the item it owes.
Gives(n) == \/ \E i \in DOMAIN plan[n] : plan[n][i].op \in {"put", "any"}
            \/ pc[n] \in {"credit", "park_out"} /\ hand[n].items = <<>>
Busy(n) == taken[n] # <<>> \/ Gives(n)

\* A node of the loop owes it the item it is working on, until it is through.
Serves(n) ==
    /\ owes[n] => n \in LoopNodes
    /\ pc[n] = "park_in" \/ mode[n] = "closing" => taken[n] = <<>> /\ ~owes[n]
    /\ n \in LoopNodes /\ Busy(n) => owes[n]

\* Before the loop closes its nodes go on reading, and it counts the edges into it
\* that it has not been told the end of.
Reads(n) == mode[n] = "body" /\ ~stopped[n]
OpenEntries == {e \in Edges : EntersLoop(e) /\ e \notin ended}
Reports(n) == \/ pc[n] = "external"
              \/ pc[n] = "release" /\ taken[n] = <<>> /\ EntersLoop(rel[n].edge)
Reporting == {n \in Nodes : Reports(n)}
ExternalCounts == external = Cardinality(OpenEntries) + Cardinality(Reporting)

\* Nothing is on its way to a node of the loop but ends of streams.
Dead(e) ==
    /\ EntersLoop(e) => mode[Src[e]] = "closing"
    /\ got[e] = put[e] /\ kept[e] = <<>> /\ pending[e] = <<>>
    /\ CountOf(batch[Dst[e]], e) = 0
    /\ HandOn(e) => HoldsEnd(e)
    /\ \A i \in DOMAIN q[Dst[e]] : OnEdge(q[Dst[e]][i], e) => EndsEdge(q[Dst[e]][i], e)

TokensCount == IsFiniteSet(Unfinished) /\ tokens = Cardinality(Unfinished) + Cardinality(Owers)

OpenLoop == (\A n \in LoopNodes : Reads(n)) /\ ExternalCounts
ClosedLoop == (\A n \in Nodes : ~owes[n]) /\ \A e \in Edges : Onto(e) => Dead(e)

Looping == /\ \A n \in Nodes : Serves(n)
           /\ TokensCount
           /\ ~closed => OpenLoop
           /\ closed => ClosedLoop

LoopInv == StreamInv /\ (~cancelled => Looping)
-----------------------------------------------------------------------------
(* Counting pairs of an edge and a number.                                 *)

Pairs(N) == UNION {{e} \X N[e] : e \in Edges}

LEMMA InPairs ==
    ASSUME NEW N, NEW p
    PROVE  p \in Pairs(N) <=> \E e \in Edges : \E i \in N[e] : p = <<e, i>>
  BY DEF Pairs

LEMMA PairsSame ==
    ASSUME NEW N, NEW M, \A e \in Edges : M[e] = N[e]
    PROVE  Pairs(M) = Pairs(N)
  BY DEF Pairs

LEMMA PairsOneMore ==
    ASSUME NEW N, NEW M, NEW e \in Edges, NEW x, x \notin N[e],
           M[e] = N[e] \cup {x}, \A d \in Edges : d # e => M[d] = N[d],
           IsFiniteSet(Pairs(N))
    PROVE  IsFiniteSet(Pairs(M)) /\ Cardinality(Pairs(M)) = Cardinality(Pairs(N)) + 1
  <1>1. <<e, x>> \notin Pairs(N)
    BY InPairs
  <1>2. Pairs(M) = Pairs(N) \cup {<<e, x>>}
    <2>1. ASSUME NEW p, p \in Pairs(M)  PROVE p \in Pairs(N) \cup {<<e, x>>}
      <3>0. PICK d \in Edges : \E i \in M[d] : p = <<d, i>>
        BY <2>1, InPairs
      <3>1. PICK i \in M[d] : p = <<d, i>>
        BY <3>0
      <3>2. CASE d = e /\ i = x
        BY <3>1, <3>2
      <3>3. CASE ~(d = e /\ i = x)
        <4>1. i \in N[d]
          BY <3>3
        <4> QED
          BY <3>1, <4>1, InPairs
      <3> QED
        BY <3>2, <3>3
    <2>2. ASSUME NEW p, p \in Pairs(N) \cup {<<e, x>>}  PROVE p \in Pairs(M)
      <3>1. CASE p = <<e, x>>
        <4>1. x \in M[e]
          OBVIOUS
        <4> QED
          BY <3>1, <4>1, InPairs
      <3>2. CASE p \in Pairs(N)
        <4>0. PICK d \in Edges : \E i \in N[d] : p = <<d, i>>
          BY <3>2, InPairs
        <4>1. PICK i \in N[d] : p = <<d, i>>
          BY <4>0
        <4>2. i \in M[d]
          BY <4>1
        <4> QED
          BY <4>1, <4>2, InPairs
      <3> QED
        BY <2>2, <3>1, <3>2
    <2> QED
      BY <2>1, <2>2
  <1> QED
    BY <1>1, <1>2, FS_AddElement

LEMMA PairsOneLess ==
    ASSUME NEW N, NEW M, NEW e \in Edges, NEW x, x \in N[e],
           M[e] = N[e] \ {x}, \A d \in Edges : d # e => M[d] = N[d],
           IsFiniteSet(Pairs(N))
    PROVE  IsFiniteSet(Pairs(M)) /\ Cardinality(Pairs(M)) = Cardinality(Pairs(N)) - 1
  <1>1. <<e, x>> \in Pairs(N)
    BY InPairs
  <1>2. Pairs(M) = Pairs(N) \ {<<e, x>>}
    <2>1. ASSUME NEW p, p \in Pairs(M)  PROVE p \in Pairs(N) \ {<<e, x>>}
      <3>0. PICK d \in Edges : \E i \in M[d] : p = <<d, i>>
        BY <2>1, InPairs
      <3>1. PICK i \in M[d] : p = <<d, i>>
        BY <3>0
      <3>2. i \in N[d] /\ ~(d = e /\ i = x)
        OBVIOUS
      <3>3. p \in Pairs(N)
        BY <3>1, <3>2, InPairs
      <3> QED
        BY <3>1, <3>2, <3>3
    <2>2. ASSUME NEW p, p \in Pairs(N) \ {<<e, x>>}  PROVE p \in Pairs(M)
      <3>0. PICK d \in Edges : \E i \in N[d] : p = <<d, i>>
        BY <2>2, InPairs
      <3>1. PICK i \in N[d] : p = <<d, i>>
        BY <3>0
      <3>2. ~(d = e /\ i = x)
        BY <2>2, <3>1
      <3>3. i \in M[d]
        BY <3>2
      <3> QED
        BY <3>1, <3>3, InPairs
    <2> QED
      BY <2>1, <2>2
  <1> QED
    BY <1>1, <1>2, FS_RemoveElement
-----------------------------------------------------------------------------
(* What an edge of the loop holds while the loop is open.                  *)

\* A node that goes on reading has not marked its inbox done.
LEMMA ReadsOn ==
    ASSUME NEW n \in Nodes, Tidy(n), mode[n] = "body"
    PROVE  ~done[n] /\ pc[n] \notin {"wake", "end"}
  BY DEF Tidy

\* No more is handed over than was sent.
LEMMA GotPut ==
    ASSUME TypeOK, NEW e \in Edges, Conserves(e), ~done[Dst[e]], ~Sealed(e)
    PROVE  /\ got[e] + Len(kept[e]) + CountOf(batch[Dst[e]], e) + queued[e] <= put[e]
           /\ queued[e] >= 0
  <1>1. /\ got[e] \in Nat /\ Len(kept[e]) \in Nat /\ CountOf(batch[Dst[e]], e) \in Nat /\ put[e] \in Nat
        /\ queued[e] \in Int /\ InHand(e) \in Nat /\ Len(pending[e]) \in Nat
        /\ Dst[e] \in Nodes
    BY EdgeCounts
  <1>2. queued[e] >= 0
    <2>1. Counted(q[Dst[e]], e, queued[e]) /\ q[Dst[e]] \in Seq(Queued)
      BY <1>1, Shapes DEF Conserves
    <2> QED
      BY <1>1, <2>1, CountedZero
  <1>3. put[e] = Received(e) + queued[e] + InHand(e) + Len(pending[e])
    <2>1. put[e] + Once(Sealed(e)) =
                Received(e) + queued[e] + InHand(e) + Len(pending[e]) + Once(e \in ended)
      BY DEF Conserves
    <2>2. Once(Sealed(e)) = 0 /\ Once(e \in ended) = 0
      BY DEF Once, Conserves
    <2>3. Received(e) \in Nat
      BY EdgeCounts
    <2> QED
      BY <1>1, <2>1, <2>2, <2>3
  <1>4. Received(e) = got[e] + Len(kept[e]) + CountOf(batch[Dst[e]], e)
    BY DEF Received
  <1> DEFINE r == got[e] + Len(kept[e]) + CountOf(batch[Dst[e]], e)
             h == InHand(e)
             l == Len(pending[e])
  <1>5. r \in Nat /\ h \in Nat /\ l \in Nat
    BY <1>1
  <1>6. put[e] = r + queued[e] + h + l
    BY <1>3, <1>4
  <1>7. r = got[e] + Len(kept[e]) + CountOf(batch[Dst[e]], e)
    BY DEF r
  <1> HIDE DEF r, h, l
  <1>8. r + queued[e] <= put[e]
    BY <1>1, <1>5, <1>6
  <1> QED
    BY <1>2, <1>7, <1>8

\* While the loop is open no feedback edge and no other edge inside it has ended.
LEMMA StaysOpen ==
    ASSUME LoopSound, TypeOK, Stream, ~closed, OpenLoop, NEW e \in Edges, Onto(e)
    PROVE  /\ Seals(e) /\ Conserves(e) /\ Dst[e] \in Nodes /\ ~done[Dst[e]] /\ Queue(Dst[e])
           /\ InLoop(e) => ~Sealed(e) /\ e \notin ended
  <1>1. Src[e] \in Nodes /\ Dst[e] \in Nodes
    BY GraphType
  <1>2. Flows(e)
    BY DEF Flows
  <1>3. Seals(e) /\ Conserves(e) /\ Tidy(Dst[e]) /\ Queue(Dst[e])
    BY <1>1, <1>2 DEF Stream
  <1>4. mode[Dst[e]] = "body"
    BY DEF OpenLoop, Reads, Onto
  <1>5. InLoop(e) => ~Sealed(e)
    BY DEF OpenLoop, Reads, InLoop, Sealed
  <1> QED
    BY <1>1, <1>3, <1>4, <1>5, ReadsOn DEF Conserves

\* An open loop with nothing inside it and every edge into it ended has nothing on
\* its way to its nodes.
LEMMA EmptyDead ==
    ASSUME LoopSound, TypeOK, Stream, ~closed, OpenLoop, Unfinished = {}, OpenEntries = {},
           NEW e \in Edges, Onto(e)
    PROVE  Dead(e)
  <1>1. /\ Seals(e) /\ Conserves(e) /\ Dst[e] \in Nodes /\ ~done[Dst[e]] /\ Queue(Dst[e])
        /\ InLoop(e) => ~Sealed(e) /\ e \notin ended
    BY StaysOpen
  <1>2. /\ got[e] \in Nat /\ Len(kept[e]) \in Nat /\ CountOf(batch[Dst[e]], e) \in Nat /\ put[e] \in Nat
        /\ queued[e] \in Int /\ InHand(e) \in Nat /\ Len(pending[e]) \in Nat /\ Received(e) \in Nat
        /\ kept[e] \in Seq(Nat) /\ pending[e] \in Seq(Nat) /\ hand[Src[e]] \in Entry
    BY EdgeCounts, MoreShapes, Shapes, GraphType
  <1>3. Numbers(e) = {}
    <2>1. ASSUME NEW i \in Numbers(e)  PROVE FALSE
      <3>1. <<e, i>> \in Unfinished
        BY DEF Unfinished
      <3> QED
        BY <3>1
    <2> QED
      BY <2>1
  <1>4. q[Dst[e]] \in Seq(Queued) /\ Counted(q[Dst[e]], e, queued[e])
    BY <1>1, Shapes DEF Conserves
  <1>5. queued[e] >= 0 /\ (queued[e] = 0 => \A i \in DOMAIN q[Dst[e]] : ~OnEdge(q[Dst[e]][i], e))
    BY <1>2, <1>4, CountedZero
  <1>6. put[e] + Once(Sealed(e)) =
                Received(e) + queued[e] + InHand(e) + Len(pending[e]) + Once(e \in ended)
    BY <1>1 DEF Conserves
  <1>7. Received(e) = got[e] + Len(kept[e]) + CountOf(batch[Dst[e]], e)
    BY DEF Received
  <1>8. InHand(e) = 0 => ~HandOn(e)
    <2>1. hand[Src[e]].items \in Seq(Nat)
      BY <1>2 DEF Entry, Items
    <2> QED
      BY <2>1, EmptySeq DEF InHand, CountOf, HandOn
  <1> DEFINE g == got[e]
             k == Len(kept[e])
             c == CountOf(batch[Dst[e]], e)
             h == InHand(e)
             l == Len(pending[e])
             r == Received(e)
             x == queued[e]
             p == put[e]
  <1>9. CASE InLoop(e)
    <2>1. Once(Sealed(e)) = 0 /\ Once(e \in ended) = 0
      BY <1>1, <1>9 DEF Once
    <2>2. put[e] <= got[e]
      <3>1. (got[e] + 1)..put[e] = {}
        BY <1>1, <1>3, <1>9 DEF Numbers
      <3>2. put[e] >= got[e] + 1 => put[e] \in (got[e] + 1)..put[e]
        BY <1>2
      <3> QED
        BY <1>2, <3>1, <3>2
    <2>3. p = r + x + h + l /\ r = g + k + c /\ p <= g /\ x >= 0
      BY <1>2, <1>5, <1>6, <1>7, <2>1, <2>2
    <2>4. p \in Nat /\ r \in Nat /\ x \in Int /\ h \in Nat /\ l \in Nat /\ g \in Nat /\ k \in Nat /\ c \in Nat
      BY <1>2
    <2> HIDE DEF g, k, c, h, l, r, x, p
    <2>5. p = g /\ k = 0 /\ c = 0 /\ h = 0 /\ l = 0 /\ x = 0
      BY <2>3, <2>4
    <2>6. got[e] = put[e] /\ Len(kept[e]) = 0 /\ CountOf(batch[Dst[e]], e) = 0 /\ InHand(e) = 0
          /\ Len(pending[e]) = 0 /\ queued[e] = 0
      BY <2>5 DEF g, k, c, h, l, x, p
    <2>7. kept[e] = <<>> /\ pending[e] = <<>>
      BY <1>2, <2>6, EmptySeq
    <2>8. ~EntersLoop(e)
      BY <1>9 DEF InLoop, EntersLoop
    <2> QED
      BY <1>5, <1>8, <2>6, <2>7, <2>8 DEF Dead
  <1>10. CASE ~InLoop(e)
    <2>1. EntersLoop(e)
      BY <1>10, GraphType DEF InLoop, EntersLoop, Onto
    <2>2. e \in ended
      BY <2>1 DEF OpenEntries
    <2>3. Sealed(e) /\ ~HandOn(e) /\ put[e] = Received(e) /\ CountOf(batch[Dst[e]], e) = 0
      BY <1>1, <2>2 DEF Conserves
    <2>4. pending[e] = <<>> /\ mode[Src[e]] = "closing"
      BY <1>1, <2>3 DEF Seals, Sealed
    <2>5. kept[e] = <<>>
      <3>1. 1..Len(kept[e]) = {}
        BY <1>1, <1>3, <1>10, <2>1 DEF Numbers
      <3>2. Len(kept[e]) >= 1 => 1 \in 1..Len(kept[e])
        BY <1>2
      <3>3. ~(Len(kept[e]) >= 1) /\ Len(kept[e]) \in Nat
        BY <1>2, <3>1, <3>2
      <3>4. Len(kept[e]) = 0
        BY <3>3
      <3> QED
        BY <1>2, <3>4, EmptySeq
    <2>6. Len(kept[e]) = 0
      BY <2>5
    <2>7. got[e] = put[e]
      <3>1. r = g + k + c /\ p = r /\ k = 0 /\ c = 0 /\ g \in Nat
        BY <1>2, <1>7, <2>3, <2>6
      <3>2. p = g
        <4> HIDE DEF g, k, c, r, p
        <4> QED
          BY <3>1
      <3> QED
        BY <3>2
    <2>8. Once(Sealed(e)) = 1 /\ Once(e \in ended) = 1
      BY <2>2, <2>3 DEF Once
    <2>9. p + 1 = r + x + h + l + 1 /\ p = r /\ x >= 0
      BY <1>5, <1>6, <2>3, <2>8
    <2>10. p \in Nat /\ r \in Nat /\ x \in Int /\ h \in Nat /\ l \in Nat
      BY <1>2
    <2>11. x = 0
      <3> HIDE DEF h, l, r, x, p
      <3> QED
        BY <2>9, <2>10
    <2> QED
      BY <1>5, <2>3, <2>4, <2>5, <2>7, <2>11 DEF Dead
  <1> QED
    BY <1>9, <1>10
-----------------------------------------------------------------------------
(* What a step does to the counts.                                         *)

Rests == UNCHANGED <<put, got, kept, owes, tokens>>

\* A send on e.
PutsOn(n, e) ==
    /\ Src[e] = n /\ Gives(n)
    /\ put' = [put EXCEPT ![e] = @ + 1]
    /\ tokens' = IF InLoop(e) THEN tokens + 1 ELSE tokens
    /\ UNCHANGED <<got, kept, owes>>

\* An item of e is delivered, or held back, or delivered after that.
Offered(n, e) ==
    \/ CountOf(batch[n], e) > 0
    \/ q[n] # <<>> /\ OnEdge(Head(q[n]), e) /\ ~EndsEdge(Head(q[n]), e)
Delivers(n, e) ==
    /\ Offered(n, e)
    /\ got' = [got EXCEPT ![e] = @ + 1]
    /\ owes' = [owes EXCEPT ![n] = n \in LoopNodes]
    /\ tokens' = IF EntersLoop(e) THEN tokens + 1 ELSE tokens
    /\ UNCHANGED <<put, kept>>
HoldsBack(n, e) ==
    /\ Offered(n, e)
    /\ \E x \in Nat : kept' = [kept EXCEPT ![e] = Append(@, x)]
    /\ tokens' = IF EntersLoop(e) THEN tokens + 1 ELSE tokens
    /\ UNCHANGED <<put, got, owes>>
HandsOver(n, e) ==
    /\ kept[e] # <<>>
    /\ kept' = [kept EXCEPT ![e] = Tail(@)]
    /\ got' = [got EXCEPT ![e] = @ + 1]
    /\ owes' = [owes EXCEPT ![n] = n \in LoopNodes]
    /\ UNCHANGED <<put, tokens>>
ReadsOf(n, e) == /\ Dst[e] = n /\ mode[n] = "body" /\ ~owes[n]
                 /\ Delivers(n, e) \/ HoldsBack(n, e) \/ HandsOver(n, e)

\* Outside the loop a node may take a whole batch.
Drains(n) ==
    /\ n \notin LoopNodes
    /\ \A e \in Edges : Dst[e] # n => got'[e] = got[e]
    /\ UNCHANGED <<put, kept, owes, tokens>>

LEMMA UnpackDoes ==
    ASSUME TypeOK, NEW n \in Nodes, NEW b \in Entry, b.items # <<>>, Unpack(n, b)
    PROVE  /\ tokens' = IF EntersLoop(b.edge) THEN tokens + 1 ELSE tokens
           /\ \/ /\ got' = [got EXCEPT ![b.edge] = @ + 1] /\ kept' = kept
                 /\ owes' = [owes EXCEPT ![n] = n \in LoopNodes]
              \/ /\ \E x \in Nat : kept' = [kept EXCEPT ![b.edge] = Append(@, x)]
                 /\ UNCHANGED <<got, owes>>
  <1>1. Head(b.items) \in Nat
    BY HeadTailProperties DEF Entry, Items
  <1> QED
    BY <1>1 DEF Unpack

LEMMA StillRests ==
    ASSUME TypeOK, NEW n \in Nodes,
           \/ Start(n) \/ Produce(n) \/ Process(n) \/ Return(n) \/ Doze(n)
           \/ Mark(n) \/ WakeProducer(n) \/ End(n)
           \/ Skip(n) \/ Claim(n) \/ Block(n) \/ Push(n) \/ FlushFirst(n) \/ Await(n) \/ Release(n)
    PROVE  Rests
  <1>1. CASE \/ Start(n) \/ Produce(n) \/ Process(n) \/ Return(n) \/ Doze(n)
             \/ Mark(n) \/ WakeProducer(n) \/ End(n)
    BY <1>1 DEF Start, Produce, Process, Return, Doze, Mark, WakeProducer, End, Rests,
       receiveVars, loopVars, codeVars
  <1>2. CASE Skip(n) \/ Claim(n) \/ Block(n) \/ Push(n)
    BY <1>2 DEF Skip, Claim, Claimed, Block, Push, Rests, receiveVars, loopVars, codeVars
  <1>3. CASE FlushFirst(n) \/ Await(n) \/ Release(n)
    BY <1>3 DEF FlushFirst, Await, Release, Rests, receiveVars, loopVars, codeVars
  <1> QED
    BY <1>1, <1>2, <1>3

LEMMA SendEffects ==
    ASSUME CreditInv, NEW n \in Nodes, Buffer(n) \/ Prepare(n) \/ ClaimAny(n)
    PROVE  Rests \/ \E e \in Edges : PutsOn(n, e)
  <1>0. TypeOK
    BY DEF CreditInv
  <1>1. ASSUME plan[n] # <<>>, HeadOp(n) \in {"put", "any"}  PROVE Gives(n)
    <2>1. 1 \in DOMAIN plan[n] /\ Head(plan[n]) = plan[n][1]
      BY <1>0, <1>1, MoreShapes, TailOf
    <2> QED
      BY <1>1, <2>1 DEF Gives, HeadOp
  <1>2. CASE Buffer(n)
    <2> DEFINE e == HeadEdge(n)
    <2>1. /\ plan[n] # <<>> /\ HeadOp(n) = "put"
          /\ put' = [put EXCEPT ![e] = @ + 1] /\ CountSent(e)
          /\ UNCHANGED <<got, receiveVars>>
      BY <1>2 DEF Buffer, Sending
    <2>2. e \in Edges /\ Src[e] = n
      BY <2>1, HeadWired
    <2> HIDE DEF e
    <2>3. PutsOn(n, e)
      BY <1>1, <2>1, <2>2 DEF PutsOn, CountSent, receiveVars
    <2> QED
      BY <2>2, <2>3
  <1>3. CASE Prepare(n)
    <2> DEFINE e == HeadEdge(n)
    <2>1. /\ plan[n] # <<>>
          /\ put' = [put EXCEPT ![e] = IF HeadOp(n) = "put" THEN @ + 1 ELSE @]
          /\ IF HeadOp(n) = "put" THEN CountSent(e) ELSE UNCHANGED loopVars
          /\ UNCHANGED <<got, receiveVars>>
      BY <1>3 DEF Prepare, Sending
    <2>2. e \in Edges /\ (HeadOp(n) # "any" => Src[e] = n)
      BY <2>1, HeadWired
    <2> HIDE DEF e
    <2>3. CASE HeadOp(n) = "put"
      <3>1. PutsOn(n, e)
        BY <1>1, <2>1, <2>2, <2>3 DEF PutsOn, CountSent, receiveVars
      <3> QED
        BY <2>2, <3>1
    <2>4. CASE HeadOp(n) # "put"
      <3>1. put' = put
        BY <1>0, <2>1, <2>4, MoreShapes
      <3> QED
        BY <2>1, <2>4, <3>1 DEF Rests, receiveVars, loopVars
    <2> QED
      BY <2>3, <2>4
  <1>4. CASE ClaimAny(n)
    <2>1. rr[n] \in Nat
      BY <1>0 DEF TypeOK, EdgesTyped
    <2>2. PICK e \in Edges : Src[e] = n /\ put' = [put EXCEPT ![e] = @ + 1] /\ CountSent(e)
      BY <1>4, <2>1, ClaimAnyPicks
    <2>3. Gives(n)
      BY <1>4 DEF ClaimAny, Claiming, Gives
    <2>4. UNCHANGED <<got, receiveVars>>
      BY <1>4 DEF ClaimAny, Claimed
    <2>5. PutsOn(n, e)
      BY <2>2, <2>3, <2>4 DEF PutsOn, CountSent, receiveVars
    <2> QED
      BY <2>5
  <1> QED
    BY <1>2, <1>3, <1>4

LEMMA TakeEffects ==
    ASSUME CreditInv, NEW n \in Nodes, Tidy(n), Serves(n),
           TakeKept(n) \/ Drain(n) \/ NextOfBatch(n) \/ Pop(n)
    PROVE  Rests \/ Drains(n) \/ \E e \in Edges : ReadsOf(n, e)
  <1>0. TypeOK
    BY DEF CreditInv
  <1>1. mode[n] = "body" /\ ~owes[n] /\ pc[n] \in {"run", "park_in"}
    <2>1. CASE Free(n)
      BY <2>1 DEF Free, Coding, Owing
    <2>2. CASE ~Free(n)
      <3>1. pc[n] = "park_in"
        BY <2>2 DEF TakeKept, Drain, NextOfBatch, Pop, Popping, Asking
      <3>2. mode[n] \in {"body", "closing"}
        BY <1>0, MoreShapes
      <3> QED
        BY <3>1, <3>2 DEF Tidy, Serves
    <2> QED
      BY <2>1, <2>2
  <1>2. CASE TakeKept(n)
    <2>1. PICK e \in Edges :
            /\ Dst[e] = n /\ kept[e] # <<>>
            /\ kept' = [kept EXCEPT ![e] = Tail(@)]
            /\ got' = [got EXCEPT ![e] = @ + 1]
      BY <1>2 DEF TakeKept
    <2>2. owes' = [owes EXCEPT ![n] = n \in LoopNodes] /\ UNCHANGED <<put, tokens>>
      BY <1>2 DEF TakeKept
    <2>3. HandsOver(n, e)
      BY <2>1, <2>2 DEF HandsOver
    <2> QED
      BY <1>1, <2>1, <2>3 DEF ReadsOf
  <1>3. CASE Drain(n)
    <2>1. UNCHANGED <<put, kept, loopVars>> /\ Fast(n) /\ batch[n].items # <<>>
          /\ got' = [got EXCEPT ![batch[n].edge] = @ + Len(batch[n].items)]
      BY <1>3 DEF Drain
    <2>2. Dst[batch[n].edge] = n
      BY <2>1 DEF CreditInv, BatchWired
    <2>3. \A e \in Edges : Dst[e] # n => got'[e] = got[e]
      BY <1>0, <2>1, <2>2, MoreShapes
    <2> QED
      BY <2>1, <2>3 DEF Drains, Fast, loopVars
  <1>4. CASE NextOfBatch(n)
    <2>1. Unpack(n, batch[n]) /\ batch[n].items # <<>> /\ put' = put /\ batch[n] \in Entry
      BY <1>0, <1>4, MoreShapes DEF NextOfBatch
    <2>2. Dst[batch[n].edge] = n /\ batch[n].edge \in Edges
      BY <2>1 DEF CreditInv, BatchWired, Entry
    <2>3. CountOf(batch[n], batch[n].edge) > 0
      <3>1. batch[n].items \in Seq(Nat)
        BY <2>1 DEF Entry, Items
      <3>2. Len(batch[n].items) \in Nat /\ Len(batch[n].items) # 0
        BY <2>1, <3>1, EmptySeq
      <3> QED
        BY <3>2 DEF CountOf
    <2>4. Delivers(n, batch[n].edge) \/ HoldsBack(n, batch[n].edge)
      BY <1>0, <2>1, <2>3, UnpackDoes DEF Delivers, HoldsBack, Offered
    <2> QED
      BY <1>1, <2>2, <2>4 DEF ReadsOf
  <1>5. CASE Pop(n)
    <2> DEFINE b == Head(q[n])
    <2>1. /\ q[n] # <<>> /\ put' = put
          /\ b.items = <<EOS>> => UNCHANGED <<kept, got, loopVars>>
          /\ b.items # <<EOS>> /\ b.items = <<LOOP_DONE>> => UNCHANGED <<kept, got, loopVars>>
          /\ b.items # <<EOS>> /\ b.items # <<LOOP_DONE>> => Unpack(n, b)
      BY <1>5 DEF Pop
    <2>2. b \in QueuedFor(n)
      BY <2>1, HeadQueued
    <2>3. CASE b.items = <<EOS>> \/ b.items = <<LOOP_DONE>>
      BY <2>1, <2>3 DEF Rests, loopVars
    <2>4. CASE b.items # <<EOS>> /\ b.items # <<LOOP_DONE>>
      <3>1. b \in Entry /\ b.items # <<>> /\ Dst[b.edge] = n
        BY <2>2, <2>4 DEF QueuedFor, Queued, Control
      <3>2. b.edge \in Edges
        BY <3>1 DEF Entry
      <3>3. OnEdge(b, b.edge) /\ ~EndsEdge(b, b.edge)
        BY <2>4 DEF OnEdge, EndsEdge
      <3>4. Offered(n, b.edge)
        BY <2>1, <3>3 DEF Offered
      <3> HIDE DEF b
      <3>6. Unpack(n, b)
        BY <2>1, <2>4
      <3>8. Delivers(n, b.edge) \/ HoldsBack(n, b.edge)
        BY <1>0, <2>1, <3>1, <3>4, <3>6, UnpackDoes DEF Delivers, HoldsBack
      <3> QED
        BY <1>1, <3>1, <3>2, <3>8 DEF ReadsOf
    <2> QED
      BY <2>3, <2>4
  <1> QED
    BY <1>2, <1>3, <1>4, <1>5

LEMMA Effects ==
    ASSUME CreditInv, NEW n \in Nodes, Tidy(n), Serves(n), Steps(n)
    PROVE  Rests \/ Drains(n) \/ (\E e \in Edges : PutsOn(n, e)) \/ (\E e \in Edges : ReadsOf(n, e))
  <1>1. TypeOK
    BY DEF CreditInv
  <1> QED
    BY <1>1, StillRests, SendEffects, TakeEffects DEF Steps
-----------------------------------------------------------------------------
(* The counter follows the items.                                          *)

LEMMA OffLoop ==
    ASSUME NEW e \in Edges, ~Onto(e)
    PROVE  ~InLoop(e) /\ ~EntersLoop(e) /\ Numbers(e) = {} /\ Numbers(e)' = {}
  BY DEF Onto, InLoop, EntersLoop, Numbers

LEMMA DeadNumbers ==
    ASSUME TypeOK, NEW e \in Edges, Dead(e)
    PROVE  Numbers(e) = {}
  <1>1. got[e] \in Nat /\ put[e] = got[e] /\ kept[e] = <<>>
    BY EdgeCounts DEF Dead
  <1>2. (got[e] + 1)..put[e] = {}
    BY <1>1
  <1>3. 1..Len(kept[e]) = {}
    BY <1>1
  <1> QED
    BY <1>2, <1>3 DEF Numbers

LEMMA DeadOffers ==
    ASSUME TypeOK, NEW e \in Edges, Dead(e)
    PROVE  ~Offered(Dst[e], e) /\ kept[e] = <<>>
  <1>1. ASSUME q[Dst[e]] # <<>>  PROVE Head(q[Dst[e]]) = q[Dst[e]][1] /\ 1 \in DOMAIN q[Dst[e]]
    <2>1. q[Dst[e]] \in Seq(Queued)
      BY Shapes, GraphType
    <2> QED
      BY <1>1, <2>1, TailOf
  <1>2. ~(CountOf(batch[Dst[e]], e) > 0)
    BY DEF Dead
  <1> QED
    BY <1>1, <1>2 DEF Dead, Offered

\* What is offered was sent and not yet handed over.
LEMMA OfferedCounts ==
    ASSUME TypeOK, NEW e \in Edges, Conserves(e), ~done[Dst[e]], ~Sealed(e),
           Offered(Dst[e], e) \/ kept[e] # <<>>
    PROVE  got[e] + 1 <= put[e]
  <1>1. /\ got[e] \in Nat /\ Len(kept[e]) \in Nat /\ CountOf(batch[Dst[e]], e) \in Nat /\ put[e] \in Nat
        /\ queued[e] \in Int /\ Dst[e] \in Nodes
    BY EdgeCounts
  <1>2. got[e] + Len(kept[e]) + CountOf(batch[Dst[e]], e) + queued[e] <= put[e] /\ queued[e] >= 0
    BY GotPut
  <1>3. Len(kept[e]) >= 1 \/ CountOf(batch[Dst[e]], e) >= 1 \/ queued[e] >= 1
    <2>1. CASE kept[e] # <<>>
      <3>1. kept[e] \in Seq(Nat)
        BY MoreShapes
      <3>2. Len(kept[e]) # 0
        BY <2>1, <3>1, EmptySeq
      <3> QED
        BY <1>1, <3>2
    <2>2. CASE CountOf(batch[Dst[e]], e) > 0
      BY <1>1, <2>2
    <2>3. CASE q[Dst[e]] # <<>> /\ OnEdge(Head(q[Dst[e]]), e)
      <3> DEFINE b == Head(q[Dst[e]])
      <3>1. q[Dst[e]] \in Seq(Queued) /\ Counted(q[Dst[e]], e, queued[e])
        BY <1>1, Shapes DEF Conserves
      <3>2. b \in Queued /\ CountIn(b, e) <= queued[e]
        BY <1>1, <2>3, <3>1, CountedTail, HeadTailProperties
      <3>3. b \in Entry /\ b.items # <<>>
        BY <2>3, <3>2 DEF Queued, Control, OnEdge
      <3>4. CountIn(b, e) = Len(b.items)
        BY <2>3, <3>3, EntryCounts DEF CountOf, OnEdge
      <3>5. Len(b.items) \in Nat /\ Len(b.items) # 0
        BY <3>3, EmptySeq DEF Entry, Items
      <3> HIDE DEF b
      <3> QED
        BY <1>1, <3>2, <3>4, <3>5
    <2> QED
      BY <2>1, <2>2, <2>3 DEF Offered
  <1> DEFINE g == got[e]
             k == Len(kept[e])
             c == CountOf(batch[Dst[e]], e)
             x == queued[e]
             p == put[e]
  <1>4. g \in Nat /\ k \in Nat /\ c \in Nat /\ p \in Nat /\ x \in Int
    BY <1>1
  <1>5. g + k + c + x <= p /\ x >= 0 /\ (k >= 1 \/ c >= 1 \/ x >= 1)
    BY <1>2, <1>3
  <1>6. g + 1 <= p
    <2> HIDE DEF g, k, c, x, p
    <2> QED
      BY <1>4, <1>5
  <1> QED
    BY <1>6

LEMMA OnlyMarkDone ==
    ASSUME NEW n \in Nodes, Steps(n), ~Mark(n)
    PROVE  done' = done
  <1>1. CASE \/ Start(n) \/ Produce(n) \/ Process(n) \/ Return(n) \/ Doze(n)
             \/ WakeProducer(n) \/ End(n)
    BY <1>1 DEF Start, Produce, Process, Return, Doze, WakeProducer, End, edgeVars
  <1>2. CASE Buffer(n) \/ Skip(n) \/ Prepare(n) \/ Claim(n) \/ ClaimAny(n) \/ Block(n) \/ Push(n)
    BY <1>2 DEF Buffer, Skip, Prepare, Claim, ClaimAny, Claimed, Block, Push, edgeVars
  <1>3. CASE \/ TakeKept(n) \/ Drain(n) \/ NextOfBatch(n) \/ Pop(n) \/ FlushFirst(n) \/ Await(n)
             \/ Release(n)
    BY <1>3 DEF TakeKept, Drain, NextOfBatch, Pop, FlushFirst, Await, Release, edgeVars
  <1> QED
    BY <1>1, <1>2, <1>3 DEF Steps

\* A node of an open loop does not mark its inbox done, and one of a closed loop
\* has nothing inside it.
LEMMA DoneStep ==
    ASSUME TypeOK, Looping, NEW n \in Nodes, Steps(n), NEW e \in Edges, Onto(e)
    PROVE  /\ ~closed => done'[Dst[e]] = done[Dst[e]]
           /\ done'[Dst[e]] = done[Dst[e]] \/ (done'[Dst[e]] /\ Numbers(e) = {})
  <1>1. Dst[e] \in Nodes
    BY GraphType
  <1>2. CASE Dst[e] # n
    <2>1. done'[Dst[e]] = done[Dst[e]]
      BY <1>1, <1>2, Local
    <2> QED
      BY <2>1
  <1>3. CASE Dst[e] = n /\ Mark(n)
    <2>1. mode[n] = "closing"
      BY <1>3 DEF Mark
    <2>2. closed
      BY <1>3, <2>1 DEF Looping, OpenLoop, Reads, Onto
    <2>3. Dead(e)
      BY <2>2 DEF Looping, ClosedLoop
    <2>4. done'[n]
      BY <1>3, Shapes DEF Mark
    <2> QED
      BY <1>3, <2>2, <2>3, <2>4, DeadNumbers
  <1>4. CASE ~Mark(n)
    BY <1>4, OnlyMarkDone
  <1> QED
    BY <1>2, <1>3, <1>4

LEMMA NumbersStay ==
    ASSUME TypeOK, Looping, NEW n \in Nodes, Steps(n), NEW e \in Edges,
           InLoop(e) => got'[e] = got[e] /\ put'[e] = put[e],
           EntersLoop(e) => kept'[e] = kept[e]
    PROVE  Numbers(e)' = Numbers(e)
  <1>1. CASE ~Onto(e)
    BY <1>1, OffLoop
  <1>2. CASE Onto(e) /\ done'[Dst[e]] = done[Dst[e]]
    BY <1>2 DEF Numbers
  <1>3. CASE Onto(e) /\ done'[Dst[e]] # done[Dst[e]]
    <2>1. done'[Dst[e]] /\ Numbers(e) = {}
      BY <1>3, DoneStep
    <2> QED
      BY <2>1 DEF Numbers
  <1> QED
    BY <1>1, <1>2, <1>3

LEMMA OwersGrow ==
    ASSUME TypeOK, NEW n \in Nodes
    PROVE  /\ IsFiniteSet(Owers) /\ Cardinality(Owers) \in Nat
           /\ owes' = owes => Owers' = Owers
           /\ ~owes[n] /\ owes' = [owes EXCEPT ![n] = TRUE] => Cardinality(Owers') = Cardinality(Owers) + 1
           /\ ~owes[n] /\ owes' = [owes EXCEPT ![n] = FALSE] => owes' = owes
  <1>1. IsFiniteSet(Owers)
    <2>1. Owers \in SUBSET Nodes
      BY DEF Owers
    <2> QED
      BY <2>1, GraphAssumption, FS_Subset
  <1>2. ASSUME ~owes[n], owes' = [owes EXCEPT ![n] = TRUE]  PROVE Cardinality(Owers') = Cardinality(Owers) + 1
    <2>1. Owers' = Owers \cup {n} /\ n \notin Owers
      BY <1>2, MoreShapes DEF Owers
    <2> QED
      BY <1>1, <2>1, FS_AddElement
  <1>3. ~owes[n] /\ owes' = [owes EXCEPT ![n] = FALSE] => owes' = owes
    BY MoreShapes
  <1>4. Cardinality(Owers) \in Nat
    BY <1>1, FS_CardinalityType
  <1>5. owes' = owes => Owers' = Owers
    BY DEF Owers
  <1> QED
    BY <1>1, <1>2, <1>3, <1>4, <1>5

LEMMA TokensSame ==
    ASSUME \A d \in Edges : Numbers(d)' = Numbers(d)
    PROVE  Unfinished' = Unfinished
  BY DEF Unfinished

\* Nothing of the loop is touched.
LEMMA TokensRest ==
    ASSUME TypeOK, Looping, NEW n \in Nodes, Steps(n),
           \A e \in Edges : InLoop(e) => got'[e] = got[e] /\ put'[e] = put[e],
           \A e \in Edges : EntersLoop(e) => kept'[e] = kept[e],
           owes' = owes, tokens' = tokens
    PROVE  TokensCount'
  <1>1. \A e \in Edges : Numbers(e)' = Numbers(e)
    BY NumbersStay
  <1>2. Unfinished' = Unfinished
    BY <1>1, TokensSame
  <1>3. Owers' = Owers
    BY DEF Owers
  <1> QED
    BY <1>2, <1>3 DEF Looping, TokensCount

\* One number more or less is inside.
LEMMA TokensMore ==
    ASSUME Looping, NEW e \in Edges, NEW x, x \notin Numbers(e), Numbers(e)' = Numbers(e) \cup {x},
           \A d \in Edges : d # e => Numbers(d)' = Numbers(d)
    PROVE  IsFiniteSet(Unfinished') /\ Cardinality(Unfinished') = Cardinality(Unfinished) + 1
  <1> DEFINE N == [d \in Edges |-> Numbers(d)]
             M == [d \in Edges |-> Numbers(d)']
  <1>1. Unfinished = Pairs(N) /\ Unfinished' = Pairs(M)
    BY DEF Unfinished, Pairs
  <1>2. IsFiniteSet(Pairs(N))
    BY <1>1 DEF Looping, TokensCount
  <1>3. x \notin N[e] /\ M[e] = N[e] \cup {x} /\ \A d \in Edges : d # e => M[d] = N[d]
    OBVIOUS
  <1> HIDE DEF N, M
  <1> QED
    BY <1>1, <1>2, <1>3, PairsOneMore

LEMMA TokensLess ==
    ASSUME Looping, NEW e \in Edges, NEW x, x \in Numbers(e), Numbers(e)' = Numbers(e) \ {x},
           \A d \in Edges : d # e => Numbers(d)' = Numbers(d)
    PROVE  IsFiniteSet(Unfinished') /\ Cardinality(Unfinished') = Cardinality(Unfinished) - 1
  <1> DEFINE N == [d \in Edges |-> Numbers(d)]
             M == [d \in Edges |-> Numbers(d)']
  <1>1. Unfinished = Pairs(N) /\ Unfinished' = Pairs(M)
    BY DEF Unfinished, Pairs
  <1>2. IsFiniteSet(Pairs(N))
    BY <1>1 DEF Looping, TokensCount
  <1>3. x \in N[e] /\ M[e] = N[e] \ {x} /\ \A d \in Edges : d # e => M[d] = N[d]
    OBVIOUS
  <1> HIDE DEF N, M
  <1> QED
    BY <1>1, <1>2, <1>3, PairsOneLess

LEMMA IntervalGrows == \A g, p \in Nat : g <= p =>
    /\ (g + 1)..(p + 1) = ((g + 1)..p) \cup {p + 1} /\ p + 1 \notin (g + 1)..p
  OBVIOUS

LEMMA IntervalShrinks == \A g, p \in Nat : g + 1 <= p =>
    /\ ((g + 1) + 1)..p = ((g + 1)..p) \ {g + 1} /\ g + 1 \in (g + 1)..p
  OBVIOUS

LEMMA InitialGrows == \A k \in Nat : 1..(k + 1) = (1..k) \cup {k + 1} /\ k + 1 \notin 1..k
  OBVIOUS

LEMMA InitialShrinks == \A k \in Nat : k > 0 => 1..(k - 1) = (1..k) \ {k} /\ k \in 1..k
  OBVIOUS

LEMMA TokensPut ==
    ASSUME LoopSound, TypeOK, Stream, Looping, NEW n \in Nodes, Steps(n), NEW e \in Edges, PutsOn(n, e)
    PROVE  TokensCount'
  <1>1. put \in [Edges -> Nat] /\ got \in [Edges -> Nat] /\ tokens \in Int
    BY MoreShapes DEF TypeOK, LoopTyped
  <1>2. \A d \in Edges : d # e => Numbers(d)' = Numbers(d)
    <2>1. ASSUME NEW d \in Edges, d # e  PROVE got'[d] = got[d] /\ put'[d] = put[d] /\ kept'[d] = kept[d]
      BY <1>1, <2>1 DEF PutsOn
    <2> QED
      BY <2>1, NumbersStay
  <1>3. IsFiniteSet(Owers) /\ Cardinality(Owers) \in Nat /\ Owers' = Owers
    BY OwersGrow DEF PutsOn, Owers
  <1>4. IsFiniteSet(Unfinished) /\ Cardinality(Unfinished) \in Nat
        /\ tokens = Cardinality(Unfinished) + Cardinality(Owers)
    BY FS_CardinalityType DEF Looping, TokensCount
  <1>5. CASE ~InLoop(e)
    <2>1. tokens' = tokens /\ Numbers(e)' = Numbers(e)
      BY <1>5, NumbersStay DEF PutsOn
    <2>2. Unfinished' = Unfinished
      BY <1>2, <2>1, TokensSame
    <2> QED
      BY <1>3, <1>4, <2>1, <2>2 DEF TokensCount
  <1>6. CASE InLoop(e)
    <2>1. ~closed
      <3>1. n \in LoopNodes /\ Gives(n)
        BY <1>6 DEF PutsOn, InLoop
      <3>2. owes[n]
        BY <3>1 DEF Looping, Serves, Busy
      <3> QED
        BY <3>2 DEF Looping, ClosedLoop
    <2>2. OpenLoop /\ Onto(e)
      BY <1>6, <2>1 DEF Looping, InLoop, Onto
    <2>3. Conserves(e) /\ ~done[Dst[e]] /\ ~Sealed(e) /\ done'[Dst[e]] = done[Dst[e]]
      BY <1>6, <2>1, <2>2, StaysOpen, DoneStep
    <2>4. got[e] <= put[e]
      <3> DEFINE g == got[e]
                 k == Len(kept[e])
                 c == CountOf(batch[Dst[e]], e)
                 x == queued[e]
                 p == put[e]
      <3>1. g + k + c + x <= p /\ x >= 0
        BY <2>3, GotPut
      <3>2. g \in Nat /\ k \in Nat /\ c \in Nat /\ x \in Int /\ p \in Nat
        BY EdgeCounts
      <3>3. g <= p
        <4> HIDE DEF g, k, c, x, p
        <4> QED
          BY <3>1, <3>2
      <3> QED
        BY <3>3
    <2>5. got'[e] = got[e] /\ put'[e] = put[e] + 1 /\ tokens' = tokens + 1
      BY <1>1, <1>6 DEF PutsOn
    <2>6. Numbers(e) = (got[e] + 1)..put[e] /\ Numbers(e)' = (got[e] + 1)..(put[e] + 1)
      BY <1>6, <2>3, <2>5 DEF Numbers
    <2>7. Numbers(e)' = Numbers(e) \cup {put[e] + 1} /\ put[e] + 1 \notin Numbers(e)
      BY <1>1, <2>4, <2>6, IntervalGrows
    <2>8. IsFiniteSet(Unfinished') /\ Cardinality(Unfinished') = Cardinality(Unfinished) + 1
      BY <1>2, <2>7, TokensMore
    <2>9. Cardinality(Owers') = Cardinality(Owers)
      BY <1>3
    <2> QED
      BY <1>3, <1>4, <2>5, <2>8, <2>9 DEF TokensCount
  <1> QED
    BY <1>5, <1>6

\* A node of a closed loop is offered nothing.
LEMMA ReadsOpen ==
    ASSUME LoopSound, TypeOK, Stream, Looping, NEW n \in Nodes, n \in LoopNodes, NEW e \in Edges, ReadsOf(n, e)
    PROVE  /\ ~closed /\ Onto(e) /\ Conserves(e) /\ ~done[n]
           /\ InLoop(e) => got[e] + 1 <= put[e]
  <1>1. Onto(e) /\ (Offered(Dst[e], e) \/ kept[e] # <<>>)
    BY DEF ReadsOf, Onto, Delivers, HoldsBack, HandsOver
  <1>2. ~closed
    BY <1>1, DeadOffers DEF Looping, ClosedLoop
  <1>3. OpenLoop
    BY <1>2 DEF Looping
  <1>4. Conserves(e) /\ ~done[Dst[e]] /\ (InLoop(e) => ~Sealed(e))
    BY <1>1, <1>2, <1>3, StaysOpen
  <1> QED
    BY <1>1, <1>2, <1>4, OfferedCounts DEF ReadsOf

LEMMA TokensRead ==
    ASSUME LoopSound, TypeOK, TypeOK', Stream, Looping, NEW n \in Nodes, Steps(n), NEW e \in Edges, ReadsOf(n, e)
    PROVE  TokensCount'
  <1>1. /\ put \in [Edges -> Nat] /\ got \in [Edges -> Nat] /\ tokens \in Int
        /\ kept \in [Edges -> Seq(Nat)] /\ owes \in [Nodes -> BOOLEAN]
    BY MoreShapes DEF TypeOK, LoopTyped
  <1>2. \A d \in Edges : d # e => Numbers(d)' = Numbers(d)
    <2>1. ASSUME NEW d \in Edges, d # e  PROVE got'[d] = got[d] /\ put'[d] = put[d] /\ kept'[d] = kept[d]
      BY <1>1, <2>1 DEF ReadsOf, Delivers, HoldsBack, HandsOver
    <2> QED
      BY <2>1, NumbersStay
  <1>3. /\ IsFiniteSet(Owers) /\ Cardinality(Owers) \in Nat /\ ~owes[n]
        /\ owes' = owes => Owers' = Owers
        /\ owes' = [owes EXCEPT ![n] = TRUE] => Cardinality(Owers') = Cardinality(Owers) + 1
        /\ owes' = [owes EXCEPT ![n] = FALSE] => owes' = owes
    BY OwersGrow DEF ReadsOf
  <1>4. IsFiniteSet(Unfinished) /\ Cardinality(Unfinished) \in Nat
        /\ tokens = Cardinality(Unfinished) + Cardinality(Owers)
    BY FS_CardinalityType DEF Looping, TokensCount
  <1>5. CASE n \notin LoopNodes
    <2>1. ~Onto(e)
      BY <1>5 DEF ReadsOf, Onto
    <2>2. ~InLoop(e) /\ ~EntersLoop(e) /\ Numbers(e)' = Numbers(e)
      BY <2>1, OffLoop
    <2>3. tokens' = tokens /\ owes' = owes
      <3>1. owes' = owes \/ owes' = [owes EXCEPT ![n] = FALSE]
        <4>1. (n \in LoopNodes) = FALSE
          BY <1>5
        <4>2. owes' = owes \/ owes' = [owes EXCEPT ![n] = n \in LoopNodes]
          BY DEF ReadsOf, Delivers, HoldsBack, HandsOver
        <4> QED
          BY <4>1, <4>2
      <3>2. tokens' = tokens
        BY <2>2 DEF ReadsOf, Delivers, HoldsBack, HandsOver
      <3> QED
        BY <1>3, <3>1, <3>2
    <2>4. Unfinished' = Unfinished
      BY <1>2, <2>2, TokensSame
    <2> QED
      BY <1>3, <1>4, <2>3, <2>4 DEF TokensCount
  <1>6. CASE n \in LoopNodes
    <2>1. ~closed /\ Onto(e) /\ ~done[n] /\ (InLoop(e) => got[e] + 1 <= put[e]) /\ Dst[e] = n
      BY <1>6, ReadsOpen DEF ReadsOf
    <2>2. done'[Dst[e]] = done[Dst[e]]
      BY <2>1, DoneStep
    <2>3. ~(InLoop(e) /\ EntersLoop(e)) /\ (InLoop(e) \/ EntersLoop(e))
      BY <2>1, GraphType DEF InLoop, EntersLoop, Onto
    <2>4. InLoop(e) => Numbers(e) = (got[e] + 1)..put[e] /\ Numbers(e)' = (got'[e] + 1)..put'[e]
      BY <2>1, <2>2 DEF Numbers
    <2>5. EntersLoop(e) => Numbers(e) = 1..Len(kept[e]) /\ Numbers(e)' = 1..Len(kept'[e])
      BY <2>1, <2>2, <2>3 DEF Numbers
    <2>6. ASSUME InLoop(e), got'[e] = got[e] + 1, put'[e] = put[e]
          PROVE  IsFiniteSet(Unfinished') /\ Cardinality(Unfinished') = Cardinality(Unfinished) - 1
      <3>1. Numbers(e)' = ((got[e] + 1) + 1)..put[e]
        BY <2>4, <2>6
      <3>2. Numbers(e)' = Numbers(e) \ {got[e] + 1} /\ got[e] + 1 \in Numbers(e)
        BY <1>1, <2>1, <2>4, <2>6, <3>1, IntervalShrinks
      <3> QED
        BY <1>2, <3>2, TokensLess
    <2>7. CASE Delivers(n, e)
      <3>1. got'[e] = got[e] + 1 /\ put'[e] = put[e] /\ kept'[e] = kept[e] /\ owes' = [owes EXCEPT ![n] = TRUE]
            /\ tokens' = IF EntersLoop(e) THEN tokens + 1 ELSE tokens
        BY <1>1, <1>6, <2>7 DEF Delivers
      <3>2. Cardinality(Owers') = Cardinality(Owers) + 1
        BY <1>3, <3>1
      <3>3. CASE InLoop(e)
        BY <1>3, <1>4, <2>3, <2>6, <3>1, <3>2, <3>3 DEF TokensCount
      <3>4. CASE EntersLoop(e)
        <4>1. Unfinished' = Unfinished
          BY <1>2, <2>5, <3>1, <3>4, TokensSame
        <4> QED
          BY <1>3, <1>4, <3>1, <3>2, <3>4, <4>1 DEF TokensCount
      <3> QED
        BY <2>3, <3>3, <3>4
    <2>8. CASE HoldsBack(n, e)
      <3>1. PICK x \in Nat : kept' = [kept EXCEPT ![e] = Append(@, x)]
        BY <2>8 DEF HoldsBack
      <3>2. got'[e] = got[e] /\ put'[e] = put[e] /\ Owers' = Owers
            /\ tokens' = IF EntersLoop(e) THEN tokens + 1 ELSE tokens
        BY <1>3, <2>8 DEF HoldsBack
      <3>3. CASE InLoop(e)
        <4>1. Unfinished' = Unfinished
          BY <1>2, <2>4, <3>2, <3>3, TokensSame
        <4> QED
          BY <1>3, <1>4, <2>3, <3>2, <3>3, <4>1 DEF TokensCount
      <3>4. CASE EntersLoop(e)
        <4>1. Len(kept'[e]) = Len(kept[e]) + 1 /\ Len(kept[e]) \in Nat
          BY <1>1, <3>1
        <4>2. Numbers(e)' = Numbers(e) \cup {Len(kept[e]) + 1} /\ Len(kept[e]) + 1 \notin Numbers(e)
          BY <2>5, <3>4, <4>1, InitialGrows
        <4>3. IsFiniteSet(Unfinished') /\ Cardinality(Unfinished') = Cardinality(Unfinished) + 1
          BY <1>2, <4>2, TokensMore
        <4>4. Cardinality(Owers') = Cardinality(Owers)
          BY <3>2
        <4> QED
          BY <1>3, <1>4, <3>2, <3>4, <4>3, <4>4 DEF TokensCount
      <3> QED
        BY <2>3, <3>3, <3>4
    <2>9. CASE HandsOver(n, e)
      <3>1. got'[e] = got[e] + 1 /\ put'[e] = put[e] /\ owes' = [owes EXCEPT ![n] = TRUE] /\ tokens' = tokens
            /\ kept[e] # <<>> /\ kept' = [kept EXCEPT ![e] = Tail(@)]
        BY <1>1, <1>6, <2>9 DEF HandsOver
      <3>2. Cardinality(Owers') = Cardinality(Owers) + 1
        BY <1>3, <3>1
      <3>3. CASE InLoop(e)
        BY <1>3, <1>4, <2>6, <3>1, <3>2, <3>3 DEF TokensCount
      <3>4. CASE EntersLoop(e)
        <4>1. kept[e] \in Seq(Nat) /\ kept'[e] = Tail(kept[e])
          BY <1>1, <3>1
        <4>2. Len(kept'[e]) = Len(kept[e]) - 1 /\ Len(kept[e]) \in Nat /\ Len(kept[e]) > 0
          BY <3>1, <4>1, TailOf
        <4>3. Numbers(e)' = Numbers(e) \ {Len(kept[e])} /\ Len(kept[e]) \in Numbers(e)
          BY <2>5, <3>4, <4>2, InitialShrinks
        <4>4. IsFiniteSet(Unfinished') /\ Cardinality(Unfinished') = Cardinality(Unfinished) - 1
          BY <1>2, <4>3, TokensLess
        <4> QED
          BY <1>3, <1>4, <3>1, <3>2, <4>4 DEF TokensCount
      <3> QED
        BY <2>3, <3>3, <3>4
    <2> QED
      BY <2>7, <2>8, <2>9 DEF ReadsOf
  <1> QED
    BY <1>5, <1>6

LEMMA TokensStep ==
    ASSUME LoopSound, CreditInv, TypeOK', Stream, Looping, NEW n \in Nodes, Steps(n)
    PROVE  TokensCount'
  <1>1. TypeOK
    BY DEF CreditInv
  <1>2. Tidy(n) /\ Serves(n)
    BY DEF Stream, Looping
  <1>3. CASE Rests
    BY <1>1, <1>3, TokensRest DEF Rests
  <1>4. CASE Drains(n)
    <2>1. ASSUME NEW e \in Edges, InLoop(e)  PROVE got'[e] = got[e]
      BY <1>4, <2>1 DEF Drains, InLoop
    <2> QED
      BY <1>1, <1>4, <2>1, TokensRest DEF Drains
  <1> QED
    BY <1>1, <1>2, <1>3, <1>4, Effects, TokensPut, TokensRead
-----------------------------------------------------------------------------
(* A node owes its loop what it is working on.                             *)

LEMMA TakenLocal ==
    ASSUME TypeOK, NEW n \in Nodes, Steps(n), NEW m \in Nodes, m # n
    PROVE  taken'[m] = taken[m] /\ rel'[m] = rel[m]
  <1>1. CASE \/ Start(n) \/ Produce(n) \/ Return(n) \/ Doze(n)
             \/ Mark(n) \/ WakeProducer(n) \/ End(n)
    BY <1>1 DEF Start, Produce, Return, Doze, Mark, WakeProducer, End, receiveVars
  <1>2. CASE Process(n)
    <2>1. rel' = rel /\ \E v : taken' = [taken EXCEPT ![n] = v]
      BY <1>2 DEF Process
    <2> QED
      BY <2>1, MoreShapes
  <1>3. CASE Buffer(n) \/ Skip(n) \/ Prepare(n) \/ Claim(n) \/ ClaimAny(n) \/ Block(n) \/ Push(n)
    BY <1>3 DEF Buffer, Skip, Prepare, Claim, ClaimAny, Claimed, Block, Push, receiveVars
  <1>4. CASE FlushFirst(n) \/ Await(n) \/ Release(n)
    BY <1>4, MoreShapes DEF FlushFirst, Await, Release, receiveVars
  <1>5. CASE TakeKept(n) \/ Drain(n)
    BY <1>5, MoreShapes DEF TakeKept, Drain
  <1>6. CASE NextOfBatch(n) \/ Pop(n)
    BY <1>6, MoreShapes DEF NextOfBatch, Pop, Unpack
  <1> QED
    BY <1>1, <1>2, <1>3, <1>4, <1>5, <1>6 DEF Steps

LEMMA ServesSame ==
    ASSUME NEW n \in Nodes, Serves(n),
           plan'[n] = plan[n], taken'[n] = taken[n], owes'[n] = owes[n], mode'[n] = mode[n],
           pc'[n] = "park_in" => pc[n] = "park_in",
           pc'[n] \in {"credit", "park_out"} => pc[n] \in {"credit", "park_out"} /\ hand'[n] = hand[n]
    PROVE  Serves(n)'
  <1>1. Busy(n)' => Busy(n)
    BY DEF Busy, Gives
  <1> QED
    BY <1>1 DEF Serves

LEMMA ServesLocal ==
    ASSUME TypeOK, NEW n \in Nodes, Steps(n), NEW m \in Nodes, m # n, Serves(m)
    PROVE  Serves(m)'
  <1>1. /\ pc'[m] = pc[m] /\ mode'[m] = mode[m] /\ plan'[m] = plan[m]
        /\ hand'[m] = hand[m] /\ owes'[m] = owes[m]
    BY Local
  <1>2. taken'[m] = taken[m]
    BY TakenLocal
  <1> QED
    BY <1>1, <1>2, ServesSame

\* What a step of n that reads does to its own thread.
LEMMA TakeShape ==
    ASSUME TypeOK, NEW n \in Nodes, TakeKept(n) \/ Drain(n) \/ NextOfBatch(n) \/ Pop(n)
    PROVE  /\ plan' = plan /\ hand' = hand /\ mode' = mode /\ stopped' = stopped
           /\ pc'[n] \in {"run", "release"}
           /\ \/ taken' = taken /\ owes' = owes
              \/ owes' = [owes EXCEPT ![n] = n \in LoopNodes]
              \/ n \notin LoopNodes /\ owes' = owes
  <1>1. CASE TakeKept(n)
    BY <1>1, Shapes DEF TakeKept
  <1>2. CASE Drain(n)
    BY <1>2, Shapes DEF Drain, Fast, loopVars
  <1>3. CASE NextOfBatch(n)
    BY <1>3, Shapes DEF NextOfBatch, Unpack
  <1>4. CASE Pop(n)
    <2>1. plan' = plan /\ hand' = hand /\ mode' = mode /\ stopped' = stopped
      BY <1>4 DEF Pop
    <2>2. pc'[n] \in {"run", "release"}
      BY <1>4, Shapes DEF Pop, Unpack
    <2>3. \/ taken' = taken /\ owes' = owes
          \/ owes' = [owes EXCEPT ![n] = n \in LoopNodes]
      BY <1>4 DEF Pop, Unpack, loopVars
    <2> QED
      BY <2>1, <2>2, <2>3
  <1> QED
    BY <1>1, <1>2, <1>3, <1>4

LEMMA ReadsInBody ==
    ASSUME TypeOK, NEW n \in Nodes, Tidy(n), Serves(n), TakeKept(n) \/ Drain(n) \/ NextOfBatch(n) \/ Pop(n)
    PROVE  mode[n] = "body" /\ ~owes[n] /\ taken[n] = <<>> /\ pc[n] \in {"run", "park_in"}
  <1>1. CASE Free(n)
    BY <1>1 DEF Free, Coding, Owing
  <1>2. CASE ~Free(n)
    <2>1. pc[n] = "park_in"
      BY <1>2 DEF TakeKept, Drain, NextOfBatch, Pop, Popping, Asking
    <2>2. mode[n] \in {"body", "closing"}
      BY MoreShapes
    <2> QED
      BY <2>1, <2>2 DEF Tidy, Serves
  <1> QED
    BY <1>1, <1>2

LEMMA ServesOwn ==
    ASSUME LoopSound, CreditInv, NEW n \in Nodes, Tidy(n), Serves(n), Steps(n)
    PROVE  Serves(n)'
  <1>0. TypeOK
    BY DEF CreditInv
  <1>1. CASE \/ Start(n) \/ Doze(n) \/ Mark(n) \/ WakeProducer(n) \/ End(n)
    <2>1. /\ plan' = plan /\ taken' = taken /\ owes' = owes /\ mode' = mode /\ hand' = hand
      BY <1>1 DEF Start, Doze, Mark, WakeProducer, End, receiveVars, loopVars
    <2>2. pc'[n] = pc[n] \/ pc'[n] \notin {"park_in", "credit", "park_out"}
      BY <1>0, <1>1, Shapes DEF Start, Doze, Mark, WakeProducer, End
    <2> QED
      BY <2>1, <2>2, ServesSame
  <1>2. CASE Claim(n) \/ ClaimAny(n) \/ Block(n) \/ Push(n)
    <2>1. /\ plan' = plan /\ taken' = taken /\ mode' = mode
      BY <1>2 DEF Claim, ClaimAny, Claimed, Block, Push, receiveVars
    <2>2. owes' = owes
      <3>1. CASE Claim(n) \/ Block(n) \/ Push(n)
        BY <3>1 DEF Claim, Block, Push, loopVars
      <3>2. CASE ClaimAny(n)
        BY <3>2 DEF ClaimAny, CountSent
      <3> QED
        BY <1>2, <3>1, <3>2
    <2>3. \/ pc'[n] \notin {"park_in", "credit", "park_out"}
          \/ pc'[n] = "park_out" /\ pc[n] = "credit" /\ hand' = hand
      BY <1>0, <1>2, Shapes DEF Claim, ClaimAny, Claimed, Block, Push
    <2> QED
      BY <2>1, <2>2, <2>3, ServesSame
  <1>3. CASE Release(n)
    <2>1. /\ plan' = plan /\ taken' = taken /\ owes' = owes /\ mode' = mode /\ hand' = hand
      BY <1>3 DEF Release, loopVars
    <2>2. pc'[n] \in {"run", "external"}
      BY <1>0, <1>3, Shapes DEF Release
    <2> QED
      BY <2>1, <2>2, ServesSame
  <1>4. CASE Await(n)
    <2>1. /\ plan' = plan /\ taken' = taken /\ owes' = owes /\ mode' = mode /\ hand' = hand
          /\ pc' = [pc EXCEPT ![n] = "park_in"]
      BY <1>4 DEF Await, receiveVars, loopVars
    <2>2. taken[n] = <<>> /\ ~owes[n] /\ mode[n] = "body"
      BY <1>4 DEF Await, Popping, Asking, Free, Coding, Owing
    <2>3. Busy(n)' => Busy(n)
      BY <1>0, <2>1, Shapes DEF Busy, Gives
    <2> QED
      BY <1>0, <2>1, <2>2, <2>3, Shapes DEF Serves
  <1>5. CASE Produce(n)
    <2>1. taken' = taken /\ owes' = owes /\ mode' = mode /\ pc' = pc /\ mode[n] = "body" /\ pc[n] = "run"
      BY <1>5 DEF Produce, Making, Free, Coding, receiveVars, loopVars
    <2>2. made[n] < Supply[n] /\ made[n] \in Nat
      BY <1>0, <1>5 DEF Produce, Making, TypeOK, CodeTyped
    <2>3. n \notin LoopNodes
      BY <2>2 DEF LoopSound
    <2> QED
      BY <2>1, <2>3 DEF Serves
  <1>6. CASE Process(n)
    <2>1. owes' = owes /\ mode' = mode /\ pc' = pc /\ mode[n] = "body" /\ pc[n] = "run" /\ taken[n] # <<>>
      BY <1>6 DEF Process, Coding, loopVars
    <2> QED
      BY <2>1 DEF Serves, Busy
  <1>7. CASE Return(n)
    <2>1. /\ taken' = taken /\ owes' = owes /\ pc' = pc /\ plan' = [plan EXCEPT ![n] = ClosePlan(n)]
          /\ pc[n] = "run" /\ taken[n] = <<>> /\ ~owes[n]
      BY <1>7 DEF Return, Free, Coding, Owing, receiveVars, loopVars
    <2>2. plan'[n] = ClosePlan(n)
      BY <1>0, <2>1, MoreShapes
    <2>3. \A i \in DOMAIN ClosePlan(n) : ClosePlan(n)[i].op \in {"flush", "eos"}
      BY ClosePlanShuts DEF Shuts
    <2>4. ~Gives(n)'
      BY <2>1, <2>2, <2>3 DEF Gives
    <2> QED
      BY <2>1, <2>4 DEF Serves, Busy
  <1>8. CASE FlushFirst(n)
    <2>1. /\ taken' = taken /\ owes' = owes /\ pc' = pc /\ mode' = mode /\ plan' = [plan EXCEPT ![n] = FlushPlan(n)]
          /\ pc[n] = "run" /\ taken[n] = <<>> /\ ~owes[n] /\ mode[n] = "body"
      BY <1>8 DEF FlushFirst, Popping, Asking, Free, Coding, Owing, receiveVars, loopVars
    <2>2. plan'[n] = FlushPlan(n)
      BY <1>0, <2>1, MoreShapes
    <2>3. \A i \in DOMAIN FlushPlan(n) : FlushPlan(n)[i].op = "flush"
      BY DEF FlushPlan, Cmd
    <2>4. ~Gives(n)'
      BY <2>1, <2>2, <2>3 DEF Gives
    <2> QED
      BY <2>1, <2>4 DEF Serves, Busy
  <1>9. CASE Buffer(n) \/ Skip(n) \/ Prepare(n)
    <2>1. /\ taken' = taken /\ mode' = mode /\ plan' = [plan EXCEPT ![n] = Tail(@)] /\ plan[n] # <<>>
          /\ pc[n] = "run"
      BY <1>9 DEF Buffer, Skip, Prepare, Sending, receiveVars
    <2>2. owes' = owes
      <3>1. CASE Buffer(n)
        BY <3>1 DEF Buffer, CountSent
      <3>2. CASE Skip(n)
        BY <3>2 DEF Skip, loopVars
      <3>3. CASE Prepare(n)
        BY <3>3 DEF Prepare, CountSent, loopVars
      <3> QED
        BY <1>9, <3>1, <3>2, <3>3
    <2>3. plan[n] \in Seq(Commands) /\ plan'[n] = Tail(plan[n])
      BY <1>0, <2>1, MoreShapes
    <2>4. /\ \A i \in DOMAIN plan'[n] : i + 1 \in DOMAIN plan[n] /\ plan'[n][i] = plan[n][i + 1]
          /\ 1 \in DOMAIN plan[n] /\ Head(plan[n]) = plan[n][1]
      <3>1. ASSUME NEW i \in DOMAIN plan'[n]
            PROVE  i + 1 \in DOMAIN plan[n] /\ plan'[n][i] = plan[n][i + 1]
        <4>1. i \in DOMAIN Tail(plan[n])
          BY <2>3
        <4>2. i + 1 \in DOMAIN plan[n] /\ Tail(plan[n])[i] = plan[n][i + 1]
          BY <2>1, <2>3, <4>1, TailElements
        <4> QED
          BY <2>3, <4>2
      <3>2. 1 \in DOMAIN plan[n] /\ Head(plan[n]) = plan[n][1]
        BY <2>1, <2>3, TailOf
      <3> QED
        BY <3>1, <3>2
    <2>5. pc'[n] \in {"run", "credit"} /\ (pc'[n] = "credit" /\ hand'[n].items = <<>> => HeadOp(n) = "any")
      <3>1. CASE Buffer(n) \/ Skip(n)
        BY <2>1, <3>1 DEF Buffer, Skip
      <3>2. CASE Prepare(n)
        <4>1. pc'[n] = "credit"
          BY <1>0, <3>2, Shapes DEF Prepare
        <4>2. /\ HeadOp(n) = "flush" => pending[HeadEdge(n)] # <<>>
              /\ hand' = [hand EXCEPT ![n] =
                    CASE HeadOp(n) = "put"   -> [edge |-> HeadEdge(n), items |-> Append(pending[HeadEdge(n)], put[HeadEdge(n)] + 1)]
                      [] HeadOp(n) = "flush" -> [edge |-> HeadEdge(n), items |-> pending[HeadEdge(n)]]
                      [] HeadOp(n) = "eos"   -> [edge |-> HeadEdge(n), items |-> <<EOS>>]
                      [] HeadOp(n) = "any"   -> NoEntry]
          BY <3>2 DEF Prepare
        <4>3. HeadOp(n) \in Ops /\ HeadEdge(n) \in Edges
          BY <2>1, HeadWired
        <4>4. Append(pending[HeadEdge(n)], put[HeadEdge(n)] + 1) # <<>> /\ <<EOS>> # <<>>
          <5>1. pending[HeadEdge(n)] \in Seq(Nat) /\ put[HeadEdge(n)] + 1 \in Nat
            BY <1>0, <4>3, MoreShapes
          <5> QED
            BY <5>1
        <4>5. HeadOp(n) # "any" => hand'[n].items # <<>>
          <5>1. HeadOp(n) = "put" => hand'[n].items = Append(pending[HeadEdge(n)], put[HeadEdge(n)] + 1)
            BY <1>0, <4>2, Shapes
          <5>2. HeadOp(n) = "flush" => hand'[n].items = pending[HeadEdge(n)]
            BY <1>0, <4>2, Shapes
          <5>3. HeadOp(n) = "eos" => hand'[n].items = <<EOS>>
            BY <1>0, <4>2, Shapes
          <5> QED
            BY <4>2, <4>3, <4>4, <5>1, <5>2, <5>3 DEF Ops
        <4> QED
          BY <4>1, <4>5
      <3> QED
        BY <1>9, <3>1, <3>2
    <2>6. Busy(n)' => Busy(n)
      <3>1. Gives(n)' => Gives(n)
        <4>1. ASSUME NEW i \in DOMAIN plan'[n], plan'[n][i].op \in {"put", "any"}  PROVE Gives(n)
          BY <2>4, <4>1 DEF Gives
        <4>2. pc'[n] \in {"credit", "park_out"} /\ hand'[n].items = <<>> => Gives(n)
          BY <2>4, <2>5 DEF Gives, HeadOp
        <4> QED
          BY <4>1, <4>2 DEF Gives
      <3> QED
        BY <2>1, <3>1 DEF Busy
    <2>7. owes'[n] = owes[n] /\ taken'[n] = taken[n] /\ mode'[n] = mode[n] /\ pc'[n] # "park_in"
      BY <2>1, <2>2, <2>5
    <2> QED
      BY <2>6, <2>7 DEF Serves
  <1>10. CASE TakeKept(n) \/ Drain(n) \/ NextOfBatch(n) \/ Pop(n)
    <2>1. mode[n] = "body" /\ ~owes[n] /\ taken[n] = <<>>
      BY <1>0, <1>10, ReadsInBody
    <2>2. plan' = plan /\ hand' = hand /\ mode' = mode /\ pc'[n] \in {"run", "release"}
      BY <1>0, <1>10, TakeShape
    <2>3. CASE taken' = taken /\ owes' = owes
      BY <2>2, <2>3, ServesSame
    <2>4. CASE owes' = [owes EXCEPT ![n] = n \in LoopNodes]
      <3>1. owes'[n] = (n \in LoopNodes)
        BY <1>0, <2>4, MoreShapes
      <3> QED
        BY <2>1, <2>2, <3>1 DEF Serves
    <2>5. CASE n \notin LoopNodes /\ owes' = owes
      BY <2>1, <2>2, <2>5 DEF Serves
    <2> QED
      BY <1>0, <1>10, <2>3, <2>4, <2>5, TakeShape
  <1> QED
    BY <1>1, <1>2, <1>3, <1>4, <1>5, <1>6, <1>7, <1>8, <1>9, <1>10 DEF Steps
-----------------------------------------------------------------------------
(* Until it closes the loop goes on reading, and waits for its inputs.     *)

LEMMA ReadsStep ==
    ASSUME LoopSound, TypeOK, Stream, ~closed, OpenLoop, NEW n \in Nodes, Steps(n), NEW m \in LoopNodes
    PROVE  Reads(m)'
  <1>0. m \in Nodes /\ mode[m] = "body" /\ ~stopped[m]
    BY GraphType DEF OpenLoop, Reads
  <1>1. CASE m # n
    BY <1>0, <1>1, Local DEF Reads
  <1>2. CASE m = n
    <2>0. m \notin MayStop /\ Supply[m] = 0
      BY DEF LoopSound
    <2>1. ~Produce(n) /\ ~Return(n)
      <3>1. ~Making(n)
        <4>1. made[n] \in Nat
          BY DEF TypeOK, CodeTyped
        <4> QED
          BY <1>2, <2>0, <4>1 DEF Making
      <3>2. Remaining(n) # {}
        <4>1. PICK e \in Edges : InLoop(e) /\ Dst[e] = n
          BY <1>2 DEF LoopSound
        <4>2. e \notin ended
          BY <1>2, <4>1, StaysOpen DEF Onto
        <4> QED
          BY <4>1, <4>2 DEF Remaining
      <3> QED
        BY <1>0, <1>2, <3>1, <3>2 DEF Produce, Return
    <2>2. CASE Process(n)
      <3>1. mode' = mode
        BY <2>2 DEF Process
      <3>2. \E stop \in MayStopNow(n) : stopped' = [stopped EXCEPT ![n] = stop]
        BY <2>2 DEF Process
      <3>3. stopped'[n] = FALSE
        BY <1>2, <2>0, <3>2, MoreShapes DEF MayStopNow
      <3> QED
        BY <1>0, <1>2, <3>1, <3>3 DEF Reads
    <2>3. CASE ~Process(n)
      <3>1. mode' = mode /\ stopped' = stopped
        <4>1. CASE Start(n) \/ Doze(n) \/ Mark(n) \/ WakeProducer(n) \/ End(n)
          BY <4>1 DEF Start, Doze, Mark, WakeProducer, End, codeVars
        <4>2. CASE Buffer(n) \/ Skip(n) \/ Prepare(n) \/ Claim(n) \/ ClaimAny(n) \/ Block(n) \/ Push(n)
          BY <4>2 DEF Buffer, Skip, Prepare, Claim, ClaimAny, Claimed, Block, Push, codeVars
        <4>3. CASE FlushFirst(n) \/ Await(n) \/ Release(n)
          BY <4>3 DEF FlushFirst, Await, Release, codeVars
        <4>4. CASE TakeKept(n) \/ Drain(n) \/ NextOfBatch(n) \/ Pop(n)
          BY <4>4, TakeShape
        <4> QED
          BY <2>1, <2>3, <4>1, <4>2, <4>3, <4>4 DEF Steps
      <3> QED
        BY <1>0, <3>1 DEF Reads
    <2> QED
      BY <2>2, <2>3
  <1> QED
    BY <1>1, <1>2

LEMMA ReportsLocal ==
    ASSUME TypeOK, NEW n \in Nodes, Steps(n), NEW m \in Nodes, m # n
    PROVE  Reports(m)' = Reports(m)
  BY Local, TakenLocal DEF Reports

LEMMA ExternalKept ==
    ASSUME NEW n \in Nodes, Steps(n)
    PROVE  external' = external /\ (~Pop(n) => ended' = ended)
  <1>1. CASE \/ Start(n) \/ Produce(n) \/ Process(n) \/ Return(n) \/ Doze(n)
             \/ Mark(n) \/ WakeProducer(n) \/ End(n)
    BY <1>1 DEF Start, Produce, Process, Return, Doze, Mark, WakeProducer, End, receiveVars, loopVars
  <1>2. CASE Buffer(n) \/ Skip(n) \/ Prepare(n) \/ Claim(n) \/ ClaimAny(n) \/ Block(n) \/ Push(n)
    BY <1>2 DEF Buffer, Skip, Prepare, CountSent, Claim, ClaimAny, Claimed, Block, Push, receiveVars, loopVars
  <1>3. CASE FlushFirst(n) \/ Await(n) \/ Release(n)
    BY <1>3 DEF FlushFirst, Await, Release, receiveVars, loopVars
  <1>4. CASE TakeKept(n) \/ Drain(n) \/ NextOfBatch(n)
    BY <1>4 DEF TakeKept, Drain, NextOfBatch, Unpack, receiveVars, loopVars
  <1>5. CASE Pop(n)
    BY <1>5 DEF Pop, Unpack, loopVars
  <1> QED
    BY <1>1, <1>2, <1>3, <1>4, <1>5 DEF Steps

\* What is unpacked with a credit to give back is in the thread's hands.
LEMMA UnpackTakes ==
    ASSUME TypeOK, NEW n \in Nodes, NEW b, Unpack(n, b), pc'[n] = "release"
    PROVE  taken'[n] # <<>>
  <1>1. CASE Watched(n) \subseteq {b.edge}
    <2>1. taken' = [taken EXCEPT ![n] = <<Head(b.items)>>]
      BY <1>1 DEF Unpack
    <2>2. taken'[n] = <<Head(b.items)>>
      BY <2>1, MoreShapes
    <2> QED
      BY <2>2
  <1>2. CASE ~(Watched(n) \subseteq {b.edge})
    BY <1>2, Shapes DEF Unpack
  <1> QED
    BY <1>1, <1>2

\* Only the end of a stream leaves its reader with something to report.
LEMMA ReportsSame ==
    ASSUME TypeOK, NEW n \in Nodes, Steps(n), Pop(n) => Head(q[n]).items # <<EOS>>
    PROVE  Reports(n)' = Reports(n)
  <1>1. CASE \/ Start(n) \/ Produce(n) \/ Process(n) \/ Return(n) \/ Doze(n)
             \/ Mark(n) \/ WakeProducer(n) \/ End(n)
    <2>1. pc[n] \notin {"external", "release"}
      BY <1>1 DEF Start, Produce, Making, Free, Process, Coding, Return, Doze, Mark, WakeProducer, End
    <2>2. pc'[n] \notin {"external", "release"}
      BY <1>1, <2>1, Shapes DEF Start, Produce, Process, Return, Doze, Mark, WakeProducer, End
    <2> QED
      BY <2>1, <2>2 DEF Reports
  <1>2. CASE \/ Buffer(n) \/ Skip(n) \/ Prepare(n) \/ Claim(n) \/ ClaimAny(n) \/ Block(n) \/ Push(n)
             \/ FlushFirst(n) \/ Await(n)
    <2>1. pc[n] \notin {"external", "release"}
      BY <1>2 DEF Buffer, Skip, Prepare, Sending, Claim, ClaimAny, Claiming, Block, Push, FlushFirst, Await,
         Popping, Asking, Free, Coding
    <2>2. pc'[n] \notin {"external", "release"}
      BY <1>2, <2>1, Shapes DEF Buffer, Skip, Prepare, Claim, ClaimAny, Claimed, Block, Push, FlushFirst, Await
    <2> QED
      BY <2>1, <2>2 DEF Reports
  <1>3. CASE Release(n)
    <2>1. pc[n] = "release" /\ taken' = taken
          /\ pc' = [pc EXCEPT ![n] = IF taken[n] = <<>> /\ EntersLoop(rel[n].edge) THEN "external" ELSE "run"]
      BY <1>3 DEF Release
    <2>2. pc'[n] = IF taken[n] = <<>> /\ EntersLoop(rel[n].edge) THEN "external" ELSE "run"
      BY <2>1, Shapes
    <2> QED
      BY <2>1, <2>2 DEF Reports
  <1>4. CASE TakeKept(n) \/ Drain(n) \/ NextOfBatch(n) \/ Pop(n)
    <2>1. pc[n] \notin {"external", "release"}
      BY <1>4 DEF TakeKept, Drain, NextOfBatch, Pop, Popping, Asking, Free, Coding
    <2>2. pc'[n] \in {"run", "release"}
      BY <1>4, TakeShape
    <2>3. ASSUME pc'[n] = "release"  PROVE taken'[n] # <<>>
      <3>1. CASE TakeKept(n)
        <4>1. \E x : taken' = [taken EXCEPT ![n] = <<x>>]
          BY <3>1 DEF TakeKept
        <4>2. \E x : taken'[n] = <<x>>
          BY <4>1, MoreShapes
        <4> QED
          BY <4>2
      <3>2. CASE Drain(n)
        BY <3>2, MoreShapes DEF Drain
      <3>3. CASE NextOfBatch(n)
        BY <2>3, <3>3, UnpackTakes DEF NextOfBatch
      <3>4. CASE Pop(n)
        <4>1. CASE Head(q[n]).items = <<LOOP_DONE>>
          BY <2>3, <3>4, <4>1, LoopDoneIsNotEos, Shapes DEF Pop
        <4>2. CASE Head(q[n]).items # <<LOOP_DONE>>
          <5>1. Unpack(n, Head(q[n]))
            BY <3>4, <4>2 DEF Pop
          <5> QED
            BY <2>3, <5>1, UnpackTakes
        <4> QED
          BY <4>1, <4>2
      <3> QED
        BY <1>4, <3>1, <3>2, <3>3, <3>4
    <2> QED
      BY <2>1, <2>2, <2>3 DEF Reports
  <1> QED
    BY <1>1, <1>2, <1>3, <1>4 DEF Steps

LEMMA EntriesFinite ==
    /\ IsFiniteSet(OpenEntries) /\ Cardinality(OpenEntries) \in Nat
    /\ IsFiniteSet(Reporting) /\ Cardinality(Reporting) \in Nat
  <1>1. OpenEntries \in SUBSET Edges /\ Reporting \in SUBSET Nodes
    BY DEF OpenEntries, Reporting
  <1>2. IsFiniteSet(OpenEntries) /\ IsFiniteSet(Reporting)
    BY <1>1, GraphAssumption, FS_Subset
  <1> QED
    BY <1>2, FS_CardinalityType

\* The loop counts the edges into it that have not ended, or whose end it has not
\* been told.
LEMMA ExternalStep ==
    ASSUME CreditInv, Stream, ~closed, ExternalCounts, NEW n \in Nodes, Serves(n), Steps(n)
    PROVE  ExternalCounts'
  <1> USE DEF CreditInv
  <1>0. external' = external
    BY ExternalKept
  <1>1. \A m \in Nodes : m # n => Reports(m)' = Reports(m)
    BY ReportsLocal
  <1>2. CASE Pop(n) /\ Head(q[n]).items = <<EOS>>
    <2> DEFINE e == Head(q[n]).edge
    <2>1. q[n] \in Seq(Queued) /\ q[n] # <<>> /\ Tidy(n)
      BY <1>2, Shapes DEF Pop, Stream
    <2>2. Head(q[n]) \in Queued /\ Head(q[n]) = q[n][1] /\ 1 \in DOMAIN q[n]
      BY <2>1, TailOf, HeadTailProperties
    <2>3. e \in Edges
      BY <2>2 DEF Queued, Entry, Control
    <2>4. taken[n] = <<>> /\ pc[n] \in {"run", "park_in"}
      BY <1>2, <2>1, ReadsInBody
    <2>5. /\ rel' = [rel EXCEPT ![n] = [edge |-> e, n |-> 1]]
          /\ ended' = ended \cup {e} /\ pc' = [pc EXCEPT ![n] = "release"] /\ taken' = taken
      BY <1>2 DEF Pop
    <2>6. pc'[n] = "release" /\ taken'[n] = <<>> /\ rel'[n].edge = e
      BY <2>4, <2>5, Shapes, MoreShapes
    <2>7. ~Reports(n) /\ (Reports(n)' <=> EntersLoop(e))
      <3>1. ~Reports(n)
        BY <2>4 DEF Reports
      <3>2. Reports(n)' <=> EntersLoop(e)
        <4> HIDE DEF e
        <4> QED
          BY <2>6 DEF Reports, EntersLoop
      <3> QED
        BY <3>1, <3>2
    <2>8. CASE ~EntersLoop(e)
      <3>1. OpenEntries' = OpenEntries
        BY <2>5, <2>8 DEF OpenEntries
      <3>2. Reporting' = Reporting
        BY <1>1, <2>7, <2>8 DEF Reporting
      <3> QED
        BY <1>0, <3>1, <3>2 DEF ExternalCounts
    <2>9. CASE EntersLoop(e)
      <3>1. e \in OpenEntries
        <4>1. Dst[e] = n
          <5>1. Head(q[n]) \in QueuedFor(n)
            BY <2>1, HeadQueued
          <5>2. Head(q[n]) \notin Control
            BY <1>2, LoopDoneIsNotEos DEF Control
          <5> QED
            BY <5>1, <5>2 DEF QueuedFor
        <4>2. EndQueued(e)
          BY <1>2, <2>2, <4>1 DEF EndQueued, EndsEdge
        <4>3. Conserves(e)
          BY <2>3 DEF Stream, Flows
        <4> QED
          BY <2>3, <2>9, <4>2, <4>3 DEF OpenEntries, Conserves
      <3>2. OpenEntries' = OpenEntries \ {e}
        BY <2>5 DEF OpenEntries
      <3>3. Cardinality(OpenEntries') = Cardinality(OpenEntries) - 1
        BY <3>1, <3>2, EntriesFinite, FS_RemoveElement
      <3>4. n \notin Reporting /\ Reporting' = Reporting \cup {n}
        BY <1>1, <2>7, <2>9 DEF Reporting
      <3>5. Cardinality(Reporting') = Cardinality(Reporting) + 1
        BY <3>4, EntriesFinite, FS_AddElement
      <3> QED
        BY <1>0, <3>3, <3>5, EntriesFinite DEF ExternalCounts
    <2> QED
      BY <2>8, <2>9
  <1>3. CASE ~(Pop(n) /\ Head(q[n]).items = <<EOS>>)
    <2>1. Reporting' = Reporting
      BY <1>1, <1>3, ReportsSame DEF Reporting
    <2>2. OpenEntries' = OpenEntries
      <3>1. ended' = ended
        <4>1. CASE ~Pop(n)
          BY <4>1, ExternalKept
        <4>2. CASE Pop(n)
          <5>1. q[n] \in Seq(Queued) /\ q[n] # <<>> /\ Queue(n)
            BY <4>2, Shapes DEF Pop, Stream
          <5>2. Head(q[n]) = q[n][1] /\ 1 \in DOMAIN q[n]
            BY <5>1, TailOf
          <5>3. Head(q[n]) \in Entry
            BY <5>1, <5>2 DEF Queue
          <5>4. Head(q[n]).items # <<LOOP_DONE>>
            BY <5>3, EntryCounts
          <5> QED
            BY <1>3, <4>2, <5>4 DEF Pop
        <4> QED
          BY <4>1, <4>2
      <3> QED
        BY <3>1 DEF OpenEntries
    <2> QED
      BY <1>0, <2>1, <2>2 DEF ExternalCounts
  <1> QED
    BY <1>2, <1>3
-----------------------------------------------------------------------------
(* Once it has closed nothing comes to its nodes any more.                 *)

\* Whoever sends to a node of a closed loop has nothing to send.
LEMMA DeadGives ==
    ASSUME TypeOK, Stream, Looping, closed, NEW e \in Edges, Onto(e)
    PROVE  Dead(e) /\ ~Gives(Src[e])
  <1>1. Dead(e) /\ Src[e] \in Nodes /\ ~owes[Src[e]]
    BY GraphType DEF Looping, ClosedLoop
  <1>2. Serves(Src[e]) /\ Tidy(Src[e]) /\ Closes(Src[e])
    BY <1>1 DEF Looping, Stream
  <1>3. CASE Src[e] \in LoopNodes
    BY <1>1, <1>2, <1>3 DEF Serves, Busy
  <1>4. CASE Src[e] \notin LoopNodes
    <2>1. mode[Src[e]] = "closing"
      BY <1>1, <1>4 DEF Dead, EntersLoop, Onto
    <2>2. \A i \in DOMAIN plan[Src[e]] : plan[Src[e]][i].op \in {"flush", "eos"}
      BY <1>2, <2>1 DEF Closes, Shuts
    <2> QED
      BY <1>1, <1>2, <2>1, <2>2 DEF Gives, Tidy
  <1> QED
    BY <1>1, <1>3, <1>4

LEMMA DeadCounts ==
    ASSUME LoopSound, CreditInv, Stream, Looping, closed, NEW n \in Nodes, Steps(n)
    PROVE  /\ \A m \in Nodes : ~owes'[m]
           /\ \A e \in Edges : Onto(e) => put'[e] = put[e] /\ got'[e] = got[e] /\ kept'[e] = kept[e]
  <1>0. TypeOK /\ Tidy(n) /\ Serves(n) /\ \A m \in Nodes : ~owes[m]
    BY DEF CreditInv, Stream, Looping, ClosedLoop
  <1>1. CASE Rests
    BY <1>0, <1>1 DEF Rests
  <1>2. CASE Drains(n)
    BY <1>0, <1>2 DEF Drains, Onto
  <1>3. ASSUME NEW d \in Edges, PutsOn(n, d)
        PROVE  /\ \A m \in Nodes : ~owes'[m]
               /\ \A e \in Edges : Onto(e) => put'[e] = put[e] /\ got'[e] = got[e] /\ kept'[e] = kept[e]
    <2>1. ~Onto(d)
      BY <1>0, <1>3, DeadGives DEF PutsOn
    <2>2. \A e \in Edges : e # d => put'[e] = put[e]
      BY <1>0, <1>3, MoreShapes DEF PutsOn
    <2> QED
      BY <1>0, <1>3, <2>1, <2>2 DEF PutsOn
  <1>4. ASSUME NEW d \in Edges, ReadsOf(n, d)
        PROVE  /\ \A m \in Nodes : ~owes'[m]
               /\ \A e \in Edges : Onto(e) => put'[e] = put[e] /\ got'[e] = got[e] /\ kept'[e] = kept[e]
    <2>1. n \notin LoopNodes
      BY <1>0, <1>4, ReadsOpen
    <2>2. ~Onto(d)
      BY <1>4, <2>1 DEF ReadsOf, Onto
    <2>3. \A e \in Edges : e # d => put'[e] = put[e] /\ got'[e] = got[e] /\ kept'[e] = kept[e]
      BY <1>0, <1>4, MoreShapes DEF ReadsOf, Delivers, HoldsBack, HandsOver
    <2>4. owes' = owes \/ owes' = [owes EXCEPT ![n] = FALSE]
      <3>1. (n \in LoopNodes) = FALSE
        BY <2>1
      <3>2. owes' = owes \/ owes' = [owes EXCEPT ![n] = n \in LoopNodes]
        BY <1>4 DEF ReadsOf, Delivers, HoldsBack, HandsOver
      <3> QED
        BY <3>1, <3>2
    <2> QED
      BY <1>0, <2>2, <2>3, <2>4, MoreShapes
  <1> QED
    BY <1>0, <1>1, <1>2, <1>3, <1>4, Effects

LEMMA ClosingStays ==
    ASSUME TypeOK, NEW n \in Nodes, Steps(n), NEW m \in Nodes, mode[m] = "closing"
    PROVE  mode'[m] = "closing"
  <1>1. CASE m # n
    BY <1>1, Local
  <1>2. CASE Return(n)
    BY <1>2, MoreShapes DEF Return
  <1>3. CASE m = n /\ ~Return(n)
    <2>1. mode' = mode
      <3>1. CASE \/ Start(n) \/ Produce(n) \/ Process(n) \/ Doze(n)
                 \/ Mark(n) \/ WakeProducer(n) \/ End(n)
        BY <3>1 DEF Start, Produce, Process, Doze, Mark, WakeProducer, End
      <3>2. CASE Buffer(n) \/ Skip(n) \/ Prepare(n) \/ Claim(n) \/ ClaimAny(n) \/ Block(n) \/ Push(n)
        BY <3>2 DEF Buffer, Skip, Prepare, Claim, ClaimAny, Claimed, Block, Push
      <3>3. CASE FlushFirst(n) \/ Await(n) \/ Release(n)
        BY <3>3 DEF FlushFirst, Await, Release
      <3>4. CASE TakeKept(n) \/ Drain(n) \/ NextOfBatch(n) \/ Pop(n)
        BY <3>4, TakeShape
      <3> QED
        BY <1>3, <3>1, <3>2, <3>3, <3>4 DEF Steps
    <2> QED
      BY <2>1
  <1> QED
    BY <1>1, <1>2, <1>3

\* An edge on which nothing is sent gets nothing pending, nor its sender anything
\* of it in hand but its end.
LEMMA DeadPending ==
    ASSUME CreditInv, NEW n \in Nodes, Steps(n), NEW e \in Edges, put'[e] = put[e], pending[e] = <<>>
    PROVE  pending'[e] = <<>>
  <1>0. TypeOK
    BY DEF CreditInv
  <1>1. CASE \/ Start(n) \/ Produce(n) \/ Process(n) \/ Return(n) \/ Doze(n)
             \/ Mark(n) \/ WakeProducer(n) \/ End(n)
    BY <1>1 DEF Start, Produce, Process, Return, Doze, Mark, WakeProducer, End, edgeVars
  <1>2. CASE Skip(n) \/ Claim(n) \/ ClaimAny(n) \/ Push(n)
    BY <1>2 DEF Skip, Claim, ClaimAny, Claimed, Push, edgeVars
  <1>3. CASE \/ TakeKept(n) \/ Drain(n) \/ NextOfBatch(n) \/ Pop(n) \/ FlushFirst(n) \/ Await(n)
             \/ Release(n)
    BY <1>3 DEF TakeKept, Drain, NextOfBatch, Pop, FlushFirst, Await, Release, edgeVars
  <1>4. CASE Buffer(n)
    <2>1. HeadEdge(n) # e
      <3>1. put' = [put EXCEPT ![HeadEdge(n)] = @ + 1]
        BY <1>4 DEF Buffer
      <3>2. put \in [Edges -> Nat]
        BY <1>0, MoreShapes
      <3> QED
        BY <3>1, <3>2
    <2> QED
      BY <1>0, <1>4, <2>1, MoreShapes DEF Buffer
  <1>5. CASE Prepare(n)
    BY <1>0, <1>5, MoreShapes DEF Prepare
  <1>6. CASE Block(n)
    BY <1>6 DEF Block
  <1> QED
    BY <1>1, <1>2, <1>3, <1>4, <1>5, <1>6 DEF Steps

LEMMA DeadHand ==
    ASSUME CreditInv, NEW n \in Nodes, Steps(n), NEW e \in Edges, put'[e] = put[e], pending[e] = <<>>,
           HandOn(e) => HoldsEnd(e)
    PROVE  HandOn(e)' => HoldsEnd(e)'
  <1>0. TypeOK /\ Src[e] \in Nodes
    BY GraphType DEF CreditInv
  <1>1. CASE hand'[Src[e]] = hand[Src[e]]
    BY <1>1 DEF HandOn, HoldsEnd
  <1>2. CASE Src[e] # n
    BY <1>0, <1>1, <1>2, Local
  <1>3. CASE hand'[n].items = <<>> /\ Src[e] = n
    BY <1>3 DEF HandOn
  <1>4. CASE Src[e] = n /\ Prepare(n)
    <2>1. /\ plan[n] # <<>>
          /\ HeadOp(n) = "flush" => pending[HeadEdge(n)] # <<>>
          /\ hand' = [hand EXCEPT ![n] =
                CASE HeadOp(n) = "put"   -> [edge |-> HeadEdge(n), items |-> Append(pending[HeadEdge(n)], put[HeadEdge(n)] + 1)]
                  [] HeadOp(n) = "flush" -> [edge |-> HeadEdge(n), items |-> pending[HeadEdge(n)]]
                  [] HeadOp(n) = "eos"   -> [edge |-> HeadEdge(n), items |-> <<EOS>>]
                  [] HeadOp(n) = "any"   -> NoEntry]
          /\ put' = [put EXCEPT ![HeadEdge(n)] = IF HeadOp(n) = "put" THEN @ + 1 ELSE @]
      BY <1>4 DEF Prepare, Sending
    <2>2. HeadOp(n) \in Ops /\ HeadEdge(n) \in Edges
      BY <2>1, HeadWired
    <2>3. CASE HeadOp(n) = "put"
      <3>1. HeadEdge(n) # e
        BY <1>0, <2>1, <2>3, MoreShapes
      <3>2. hand'[n].edge = HeadEdge(n)
        BY <1>0, <2>1, <2>3, Shapes
      <3> QED
        BY <1>4, <3>1, <3>2 DEF HandOn
    <2>4. CASE HeadOp(n) = "flush"
      <3>1. HeadEdge(n) # e
        BY <2>1, <2>4
      <3>2. hand'[n].edge = HeadEdge(n)
        BY <1>0, <2>1, <2>4, Shapes
      <3> QED
        BY <1>4, <3>1, <3>2 DEF HandOn
    <2>5. CASE HeadOp(n) = "eos"
      <3>1. hand'[n].items = <<EOS>>
        BY <1>0, <2>1, <2>5, Shapes
      <3> QED
        BY <1>4, <3>1 DEF HandOn, HoldsEnd, EndsEdge
    <2>6. CASE HeadOp(n) = "any"
      <3>1. hand'[n] = NoEntry
        BY <1>0, <2>1, <2>6, Shapes
      <3> QED
        BY <1>3, <1>4, <3>1, NoEntryIsEntry
    <2> QED
      BY <2>2, <2>3, <2>4, <2>5, <2>6 DEF Ops
  <1>5. CASE Src[e] = n /\ ClaimAny(n)
    <2>1. rr[n] \in Nat
      BY <1>0 DEF TypeOK, EdgesTyped
    <2>2. PICK d \in Edges : /\ put' = [put EXCEPT ![d] = @ + 1]
                             /\ hand' = [hand EXCEPT ![n] = [edge |-> d, items |-> <<put[d] + 1>>]]
      BY <1>5, <2>1, ClaimAnyPicks
    <2>3. d # e
      BY <1>0, <2>2, MoreShapes
    <2>4. hand'[n].edge = d
      BY <1>0, <2>2, Shapes
    <2> QED
      BY <1>5, <2>3, <2>4 DEF HandOn
  <1>6. CASE Src[e] = n /\ Push(n)
    <2>1. hand'[n] = NoEntry
      BY <1>0, <1>6, Shapes DEF Push
    <2> QED
      BY <1>3, <1>6, <2>1, NoEntryIsEntry
  <1>7. CASE ~Prepare(n) /\ ~ClaimAny(n) /\ ~Push(n)
    <2>1. hand' = hand
      <3>1. CASE \/ Start(n) \/ Produce(n) \/ Process(n) \/ Return(n) \/ Doze(n)
                 \/ Mark(n) \/ WakeProducer(n) \/ End(n)
        BY <3>1 DEF Start, Produce, Process, Return, Doze, Mark, WakeProducer, End
      <3>2. CASE Buffer(n) \/ Skip(n) \/ Claim(n) \/ Block(n)
        BY <3>2 DEF Buffer, Skip, Claim, Block
      <3>3. CASE FlushFirst(n) \/ Await(n) \/ Release(n)
        BY <3>3 DEF FlushFirst, Await, Release
      <3>4. CASE TakeKept(n) \/ Drain(n) \/ NextOfBatch(n) \/ Pop(n)
        BY <1>0, <3>4, TakeShape
      <3> QED
        BY <1>7, <3>1, <3>2, <3>3, <3>4 DEF Steps
    <2> QED
      BY <1>1, <2>1
  <1> QED
    BY <1>2, <1>4, <1>5, <1>6, <1>7

\* Nothing of an edge whose receiver is offered none of it is unpacked.
LEMMA DeadBatch ==
    ASSUME CreditInv, NEW n \in Nodes, Steps(n), NEW e \in Edges, Dead(e)
    PROVE  CountOf(batch'[Dst[e]], e) = 0
  <1>0. TypeOK /\ Dst[e] \in Nodes /\ CountOf(batch[Dst[e]], e) = 0 /\ CountOf(NoEntry, e) = 0
    BY GraphType, NoEntryIsEntry DEF CreditInv, Dead, CountOf
  <1>1. CASE Dst[e] # n
    BY <1>0, <1>1, Local
  <1>2. ASSUME Dst[e] = n, NEW b \in Entry, b.edge # e, Unpack(n, b)
        PROVE  CountOf(batch'[n], e) = 0
    <2>1. batch'[n] = IF Len(b.items) = 1 THEN NoEntry ELSE [b EXCEPT !.items = Tail(@)]
      BY <1>0, <1>2, MoreShapes DEF Unpack
    <2>2. [b EXCEPT !.items = Tail(@)].edge = b.edge
      BY <1>2 DEF Entry
    <2> QED
      BY <1>0, <1>2, <2>1, <2>2 DEF CountOf
  <1>3. CASE Dst[e] = n /\ NextOfBatch(n)
    <2>1. batch[n] \in Entry /\ batch[n].items # <<>> /\ Unpack(n, batch[n])
      BY <1>0, <1>3, MoreShapes DEF NextOfBatch
    <2>2. batch[n].edge # e
      <3>1. Len(batch[n].items) # 0
        BY <2>1, EmptySeq DEF Entry, Items
      <3> QED
        BY <1>0, <1>3, <3>1 DEF CountOf
    <2> QED
      BY <1>2, <1>3, <2>1, <2>2
  <1>4. CASE Dst[e] = n /\ Pop(n)
    <2>1. q[n] # <<>> /\ q[n] \in Seq(Queued)
      BY <1>0, <1>4, Shapes DEF Pop
    <2>2. Head(q[n]) \in Queued
      BY <2>1, HeadTailProperties
    <2>3. CASE batch' = batch
      BY <1>0, <2>3
    <2>4. CASE batch' # batch
      <3>1. Head(q[n]).items # <<EOS>> /\ Head(q[n]).items # <<LOOP_DONE>> /\ Unpack(n, Head(q[n]))
        BY <1>4, <2>4 DEF Pop
      <3>2. Head(q[n]) \in Entry
        BY <2>2, <3>1 DEF Queued, Control
      <3>3. Head(q[n]).edge # e
        BY <1>0, <1>4, <2>1, <3>1, DeadOffers DEF Offered, OnEdge, EndsEdge
      <3> QED
        BY <1>2, <1>4, <3>1, <3>2, <3>3
    <2> QED
      BY <2>3, <2>4
  <1>5. CASE Dst[e] = n /\ Drain(n)
    BY <1>0, <1>5, MoreShapes DEF Drain
  <1>6. CASE ~NextOfBatch(n) /\ ~Pop(n) /\ ~Drain(n)
    <2>1. batch' = batch
      <3>1. CASE \/ Start(n) \/ Produce(n) \/ Process(n) \/ Return(n) \/ Doze(n)
                 \/ Mark(n) \/ WakeProducer(n) \/ End(n)
        BY <3>1 DEF Start, Produce, Process, Return, Doze, Mark, WakeProducer, End, receiveVars
      <3>2. CASE Buffer(n) \/ Skip(n) \/ Prepare(n) \/ Claim(n) \/ ClaimAny(n) \/ Block(n) \/ Push(n)
        BY <3>2 DEF Buffer, Skip, Prepare, Claim, ClaimAny, Claimed, Block, Push, receiveVars
      <3>3. CASE TakeKept(n) \/ FlushFirst(n) \/ Await(n) \/ Release(n)
        BY <3>3 DEF TakeKept, FlushFirst, Await, Release, receiveVars
      <3> QED
        BY <1>6, <3>1, <3>2, <3>3 DEF Steps
    <2> QED
      BY <1>0, <2>1
  <1> QED
    BY <1>1, <1>3, <1>4, <1>5, <1>6

OnlyEnds(s, e) == \A i \in DOMAIN s : OnEdge(s[i], e) => EndsEdge(s[i], e)

LEMMA OnlyEndsAppend ==
    ASSUME NEW s \in Seq(Queued), NEW b \in Queued, NEW e, OnlyEnds(s, e), OnEdge(b, e) => EndsEdge(b, e)
    PROVE  OnlyEnds(Append(s, b), e)
  <1>1. ASSUME NEW i \in DOMAIN Append(s, b), OnEdge(Append(s, b)[i], e)
        PROVE  EndsEdge(Append(s, b)[i], e)
    <2>1. Len(s) \in Nat /\ DOMAIN s = 1..Len(s) /\ DOMAIN Append(s, b) = 1..(Len(s) + 1)
      OBVIOUS
    <2>2. CASE i = Len(s) + 1
      <3>1. Append(s, b)[i] = b
        BY <2>2
      <3> QED
        BY <1>1, <3>1
    <2>3. CASE i # Len(s) + 1
      <3>1. i \in DOMAIN s /\ Append(s, b)[i] = s[i]
        BY <2>1, <2>3
      <3> QED
        BY <1>1, <3>1 DEF OnlyEnds
    <2> QED
      BY <2>2, <2>3
  <1> QED
    BY <1>1 DEF OnlyEnds

\* Nor does anything of it but its end join the queue.
LEMMA DeadQueue ==
    ASSUME CreditInv, NEW n \in Nodes, Steps(n), NEW e \in Edges, Dead(e)
    PROVE  OnlyEnds(q'[Dst[e]], e)
  <1> DEFINE d == Dst[e]
  <1>0. TypeOK /\ d \in Nodes /\ q[d] \in Seq(Queued) /\ OnlyEnds(q[d], e)
    BY GraphType, Shapes DEF CreditInv, Dead, OnlyEnds
  <1>1. CASE q'[d] = q[d]
    BY <1>0, <1>1
  <1>2. CASE Mark(n)
    <2>1. q'[d] = q[d] \/ q'[d] = <<>>
      BY <1>0, <1>2, Shapes DEF Mark
    <2> QED
      BY <1>1, <2>1 DEF OnlyEnds
  <1>3. CASE Pop(n)
    <2>1. CASE d # n
      <3>1. q'[d] = q[d]
        BY <1>0, <1>3, <2>1, Shapes DEF Pop
      <3> QED
        BY <1>1, <3>1
    <2>2. CASE d = n
      <3>1. q'[d] = Tail(q[d]) /\ q[d] # <<>>
        BY <1>0, <1>3, <2>2, Shapes DEF Pop
      <3> HIDE DEF d
      <3>2. ASSUME NEW i \in DOMAIN Tail(q[d]), OnEdge(Tail(q[d])[i], e)
            PROVE  EndsEdge(Tail(q[d])[i], e)
        <4>1. i + 1 \in DOMAIN q[d] /\ Tail(q[d])[i] = q[d][i + 1]
          BY <1>0, <3>1, TailElements
        <4> QED
          BY <1>0, <3>2, <4>1 DEF OnlyEnds
      <3>3. OnlyEnds(Tail(q[d]), e)
        BY <3>2 DEF OnlyEnds
      <3>4. OnlyEnds(q'[d], e)
        BY <3>1, <3>3
      <3> QED
        BY <3>4 DEF d
    <2> QED
      BY <2>1, <2>2
  <1>4. CASE Push(n)
    <2>1. pc[n] = "push" /\ hand[n] \in Entry /\ hand[n].items # <<>>
      BY <1>0, <1>4, Shapes DEF Push, TypeOK, ThreadsTyped
    <2>2. Src[hand[n].edge] = n
      BY <2>1 DEF CreditInv, HandWired
    <2>3. OnEdge(hand[n], e) => EndsEdge(hand[n], e)
      BY <2>1, <2>2 DEF OnEdge, Dead, HandOn, HoldsEnd
    <2>4. q'[d] = q[d] \/ q'[d] = Append(q[d], hand[n])
      <3> HIDE DEF d
      <3> QED
        BY <1>0, <1>4, Shapes DEF Push
    <2>5. hand[n] \in Queued
      BY <2>1 DEF Queued
    <2>6. OnlyEnds(Append(q[d], hand[n]), e)
      BY <1>0, <2>3, <2>5, OnlyEndsAppend
    <2>7. CASE q'[d] = Append(q[d], hand[n])
      BY <2>6, <2>7
    <2> QED
      BY <1>1, <2>4, <2>7
  <1>5. CASE Block(n)
    <2> DEFINE P == {x \in Flushable(n) : ~done[Dst[x]]}
               New(m) == {x \in P : Dst[x] = m}
    <2>1. CASE New(d) = {}
      <3>1. q'[d] = q[d]
        BY <1>0, <1>5, <2>1 DEF Block
      <3> QED
        BY <1>1, <3>1
    <2>2. CASE New(d) # {}
      <3> DEFINE x == CHOOSE y \in New(d) : TRUE
      <3>1. x \in New(d)
        BY <2>2
      <3>2. x \in Edges /\ pending[x] # <<>>
        BY <3>1 DEF Flushable
      <3>3. q'[d] = Append(q[d], [edge |-> x, items |-> pending[x]])
        BY <1>0, <1>5, <2>2 DEF Block
      <3>4. pending[e] = <<>>
        BY DEF Dead
      <3> HIDE DEF x
      <3>5. x # e
        BY <3>2, <3>4
      <3>6. [edge |-> x, items |-> pending[x]] \in Queued
        BY <1>0, <3>2, MoreShapes DEF Queued, Entry, Items
      <3>7. OnlyEnds(Append(q[d], [edge |-> x, items |-> pending[x]]), e)
        BY <1>0, <3>5, <3>6, OnlyEndsAppend DEF OnEdge
      <3> QED
        BY <3>3, <3>7
    <2> QED
      BY <2>1, <2>2
  <1>6. CASE ~Mark(n) /\ ~Pop(n) /\ ~Push(n) /\ ~Block(n)
    <2>1. q' = q
      <3>1. CASE \/ Start(n) \/ Produce(n) \/ Process(n) \/ Return(n) \/ Doze(n)
                 \/ WakeProducer(n) \/ End(n)
        BY <3>1 DEF Start, Produce, Process, Return, Doze, WakeProducer, End, edgeVars
      <3>2. CASE Buffer(n) \/ Skip(n) \/ Prepare(n) \/ Claim(n) \/ ClaimAny(n)
        BY <3>2 DEF Buffer, Skip, Prepare, Claim, ClaimAny, Claimed, edgeVars
      <3>3. CASE TakeKept(n) \/ Drain(n) \/ NextOfBatch(n) \/ FlushFirst(n) \/ Await(n) \/ Release(n)
        BY <3>3 DEF TakeKept, Drain, NextOfBatch, FlushFirst, Await, Release, edgeVars
      <3> QED
        BY <1>6, <3>1, <3>2, <3>3 DEF Steps
    <2> QED
      BY <1>1, <2>1
  <1> QED
    BY <1>2, <1>3, <1>4, <1>5, <1>6

LEMMA DeadStep ==
    ASSUME LoopSound, CreditInv, Stream, Looping, closed, NEW n \in Nodes, Steps(n)
    PROVE  ClosedLoop'
  <1>0. TypeOK
    BY DEF CreditInv
  <1>1. ASSUME NEW e \in Edges, Onto(e)'  PROVE Dead(e)'
    <2>1. Onto(e) /\ Dead(e) /\ Src[e] \in Nodes
      BY <1>1, GraphType DEF Looping, ClosedLoop, Onto
    <2>2. put'[e] = put[e] /\ got'[e] = got[e] /\ kept'[e] = kept[e]
      BY <2>1, DeadCounts
    <2>3. got'[e] = put'[e] /\ kept'[e] = <<>>
      BY <2>1, <2>2 DEF Dead
    <2>4. pending'[e] = <<>> /\ (HandOn(e)' => HoldsEnd(e)')
      BY <2>1, <2>2, DeadPending, DeadHand DEF Dead
    <2>5. CountOf(batch'[Dst[e]], e) = 0 /\ OnlyEnds(q'[Dst[e]], e)
      BY <2>1, DeadBatch, DeadQueue
    <2>6. EntersLoop(e) => mode'[Src[e]] = "closing"
      BY <1>0, <2>1, ClosingStays DEF Dead
    <2> QED
      BY <2>3, <2>4, <2>5, <2>6 DEF Dead, OnlyEnds, EntersLoop
  <1>2. \A m \in Nodes : ~owes'[m]
    BY DeadCounts
  <1> QED
    BY <1>1, <1>2 DEF ClosedLoop
-----------------------------------------------------------------------------
(* The steps of the loop itself.                                           *)

LEMMA LoopCounts ==
    ASSUME NEW n \in Nodes, LoopSteps(n)
    PROVE  \/ /\ LoopDone(n) /\ tokens' = tokens - 1 /\ external' = external
              /\ owes' = [owes EXCEPT ![n] = FALSE] /\ Owing(n)
              /\ mode[n] = "closing" \/ (plan[n] = <<>> /\ taken[n] = <<>>)
              /\ closed' = (closed \/ ShouldClose(tokens', external')) /\ pc[n] = "run" /\ q' = q
           \/ /\ ExternalEnded(n) /\ tokens' = tokens /\ external' = external - 1 /\ owes' = owes
              /\ closed' = (closed \/ ShouldClose(tokens', external')) /\ pc[n] = "external" /\ q' = q
           \/ /\ Tell(n) /\ tokens' = tokens /\ external' = external /\ owes' = owes /\ closed' = closed
              /\ pc[n] = "tell"
  BY DEF LoopSteps, LoopDone, ExternalEnded, Tell, MaybeClose, edgeVars

LEMMA DoneServed ==
    ASSUME Looping, NEW n \in Nodes, LoopDone(n)
    PROVE  ~closed /\ plan[n] = <<>> /\ taken[n] = <<>> /\ owes[n] /\ n \in LoopNodes
  <1>1. owes[n] /\ (mode[n] = "closing" \/ (plan[n] = <<>> /\ taken[n] = <<>>))
    BY DEF LoopDone, Owing
  <1>2. Serves(n)
    BY DEF Looping
  <1> QED
    BY <1>1, <1>2 DEF Serves, Looping, ClosedLoop

LEMMA ServesLoop ==
    ASSUME TypeOK, Looping, NEW n \in Nodes, LoopSteps(n), NEW m \in Nodes
    PROVE  Serves(m)'
  <1>1. /\ mode' = mode /\ plan' = plan /\ hand' = hand /\ taken' = taken
        /\ pc'[n] \in {"run", "tell"} /\ \A k \in Nodes : k # n => pc'[k] = pc[k]
    BY LoopDoes
  <1>2. Serves(m)
    BY DEF Looping
  <1>3. CASE owes'[m] = owes[m]
    BY <1>1, <1>2, <1>3, ServesSame
  <1>4. CASE owes'[m] # owes[m]
    <2>1. LoopDone(n) /\ owes' = [owes EXCEPT ![n] = FALSE]
      BY <1>4, LoopCounts
    <2>2. m = n /\ ~owes'[n]
      BY <1>4, <2>1, MoreShapes
    <2>3. plan[n] = <<>> /\ taken[n] = <<>>
      BY <2>1, DoneServed
    <2>4. ~Busy(n)'
      BY <1>1, <2>3 DEF Busy, Gives
    <2> QED
      BY <1>1, <2>2, <2>3, <2>4 DEF Serves
  <1> QED
    BY <1>3, <1>4

LEMMA TokensLoop ==
    ASSUME TypeOK, Looping, NEW n \in Nodes, LoopSteps(n)
    PROVE  TokensCount' /\ Unfinished' = Unfinished
  <1>1. \A e \in Edges : Numbers(e)' = Numbers(e)
    BY LoopDoes DEF Numbers
  <1>2. Unfinished' = Unfinished
    BY <1>1, TokensSame
  <1>3. CASE owes' = owes /\ tokens' = tokens
    <2>1. Owers' = Owers
      BY <1>3 DEF Owers
    <2> QED
      BY <1>2, <1>3, <2>1 DEF Looping, TokensCount
  <1>4. CASE LoopDone(n) /\ tokens' = tokens - 1 /\ owes' = [owes EXCEPT ![n] = FALSE]
    <2>1. owes[n]
      BY <1>4, DoneServed
    <2>2. n \in Owers /\ Owers' = Owers \ {n}
      BY <1>4, <2>1, MoreShapes DEF Owers
    <2>3. IsFiniteSet(Owers) /\ Cardinality(Owers) \in Nat
      BY OwersGrow
    <2>4. Cardinality(Owers') = Cardinality(Owers) - 1
      BY <2>2, <2>3, FS_RemoveElement
    <2>5. IsFiniteSet(Unfinished) /\ tokens = Cardinality(Unfinished) + Cardinality(Owers)
      BY DEF Looping, TokensCount
    <2>6. Cardinality(Unfinished) \in Nat
      BY <2>5, FS_CardinalityType
    <2> QED
      BY <1>2, <1>4, <2>3, <2>4, <2>5, <2>6 DEF TokensCount
  <1> QED
    BY <1>2, <1>3, <1>4, LoopCounts

LEMMA ExternalLoop ==
    ASSUME TypeOK, Stream, ~closed, ExternalCounts, NEW n \in Nodes, LoopSteps(n)
    PROVE  ExternalCounts' /\ OpenEntries' = OpenEntries
  <1>1. /\ ended' = ended /\ rel' = rel /\ taken' = taken
        /\ pc'[n] \in {"run", "tell"} /\ \A k \in Nodes : k # n => pc'[k] = pc[k]
    BY LoopDoes
  <1>2. OpenEntries' = OpenEntries
    BY <1>1 DEF OpenEntries
  <1>3. \A m \in Nodes : m # n => Reports(m)' = Reports(m)
    BY <1>1 DEF Reports
  <1>4. ~Reports(n)'
    BY <1>1 DEF Reports
  <1>5. pc[n] # "tell"
    BY DEF Stream
  <1>6. CASE pc[n] = "run" /\ external' = external
    <2>1. ~Reports(n)
      BY <1>6 DEF Reports
    <2>2. Reporting' = Reporting
      BY <1>3, <1>4, <2>1 DEF Reporting
    <2> QED
      BY <1>2, <1>6, <2>2 DEF ExternalCounts
  <1>7. CASE pc[n] = "external" /\ external' = external - 1
    <2>1. n \in Reporting /\ Reporting' = Reporting \ {n}
      BY <1>3, <1>4, <1>7 DEF Reporting, Reports
    <2>2. Cardinality(Reporting') = Cardinality(Reporting) - 1
      BY <2>1, EntriesFinite, FS_RemoveElement
    <2> QED
      BY <1>2, <1>7, <2>2, EntriesFinite DEF ExternalCounts
  <1> QED
    BY <1>5, <1>6, <1>7, LoopCounts

LEMMA EmptyCount ==
    ASSUME NEW S, NEW T, IsFiniteSet(S), IsFiniteSet(T), Cardinality(S) + Cardinality(T) <= 0
    PROVE  S = {} /\ T = {}
  <1>1. Cardinality(S) \in Nat /\ Cardinality(T) \in Nat
    BY FS_CardinalityType
  <1>2. Cardinality(S) = 0 /\ Cardinality(T) = 0
    BY <1>1
  <1> QED
    BY <1>2, FS_EmptySet

\* A word of the loop is from no edge.
LEMMA DeadLoop ==
    ASSUME TypeOK, NEW n \in Nodes, LoopSteps(n), NEW e \in Edges, Dead(e)
    PROVE  Dead(e)'
  <1>1. /\ mode' = mode /\ hand' = hand /\ pending' = pending /\ batch' = batch /\ kept' = kept
        /\ put' = put /\ got' = got
    BY LoopDoes
  <1>2. Dst[e] \in Nodes /\ q[Dst[e]] \in Seq(Queued) /\ OnlyEnds(q[Dst[e]], e)
    BY GraphType, Shapes DEF Dead, OnlyEnds
  <1>3. OnlyEnds(q'[Dst[e]], e)
    <2>1. CASE q'[Dst[e]] = q[Dst[e]]
      BY <1>2, <2>1
    <2>2. ASSUME NEW b \in Control, q'[Dst[e]] = Append(q[Dst[e]], b)  PROVE OnlyEnds(q'[Dst[e]], e)
      <3>1. b \in Queued /\ ~OnEdge(b, e)
        BY <2>2 DEF Queued, Control, OnEdge
      <3>2. OnlyEnds(Append(q[Dst[e]], b), e)
        BY <1>2, <3>1, OnlyEndsAppend
      <3> QED
        BY <2>2, <3>2
    <2> QED
      BY <1>2, <2>1, <2>2, LoopQueues
  <1>4. HandOn(e)' = HandOn(e) /\ HoldsEnd(e)' = HoldsEnd(e)
    BY <1>1 DEF HandOn, HoldsEnd
  <1> QED
    BY <1>1, <1>3, <1>4 DEF Dead, OnlyEnds, EntersLoop

\* The loop closes when there is nothing inside and nothing to come.
LEMMA LoopLoops ==
    ASSUME LoopSound, TypeOK, Stream, Looping, NEW n \in Nodes, LoopSteps(n)
    PROVE  Looping'
  <1>1. \A m \in Nodes : Serves(m)'
    BY ServesLoop
  <1>2. TokensCount' /\ Unfinished' = Unfinished
    BY TokensLoop
  <1>3. CASE closed
    <2>1. closed' /\ owes' = owes
      BY <1>3, LoopCounts, DoneServed
    <2>2. \A e \in Edges : Onto(e)' => Dead(e)'
      BY <1>3, DeadLoop DEF Looping, ClosedLoop, Onto
    <2>3. ClosedLoop'
      BY <1>3, <2>1, <2>2 DEF Looping, ClosedLoop
    <2> QED
      BY <1>1, <1>2, <2>1, <2>3 DEF Looping
  <1>4. CASE ~closed
    <2>1. ExternalCounts' /\ OpenEntries' = OpenEntries /\ OpenLoop
      BY <1>4, ExternalLoop DEF Looping, OpenLoop
    <2>2. CASE ~closed'
      <3>1. mode' = mode /\ stopped' = stopped
        BY LoopDoes
      <3>2. OpenLoop'
        BY <2>1, <3>1 DEF OpenLoop, Reads
      <3> QED
        BY <1>1, <1>2, <2>2, <3>2 DEF Looping
    <2>3. CASE closed'
      <3>1. tokens' <= 0 /\ external' <= 0
        BY <1>4, <2>3, LoopCounts DEF ShouldClose
      <3>2. Unfinished' = {} /\ Owers' = {}
        <4>1. IsFiniteSet(Owers')
          <5>1. Owers' \in SUBSET Nodes
            BY DEF Owers
          <5> QED
            BY <5>1, GraphAssumption, FS_Subset
        <4> QED
          BY <1>2, <3>1, <4>1, EmptyCount DEF TokensCount
      <3>3. OpenEntries' = {}
        <4>1. IsFiniteSet(OpenEntries') /\ IsFiniteSet(Reporting')
          <5>1. OpenEntries' \in SUBSET Edges /\ Reporting' \in SUBSET Nodes
            BY DEF OpenEntries, Reporting
          <5> QED
            BY <5>1, GraphAssumption, FS_Subset
        <4> QED
          BY <2>1, <3>1, <4>1, EmptyCount DEF ExternalCounts
      <3>4. \A m \in Nodes : ~owes'[m]
        BY <3>2 DEF Owers
      <3>5. ASSUME NEW e \in Edges, Onto(e)'  PROVE Dead(e)'
        <4>1. Onto(e)
          BY <3>5 DEF Onto
        <4>2. Dead(e)
          BY <1>2, <1>4, <2>1, <3>2, <3>3, <4>1, EmptyDead
        <4> QED
          BY <4>2, DeadLoop
      <3>6. ClosedLoop'
        BY <3>4, <3>5 DEF ClosedLoop
      <3> QED
        BY <1>1, <1>2, <2>3, <3>6 DEF Looping
    <2> QED
      BY <2>2, <2>3
  <1> QED
    BY <1>3, <1>4
-----------------------------------------------------------------------------
(* The invariant holds, and what follows from it.                          *)

LEMMA LoopStays ==
    ASSUME TypeOK, Looping, UNCHANGED <<threadVars, edgeVars, receiveVars, loopVars, codeVars>>
    PROVE  Looping'
  <1>1. /\ UNCHANGED <<pc, mode, plan, hand>> /\ UNCHANGED <<pending, q, done>>
        /\ UNCHANGED <<batch, kept, ended, rel, taken>> /\ UNCHANGED <<tokens, external, closed, owes>>
        /\ UNCHANGED <<stopped, put, got>>
    BY DEF threadVars, edgeVars, receiveVars, loopVars, codeVars
  <1>2. ASSUME NEW n \in Nodes  PROVE Serves(n)'
    BY <1>1, ServesSame DEF Looping
  <1>3. TokensCount'
    <2>1. \A e \in Edges : Numbers(e)' = Numbers(e)
      BY <1>1 DEF Numbers
    <2>2. Unfinished' = Unfinished /\ Owers' = Owers
      BY <1>1, <2>1, TokensSame DEF Owers
    <2> QED
      BY <1>1, <2>2 DEF Looping, TokensCount
  <1>4. ~closed' => OpenLoop'
    <2>1. OpenEntries' = OpenEntries /\ Reporting' = Reporting
      BY <1>1 DEF OpenEntries, Reporting, Reports
    <2>2. ExternalCounts' = ExternalCounts
      BY <1>1, <2>1 DEF ExternalCounts
    <2> QED
      BY <1>1, <2>2 DEF Looping, OpenLoop, Reads
  <1>5. closed' => ClosedLoop'
    <2>1. ASSUME NEW e \in Edges  PROVE Dead(e)' = Dead(e) /\ Onto(e)' = Onto(e)
      BY <1>1 DEF Dead, Onto, HandOn, HoldsEnd, EntersLoop
    <2> QED
      BY <1>1, <2>1 DEF Looping, ClosedLoop
  <1> QED
    BY <1>2, <1>3, <1>4, <1>5 DEF Looping

LEMMA InitLoop == Init => LoopInv
  <1> SUFFICES ASSUME Init  PROVE Looping
    BY InitStream DEF LoopInv
  <1>1. ASSUME NEW n \in Nodes  PROVE Serves(n)
    BY <1>1 DEF Init, Serves, Busy, Gives
  <1>2. TokensCount
    <2>1. ASSUME NEW e \in Edges  PROVE Numbers(e) = {}
      <3>1. ~done[Dst[e]] /\ got[e] = 0 /\ put[e] = 0 /\ kept[e] = <<>>
        BY GraphType DEF Init
      <3>2. (got[e] + 1)..put[e] = {} /\ 1..Len(kept[e]) = {}
        BY <3>1
      <3> QED
        BY <3>2 DEF Numbers
    <2>2. Unfinished = {}
      BY <2>1 DEF Unfinished
    <2>3. Owers = {}
      BY DEF Init, Owers
    <2>4. tokens = 0
      BY DEF Init
    <2> QED
      BY <2>2, <2>3, <2>4, FS_EmptySet DEF TokensCount
  <1>3. OpenLoop
    <2>1. Reporting = {}
      BY DEF Init, Reporting, Reports
    <2>2. OpenEntries = {e \in Edges : EntersLoop(e)}
      BY DEF Init, OpenEntries
    <2>3. external = Cardinality(OpenEntries) /\ Cardinality(Reporting) = 0
      BY <2>1, <2>2, FS_EmptySet DEF Init
    <2>4. ExternalCounts
      BY <2>3, EntriesFinite DEF ExternalCounts
    <2>5. \A n \in LoopNodes : Reads(n)
      BY GraphType DEF Init, Reads
    <2> QED
      BY <2>4, <2>5 DEF OpenLoop
  <1>4. ~closed
    BY DEF Init
  <1> QED
    BY <1>1, <1>2, <1>3, <1>4 DEF Looping

LEMMA LoopStep == LoopSound => (LoopInv /\ [Next]_vars => LoopInv')
  <1> SUFFICES ASSUME LoopSound, LoopInv, [Next]_vars, ~cancelled'  PROVE Looping'
    BY StreamStep DEF LoopInv
  <1>1. StreamInv /\ WakeInv /\ CreditInv /\ TypeOK
    BY DEF LoopInv, StreamInv, WakeInv, CreditInv
  <1>2. TypeOK'
    BY <1>1, WakeStep DEF WakeInv, CreditInv
  <1>3. ASSUME NEW n \in Nodes, Node(n)  PROVE Looping'
    <2>1. ~cancelled /\ (Steps(n) \/ LoopSteps(n))
      BY <1>1, <1>3, OnlySteps DEF Node
    <2>2. Stream /\ Looping
      BY <2>1 DEF LoopInv, StreamInv
    <2>3. CASE Steps(n)
      <3>1. Tidy(n) /\ \A m \in Nodes : Serves(m)
        BY <2>2 DEF Stream, Looping
      <3>2. ASSUME NEW m \in Nodes  PROVE Serves(m)'
        <4>1. CASE m = n
          BY <1>1, <2>3, <3>1, <4>1, ServesOwn
        <4>2. CASE m # n
          BY <1>1, <2>3, <3>1, <4>2, ServesLocal
        <4> QED
          BY <4>1, <4>2
      <3>3. TokensCount'
        BY <1>1, <1>2, <2>2, <2>3, TokensStep
      <3>4. closed' = closed
        BY <1>1, <2>3, NoneTells
      <3>5. ASSUME ~closed  PROVE OpenLoop'
        <4>1. OpenLoop
          BY <2>2, <3>5 DEF Looping
        <4>2. \A m \in LoopNodes : Reads(m)'
          BY <1>1, <2>2, <2>3, <3>5, <4>1, ReadsStep
        <4>3. ExternalCounts'
          BY <1>1, <2>2, <2>3, <3>1, <3>5, <4>1, ExternalStep DEF OpenLoop
        <4> QED
          BY <4>2, <4>3 DEF OpenLoop
      <3>6. closed => ClosedLoop'
        BY <1>1, <2>2, <2>3, DeadStep
      <3> QED
        BY <3>2, <3>3, <3>4, <3>5, <3>6 DEF Looping
    <2>4. CASE LoopSteps(n)
      BY <1>1, <2>2, <2>4, LoopLoops
    <2> QED
      BY <2>1, <2>3, <2>4
  <1>4. CASE MainThread \/ Over \/ UNCHANGED vars
    <2>1. ~CancelStep(Main)
      <3>1. CancelStep(Main) => cancelled /\ cancelled' = cancelled
        BY <1>1 DEF CancelStep, WakeInv, NoCancelYet
      <3> QED
        BY <3>1
    <2>2. Tick \/ MainCancelReturns \/ Join \/ Over \/ UNCHANGED vars
      BY <1>4, <2>1 DEF MainThread
    <2>3. UNCHANGED <<threadVars, edgeVars, receiveVars, loopVars, codeVars>>
      BY <2>2 DEF Tick, MainCancelReturns, Join, Over, vars
    <2>4. ~cancelled
      BY <2>2 DEF Tick, MainCancelReturns, Join, Over, vars, runVars
    <2> QED
      BY <1>1, <2>3, <2>4, LoopStays DEF LoopInv
  <1> QED
    BY <1>3, <1>4 DEF Next

\* A feedback edge of a closed loop has handed over all it was sent.
LEMMA ClosedGiven ==
    ASSUME LoopSound, LoopInv, ~cancelled, NEW e \in Edges, ~Flows(e)
    PROVE  got[e] = put[e] /\ kept[e] = <<>>
  <1>1. closed /\ Feedback(e)
    BY DEF Flows, Feedback
  <1>2. Onto(e)
    BY <1>1 DEF LoopSound, InLoop, Onto
  <1> QED
    BY <1>1, <1>2 DEF LoopInv, Looping, ClosedLoop, Dead

\* In any graph whose loop, if it has one, is well formed: the loop's counter is the
\* number of items inside it that nobody has finished, as long as the run is not
\* cancelled, and it is zero when the loop closes (Loop.sent, done and _should_close,
\* and FirstCome's _entered).
THEOREM TokensExact == LoopSound => (Spec => []TokensCountItems)
  <1> SUFFICES ASSUME LoopSound  PROVE Spec => []TokensCountItems
    OBVIOUS
  <1>1. LoopInv => TokensCountItems
    <2> SUFFICES ASSUME LoopInv, ~cancelled  PROVE tokens = InsideLoop /\ (closed => tokens = 0)
      BY DEF TokensCountItems
    <2>1. Looping /\ TypeOK
      BY DEF LoopInv, StreamInv, WakeInv, CreditInv
    <2>2. tokens = InsideLoop
      BY <2>1 DEF Looping, TokensCount, InsideLoop
    <2>3. ASSUME closed  PROVE tokens = 0
      <3>1. ClosedLoop
        BY <2>1, <2>3 DEF Looping
      <3>2. ASSUME NEW e \in Edges  PROVE Numbers(e) = {}
        <4>1. CASE Onto(e)
          BY <2>1, <3>1, <4>1, DeadNumbers DEF ClosedLoop
        <4>2. CASE ~Onto(e)
          BY <4>2, OffLoop
        <4> QED
          BY <4>1, <4>2
      <3>3. Unfinished = {} /\ Owers = {}
        BY <3>1, <3>2 DEF Unfinished, Owers, ClosedLoop
      <3> QED
        BY <2>2, <3>3, FS_EmptySet DEF InsideLoop
    <2> QED
      BY <2>2, <2>3
  <1>2. LoopInv /\ [Next]_vars => LoopInv'
    BY LoopStep
  <1> QED
    BY <1>1, <1>2, InitLoop, PTL DEF Spec

\* In any graph whose loop, if it has one, is well formed, and as long as the run is
\* not cancelled: a receiver that is told a stream has ended has been given every item
\* sent on it, by the sender (Outbox.close_all flushes its buffers before it sends EOS,
\* push_eos takes a credit like an item, and Inbox is first in, first out) or by its
\* loop (Loop._should_close).
THEOREM EndComesLast == LoopSound => (Spec => [](~cancelled => EndIsLast))
  <1> SUFFICES ASSUME LoopSound  PROVE Spec => [](~cancelled => EndIsLast)
    OBVIOUS
  <1>1. LoopInv => (~cancelled => EndIsLast)
    <2> SUFFICES ASSUME LoopInv, ~cancelled, NEW e \in Edges, e \in ended
                 PROVE  put[e] = got[e] + Len(kept[e])
      BY DEF EndIsLast
    <2>1. CASE Flows(e)
      BY <2>1, EndedGiven DEF LoopInv
    <2>2. CASE ~Flows(e)
      <3>1. got[e] = put[e] /\ Len(kept[e]) = 0
        BY <2>2, ClosedGiven
      <3>2. got[e] \in Nat
        BY EdgeCounts DEF LoopInv, StreamInv, WakeInv, CreditInv
      <3> QED
        BY <3>1, <3>2
    <2> QED
      BY <2>1, <2>2
  <1>2. LoopInv /\ [Next]_vars => LoopInv'
    BY LoopStep
  <1> QED
    BY <1>1, <1>2, InitLoop, PTL DEF Spec

\* In any graph whose loop, if it has one, is well formed: a run that ends without an
\* error has given every item sent on an edge to its receiver's code, ended the edge,
\* and, unless the edge feeds back, got all of its credits back, where the receiver did
\* not call ctx.stop() (run_node, close_all and Loop._close).
THEOREM DeliveryComplete == LoopSound => (Spec => []CompleteDelivery)
  <1> SUFFICES ASSUME LoopSound  PROVE Spec => []CompleteDelivery
    OBVIOUS
  <1>1. LoopInv => CompleteDelivery
    <2> SUFFICES ASSUME LoopInv, main = "over", ~cancelled, NEW e \in Edges, ~stopped[Dst[e]]
                 PROVE  got[e] = put[e] /\ (Feedback(e) \/ (e \in ended /\ credits[e] = Capacity[e]))
      BY DEF CompleteDelivery
    <2>1. e \in ended /\ kept[e] = <<>> /\ (~Feedback(e) => credits[e] = Capacity[e])
      BY OverEnded DEF LoopInv
    <2>2. CASE Flows(e)
      <3>1. put[e] = got[e] + Len(kept[e])
        BY <2>1, <2>2, EndedGiven DEF LoopInv
      <3>2. got[e] \in Nat /\ Len(kept[e]) = 0
        BY <2>1, EdgeCounts DEF LoopInv, StreamInv, WakeInv, CreditInv
      <3> QED
        BY <2>1, <3>1, <3>2
    <2>3. CASE ~Flows(e)
      BY <2>1, <2>3, ClosedGiven
    <2> QED
      BY <2>2, <2>3
  <1>2. LoopInv /\ [Next]_vars => LoopInv'
    BY LoopStep
  <1> QED
    BY <1>1, <1>2, InitLoop, PTL DEF Spec
=============================================================================
