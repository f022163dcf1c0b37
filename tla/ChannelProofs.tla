---------------------------- MODULE ChannelProofs ----------------------------
(***************************************************************************)
(* Every edge of a graph without a feedback loop is the channel of module  *)
(* Channel, whatever the run does: completes, stops early, fails or locks  *)
(* up.  What is on its way along an edge is numbered, place by place, and  *)
(* only the end of it is ever given up.  From where the items are follows  *)
(* that a graph without any cycle never locks up.                          *)
(***************************************************************************)
EXTENDS MCDataflow, StreamProofs, WellFoundedInduction

(* Items numbered on from a.                                               *)

Numbered(s, a) == \A i \in 1..Len(s) : s[i] = a + i

LEMMA NumberedNone == \A a : Numbered(<<>>, a)
  BY DEF Numbered

LEMMA NumberedAppend ==
    ASSUME NEW s \in Seq(Nat), NEW a \in Nat, Numbered(s, a), NEW x \in Nat, x = a + Len(s) + 1
    PROVE  Numbered(Append(s, x), a)
  <1>1. PICK L \in Nat : L = Len(s)
    OBVIOUS
  <1> DEFINE t == Append(s, x)
  <1>2. Len(t) = L + 1 /\ t[L + 1] = x /\ \A i \in 1..L : t[i] = s[i]
    BY <1>1
  <1> HIDE DEF t
  <1>3. ASSUME NEW i \in 1..(L + 1)  PROVE t[i] = a + i
    <2>1. CASE i = L + 1
      BY <1>1, <1>2, <2>1
    <2>2. CASE i # L + 1
      <3>1. i \in 1..L
        BY <2>2
      <3> QED
        BY <1>1, <1>2, <3>1 DEF Numbered
    <2> QED
      BY <2>1, <2>2
  <1> QED
    BY <1>2, <1>3 DEF Numbered, t

LEMMA NumberedTail ==
    ASSUME NEW s \in Seq(Nat), NEW a \in Nat, Numbered(s, a), s # <<>>
    PROVE  /\ Head(s) = a + 1 /\ Tail(s) \in Seq(Nat) /\ Len(Tail(s)) = Len(s) - 1
           /\ Numbered(Tail(s), a + 1)
  <1>1. /\ Len(s) \in Nat /\ Len(s) > 0 /\ Head(s) = s[1]
        /\ Tail(s) \in Seq(Nat) /\ Len(Tail(s)) = Len(s) - 1
        /\ \A i \in 1..(Len(s) - 1) : Tail(s)[i] = s[i + 1]
    BY TailOf
  <1>2. 1 \in 1..Len(s)
    BY <1>1
  <1>3. Head(s) = a + 1
    BY <1>1, <1>2 DEF Numbered
  <1> DEFINE t == Tail(s)
  <1>4. ASSUME NEW i \in 1..(Len(s) - 1)  PROVE t[i] = a + 1 + i
    <2>1. i + 1 \in 1..Len(s) /\ t[i] = s[i + 1]
      BY <1>1
    <2>2. s[i + 1] = a + (i + 1)
      BY <2>1 DEF Numbered
    <2> HIDE DEF t
    <2> QED
      BY <2>1, <2>2
  <1>5. Numbered(t, a + 1)
    BY <1>1, <1>4 DEF Numbered
  <1> QED
    BY <1>1, <1>3, <1>5
-----------------------------------------------------------------------------
(* What a queue holds of e: the items of its entries number on from a to c. *)

Part(b, e) == IF b.edge = e THEN b.items ELSE <<>>
Load(s) == IF s = <<EOS>> THEN <<>> ELSE s
Cargo(b, e) == Load(Part(b, e))

Marks(w, s, e, a, c) ==
    /\ w[0] = a /\ w[Len(s)] = c /\ \A i \in 0..Len(s) : w[i] <= c
    /\ \A i \in 1..Len(s) : /\ Numbered(Cargo(s[i], e), w[i - 1])
                            /\ w[i] = w[i - 1] + Len(Cargo(s[i], e))
Line(s, e, a, c) == \E w \in [0..Len(s) -> Nat] : Marks(w, s, e, a, c)

LEMMA PartType ==
    ASSUME NEW b \in Entry, NEW e
    PROVE  /\ Part(b, e) \in Seq(Nat) /\ Cargo(b, e) \in Seq(Nat)
           /\ Len(Cargo(b, e)) \in Nat /\ Len(Cargo(b, e)) <= CountOf(b, e)
           /\ Len(Part(b, e)) = CountOf(b, e)
           /\ b.edge # e => Cargo(b, e) = <<>>
  <1>1. b.items \in Seq(Nat) /\ <<>> \in Seq(Nat) /\ Len(<<>>) = 0
    BY DEF Entry, Items
  <1>2. Part(b, e) \in Seq(Nat) /\ Cargo(b, e) \in Seq(Nat)
    BY <1>1 DEF Part, Cargo, Load
  <1>3. Len(Part(b, e)) = CountOf(b, e) /\ Len(Cargo(b, e)) <= CountOf(b, e)
    <2>1. Len(b.items) \in Nat
      BY <1>1
    <2> QED
      BY <1>1, <2>1 DEF Part, Cargo, Load, CountOf
  <1> QED
    BY <1>2, <1>3 DEF Part, Cargo, Load

LEMMA LineNone ==
    ASSUME NEW e, NEW a \in Nat
    PROVE  Line(<<>>, e, a, a)
  <1> DEFINE w == [i \in 0..0 |-> a]
  <1>1. Len(<<>>) = 0
    OBVIOUS
  <1>2. w \in [0..Len(<<>>) -> Nat] /\ w[0] = a
    BY <1>1
  <1>3. Marks(w, <<>>, e, a, a)
    BY <1>1, <1>2 DEF Marks
  <1> QED
    BY <1>2, <1>3 DEF Line

LEMMA LineBound ==
    ASSUME NEW s \in Seq(Entry), NEW e, NEW a \in Nat, NEW c \in Nat, Line(s, e, a, c)
    PROVE  a <= c
  <1>1. PICK w \in [0..Len(s) -> Nat] : Marks(w, s, e, a, c)
    BY DEF Line
  <1>2. 0 \in 0..Len(s)
    OBVIOUS
  <1> QED
    BY <1>1, <1>2 DEF Marks

\* An entry comes in behind, its items numbered on.
LEMMA LineAppend ==
    ASSUME NEW s \in Seq(Entry), NEW e, NEW a \in Nat, NEW c \in Nat, Line(s, e, a, c),
           NEW b \in Entry, Numbered(Cargo(b, e), c)
    PROVE  Line(Append(s, b), e, a, c + Len(Cargo(b, e)))
  <1>1. PICK w \in [0..Len(s) -> Nat] : Marks(w, s, e, a, c)
    BY DEF Line
  <1>2. PICK L \in Nat : L = Len(s)
    OBVIOUS
  <1>3. PICK k \in Nat : k = Len(Cargo(b, e))
    BY PartType
  <1> DEFINE t == Append(s, b)
             v == [i \in 0..(L + 1) |-> IF i = L + 1 THEN c + k ELSE w[i]]
  <1>4. Len(t) = L + 1 /\ t[L + 1] = b /\ \A i \in 1..L : t[i] = s[i]
    BY <1>2
  <1>5. /\ w[0] = a /\ w[L] = c /\ \A i \in 0..L : w[i] <= c /\ w[i] \in Nat
        /\ \A i \in 1..L : Numbered(Cargo(s[i], e), w[i - 1]) /\ w[i] = w[i - 1] + Len(Cargo(s[i], e))
    BY <1>1, <1>2 DEF Marks
  <1>6. v \in [0..(L + 1) -> Nat]
    BY <1>3, <1>5
  <1>7. v[0] = a /\ v[L + 1] = c + k /\ \A i \in 0..L : v[i] = w[i]
    BY <1>5
  <1>8. ASSUME NEW i \in 1..(L + 1)
        PROVE  Numbered(Cargo(t[i], e), v[i - 1]) /\ v[i] = v[i - 1] + Len(Cargo(t[i], e))
    <2>1. CASE i = L + 1
      <3>1. v[i] = c + k /\ v[i - 1] = c /\ t[i] = b
        <4>1. i - 1 = L /\ L \in 0..L
          BY <2>1
        <4> QED
          BY <1>4, <1>5, <1>7, <2>1, <4>1
      <3> HIDE DEF v, t
      <3> QED
        BY <1>3, <3>1
    <2>2. CASE i # L + 1
      <3>1. i \in 1..L /\ i \in 0..L /\ i - 1 \in 0..L
        BY <2>2
      <3>2. v[i] = w[i] /\ v[i - 1] = w[i - 1] /\ t[i] = s[i]
        BY <1>4, <1>7, <3>1
      <3> HIDE DEF v, t
      <3> QED
        BY <1>5, <3>1, <3>2
    <2> QED
      BY <2>1, <2>2
  <1>9. ASSUME NEW i \in 0..(L + 1)  PROVE v[i] <= c + k
    <2>1. i = L + 1 \/ i \in 0..L
      OBVIOUS
    <2>2. CASE i = L + 1
      BY <1>3, <1>7, <2>2
    <2>3. CASE i \in 0..L
      <3>1. v[i] = w[i] /\ w[i] <= c /\ w[i] \in Nat
        BY <1>5, <1>7, <2>3
      <3> HIDE DEF v
      <3> QED
        BY <1>3, <3>1
    <2> QED
      BY <2>1, <2>2, <2>3
  <1> HIDE DEF v, t
  <1>10. Marks(v, t, e, a, c + k)
    BY <1>4, <1>7, <1>8, <1>9 DEF Marks
  <1> QED
    BY <1>3, <1>4, <1>6, <1>10 DEF Line, t

\* The oldest entry goes.
LEMMA LineTail ==
    ASSUME NEW s \in Seq(Entry), NEW e, NEW a \in Nat, NEW c \in Nat, Line(s, e, a, c), s # <<>>
    PROVE  /\ Numbered(Cargo(Head(s), e), a)
           /\ Line(Tail(s), e, a + Len(Cargo(Head(s), e)), c)
  <1>1. PICK w \in [0..Len(s) -> Nat] : Marks(w, s, e, a, c)
    BY DEF Line
  <1>2. PICK L \in Nat : L = Len(s)
    OBVIOUS
  <1> DEFINE t == Tail(s)
             v == [i \in 0..(L - 1) |-> w[i + 1]]
  <1>3. L > 0 /\ Head(s) = s[1] /\ Len(t) = L - 1 /\ \A i \in 1..(L - 1) : t[i] = s[i + 1]
    BY <1>2, TailOf
  <1>4. /\ w[0] = a /\ w[L] = c /\ \A i \in 0..L : w[i] <= c /\ w[i] \in Nat
        /\ \A i \in 1..L : Numbered(Cargo(s[i], e), w[i - 1]) /\ w[i] = w[i - 1] + Len(Cargo(s[i], e))
    BY <1>1, <1>2 DEF Marks
  <1>5. Numbered(Cargo(s[1], e), a) /\ w[1] = a + Len(Cargo(s[1], e))
    <2>1. 1 \in 1..L /\ 1 - 1 = 0
      BY <1>3
    <2> QED
      BY <1>4, <2>1
  <1>6. v \in [0..(L - 1) -> Nat]
    BY <1>3, <1>4
  <1>7. v[0] = w[1] /\ v[L - 1] = c
    <2>1. 0 \in 0..(L - 1) /\ L - 1 \in 0..(L - 1) /\ (L - 1) + 1 = L /\ 0 + 1 = 1
      BY <1>3
    <2>2. v[0] = w[0 + 1] /\ v[L - 1] = w[(L - 1) + 1]
      BY <2>1
    <2> QED
      BY <1>4, <2>1, <2>2
  <1>8. ASSUME NEW i \in 0..(L - 1)  PROVE v[i] <= c
    <2>1. i + 1 \in 0..L /\ v[i] = w[i + 1]
      BY <1>3
    <2> QED
      BY <1>4, <2>1
  <1>9. ASSUME NEW i \in 1..(L - 1)
        PROVE  Numbered(Cargo(t[i], e), v[i - 1]) /\ v[i] = v[i - 1] + Len(Cargo(t[i], e))
    <2>1. i \in 0..(L - 1) /\ i - 1 \in 0..(L - 1) /\ i + 1 \in 1..L
          /\ (i + 1) - 1 = i /\ (i - 1) + 1 = i
      BY <1>3
    <2>2. v[i] = w[i + 1] /\ v[i - 1] = w[(i - 1) + 1] /\ t[i] = s[i + 1]
      BY <1>3, <2>1
    <2>3. /\ Numbered(Cargo(s[i + 1], e), w[(i + 1) - 1])
          /\ w[i + 1] = w[(i + 1) - 1] + Len(Cargo(s[i + 1], e))
      BY <1>4, <2>1
    <2> HIDE DEF v, t
    <2> QED
      BY <2>1, <2>2, <2>3
  <1> HIDE DEF v, t
  <1>10. Marks(v, t, e, w[1], c)
    BY <1>3, <1>7, <1>8, <1>9 DEF Marks
  <1>11. Line(t, e, w[1], c)
    BY <1>3, <1>6, <1>10 DEF Line
  <1> QED
    BY <1>3, <1>5, <1>11 DEF t
-----------------------------------------------------------------------------
(* What a receiver has of e: k held back, b in its current batch and s in  *)
(* its queue, from the item after the g-th to the c-th.                    *)

Stock(k, b, s, e, g, c) ==
    /\ Numbered(k, g) /\ Numbered(b, g + Len(k))
    /\ Line(s, e, g + Len(k) + Len(b), c)

LEMMA StockArrives ==
    ASSUME NEW k \in Seq(Nat), NEW b \in Seq(Nat), NEW s \in Seq(Entry), NEW e, NEW g \in Nat,
           NEW c \in Nat, Stock(k, b, s, e, g, c), NEW x \in Entry, Numbered(Cargo(x, e), c)
    PROVE  Stock(k, b, Append(s, x), e, g, c + Len(Cargo(x, e)))
  <1>1. g + Len(k) + Len(b) \in Nat
    OBVIOUS
  <1> QED
    BY <1>1, LineAppend DEF Stock

\* The oldest entry is popped when there is no batch: it is the batch.
LEMMA StockPopped ==
    ASSUME NEW k \in Seq(Nat), NEW s \in Seq(Entry), NEW e, NEW g \in Nat, NEW c \in Nat,
           Stock(k, <<>>, s, e, g, c), s # <<>>
    PROVE  Stock(k, Cargo(Head(s), e), Tail(s), e, g, c)
  <1>1. g + Len(k) \in Nat /\ g + Len(k) + Len(<<>>) = g + Len(k)
    OBVIOUS
  <1> QED
    BY <1>1, LineTail DEF Stock

LEMMA StockBound ==
    ASSUME NEW k \in Seq(Nat), NEW b \in Seq(Nat), NEW s \in Seq(Entry), NEW e, NEW g \in Nat,
           NEW c \in Nat, Stock(k, b, s, e, g, c)
    PROVE  g + Len(k) + Len(b) <= c
  <1>1. g + Len(k) + Len(b) \in Nat
    OBVIOUS
  <1> QED
    BY <1>1, LineBound DEF Stock

\* One item of the batch is delivered, with nothing held back before it.
LEMMA StockDelivers ==
    ASSUME NEW b \in Seq(Nat), NEW s \in Seq(Entry), NEW e, NEW g \in Nat, NEW c \in Nat,
           Stock(<<>>, b, s, e, g, c), b # <<>>
    PROVE  /\ Stock(<<>>, Tail(b), s, e, g + 1, c)
           /\ Head(b) = g + 1 /\ g + 1 <= c
  <1>1. Len(<<>>) = 0 /\ <<>> \in Seq(Nat)
    OBVIOUS
  <1>2. Numbered(b, g)
    BY <1>1 DEF Stock
  <1>3. /\ Head(b) = g + 1 /\ Tail(b) \in Seq(Nat) /\ Len(Tail(b)) = Len(b) - 1
        /\ Numbered(Tail(b), g + 1)
    BY <1>2, NumberedTail
  <1>4. g + 1 + Len(<<>>) = g + 1 /\ g + 1 + Len(<<>>) + Len(Tail(b)) = g + Len(<<>>) + Len(b)
    BY <1>1, <1>3
  <1>5. Stock(<<>>, Tail(b), s, e, g + 1, c)
    BY <1>3, <1>4, NumberedNone DEF Stock
  <1>6. g + 1 <= c
    <2>1. g + Len(<<>>) + Len(b) <= c
      BY <1>1, StockBound
    <2>2. Len(b) \in Nat /\ Len(b) > 0
      BY TailOf
    <2> QED
      BY <1>1, <2>1, <2>2
  <1> QED
    BY <1>3, <1>5, <1>6

\* One item of the batch is held back.
LEMMA StockKeeps ==
    ASSUME NEW k \in Seq(Nat), NEW b \in Seq(Nat), NEW s \in Seq(Entry), NEW e, NEW g \in Nat,
           NEW c \in Nat, Stock(k, b, s, e, g, c), b # <<>>
    PROVE  Stock(Append(k, Head(b)), Tail(b), s, e, g, c)
  <1>1. PICK l \in Nat : l = Len(k)
    OBVIOUS
  <1>2. g + l \in Nat /\ Numbered(k, g) /\ Numbered(b, g + l) /\ Line(s, e, g + l + Len(b), c)
    BY <1>1 DEF Stock
  <1>3. /\ Head(b) = g + l + 1 /\ Tail(b) \in Seq(Nat) /\ Len(Tail(b)) = Len(b) - 1
        /\ Numbered(Tail(b), g + l + 1) /\ Len(b) \in Nat
    BY <1>2, NumberedTail
  <1>4. Head(b) \in Nat
    BY <1>1, <1>3
  <1>5. Numbered(Append(k, Head(b)), g) /\ Len(Append(k, Head(b))) = l + 1
    BY <1>1, <1>2, <1>3, <1>4, NumberedAppend
  <1>6. g + (l + 1) = g + l + 1 /\ g + (l + 1) + (Len(b) - 1) = g + l + Len(b)
    BY <1>1, <1>3
  <1> QED
    BY <1>2, <1>3, <1>5, <1>6 DEF Stock

\* The oldest item held back is delivered.
LEMMA StockTaken ==
    ASSUME NEW k \in Seq(Nat), NEW b \in Seq(Nat), NEW s \in Seq(Entry), NEW e, NEW g \in Nat,
           NEW c \in Nat, Stock(k, b, s, e, g, c), k # <<>>
    PROVE  /\ Stock(Tail(k), b, s, e, g + 1, c)
           /\ Head(k) = g + 1 /\ g + 1 <= c
  <1>1. PICK l \in Nat, m \in Nat : l = Len(k) /\ m = Len(b)
    OBVIOUS
  <1>2. Numbered(k, g) /\ Numbered(b, g + l) /\ Line(s, e, g + l + m, c) /\ g + l + m <= c /\ l > 0
    BY <1>1, StockBound, TailOf DEF Stock
  <1>3. /\ Head(k) = g + 1 /\ Len(Tail(k)) = l - 1 /\ Numbered(Tail(k), g + 1)
    BY <1>1, <1>2, NumberedTail
  <1>4. g + 1 + (l - 1) = g + l /\ g + 1 + (l - 1) + m = g + l + m /\ g + 1 <= c
    BY <1>1, <1>2
  <1> QED
    BY <1>1, <1>2, <1>3, <1>4 DEF Stock

\* The batch is delivered at once.
LEMMA StockDrained ==
    ASSUME NEW b \in Seq(Nat), NEW s \in Seq(Entry), NEW e, NEW g \in Nat, NEW c \in Nat,
           Stock(<<>>, b, s, e, g, c)
    PROVE  /\ Stock(<<>>, <<>>, s, e, g + Len(b), c)
           /\ b = [i \in 1..Len(b) |-> g + i] /\ g + Len(b) <= c
  <1>1. Len(<<>>) = 0 /\ <<>> \in Seq(Nat)
    OBVIOUS
  <1>2. PICK m \in Nat : m = Len(b)
    OBVIOUS
  <1>3. Numbered(b, g) /\ Line(s, e, g + m, c) /\ g + m <= c
    <2>1. g + Len(<<>>) = g /\ g + Len(<<>>) + Len(b) = g + m
      BY <1>1, <1>2
    <2> QED
      BY <1>1, <2>1, StockBound DEF Stock
  <1>4. g + m + Len(<<>>) + Len(<<>>) = g + m
    BY <1>1, <1>2
  <1>5. b = [i \in 1..Len(b) |-> b[i]]
    OBVIOUS
  <1>6. b = [i \in 1..Len(b) |-> g + i]
    BY <1>3, <1>5 DEF Numbered
  <1> QED
    BY <1>2, <1>3, <1>4, <1>6, NumberedNone DEF Stock

\* What a sender has of e: o in its hand and p pending, from the item after the c-th
\* to the x-th, or fewer if it has given some up.
Supplies(o, p, c, x) ==
    /\ Numbered(Load(o), c) /\ Numbered(p, c + Len(Load(o)))
    /\ c + Len(Load(o)) + Len(p) <= x
-----------------------------------------------------------------------------
(* The invariant, of a node.                                               *)

\* The end of e is still in its sender's plan; it comes after a flush, if anything
\* is pending.  A closing node that is cancelled may have forgotten its plan.
EndPlanned(e) == \E i \in DOMAIN plan[Src[e]] : plan[Src[e]][i] = Cmd("eos", e)
ShutsDown(n) ==
    mode[n] = "closing" =>
        /\ Shuts(plan[n])
        /\ \A e \in Edges : Src[e] = n /\ pending[e] # <<>> /\ EndPlanned(e) => Flushes(plan[n], e)

\* Only a node that emits on demand sends an item before it knows where to.
OnDemand(n) ==
    \/ \E i \in DOMAIN plan[n] : plan[n][i].op = "any"
    \/ pc[n] \in {"credit", "park_out"} /\ hand[n].items = <<>>
    => Policy[n] = "on_demand" /\ Out[n] # <<>>

\* A node waits for an entry with nothing to deliver.
Waits(n) == pc[n] = "park_in" /\ Watched(n) = {} => ~HasKept(n)

NodeSound(n) == Tidy(n) /\ Queue(n) /\ ShutsDown(n) /\ OnDemand(n) /\ Waits(n)
-----------------------------------------------------------------------------
(* What each step touches, whether or not the run is cancelled.            *)

LEMMA QueueOfEntries ==
    ASSUME TypeOK, NEW m \in Nodes, Queue(m)
    PROVE  q[m] \in Seq(Entry)
  <1>1. q[m] \in Seq(Queued)
    BY Shapes
  <1>2. Len(q[m]) \in Nat /\ q[m] = [i \in 1..Len(q[m]) |-> q[m][i]] /\ DOMAIN q[m] = 1..Len(q[m])
    BY <1>1
  <1>3. q[m] \in [1..Len(q[m]) -> Entry]
    BY <1>2 DEF Queue
  <1> QED
    BY <1>2, <1>3, FunctionIsSeq

Moves(n) == Steps(n) \/ Unwind(n) \/ Fail(n) \/ CancelStep(n) \/ CancelReturns(n)

LEMMA OnlyMoves ==
    ASSUME Untied, NEW n \in Nodes, Emits(n) \/ Receives(n) \/ Runs(n)
    PROVE  Moves(n)
  <1>1. ~LoopDone(n) /\ ~ExternalEnded(n) /\ ~Tell(n)
    BY DEF Untied, LoopDone, Owing, ExternalEnded, Tell
  <1> QED
    BY <1>1 DEF Emits, Receives, Runs, Moves, Steps

LEMMA LocalMove ==
    ASSUME TypeOK, NEW n \in Nodes, Moves(n), NEW m \in Nodes, m # n
    PROVE  /\ pc'[m] = pc[m] /\ mode'[m] = mode[m] /\ plan'[m] = plan[m]
           /\ hand'[m] = hand[m] /\ batch'[m] = batch[m] /\ owes'[m] = owes[m]
           /\ done'[m] = done[m]
  <1>1. CASE Steps(n)
    BY <1>1, Local
  <1>2. CASE Unwind(n) \/ Fail(n)
    <2>1. UNCHANGED <<batch, owes, done>>
      BY <1>2 DEF Unwind, Fail, edgeVars, receiveVars, loopVars
    <2>2. mode'[m] = mode[m] /\ plan'[m] = plan[m]
      BY <1>2, MoreShapes DEF Unwind, Fail
    <2>3. CASE Unwind(n)
      BY <2>1, <2>2, <2>3, Shapes DEF Unwind
    <2>4. CASE Fail(n)
      <3>1. hand' = hand /\ (pc' = pc \/ pc' = [pc EXCEPT ![n] = "cancel"])
        BY <2>4 DEF Fail
      <3> QED
        BY <2>1, <2>2, <3>1, Shapes
    <2> QED
      BY <1>2, <2>3, <2>4
  <1>3. CASE CancelStep(n) \/ CancelReturns(n)
    BY <1>3, Shapes, MoreShapes DEF CancelStep, CancelReturns, edgeVars, receiveVars, loopVars
  <1> QED
    BY <1>1, <1>2, <1>3 DEF Moves

LEMMA TidyMove ==
    ASSUME LoopFree, CreditInv, NEW n \in Nodes, Moves(n), Tidy(n), ShutsDown(n), NEW m \in Nodes, Tidy(m)
    PROVE  Tidy(m)'
  <1>1. TypeOK
    BY DEF CreditInv
  <1>2. CASE m # n
    BY <1>1, <1>2, LocalMove DEF Tidy
  <1>3. CASE m = n
    <2>1. CASE Steps(n)
      BY <1>1, <1>3, <2>1, TidyStep DEF ShutsDown
    <2>2. CASE Unwind(n)
      <3>1. /\ pc[n] \in {"park_in", "park_out"} /\ pc'[n] = "run" /\ mode'[n] = "closing"
            /\ hand'[n].items = <<>> /\ owes' = owes /\ done' = done
        BY <1>1, <2>2, Shapes, MoreShapes, NoEntryIsEntry DEF Unwind, edgeVars, loopVars
      <3> QED
        BY <1>3, <3>1 DEF Tidy
    <2>3. CASE Fail(n)
      <3>1. /\ pc[n] = "run" /\ pc'[n] \in {"run", "cancel"} /\ mode'[n] = "closing"
            /\ hand' = hand /\ owes' = owes /\ done' = done
        BY <1>1, <2>3, Shapes, MoreShapes DEF Fail, Making, Free, Coding, edgeVars, loopVars
      <3> QED
        BY <1>3, <3>1 DEF Tidy
    <2>4. CASE CancelStep(n)
      BY <1>3, <2>4 DEF CancelStep, edgeVars, loopVars, Tidy
    <2>5. CASE CancelReturns(n)
      <3>1. /\ pc[n] = "cancel" /\ pc'[n] = "run" /\ mode' = mode /\ plan' = plan
            /\ hand' = hand /\ owes' = owes /\ done' = done
        BY <1>1, <2>5, Shapes, MoreShapes DEF CancelReturns, edgeVars, loopVars
      <3> QED
        BY <1>3, <3>1 DEF Tidy
    <2> QED
      BY <2>1, <2>2, <2>3, <2>4, <2>5 DEF Moves
  <1> QED
    BY <1>2, <1>3

LEMMA QueueMove ==
    ASSUME TypeOK, NEW n \in Nodes, Moves(n), \A m \in Nodes : Queue(m), NEW m \in Nodes
    PROVE  Queue(m)'
  <1>1. CASE Steps(n)
    BY <1>1, QueueStep1
  <1>2. CASE Unwind(n) \/ Fail(n) \/ CancelStep(n) \/ CancelReturns(n)
    BY <1>2 DEF Unwind, Fail, CancelStep, CancelReturns, edgeVars, Queue
  <1> QED
    BY <1>1, <1>2 DEF Moves

LEMMA PendingLocal ==
    ASSUME CreditInv, NEW n \in Nodes, Moves(n), NEW e \in Edges, Src[e] # n
    PROVE  pending'[e] = pending[e]
  <1>1. CASE Steps(n)
    BY <1>1, PendingKept
  <1>2. CASE Unwind(n) \/ Fail(n) \/ CancelStep(n) \/ CancelReturns(n)
    BY <1>2 DEF Unwind, Fail, CancelStep, CancelReturns, edgeVars
  <1> QED
    BY <1>1, <1>2 DEF Moves
-----------------------------------------------------------------------------
(* A node that closes.                                                     *)

LEMMA EndPlannedTail ==
    ASSUME CreditInv, NEW e \in Edges, plan[Src[e]] # <<>>, plan'[Src[e]] = Tail(plan[Src[e]]),
           EndPlanned(e)'
    PROVE  EndPlanned(e)
  <1>1. plan[Src[e]] \in Seq(Commands)
    BY GraphType, MoreShapes DEF CreditInv
  <1> QED
    BY <1>1, TailElements DEF EndPlanned

LEMMA ShutsTail ==
    ASSUME CreditInv, NEW n \in Nodes, ShutsDown(n), plan[n] # <<>>, mode' = mode,
           plan' = [plan EXCEPT ![n] = Tail(plan[n])],
           \A e \in Edges : Src[e] = n /\ pending'[e] # <<>> =>
                               pending[e] # <<>> /\ Head(plan[n]) # Cmd("flush", e)
    PROVE  ShutsDown(n)'
  <1>1. plan[n] \in Seq(Commands) /\ plan'[n] = Tail(plan[n])
    BY MoreShapes DEF CreditInv
  <1>2. SUFFICES ASSUME mode[n] = "closing"
                 PROVE  /\ Shuts(plan'[n])
                        /\ \A e \in Edges : Src[e] = n /\ pending'[e] # <<>> /\ EndPlanned(e)' =>
                                               Flushes(plan'[n], e)
    BY DEF ShutsDown
  <1>3. Shuts(plan[n])
    BY <1>2 DEF ShutsDown
  <1>4. PICK e \in Edges : TRUE
    BY GraphType
  <1>5. Shuts(plan'[n])
    BY <1>1, <1>3, <1>4, TailShuts
  <1>6. ASSUME NEW d \in Edges, Src[d] = n, pending'[d] # <<>>, EndPlanned(d)'
        PROVE  Flushes(plan'[n], d)
    <2>1. EndPlanned(d)
      BY <1>1, <1>6, EndPlannedTail
    <2>2. Flushes(plan[n], d) /\ Head(plan[n]) # Cmd("flush", d)
      BY <1>2, <1>6, <2>1 DEF ShutsDown
    <2> QED
      BY <1>1, <1>3, <2>2, TailShuts
  <1> QED
    BY <1>5, <1>6

LEMMA EmptyPlanShuts == Shuts(<<>>) /\ DOMAIN <<>> = {}
  BY DEF Shuts

LEMMA ShutsMove ==
    ASSUME CreditInv, NEW n \in Nodes, Moves(n), Tidy(n), NEW m \in Nodes, ShutsDown(n), ShutsDown(m)
    PROVE  ShutsDown(m)'
  <1>1. TypeOK
    BY DEF CreditInv
  <1>2. CASE m # n
    <2>1. mode'[m] = mode[m] /\ plan'[m] = plan[m]
      BY <1>1, <1>2, LocalMove
    <2>2. \A e \in Edges : Src[e] = m => pending'[e] = pending[e]
      BY <1>2, PendingLocal
    <2>3. \A e \in Edges : Src[e] = m => EndPlanned(e)' = EndPlanned(e)
      BY <2>1 DEF EndPlanned
    <2> QED
      BY <2>1, <2>2, <2>3 DEF ShutsDown
  <1>3. CASE m = n
    <2>1. ASSUME mode' = mode, plan' = plan, \A e \in Edges : pending'[e] # <<>> => pending[e] # <<>>
          PROVE  ShutsDown(m)'
      BY <1>3, <2>1 DEF ShutsDown, EndPlanned
    <2>2. CASE \/ Start(n) \/ Doze(n) \/ Mark(n) \/ WakeProducer(n) \/ End(n)
               \/ Claim(n) \/ ClaimAny(n) \/ Push(n)
      BY <2>1, <2>2 DEF Start, Doze, Mark, WakeProducer, End, Claim, ClaimAny, Claimed, Push, edgeVars
    <2>3. CASE \/ TakeKept(n) \/ Drain(n) \/ NextOfBatch(n) \/ Pop(n) \/ Await(n) \/ Release(n)
               \/ CancelStep(n) \/ CancelReturns(n)
      BY <2>1, <2>3 DEF TakeKept, Drain, NextOfBatch, Pop, Await, Release, CancelStep, CancelReturns,
                        edgeVars
    <2>4. CASE Block(n)
      BY <2>1, <2>4 DEF Block
    <2>5. CASE Produce(n) \/ Process(n) \/ FlushFirst(n)
      <3>1. mode' = mode /\ mode[n] = "body"
        BY <2>5 DEF Produce, Process, FlushFirst, Making, Popping, Asking, Free, Coding
      <3> QED
        BY <1>3, <3>1 DEF ShutsDown
    <2>6. ASSUME plan'[n] = ClosePlan(n)  PROVE ShutsDown(m)'
      BY <1>3, <2>6, ClosePlanShuts DEF ShutsDown
    <2>7. CASE Return(n) \/ Fail(n)
      BY <1>1, <2>6, <2>7, MoreShapes DEF Return, Fail
    <2>8. CASE Unwind(n)
      <3>1. plan'[n] = ClosePlan(n) \/ plan'[n] = <<>>
        BY <1>1, <2>8, MoreShapes DEF Unwind
      <3>2. CASE plan'[n] = <<>>
        BY <1>3, <3>2, EmptyPlanShuts DEF ShutsDown, EndPlanned
      <3> QED
        BY <2>6, <3>1, <3>2
    <2>9. CASE Buffer(n)
      <3>1. mode' = mode /\ HeadOp(n) = "put" /\ plan[n] # <<>>
        BY <2>9 DEF Buffer, Sending
      <3>2. mode[n] # "closing"
        BY <1>1, <3>1, ClosingSends DEF ShutsDown
      <3> QED
        BY <1>3, <3>1, <3>2 DEF ShutsDown
    <2>10. CASE Skip(n)
      <3>1. mode' = mode /\ pending' = pending /\ plan' = [plan EXCEPT ![n] = Tail(plan[n])]
            /\ plan[n] # <<>> /\ (HeadOp(n) = "flush" => pending[HeadEdge(n)] = <<>>)
        BY <2>10 DEF Skip, Sending, edgeVars
      <3>2. \A e \in Edges : Head(plan[n]) = Cmd("flush", e) => HeadEdge(n) = e /\ HeadOp(n) = "flush"
        BY DEF HeadEdge, HeadOp, Cmd
      <3> QED
        BY <1>3, <3>1, <3>2, ShutsTail
    <2>11. CASE Prepare(n)
      <3>1. mode' = mode /\ plan' = [plan EXCEPT ![n] = Tail(plan[n])] /\ plan[n] # <<>>
            /\ pending' = [pending EXCEPT ![HeadEdge(n)] = IF HeadOp(n) \in {"put", "flush"} THEN <<>> ELSE pending[HeadEdge(n)]]
        BY <2>11 DEF Prepare, Sending
      <3>2. \A e \in Edges : Head(plan[n]) = Cmd("flush", e) => HeadEdge(n) = e /\ HeadOp(n) = "flush"
        BY DEF HeadEdge, HeadOp, Cmd
      <3>3. ASSUME NEW e \in Edges, pending'[e] # <<>>
            PROVE  pending[e] # <<>> /\ Head(plan[n]) # Cmd("flush", e)
        BY <1>1, <3>1, <3>2, <3>3, MoreShapes
      <3> QED
        BY <1>3, <3>1, <3>3, ShutsTail
    <2> QED
      BY <2>2, <2>3, <2>4, <2>5, <2>7, <2>8, <2>9, <2>10, <2>11 DEF Moves, Steps
  <1> QED
    BY <1>2, <1>3
-----------------------------------------------------------------------------
(* What a node waits for.                                                  *)

LEMMA SendsAny ==
    ASSUME NEW n \in Nodes, NEW k, NEW s \in Sends(n, k), NEW i \in DOMAIN s, s[i].op = "any",
           Out[n] = <<>> => k = 0
    PROVE  Policy[n] = "on_demand" /\ Out[n] # <<>>
  <1> DEFINE L == Len(Out[n])
             To(j) == Cmd("put", Out[n][j])
             Round(m) == [j \in 1..(k * m) |-> To(((j - 1) % m) + 1)]
  <1>1. CASE Policy[n] = "round_robin"
    <2>1. s = [j \in 1..k |-> To(((rr[n] + j - 1) % L) + 1)]
      BY <1>1 DEF Sends
    <2> QED
      BY <2>1 DEF Cmd
  <1>2. CASE Policy[n] = "broadcast"
    <2>1. s = Round(L)
      BY <1>2 DEF Sends
    <2> QED
      BY <2>1 DEF Cmd
  <1>3. CASE Policy[n] = "scatter"
    <2>1. PICK m \in 1..L : s = Round(m)
      BY <1>3 DEF Sends
    <2> QED
      BY <2>1 DEF Cmd
  <1>4. CASE Policy[n] = "key"
    <2>1. PICK f \in [1..k -> 1..L] : s = [j \in 1..k |-> To(f[j])]
      BY <1>4 DEF Sends
    <2> QED
      BY <2>1 DEF Cmd
  <1>5. Policy[n] = "on_demand"
    BY <1>1, <1>2, <1>3, <1>4, SizeType DEF Policies
  <1>6. s = [j \in 1..k |-> Cmd("any", NoEntry.edge)]
    BY <1>5 DEF Sends
  <1>7. k # 0
    BY <1>6
  <1> QED
    BY <1>5, <1>7

\* What a node's code sends next, and what it feeds back.
LEMMA ProcessAny ==
    ASSUME CreditInv, NEW n \in Nodes, Process(n), NEW i \in DOMAIN plan'[n], plan'[n][i].op = "any"
    PROVE  Policy[n] = "on_demand" /\ Out[n] # <<>>
  <1>1. TypeOK
    BY DEF CreditInv
  <1>2. PICK k \in Fanout[n], feed \in Feeds(n) :
           \E s \in Sends(n, k) : plan' = [plan EXCEPT ![n] = s \o feed]
    BY DEF Process
  <1>9. PICK s \in Sends(n, k) : plan' = [plan EXCEPT ![n] = s \o feed]
    BY <1>2
  <1>3. plan'[n] = s \o feed
    BY <1>1, <1>9, MoreShapes
  <1>4. s \in Seq(CommandsOf(n)) /\ feed \in Seq(CommandsOf(n))
    <2>1. k \in Nat
      BY <1>2, SizeType
    <2>2. Out[n] = <<>> => k = 0
      BY <1>2, NoOutput
    <2>3. rr[n] \in Nat
      BY <1>1 DEF TypeOK, EdgesTyped
    <2> QED
      BY <1>1, <1>2, <2>1, <2>2, <2>3, SendsType, FeedsType
  <1>5. PICK L \in Nat, F \in Nat : L = Len(s) /\ F = Len(feed) /\ DOMAIN s = 1..L
    BY <1>4
  <1>6. i \in 1..(L + F) /\ plan'[n][i] = IF i <= L THEN s[i] ELSE feed[i - L]
    BY <1>3, <1>4, <1>5
  <1>7. CASE i <= L
    <2>1. i \in DOMAIN s /\ s[i].op = "any"
      BY <1>5, <1>6, <1>7
    <2>2. Out[n] = <<>> => k = 0
      BY <1>2, NoOutput
    <2> QED
      BY <2>1, <2>2, SendsAny
  <1>8. CASE i > L
    <2>1. i - L \in 1..F /\ feed[i - L].op = "any"
      BY <1>5, <1>6, <1>8
    <2>2. feed = <<>> \/ \E j \in DOMAIN Back[n] : feed = <<Cmd("put", Back[n][j])>>
      BY <1>2 DEF Feeds
    <2>3. CASE feed = <<>>
      BY <1>5, <2>1, <2>3
    <2>4. CASE feed # <<>>
      <3>1. PICK j \in DOMAIN Back[n] : feed = <<Cmd("put", Back[n][j])>>
        BY <2>2, <2>4
      <3>2. F = 1 /\ i - L = 1
        BY <1>5, <2>1, <3>1
      <3> QED
        BY <2>1, <3>1, <3>2 DEF Cmd
    <2> QED
      BY <2>3, <2>4
  <1> QED
    BY <1>5, <1>6, <1>7, <1>8

LEMMA OnDemandMove ==
    ASSUME CreditInv, NEW n \in Nodes, Moves(n), Tidy(n), ShutsDown(n)', NEW m \in Nodes, OnDemand(m)
    PROVE  OnDemand(m)'
  <1>1. TypeOK
    BY DEF CreditInv
  <1>2. CASE m # n
    <2>1. pc'[m] = pc[m] /\ plan'[m] = plan[m] /\ hand'[m] = hand[m]
      BY <1>1, <1>2, LocalMove
    <2> QED
      BY <2>1 DEF OnDemand
  <1>3. CASE m = n
    <2>1. ASSUME pc'[n] \notin {"credit", "park_out"} \/ (pc'[n] \in {"credit", "park_out"} /\ pc[n] \in {"credit", "park_out"} /\ hand' = hand),
                 plan' = plan
          PROVE  OnDemand(m)'
      BY <1>3, <2>1 DEF OnDemand
    <2>2. ASSUME pc'[n] \notin {"credit", "park_out"}, mode'[n] = "closing"
          PROVE  OnDemand(m)'
      <3>1. \A i \in DOMAIN plan'[n] : plan'[n][i].op # "any"
        BY <2>2 DEF ShutsDown, Shuts
      <3> QED
        BY <1>3, <2>2, <3>1 DEF OnDemand
    <2>3. ASSUME plan[n] # <<>>, plan' = [plan EXCEPT ![n] = Tail(plan[n])],
                 NEW i \in DOMAIN plan'[n], plan'[n][i].op = "any"
          PROVE  Policy[n] = "on_demand" /\ Out[n] # <<>>
      <3>1. plan'[n] = Tail(plan[n]) /\ plan[n] \in Seq(Commands)
        BY <1>1, <2>3, MoreShapes
      <3>2. i + 1 \in DOMAIN plan[n] /\ plan[n][i + 1].op = "any"
        BY <2>3, <3>1, TailElements
      <3> QED
        BY <1>3, <3>2 DEF OnDemand
    <2>4. CASE Start(n) \/ Doze(n) \/ WakeProducer(n) \/ End(n) \/ Mark(n) \/ CancelStep(n) \/ CancelReturns(n)
      <3>1. plan' = plan /\ hand' = hand
        BY <2>4 DEF Start, Doze, WakeProducer, End, Mark, CancelStep, CancelReturns
      <3>2. pc' = pc \/ pc'[n] \notin {"credit", "park_out"}
        BY <1>1, <2>4, Shapes DEF Start, Doze, WakeProducer, End, Mark, CancelStep, CancelReturns
      <3> QED
        BY <2>1, <3>1, <3>2
    <2>5. CASE Claim(n) \/ ClaimAny(n) \/ Push(n) \/ Block(n)
      <3>1. plan' = plan
        BY <2>5 DEF Claim, ClaimAny, Claimed, Push, Block
      <3>2. pc'[n] \notin {"credit", "park_out"} \/ (pc[n] \in {"credit", "park_out"} /\ hand' = hand)
        BY <1>1, <2>5, Shapes DEF Claim, ClaimAny, Claimed, Push, Block
      <3> QED
        BY <2>1, <3>1, <3>2
    <2>6. CASE TakeKept(n) \/ Drain(n) \/ NextOfBatch(n) \/ Pop(n) \/ Await(n) \/ Release(n)
      <3>1. plan' = plan
        BY <2>6 DEF TakeKept, Drain, NextOfBatch, Pop, Await, Release
      <3>2. pc'[n] \notin {"credit", "park_out"}
        BY <1>1, <2>6, Shapes DEF TakeKept, Drain, NextOfBatch, Unpack, Pop, Await, Release
      <3> QED
        BY <2>1, <3>1, <3>2
    <2>7. CASE Return(n) \/ Fail(n) \/ Unwind(n)
      <3>1. mode'[n] = "closing"
        BY <1>1, <2>7, MoreShapes DEF Return, Fail, Unwind
      <3>2. pc'[n] \in {"run", "cancel"}
        BY <1>1, <2>7, Shapes DEF Return, Fail, Unwind, Making, Free, Coding
      <3> QED
        BY <2>2, <3>1, <3>2
    <2>8. CASE Produce(n)
      <3>1. pc'[n] = "run"
        BY <2>8 DEF Produce, Making, Free, Coding
      <3>2. PICK s \in Sends(n, 1) : plan' = [plan EXCEPT ![n] = s]
        BY <2>8 DEF Produce
      <3>3. plan'[n] = s
        BY <1>1, <3>2, MoreShapes
      <3> QED
        <4>1. Out[n] # <<>>
          <5>1. made[n] \in Nat /\ made[n] < Supply[n]
            BY <1>1, <2>8 DEF Produce, Making, TypeOK, CodeTyped
          <5> QED
            BY <5>1, NoOutput
        <4> QED
          BY <1>3, <3>1, <3>3, <4>1, SendsAny DEF OnDemand
    <2>9. CASE Process(n)
      <3>1. pc'[n] = "run"
        BY <2>9 DEF Process, Coding
      <3> QED
        BY <1>3, <2>9, <3>1, ProcessAny DEF OnDemand
    <2>10. CASE FlushFirst(n)
      <3>1. pc'[n] = "run" \/ pc'[n] = "park_in"
        BY <2>10 DEF FlushFirst, Popping, Asking, Free, Coding
      <3>2. plan'[n] = FlushPlan(n)
        BY <1>1, <2>10, MoreShapes DEF FlushFirst
      <3>3. \A i \in DOMAIN plan'[n] : plan'[n][i].op # "any"
        BY <3>2 DEF FlushPlan, Cmd
      <3> QED
        BY <1>3, <3>1, <3>3 DEF OnDemand
    <2>11. CASE Buffer(n) \/ Skip(n)
      <3>1. pc'[n] = "run" /\ plan[n] # <<>> /\ plan' = [plan EXCEPT ![n] = Tail(plan[n])]
        BY <2>11 DEF Buffer, Skip, Sending
      <3> QED
        BY <1>3, <2>3, <3>1 DEF OnDemand
    <2>12. CASE Prepare(n)
      <3>1. plan[n] # <<>> /\ plan' = [plan EXCEPT ![n] = Tail(plan[n])] /\ Sending(n)
        BY <2>12 DEF Prepare, Sending
      <3>2. HeadOp(n) \in Ops /\ HeadEdge(n) \in Edges /\ pending[HeadEdge(n)] \in Seq(Nat)
            /\ put[HeadEdge(n)] \in Nat
        BY <1>1, <3>1, HeadWired, MoreShapes
      <3>3. ASSUME HeadOp(n) # "any"  PROVE hand'[n].items # <<>>
        <4> DEFINE e == HeadEdge(n)
        <4>1. CASE HeadOp(n) = "put"
          <5>1. hand'[n] = [edge |-> e, items |-> Append(pending[e], put[e] + 1)]
            BY <1>1, <2>12, <4>1, Shapes DEF Prepare
          <5> QED
            BY <3>2, <5>1
        <4>2. CASE HeadOp(n) = "flush"
          <5>1. hand'[n] = [edge |-> e, items |-> pending[e]] /\ pending[e] # <<>>
            BY <1>1, <2>12, <4>2, Shapes DEF Prepare
          <5> QED
            BY <5>1
        <4>3. CASE HeadOp(n) = "eos"
          <5>1. hand'[n] = [edge |-> e, items |-> <<EOS>>]
            BY <1>1, <2>12, <4>3, Shapes DEF Prepare
          <5> QED
            BY <5>1
        <4> QED
          BY <3>2, <3>3, <4>1, <4>2, <4>3 DEF Ops
      <3>4. ASSUME HeadOp(n) = "any"  PROVE Policy[n] = "on_demand" /\ Out[n] # <<>>
        <4>1. plan[n] \in Seq(Commands) /\ plan[n] # <<>>
          BY <1>1, <3>1, MoreShapes
        <4>2. 1 \in DOMAIN plan[n] /\ Head(plan[n]) = plan[n][1]
          BY <4>1, TailOf
        <4> QED
          BY <1>3, <3>4, <4>2 DEF HeadOp, OnDemand
      <3> QED
        BY <1>3, <2>3, <3>1, <3>3, <3>4 DEF OnDemand
    <2> QED
      BY <2>4, <2>5, <2>6, <2>7, <2>8, <2>9, <2>10, <2>11, <2>12 DEF Moves, Steps
  <1> QED
    BY <1>2, <1>3
-----------------------------------------------------------------------------
(* What a node receives.                                                   *)

\* The entry n pops comes from one of its inputs: an end of stream, or items.
LEMMA PopShape ==
    ASSUME CreditInv, NEW n \in Nodes, Queue(n), Pop(n)
    PROVE  LET b == Head(q[n]) IN
           /\ q[n] # <<>> /\ q[n] \in Seq(Entry) /\ b \in Entry /\ b.edge \in Edges
           /\ b.items \in Seq(Nat) /\ b.items # <<>> /\ Dst[b.edge] = n
           /\ batch[n].items = <<>> /\ ~done[n]
           /\ q' = [q EXCEPT ![n] = Tail(q[n])]
           /\ queued' = [queued EXCEPT ![b.edge] = queued[b.edge] - Len(b.items)]
           /\ \/ /\ b.items = <<EOS>> /\ ended' = ended \cup {b.edge}
                 /\ batch' = batch /\ kept' = kept /\ got' = got /\ taken' = taken
              \/ b.items # <<EOS>> /\ Unpack(n, b) /\ ended' = ended
  <1>1. TypeOK
    BY DEF CreditInv
  <1> DEFINE b == Head(q[n])
  <1>2. q[n] # <<>> /\ q' = [q EXCEPT ![n] = Tail(q[n])]
    BY DEF Pop
  <1>3. q[n] \in Seq(Entry) /\ q[n] \in Seq(Queued)
    BY <1>1, QueueOfEntries, Shapes
  <1>4. b \in Entry /\ b \in QueuedFor(n)
    BY <1>2, <1>3, HeadQueued, HeadTailProperties
  <1>5. b.items \in Seq(Nat) /\ b.edge \in Edges /\ b.items # <<LOOP_DONE>>
    <2>1. b.items \in Seq(Nat) /\ b.edge \in Edges
      BY <1>4 DEF Entry, Items
    <2>2. ASSUME b.items = <<LOOP_DONE>>  PROVE FALSE
      <3>1. b.items[1] = -1 /\ 1 \in DOMAIN b.items
        BY <2>2 DEF LOOP_DONE
      <3>2. b.items[1] \in Nat
        BY <2>1, <3>1
      <3> QED
        BY <3>1, <3>2
    <2> QED
      BY <2>1, <2>2
  <1>6. b.items # <<>> /\ Dst[b.edge] = n
    <2>1. b \notin Control
      BY <1>5 DEF Control
    <2> QED
      BY <1>4, <2>1 DEF QueuedFor, Queued
  <1>7. queued' = [queued EXCEPT ![b.edge] = queued[b.edge] - Len(b.items)]
    BY <1>5 DEF Pop
  <1>8. \/ /\ b.items = <<EOS>> /\ ended' = ended \cup {b.edge}
           /\ batch' = batch /\ kept' = kept /\ got' = got /\ taken' = taken
        \/ b.items # <<EOS>> /\ Unpack(n, b) /\ ended' = ended
    BY <1>5 DEF Pop
  <1>9. batch[n].items = <<>>
    BY DEF Pop, Popping, CreditInv, BatchWired
  <1>10. ~done[n]
    BY <1>1, <1>2, Shapes DEF Queue
  <1> QED
    BY <1>2, <1>3, <1>4, <1>5, <1>6, <1>7, <1>8, <1>9, <1>10

\* No other step than these hands anything over, holds it back or takes it up.
LEMMA ReceiversStay ==
    ASSUME NEW n \in Nodes, Moves(n), ~TakeKept(n), ~Drain(n), ~NextOfBatch(n), ~Pop(n)
    PROVE  UNCHANGED <<batch, kept, ended, got>>
  <1>1. CASE Start(n) \/ Return(n) \/ Doze(n) \/ WakeProducer(n) \/ End(n) \/ Mark(n) \/ FlushFirst(n) \/ Await(n)
    BY <1>1 DEF Start, Return, Doze, WakeProducer, End, Mark, FlushFirst, Await, receiveVars, codeVars
  <1>2. CASE Produce(n) \/ Process(n) \/ Buffer(n) \/ Skip(n) \/ Prepare(n) \/ Release(n)
    BY <1>2 DEF Produce, Process, Buffer, Skip, Prepare, Release, receiveVars, codeVars
  <1>3. CASE Claim(n) \/ ClaimAny(n) \/ Block(n) \/ Push(n)
    BY <1>3 DEF Claim, ClaimAny, Claimed, Block, Push, receiveVars, codeVars
  <1>4. CASE Unwind(n) \/ Fail(n) \/ CancelStep(n) \/ CancelReturns(n)
    BY <1>4 DEF Unwind, Fail, CancelStep, CancelReturns, receiveVars, codeVars
  <1> QED
    BY <1>1, <1>2, <1>3, <1>4 DEF Moves, Steps

LEMMA ReceiverLocal ==
    ASSUME CreditInv, NEW n \in Nodes, Moves(n), Queue(n), NEW e \in Edges, Dst[e] # n
    PROVE  kept'[e] = kept[e] /\ got'[e] = got[e] /\ (e \in ended' <=> e \in ended)
  <1>1. TypeOK
    BY DEF CreditInv
  <1>2. ASSUME NEW b \in Entry, Dst[b.edge] = n, Unpack(n, b)
        PROVE  kept'[e] = kept[e] /\ got'[e] = got[e]
    BY <1>1, <1>2, MoreShapes DEF Unpack
  <1>3. CASE TakeKept(n)
    <2>1. PICK d \in Edges : /\ Dst[d] = n /\ kept' = [kept EXCEPT ![d] = Tail(kept[d])]
                             /\ got' = [got EXCEPT ![d] = got[d] + 1]
      BY <1>3 DEF TakeKept
    <2>2. ended' = ended
      BY <1>3 DEF TakeKept
    <2> QED
      BY <1>1, <2>1, <2>2, MoreShapes
  <1>4. CASE Drain(n)
    <2>1. Dst[batch[n].edge] = n
      BY <1>4 DEF Drain, CreditInv, BatchWired
    <2> QED
      BY <1>1, <1>4, <2>1, MoreShapes DEF Drain
  <1>5. CASE NextOfBatch(n)
    <2>1. Dst[batch[n].edge] = n /\ batch[n] \in Entry
      BY <1>1, <1>5, MoreShapes DEF NextOfBatch, CreditInv, BatchWired
    <2> QED
      BY <1>2, <1>5, <2>1 DEF NextOfBatch
  <1>6. CASE Pop(n)
    <2> DEFINE b == Head(q[n])
    <2>1. /\ b \in Entry /\ Dst[b.edge] = n
          /\ \/ ended' = ended \cup {b.edge} /\ kept' = kept /\ got' = got
             \/ Unpack(n, b) /\ ended' = ended
      BY <1>6, PopShape
    <2> HIDE DEF b
    <2> QED
      BY <1>2, <2>1
  <1> QED
    BY <1>3, <1>4, <1>5, <1>6, ReceiversStay

\* A node that reads one source to its end reads no other.
LEMMA PreferType ==
    ASSUME NEW n \in Nodes
    PROVE  /\ Prefer[n] \subseteq Edges /\ (Prefer[n] # {} => n \in Raw)
           /\ \A e \in Prefer[n] : Dst[e] = n
           /\ \A d, e \in Prefer[n] : d = e
  BY CodeAssumption

LEMMA WaitsMove ==
    ASSUME CreditInv, NEW n \in Nodes, Moves(n), Queue(n), NEW m \in Nodes, Waits(m)
    PROVE  Waits(m)'
  <1>1. TypeOK
    BY DEF CreditInv
  <1>2. ASSUME pc'[m] = pc[m], \A e \in Edges : Dst[e] = m => kept'[e] = kept[e] /\ (e \in ended' <=> e \in ended)
        PROVE  Waits(m)'
    <2>1. Watched(m)' = Watched(m)
      BY <1>2, PreferType DEF Watched
    <2>2. HasKept(m)' = HasKept(m)
      BY <1>2 DEF HasKept
    <2> QED
      BY <1>2, <2>1, <2>2 DEF Waits
  <1>3. CASE m # n
    <2>1. pc'[m] = pc[m]
      BY <1>1, <1>3, LocalMove
    <2> QED
      BY <1>2, <1>3, <2>1, ReceiverLocal
  <1>4. CASE m = n
    <2>1. ASSUME pc'[n] # "park_in"  PROVE Waits(m)'
      BY <1>4, <2>1 DEF Waits
    <2>2. CASE Doze(n) \/ CancelStep(n)
      <3>1. pc' = pc /\ kept' = kept /\ ended' = ended
        BY <2>2 DEF Doze, CancelStep, receiveVars
      <3> QED
        BY <1>2, <3>1
    <2>3. CASE Await(n)
      <3>1. kept' = kept /\ ended' = ended /\ (Watched(n) = {} => ~HasKept(n))
        BY <2>3 DEF Await, Popping, receiveVars
      <3>2. Watched(n)' = Watched(n) /\ HasKept(n)' = HasKept(n)
        BY <3>1 DEF Watched, HasKept
      <3> QED
        BY <1>4, <3>1, <3>2 DEF Waits
    <2>4. CASE Start(n) \/ Produce(n) \/ Process(n) \/ Return(n) \/ Mark(n) \/ WakeProducer(n) \/ End(n)
      BY <1>1, <2>1, <2>4, Shapes DEF Start, Produce, Process, Return, Mark, WakeProducer, End,
         Making, Free, Coding
    <2>5. CASE Buffer(n) \/ Skip(n) \/ Prepare(n) \/ Claim(n) \/ ClaimAny(n) \/ Block(n) \/ Push(n)
      BY <1>1, <2>1, <2>5, Shapes DEF Buffer, Skip, Prepare, Claim, ClaimAny, Claimed, Block, Push, Sending
    <2>6. CASE TakeKept(n) \/ Drain(n) \/ NextOfBatch(n) \/ Release(n)
      BY <1>1, <2>1, <2>6, Shapes DEF TakeKept, Drain, NextOfBatch, Unpack, Release
    <2>7. CASE Pop(n)
      BY <1>1, <2>1, <2>7, Shapes DEF Pop, Unpack
    <2>8. CASE Unwind(n) \/ Fail(n) \/ CancelReturns(n)
      BY <1>1, <2>1, <2>8, Shapes DEF Unwind, Fail, CancelReturns, Making, Free, Coding
    <2>9. CASE FlushFirst(n)
      <3>1. pc' = pc /\ kept' = kept /\ ended' = ended
        BY <2>9 DEF FlushFirst, receiveVars
      <3> QED
        BY <1>2, <3>1
    <2> QED
      BY <2>2, <2>3, <2>4, <2>5, <2>6, <2>7, <2>8, <2>9 DEF Moves, Steps
  <1> QED
    BY <1>3, <1>4

LEMMA NodeMove ==
    ASSUME LoopFree, CreditInv, NEW n \in Nodes, Moves(n), \A m \in Nodes : NodeSound(m)
    PROVE  \A m \in Nodes : NodeSound(m)'
  <1>1. TypeOK
    BY DEF CreditInv
  <1>2. Tidy(n) /\ Queue(n) /\ ShutsDown(n) /\ \A m \in Nodes : Queue(m)
    BY DEF NodeSound
  <1>3. ShutsDown(n)'
    BY <1>2, ShutsMove
  <1> SUFFICES ASSUME NEW m \in Nodes  PROVE NodeSound(m)'
    OBVIOUS
  <1>4. Tidy(m) /\ ShutsDown(m) /\ OnDemand(m) /\ Waits(m)
    BY DEF NodeSound
  <1>5. Tidy(m)'
    BY <1>2, <1>4, TidyMove
  <1>6. Queue(m)'
    BY <1>1, <1>2, QueueMove
  <1>7. ShutsDown(m)' /\ OnDemand(m)' /\ Waits(m)'
    BY <1>2, <1>3, <1>4, ShutsMove, OnDemandMove, WaitsMove
  <1> QED
    BY <1>5, <1>6, <1>7 DEF NodeSound
-----------------------------------------------------------------------------
(* The invariant, of an edge.                                              *)

\* What the sender has in hand for e, and that it will send no more on it.
On(e) == Part(hand[Src[e]], e)
Settled(e) == mode[Src[e]] = "closing" /\ pending[e] = <<>> /\ ~EndPlanned(e)

\* An item is held back only while another source is read.
KeptBack(e) == kept[e] # <<>> => Prefer[Dst[e]] # {} /\ e \notin Prefer[Dst[e]]

\* No more than a batch is with the sender.
Small(e) ==
    /\ Len(pending[e]) < Batch(e) /\ \A i \in 1..Len(pending[e]) : pending[e][i] > 0
    /\ On(e) # <<>> => Len(On(e)) <= Batch(e) /\ pending[e] = <<>>

\* The end is the last that is sent, queued and received.
EndLast(s, e) == \A i, j \in 1..Len(s) : i < j /\ EndsEdge(s[i], e) => s[j].edge # e
Closed(e) ==
    /\ On(e) = <<EOS>> \/ EndQueued(e) \/ e \in ended => Settled(e)
    /\ EndQueued(e) \/ e \in ended => On(e) = <<>>
    /\ e \in ended => /\ Part(batch[Dst[e]], e) = <<>>
                      /\ \A i \in 1..Len(q[Dst[e]]) : q[Dst[e]][i].edge # e
    /\ EndLast(q[Dst[e]], e)

\* The receiver has the items up to the c-th, and the sender the others, less what it
\* has given up once it closes.
Has(e, c) ==
    /\ Stock(kept[e], Part(batch[Dst[e]], e), q[Dst[e]], e, got[e], c)
    /\ mode[Src[e]] = "body" => c <= Received(e) + queued[e]
Backs(e, c) ==
    /\ Supplies(On(e), pending[e], c, put[e])
    /\ mode[Src[e]] = "body" => put[e] = c + Len(Load(On(e))) + Len(pending[e])
Carries(e) == ~done[Dst[e]] => \E c \in Nat : Has(e, c) /\ Backs(e, c)

Sound(e) == KeptBack(e) /\ Small(e) /\ Closed(e) /\ Carries(e)

ChannelInv == /\ StreamInv
              /\ \A n \in Nodes : NodeSound(n)
              /\ \A e \in Edges : Sound(e)

\* What is to be shown of a step.
ChanStep(e) == [Chan(e)!Next]_(Chan(e)!vars) /\ HandedInOrder(e)

LEMMA OnType ==
    ASSUME TypeOK, NEW e \in Edges
    PROVE  /\ Src[e] \in Nodes /\ Dst[e] \in Nodes
           /\ On(e) \in Seq(Nat) /\ Load(On(e)) \in Seq(Nat)
           /\ Len(On(e)) \in Nat /\ Len(Load(On(e))) \in Nat /\ Len(Load(On(e))) <= Len(On(e))
           /\ pending[e] \in Seq(Nat) /\ Len(pending[e]) \in Nat
           /\ put[e] \in Nat /\ got[e] \in Nat /\ queued[e] \in Int
           /\ kept[e] \in Seq(Nat) /\ Len(kept[e]) \in Nat
           /\ Part(batch[Dst[e]], e) \in Seq(Nat) /\ Len(Part(batch[Dst[e]], e)) \in Nat
           /\ Received(e) = got[e] + Len(kept[e]) + Len(Part(batch[Dst[e]], e))
           /\ Received(e) \in Nat
  <1>1. Src[e] \in Nodes /\ Dst[e] \in Nodes
    BY GraphType
  <1>2. hand[Src[e]] \in Entry /\ batch[Dst[e]] \in Entry
    BY <1>1, Shapes, MoreShapes
  <1>3. /\ On(e) \in Seq(Nat) /\ Load(On(e)) \in Seq(Nat)
        /\ Len(On(e)) \in Nat /\ Len(Load(On(e))) \in Nat /\ Len(Load(On(e))) <= Len(On(e))
    <2>1. Part(hand[Src[e]], e) \in Seq(Nat) /\ <<>> \in Seq(Nat) /\ Len(<<>>) = 0
      BY <1>2, PartType
    <2> QED
      BY <2>1 DEF On, Load
  <1>4. /\ pending[e] \in Seq(Nat) /\ put[e] \in Nat /\ got[e] \in Nat /\ queued[e] \in Int
        /\ kept[e] \in Seq(Nat)
    BY MoreShapes
  <1>5. /\ Part(batch[Dst[e]], e) \in Seq(Nat)
        /\ Len(Part(batch[Dst[e]], e)) = CountOf(batch[Dst[e]], e)
    BY <1>2, PartType
  <1>6. Received(e) = got[e] + Len(kept[e]) + Len(Part(batch[Dst[e]], e)) /\ Received(e) \in Nat
    BY <1>5, EdgeCounts DEF Received
  <1> QED
    BY <1>1, <1>3, <1>4, <1>5, <1>6

LEMMA BatchType == \A e \in Edges : Batch(e) \in Nat \ {0} /\ Capacity[e] \in Nat \ {0} /\ Batch(e) <= BatchSize[e]
  BY SizeAssumption DEF Batch

\* What has been put and not handed over is a batch and the edge's credits at most.
LEMMA WithinLimit ==
    ASSUME CreditInv, NEW e \in Edges, Sound(e), mode[Src[e]] = "body", ~done[Dst[e]]
    PROVE  put[e] - got[e] <= Capacity[e] + Batch(e)
  <1>1. TypeOK
    BY DEF CreditInv
  <1>2. PICK c \in Nat : Has(e, c) /\ Backs(e, c)
    BY DEF Sound, Carries
  <1> DEFINE o == Len(Load(On(e)))
             p == Len(pending[e])
             k == Len(kept[e])
             b == Len(Part(batch[Dst[e]], e))
             l == queued[e]
             h == Held(e)
  <1>3. /\ o \in Nat /\ p \in Nat /\ k \in Nat /\ b \in Nat /\ l \in Int /\ h \in Nat
        /\ put[e] \in Nat /\ got[e] \in Nat /\ Capacity[e] \in Nat /\ Batch(e) \in Nat
    BY <1>1, OnType, CountType, BatchType
  <1>4. put[e] = c + o + p /\ c <= got[e] + k + b + l
    BY <1>1, <1>2, OnType DEF Has, Backs
  <1>5. l + h <= Capacity[e]
    <2>1. credits[e] >= 0 /\ credits[e] + Sent(e) + l + h = Capacity[e]
      BY DEF CreditInv, CreditConservation, Balanced
    <2>2. credits[e] \in Int /\ Sent(e) \in Nat
      BY <1>1, CountType
    <2> HIDE DEF l, h
    <2> QED
      BY <1>3, <2>1, <2>2
  <1>6. k + b <= h
    <2> DEFINE Y == IF pc[Dst[e]] = "release" /\ rel[Dst[e]].edge = e THEN rel[Dst[e]].n ELSE 0
    <2>1. Y \in Nat
      BY <1>1, GraphType, MoreShapes
    <2>2. b = CountOf(batch[Dst[e]], e)
      BY <1>1, GraphType, MoreShapes, PartType
    <2>3. h = k + b + Y
      BY <2>2 DEF Held, CountOf
    <2> HIDE DEF Y, h, k, b
    <2> QED
      BY <1>3, <2>1, <2>3
  <1>7. o + p <= Batch(e)
    <2>1. Len(Load(On(e))) <= Len(On(e)) /\ Len(On(e)) \in Nat
      BY <1>1, OnType
    <2>2. CASE On(e) = <<>>
      <3>1. Len(On(e)) = 0
        BY <2>2
      <3> QED
        BY <1>3, <2>1, <3>1 DEF Sound, Small
    <2>3. CASE On(e) # <<>>
      <3>1. p = 0 /\ Len(On(e)) <= Batch(e)
        BY <2>3 DEF Sound, Small
      <3> QED
        BY <1>3, <2>1, <3>1
    <2> QED
      BY <2>2, <2>3
  <1> HIDE DEF o, p, k, b, l, h
  <1> QED
    BY <1>3, <1>4, <1>5, <1>6, <1>7

\* The same, as a formula that may be primed.
InLimit(e) == CreditInv /\ Sound(e) /\ mode[Src[e]] = "body" /\ ~done[Dst[e]] =>
                  put[e] - got[e] <= Capacity[e] + Batch(e)
AllInLimit == \A e \in Edges : InLimit(e)

LEMMA AllWithin == AllInLimit
  BY WithinLimit DEF AllInLimit, InLimit

LEMMA StillWithin == AllInLimit'
  BY AllWithin, PTL
-----------------------------------------------------------------------------
(* What an edge sees of its sender's steps.                                *)

\* The receiver's side is as it was, and the sender's fits it still.
LEMMA SenderSound ==
    ASSUME TypeOK, NEW e \in Edges, Sound(e), ReceiverSame(e), Small(e)',
           mode'[Src[e]] = "body" => mode[Src[e]] = "body",
           Settled(e) => Settled(e)' /\ (On(e) = <<>> => On(e)' = <<>>),
           On(e)' = <<EOS>> => Settled(e)',
           ~done[Dst[e]] => \A c \in Nat : Backs(e, c) => Backs(e, c)'
    PROVE  Sound(e)'
  <1>1. /\ EndQueued(e)' = EndQueued(e) /\ Received(e)' = Received(e)
        /\ kept'[e] = kept[e] /\ got'[e] = got[e] /\ queued'[e] = queued[e]
        /\ batch'[Dst[e]] = batch[Dst[e]] /\ q'[Dst[e]] = q[Dst[e]] /\ done'[Dst[e]] = done[Dst[e]]
        /\ (e \in ended' <=> e \in ended)
    BY ReceiverKept DEF ReceiverSame
  <1>2. KeptBack(e)'
    BY <1>1 DEF Sound, KeptBack
  <1>3. Part(batch[Dst[e]], e)' = Part(batch[Dst[e]], e)
    BY <1>1 DEF Part
  <1>4. EndQueued(e) \/ e \in ended => Settled(e) /\ On(e) = <<>>
    BY DEF Sound, Closed
  <1>5. Closed(e)'
    BY <1>1, <1>3, <1>4 DEF Sound, Closed
  <1>6. \A c \in Nat : Has(e, c) => Has(e, c)'
    BY <1>1, <1>3 DEF Has
  <1>7. Carries(e)'
    <2>1. SUFFICES ASSUME ~done[Dst[e]]  PROVE \E c \in Nat : Has(e, c)' /\ Backs(e, c)'
      BY <1>1 DEF Carries
    <2>2. PICK c \in Nat : Has(e, c) /\ Backs(e, c)
      BY <2>1 DEF Sound, Carries
    <2> QED
      BY <1>6, <2>1, <2>2
  <1> QED
    BY <1>2, <1>5, <1>7 DEF Sound

\* For the channel, the sender has put an item or done nothing.
LEMMA SenderChan ==
    ASSUME TypeOK, NEW e \in Edges, CreditInv', Sound(e), Sound(e)', ReceiverSame(e), cancelled' = cancelled,
           put'[e] = put[e] \/ (put'[e] = put[e] + 1 /\ mode'[Src[e]] = "body")
    PROVE  ChanStep(e)
  <1>1. /\ kept'[e] = kept[e] /\ got'[e] = got[e] /\ done'[Dst[e]] = done[Dst[e]]
        /\ (e \in ended' <=> e \in ended)
    BY DEF ReceiverSame
  <1>2. HandedInOrder(e)
    BY <1>1 DEF HandedInOrder
  <1>3. (e \in ended' /\ kept'[e] = <<>>) = (e \in ended /\ kept[e] = <<>>)
    BY <1>1
  <1>4. CASE put'[e] = put[e]
    <2>1. UNCHANGED (Chan(e)!vars)
      BY <1>1, <1>3, <1>4 DEF Chan!vars
    <2> QED
      BY <1>2, <2>1 DEF ChanStep
  <1>5. CASE put'[e] = put[e] + 1 /\ mode'[Src[e]] = "body"
    <2>1. e \notin ended
      BY <1>1, <1>5 DEF Sound, Closed, Settled
    <2>2. put[e] \in Nat /\ got[e] \in Nat
      BY OnType
    <2>3. put'[e] > put[e]
      BY <1>5, <2>2
    <2>4. done[Dst[e]] \/ put'[e] - got[e] <= Capacity[e] + Batch(e)
      <3>1. InLimit(e)'
        BY StillWithin DEF AllInLimit
      <3> QED
        BY <1>1, <1>5, <3>1 DEF InLimit, Batch
    <2>5. Chan(e)!Send
      BY <1>1, <1>3, <2>1, <2>3, <2>4 DEF Chan!Send
    <2> QED
      BY <1>2, <2>5 DEF ChanStep, Chan!Next
  <1> QED
    BY <1>4, <1>5

\* The sender does nothing, stops reading, or gives up what it has in hand.
LEMMA RestsSound ==
    ASSUME TypeOK, NEW e \in Edges, Sound(e), ReceiverSame(e), put'[e] = put[e],
           Settled(e) => Settled(e)', mode'[Src[e]] = "body" => mode[Src[e]] = "body",
           On(e)' \in {On(e), <<>>}, pending'[e] \in {pending[e], <<>>},
           \/ done[Dst[e]]
           \/ On(e)' = On(e) /\ pending'[e] = pending[e]
           \/ mode'[Src[e]] # "body" /\ On(e)' = <<>> /\ pending'[e] = pending[e]
    PROVE  Sound(e)'
  <1>1. On(e)' = <<EOS>> => Settled(e)'
    BY DEF Sound, Closed
  <1>2. Small(e)'
    <2>1. Batch(e) \in Nat \ {0} /\ Len(<<>>) = 0
      BY BatchType
    <2> QED
      BY <2>1 DEF Sound, Small, Batch
  <1>3. ASSUME ~done[Dst[e]], NEW c \in Nat, Backs(e, c)  PROVE Backs(e, c)'
    <2>1. CASE On(e)' = On(e) /\ pending'[e] = pending[e]
      BY <1>3, <2>1 DEF Backs
    <2>2. CASE mode'[Src[e]] # "body" /\ On(e)' = <<>> /\ pending'[e] = pending[e] /\ On(e) # <<>>
      <3>1. pending[e] = <<>>
        BY <2>2 DEF Sound, Small
      <3>2. Load(<<>>) = <<>> /\ Len(<<>>) = 0 /\ Len(Load(On(e))) \in Nat /\ put[e] \in Nat
        BY OnType DEF Load
      <3>3. c + Len(Load(On(e))) + 0 <= put[e]
        BY <1>3, <3>1, <3>2 DEF Backs, Supplies
      <3>4. c + 0 + 0 <= put[e] /\ c + 0 = c
        BY <3>2, <3>3
      <3>5. Supplies(<<>>, <<>>, c, put[e])
        BY <3>2, <3>4, NumberedNone DEF Supplies
      <3> QED
        BY <2>2, <3>1, <3>5 DEF Backs
    <2> QED
      BY <1>3, <2>1, <2>2
  <1>4. \A c \in Nat : ~done[Dst[e]] /\ Backs(e, c) => Backs(e, c)'
    BY <1>3
  <1>5. Settled(e) => (On(e) = <<>> => On(e)' = <<>>)
    OBVIOUS
  <1> QED
    BY <1>1, <1>2, <1>4, <1>5, SenderSound

\* An item is put into the buffer.
LEMMA BufferSound ==
    ASSUME TypeOK, NEW e \in Edges, Sound(e), ReceiverSame(e),
           mode[Src[e]] = "body", mode'[Src[e]] = "body", On(e) = <<>>, On(e)' = <<>>,
           put'[e] = put[e] + 1, pending'[e] = Append(pending[e], put[e] + 1),
           Len(pending[e]) + 1 < Batch(e)
    PROVE  Sound(e)'
  <1>1. pending[e] \in Seq(Nat) /\ put[e] \in Nat /\ Len(pending[e]) \in Nat
    BY OnType
  <1> DEFINE p == pending[e]
             x == put[e] + 1
             t == Append(p, x)
  <1>2. /\ Len(t) = Len(p) + 1 /\ t[Len(p) + 1] = x /\ x > 0 /\ x \in Nat
        /\ \A i \in 1..Len(p) : t[i] = p[i]
    BY <1>1
  <1>3. Small(e)'
    <2>1. \A i \in 1..Len(p) : p[i] > 0
      BY DEF Sound, Small
    <2>2. \A i \in 1..Len(t) : t[i] > 0
      <3>1. \A i \in 1..Len(t) : i = Len(p) + 1 \/ i \in 1..Len(p)
        BY <1>1, <1>2
      <3> HIDE DEF t, x, p
      <3> QED
        BY <1>2, <2>1, <3>1
    <2> QED
      BY <1>2, <2>2 DEF Small, Batch
  <1>4. ASSUME NEW c \in Nat, Backs(e, c)  PROVE Backs(e, c)'
    <2>1. Load(<<>>) = <<>> /\ Len(<<>>) = 0 /\ c + 0 = c
      BY DEF Load
    <2>2. Numbered(p, c) /\ put[e] = c + Len(p)
      <3>1. Numbered(p, c + Len(Load(On(e)))) /\ put[e] = c + Len(Load(On(e))) + Len(p)
        BY <1>4 DEF Backs, Supplies
      <3> QED
        BY <2>1, <3>1
    <2>3. x = c + Len(p) + 1
      BY <1>1, <2>2
    <2>4. Numbered(t, c)
      BY <1>1, <1>2, <2>2, <2>3, NumberedAppend
    <2>5. c + 0 + Len(t) = x
      BY <1>1, <1>2, <2>3
    <2> HIDE DEF t, x, p
    <2>6. Supplies(<<>>, t, c, x) /\ x = c + Len(Load(<<>>)) + Len(t)
      <3>1. c + 0 + Len(t) <= x
        BY <1>2, <2>5
      <3> QED
        BY <2>1, <2>4, <2>5, <3>1, NumberedNone DEF Supplies
    <2> QED
      BY <2>6 DEF Backs, t, x, p
  <1>5. ~Settled(e)
    BY DEF Settled
  <1>6. On(e)' # <<EOS>>
    OBVIOUS
  <1> HIDE DEF t, x, p
  <1> QED
    BY <1>3, <1>4, <1>5, <1>6, SenderSound

\* What is pending is taken up to be sent, with an item put last or without.
LEMMA TakesSound ==
    ASSUME TypeOK, NEW e \in Edges, Sound(e), ReceiverSame(e), mode'[Src[e]] = mode[Src[e]],
           On(e) = <<>>, pending'[e] = <<>>, On(e)' # <<>>,
           \/ put'[e] = put[e] /\ On(e)' = pending[e]
           \/ mode[Src[e]] = "body" /\ put'[e] = put[e] + 1 /\ On(e)' = Append(pending[e], put[e] + 1)
    PROVE  Sound(e)'
  <1>1. /\ pending[e] \in Seq(Nat) /\ put[e] \in Nat /\ Len(pending[e]) \in Nat
        /\ \A i \in 1..Len(pending[e]) : pending[e][i] > 0 /\ Len(pending[e]) < Batch(e)
        /\ Batch(e) \in Nat \ {0}
    BY OnType, BatchType DEF Sound, Small
  <1>2. ~Settled(e)
    BY DEF Settled
  <1> DEFINE p == pending[e]
             o == On(e)'
             x == put'[e]
  <1>3. /\ Len(o) <= Batch(e) /\ o # <<EOS>> /\ o \in Seq(Nat) /\ Len(o) \in Nat
        /\ \A c \in Nat : Numbered(p, c) /\ put[e] = c + Len(p) => Numbered(o, c) /\ x = c + Len(o)
        /\ \A c \in Nat : o = p /\ Numbered(p, c) /\ c + Len(p) <= put[e] => Numbered(o, c) /\ c + Len(o) <= x
    <2>1. CASE put'[e] = put[e] /\ o = p
      <3>1. o # <<EOS>>
        <4>1. ASSUME p = <<EOS>>  PROVE FALSE
          <5>1. 1 \in 1..Len(p) /\ p[1] = EOS
            BY <4>1
          <5> QED
            BY <1>1, <5>1 DEF EOS
        <4> QED
          BY <2>1, <4>1
      <3>2. Len(p) <= Batch(e)
        BY <1>1
      <3> HIDE DEF o
      <3> QED
        BY <1>1, <2>1, <3>1, <3>2
    <2>2. CASE put'[e] = put[e] + 1 /\ o = Append(p, put[e] + 1)
      <3>1. Len(o) = Len(p) + 1 /\ o[Len(p) + 1] = put[e] + 1 /\ o \in Seq(Nat)
        <4> HIDE DEF o, p
        <4>1. p \in Seq(Nat)
          BY <1>1 DEF p
        <4> QED
          BY <1>1, <2>2, <4>1
      <3>2. o # <<EOS>>
        <4>1. ASSUME o = <<EOS>>  PROVE FALSE
          <5>1. Len(<<EOS>>) = 1 /\ <<EOS>>[1] = EOS
            OBVIOUS
          <5>2. Len(p) + 1 = 1 /\ o[1] = EOS
            BY <3>1, <4>1, <5>1
          <5>3. EOS = put[e] + 1
            BY <3>1, <5>2
          <5> QED
            BY <1>1, <5>3 DEF EOS
        <4> QED
          BY <4>1
      <3>3. ASSUME NEW c \in Nat, Numbered(p, c), put[e] = c + Len(p)
            PROVE  Numbered(o, c) /\ x = c + Len(o)
        <4>1. put[e] + 1 = c + Len(p) + 1 /\ put[e] + 1 \in Nat
          BY <1>1, <3>3
        <4>2. Numbered(o, c)
          BY <1>1, <2>2, <3>3, <4>1, NumberedAppend
        <4>3. x = c + Len(o)
          <5>1. Len(p) \in Nat
            BY <1>1
          <5> HIDE DEF o, p
          <5> QED
            BY <2>2, <3>1, <3>3, <5>1
        <4> QED
          BY <4>2, <4>3
      <3>4. o # p
        <4>1. Len(o) # Len(p)
          BY <1>1, <3>1
        <4> QED
          BY <4>1
      <3>5. Len(o) <= Batch(e) /\ Len(o) \in Nat
        <4>1. Len(p) \in Nat /\ Len(p) < Batch(e)
          BY <1>1
        <4> HIDE DEF o, p
        <4> QED
          BY <1>1, <3>1, <4>1
      <3> HIDE DEF o, p, x
      <3> QED
        BY <3>1, <3>2, <3>3, <3>4, <3>5
    <2> QED
      BY <2>1, <2>2
  <1>4. Small(e)'
    BY <1>1, <1>3 DEF Small, Batch
  <1>5. ASSUME NEW c \in Nat, Backs(e, c)  PROVE Backs(e, c)'
    <2>1. Load(<<>>) = <<>> /\ Len(<<>>) = 0 /\ c + 0 = c /\ Load(o) = o
      BY <1>3 DEF Load
    <2>2. Numbered(p, c) /\ c + Len(p) <= put[e] /\ (mode[Src[e]] = "body" => put[e] = c + Len(p))
      <3>1. Numbered(p, c + Len(Load(On(e)))) /\ c + Len(Load(On(e))) + Len(p) <= put[e]
            /\ (mode[Src[e]] = "body" => put[e] = c + Len(Load(On(e))) + Len(p))
        BY <1>5 DEF Backs, Supplies
      <3> QED
        BY <2>1, <3>1
    <2>3. Numbered(o, c) /\ c + Len(o) <= x /\ (mode[Src[e]] = "body" => x = c + Len(o))
      <3>1. CASE mode[Src[e]] = "body"
        <4>1. Numbered(o, c) /\ x = c + Len(o)
          BY <1>3, <2>2, <3>1
        <4>2. Len(o) \in Nat
          BY <1>3
        <4> HIDE DEF o, x
        <4> QED
          BY <4>1, <4>2
      <3>2. CASE mode[Src[e]] # "body"
        BY <1>3, <2>2, <3>2
      <3> QED
        BY <3>1, <3>2
    <2>4. c + Len(o) + Len(<<>>) = c + Len(o)
      <3>1. Len(o) \in Nat
        BY <1>3
      <3> HIDE DEF o
      <3> QED
        BY <2>1, <3>1
    <2>5. Supplies(o, <<>>, c, x) /\ (mode[Src[e]] = "body" => x = c + Len(Load(o)) + Len(<<>>))
      <3> HIDE DEF o, x, p
      <3> QED
        BY <2>1, <2>3, <2>4, NumberedNone DEF Supplies
    <2> QED
      BY <2>5 DEF Backs
  <1>6. On(e)' # <<EOS>>
    BY <1>3
  <1> QED
    BY <1>2, <1>4, <1>5, <1>6, SenderSound

\* The end of e is taken up to be sent.
LEMMA EndsSound ==
    ASSUME TypeOK, NEW e \in Edges, Sound(e), ReceiverSame(e), mode'[Src[e]] = "closing",
           On(e) = <<>>, On(e)' = <<EOS>>, pending[e] = <<>>, pending'[e] = <<>>,
           put'[e] = put[e], ~Settled(e), Settled(e)'
    PROVE  Sound(e)'
  <1>1. Batch(e) \in Nat \ {0} /\ Len(<<>>) = 0 /\ Len(<<EOS>>) = 1
    BY BatchType
  <1>2. Small(e)'
    BY <1>1 DEF Small, Batch
  <1>3. ASSUME NEW c \in Nat, Backs(e, c)  PROVE Backs(e, c)'
    <2>1. Load(<<>>) = <<>> /\ Load(<<EOS>>) = <<>>
      BY DEF Load
    <2> QED
      BY <1>3, <2>1 DEF Backs, Supplies
  <1> QED
    BY <1>2, <1>3, SenderSound
-----------------------------------------------------------------------------
(* What an edge sees of its receiver's steps.                              *)

\* For the channel, nothing happens, or the run is cancelled.
LEMMA StillChan ==
    ASSUME TypeOK, TypeOK', NEW e \in Edges, put'[e] = put[e], got'[e] = got[e],
           done'[Dst[e]] = done[Dst[e]],
           (e \in ended' /\ kept'[e] = <<>>) = (e \in ended /\ kept[e] = <<>>),
           cancelled => cancelled'
    PROVE  ChanStep(e)
  <1>1. HandedInOrder(e)
    BY DEF HandedInOrder
  <1>2. cancelled \in BOOLEAN /\ cancelled' \in BOOLEAN
    BY DEF TypeOK, RunTyped
  <1>3. CASE cancelled' = cancelled
    <2>1. UNCHANGED (Chan(e)!vars)
      BY <1>3 DEF Chan!vars
    <2> QED
      BY <1>1, <2>1 DEF ChanStep
  <1>4. CASE cancelled' # cancelled
    <2>1. Chan(e)!Cancel
      BY <1>2, <1>4 DEF Chan!Cancel
    <2> QED
      BY <1>1, <2>1 DEF ChanStep, Chan!Next
  <1> QED
    BY <1>3, <1>4

\* For the channel, its next items are handed over.
LEMMA ReceiveChan ==
    ASSUME TypeOK, NEW e \in Edges, NEW k \in Nat \ {0}, ~done[Dst[e]], done'[Dst[e]] = done[Dst[e]],
           cancelled' = cancelled, put'[e] = put[e], got'[e] = got[e] + k, got[e] + k <= put[e],
           taken'[Dst[e]] = [i \in 1..k |-> got[e] + i],
           ~(e \in ended /\ kept[e] = <<>>),
           e \in ended' /\ kept'[e] = <<>> /\ ~cancelled => got'[e] = put[e]
    PROVE  ChanStep(e)
  <1>1. got[e] \in Nat /\ put[e] \in Nat
    BY OnType
  <1>2. got'[e] - got[e] = k
    BY <1>1
  <1>3. HandedInOrder(e)
    BY <1>2 DEF HandedInOrder
  <1>4. got'[e] \in (got[e] + 1)..put[e]
    BY <1>1
  <1>5. Chan(e)!Receive
    BY <1>4 DEF Chan!Receive, Chan!MayEnd
  <1> QED
    BY <1>3, <1>5 DEF ChanStep, Chan!Next

\* The sender's side is as it was, and the receiver's fits it still.
LEMMA ReceiverSound ==
    ASSUME TypeOK, NEW e \in Edges, Sound(e),
           On(e)' = On(e), pending'[e] = pending[e], put'[e] = put[e],
           mode'[Src[e]] = mode[Src[e]], Settled(e) => Settled(e)',
           KeptBack(e)', EndQueued(e)' \/ e \in ended' => EndQueued(e) \/ e \in ended,
           e \in ended' => /\ Part(batch[Dst[e]], e)' = <<>>
                           /\ \A i \in 1..Len(q'[Dst[e]]) : q'[Dst[e]][i].edge # e,
           EndLast(q'[Dst[e]], e),
           ~done'[Dst[e]] => ~done[Dst[e]] /\ \A c \in Nat : Has(e, c) => Has(e, c)'
    PROVE  Sound(e)'
  <1>1. Small(e)'
    BY DEF Sound, Small, Batch
  <1>2. Closed(e)'
    BY DEF Sound, Closed
  <1>3. \A c \in Nat : Backs(e, c)' = Backs(e, c)
    BY DEF Backs
  <1>4. Carries(e)'
    <2>1. SUFFICES ASSUME ~done'[Dst[e]]  PROVE \E c \in Nat : Has(e, c)' /\ Backs(e, c)'
      BY DEF Carries
    <2>2. PICK c \in Nat : Has(e, c) /\ Backs(e, c)
      BY <2>1 DEF Sound, Carries
    <2> QED
      BY <1>3, <2>1, <2>2
  <1> QED
    BY <1>1, <1>2, <1>4 DEF Sound

LEMMA EndsLastAppend ==
    ASSUME NEW s \in Seq(Entry), NEW b \in Entry, NEW e, EndLast(s, e),
           b.edge = e => \A i \in 1..Len(s) : ~EndsEdge(s[i], e)
    PROVE  EndLast(Append(s, b), e)
  <1>1. PICK L \in Nat : L = Len(s)
    OBVIOUS
  <1> DEFINE t == Append(s, b)
  <1>2. Len(t) = L + 1 /\ t[L + 1] = b /\ \A i \in 1..L : t[i] = s[i]
    BY <1>1
  <1> HIDE DEF t
  <1>3. ASSUME NEW i \in 1..(L + 1), NEW j \in 1..(L + 1), i < j, EndsEdge(t[i], e)
        PROVE  t[j].edge # e
    <2>1. i \in 1..L /\ t[i] = s[i] /\ (j \in 1..L \/ j = L + 1)
      BY <1>2, <1>3
    <2>2. CASE j \in 1..L
      BY <1>1, <1>2, <1>3, <2>1, <2>2 DEF EndLast
    <2>3. CASE j = L + 1
      BY <1>1, <1>2, <1>3, <2>1, <2>3
    <2> QED
      BY <2>1, <2>2, <2>3
  <1> QED
    BY <1>2, <1>3 DEF EndLast, t

\* What is left of a queue without its oldest entry.
LEMMA EndsLastTail ==
    ASSUME NEW s \in Seq(Entry), s # <<>>, NEW e, EndLast(s, e)
    PROVE  /\ EndLast(Tail(s), e)
           /\ EndsEdge(Head(s), e) => \A i \in 1..Len(Tail(s)) : Tail(s)[i].edge # e
           /\ (\A i \in 1..Len(s) : s[i].edge # e) =>
                  Head(s).edge # e /\ \A i \in 1..Len(Tail(s)) : Tail(s)[i].edge # e
           /\ (\E i \in DOMAIN Tail(s) : EndsEdge(Tail(s)[i], e)) =>
                  /\ \E i \in DOMAIN s : EndsEdge(s[i], e)
                  /\ ~EndsEdge(Head(s), e)
  <1> DEFINE t == Tail(s)
  <1>1. /\ DOMAIN s = 1..Len(s) /\ Len(s) \in Nat /\ Len(s) > 0 /\ Head(s) = s[1]
        /\ Len(t) = Len(s) - 1 /\ DOMAIN t = 1..(Len(s) - 1)
        /\ \A i \in 1..(Len(s) - 1) : t[i] = s[i + 1]
    BY TailOf
  <1>2. \A i \in 1..(Len(s) - 1) : i + 1 \in 1..Len(s) /\ 1 < i + 1
    BY <1>1
  <1>3. 1 \in 1..Len(s)
    BY <1>1
  <1> HIDE DEF t
  <1>4. EndLast(t, e)
    <2>1. ASSUME NEW i \in 1..Len(t), NEW j \in 1..Len(t), i < j, EndsEdge(t[i], e)
          PROVE  t[j].edge # e
      <3>1. i + 1 \in 1..Len(s) /\ j + 1 \in 1..Len(s) /\ i + 1 < j + 1
            /\ t[i] = s[i + 1] /\ t[j] = s[j + 1]
        BY <1>1, <2>1
      <3> QED
        BY <2>1, <3>1 DEF EndLast
    <2> QED
      BY <2>1 DEF EndLast
  <1>5. EndsEdge(Head(s), e) => \A i \in 1..Len(t) : t[i].edge # e
    BY <1>1, <1>2, <1>3 DEF EndLast
  <1>6. (\A i \in 1..Len(s) : s[i].edge # e) => Head(s).edge # e /\ \A i \in 1..Len(t) : t[i].edge # e
    BY <1>1, <1>2, <1>3
  <1>7. ASSUME NEW i \in DOMAIN t, EndsEdge(t[i], e)
        PROVE  (\E j \in DOMAIN s : EndsEdge(s[j], e)) /\ ~EndsEdge(Head(s), e)
    <2>1. i + 1 \in DOMAIN s /\ t[i] = s[i + 1]
      BY <1>1, <1>2, <1>7
    <2>2. t[i].edge = e /\ i \in 1..Len(t)
      BY <1>1, <1>7 DEF EndsEdge
    <2> QED
      BY <1>5, <1>7, <2>1, <2>2
  <1> QED
    BY <1>4, <1>5, <1>6, <1>7 DEF t

\* What the sender has in hand, or pending, is queued.
LEMMA EntersSound ==
    ASSUME TypeOK, NEW e \in Edges, Sound(e), Queue(Dst[e]), ~done[Dst[e]],
           NEW b \in Entry, b.edge = e, b.items # <<>>,
           q'[Dst[e]] = Append(q[Dst[e]], b), queued'[e] = queued[e] + Len(b.items),
           batch'[Dst[e]] = batch[Dst[e]], kept'[e] = kept[e], got'[e] = got[e],
           e \in ended' <=> e \in ended,
           put'[e] = put[e], mode'[Src[e]] = mode[Src[e]], Settled(e) => Settled(e)',
           On(e)' = <<>>,
           \/ b.items = On(e) /\ pending'[e] = pending[e]
           \/ On(e) = <<>> /\ b.items = pending[e] /\ pending'[e] = <<>>
    PROVE  Sound(e)'
  <1>1. /\ Dst[e] \in Nodes /\ Len(Load(On(e))) \in Nat /\ Len(On(e)) \in Nat
        /\ pending[e] \in Seq(Nat) /\ Len(pending[e]) \in Nat
        /\ put[e] \in Nat /\ got[e] \in Nat /\ queued[e] \in Int
        /\ kept[e] \in Seq(Nat) /\ Part(batch[Dst[e]], e) \in Seq(Nat) /\ Received(e) \in Nat
    BY OnType
  <1>2. q[Dst[e]] \in Seq(Entry)
    BY <1>1, QueueOfEntries
  <1>3. Load(<<>>) = <<>> /\ Len(<<>>) = 0
    BY DEF Load
  <1>4. Cargo(b, e) = Load(b.items) /\ Cargo(b, e) \in Seq(Nat) /\ Len(Cargo(b, e)) \in Nat
        /\ Len(Cargo(b, e)) <= Len(b.items) /\ Len(b.items) \in Nat
    <2>1. Len(Cargo(b, e)) <= CountOf(b, e) /\ CountOf(b, e) = Len(b.items)
      BY PartType DEF CountOf
    <2>2. b.items \in Seq(Nat)
      BY DEF Entry, Items
    <2> QED
      BY <2>1, <2>2, PartType DEF Cargo, Part
  <1>5. ~EndQueued(e) /\ e \notin ended /\ (b.items = <<EOS>> => b.items = On(e) /\ Settled(e)) /\ pending'[e] = <<>>
    <2>1. CASE b.items = On(e) /\ pending'[e] = pending[e]
      BY <2>1 DEF Sound, Closed, Small
    <2>2. CASE On(e) = <<>> /\ b.items = pending[e] /\ pending'[e] = <<>>
      <3>1. ~Settled(e)
        BY <2>2 DEF Settled
      <3>2. b.items # <<EOS>>
        <4>1. ASSUME b.items = <<EOS>>  PROVE FALSE
          <5>1. 1 \in 1..Len(pending[e]) /\ pending[e][1] = EOS
            BY <2>2, <4>1
          <5> QED
            BY <5>1 DEF Sound, Small, EOS
        <4> QED
          BY <4>1
      <3> QED
        BY <2>2, <3>1, <3>2 DEF Sound, Closed
    <2> QED
      BY <2>1, <2>2
  <1>6. KeptBack(e)'
    BY DEF Sound, KeptBack
  <1>7. Small(e)'
    BY <1>3, <1>5, BatchType DEF Small, Batch
  <1>8. EndQueued(e)' => b.items = <<EOS>>
    <2>1. PICK L \in Nat : L = Len(q[Dst[e]])
      BY <1>2
    <2> DEFINE t == Append(q[Dst[e]], b)
    <2>2. DOMAIN t = 1..(L + 1) /\ t[L + 1] = b /\ \A i \in 1..L : t[i] = q[Dst[e]][i] /\ i \in DOMAIN q[Dst[e]]
      BY <1>2, <2>1
    <2>3. ASSUME NEW i \in DOMAIN t, EndsEdge(t[i], e)  PROVE b.items = <<EOS>>
      <3>1. i \in 1..L \/ i = L + 1
        BY <2>2
      <3>2. i \notin 1..L
        BY <1>5, <2>2, <2>3 DEF EndQueued
      <3> QED
        BY <2>2, <2>3, <3>1, <3>2 DEF EndsEdge
    <2> QED
      BY <2>3 DEF EndQueued
  <1>9. EndLast(q'[Dst[e]], e)
    <2>1. \A i \in 1..Len(q[Dst[e]]) : ~EndsEdge(q[Dst[e]][i], e)
      <3>1. DOMAIN q[Dst[e]] = 1..Len(q[Dst[e]])
        BY <1>2
      <3> QED
        BY <1>5, <3>1 DEF EndQueued
    <2> QED
      BY <1>2, <2>1, EndsLastAppend DEF Sound, Closed
  <1>10. Closed(e)'
    BY <1>5, <1>8, <1>9 DEF Closed
  <1>11. Part(batch[Dst[e]], e)' = Part(batch[Dst[e]], e) /\ Received(e)' = Received(e)
    BY DEF Part, Received, CountOf
  <1>12. PICK c \in Nat : Has(e, c) /\ Backs(e, c)
    BY DEF Sound, Carries
  <1> DEFINE k == Len(Cargo(b, e))
  <1>13. Numbered(Cargo(b, e), c) /\ c + k <= put[e] /\ (mode[Src[e]] = "body" => put[e] = c + k)
    <2>1. /\ Numbered(Load(On(e)), c) /\ Numbered(pending[e], c + Len(Load(On(e))))
          /\ c + Len(Load(On(e))) + Len(pending[e]) <= put[e]
          /\ (mode[Src[e]] = "body" => put[e] = c + Len(Load(On(e))) + Len(pending[e]))
      BY <1>12 DEF Backs, Supplies
    <2>2. CASE b.items = On(e) /\ pending'[e] = pending[e]
      <3>1. Len(pending[e]) = 0 /\ Cargo(b, e) = Load(On(e))
        BY <1>3, <1>4, <1>5, <2>2
      <3> QED
        BY <1>1, <2>1, <3>1
    <2>3. CASE On(e) = <<>> /\ b.items = pending[e] /\ pending'[e] = <<>>
      <3>1. Len(Load(On(e))) = 0 /\ c + 0 = c
        BY <1>3, <2>3
      <3>2. Cargo(b, e) = pending[e]
        BY <1>4, <1>5, <2>3 DEF Load
      <3> QED
        BY <1>1, <2>1, <3>1, <3>2
    <2> QED
      BY <2>2, <2>3
  <1>14. Stock(kept[e], Part(batch[Dst[e]], e), Append(q[Dst[e]], b), e, got[e], c + k)
    BY <1>1, <1>2, <1>12, <1>13, StockArrives DEF Has
  <1>15. mode[Src[e]] = "body" => c + k <= Received(e) + queued'[e]
    <2>1. SUFFICES ASSUME c <= Received(e) + queued[e]  PROVE c + k <= Received(e) + queued'[e]
      BY <1>12 DEF Has
    <2> HIDE DEF k
    <2>2. k \in Nat /\ k <= Len(b.items)
      BY <1>4 DEF k
    <2> QED
      BY <1>1, <1>4, <2>1, <2>2
  <1>16. Has(e, c + k)'
    BY <1>11, <1>14, <1>15 DEF Has
  <1>17. Backs(e, c + k)'
    <2> DEFINE d == c + k
    <2>1. d \in Nat /\ d + 0 = d /\ d + 0 + 0 = d
      BY <1>4
    <2>2. Supplies(<<>>, <<>>, d, put[e])
      BY <1>3, <1>13, <2>1, NumberedNone DEF Supplies
    <2>3. mode[Src[e]] = "body" => put[e] = d + Len(Load(<<>>)) + Len(<<>>)
      BY <1>3, <1>13, <2>1
    <2> HIDE DEF d
    <2>4. Backs(e, d)'
      BY <1>5, <2>2, <2>3 DEF Backs
    <2> QED
      BY <2>4 DEF d
  <1>18. Carries(e)'
    <2>1. c + k \in Nat
      BY <1>4
    <2> QED
      BY <1>16, <1>17, <2>1 DEF Carries
  <1> QED
    BY <1>6, <1>7, <1>10, <1>18 DEF Sound

\* An entry of another edge is queued.
LEMMA PassesSound ==
    ASSUME TypeOK, NEW e \in Edges, Sound(e), Queue(Dst[e]), done'[Dst[e]] = done[Dst[e]],
           NEW b \in Entry, b.edge # e,
           q'[Dst[e]] = Append(q[Dst[e]], b), queued'[e] = queued[e],
           batch'[Dst[e]] = batch[Dst[e]], kept'[e] = kept[e], got'[e] = got[e],
           e \in ended' <=> e \in ended,
           On(e)' = On(e), pending'[e] = pending[e], put'[e] = put[e],
           mode'[Src[e]] = mode[Src[e]], Settled(e) => Settled(e)'
    PROVE  Sound(e)'
  <1>1. /\ Dst[e] \in Nodes /\ got[e] \in Nat /\ queued[e] \in Int
        /\ kept[e] \in Seq(Nat) /\ Part(batch[Dst[e]], e) \in Seq(Nat)
    BY OnType
  <1>2. q[Dst[e]] \in Seq(Entry)
    BY <1>1, QueueOfEntries
  <1>3. KeptBack(e)'
    BY DEF Sound, KeptBack
  <1>4. PICK L \in Nat : L = Len(q[Dst[e]])
    BY <1>2
  <1> DEFINE t == Append(q[Dst[e]], b)
  <1>5. /\ DOMAIN t = 1..(L + 1) /\ t[L + 1] = b /\ Len(t) = L + 1
        /\ \A i \in 1..L : t[i] = q[Dst[e]][i] /\ i \in DOMAIN q[Dst[e]]
    BY <1>2, <1>4
  <1> HIDE DEF t
  <1>6. EndQueued(e)' => EndQueued(e)
    <2>1. ASSUME NEW i \in DOMAIN t, EndsEdge(t[i], e)  PROVE EndQueued(e)
      <3>1. i \in 1..L \/ i = L + 1
        BY <1>5
      <3>2. i # L + 1
        BY <1>5, <2>1 DEF EndsEdge
      <3> QED
        BY <1>5, <2>1, <3>1, <3>2 DEF EndQueued
    <2> QED
      BY <2>1 DEF EndQueued, t
  <1>7. e \in ended' => \A i \in 1..Len(t) : t[i].edge # e
    <2>1. ASSUME e \in ended, NEW i \in 1..(L + 1)  PROVE t[i].edge # e
      <3>1. i \in 1..L \/ i = L + 1
        OBVIOUS
      <3> QED
        BY <1>4, <1>5, <2>1, <3>1 DEF Sound, Closed
    <2> QED
      BY <1>5, <2>1
  <1>8. Part(batch[Dst[e]], e)' = Part(batch[Dst[e]], e) /\ Received(e)' = Received(e)
    BY DEF Part, Received, CountOf
  <1>9. e \in ended' => Part(batch[Dst[e]], e)' = <<>>
    BY <1>8 DEF Sound, Closed
  <1>10. EndLast(t, e)
    BY <1>2, EndsLastAppend DEF Sound, Closed, t
  <1>11. ASSUME NEW c \in Nat, Has(e, c)  PROVE Has(e, c)'
    <2>1. Cargo(b, e) = <<>> /\ Len(<<>>) = 0 /\ c + 0 = c
      BY PartType
    <2>2. Stock(kept[e], Part(batch[Dst[e]], e), t, e, got[e], c)
      <3>1. Numbered(Cargo(b, e), c)
        BY <2>1, NumberedNone
      <3> QED
        BY <1>1, <1>2, <1>11, <2>1, <3>1, StockArrives DEF Has, t
    <2> QED
      BY <1>8, <1>11, <2>2 DEF Has, t
  <1> QED
    BY <1>3, <1>6, <1>7, <1>9, <1>10, <1>11, ReceiverSound DEF t

LEMMA SenderIdle ==
    ASSUME mode' = mode, plan' = plan, hand' = hand, pending' = pending, put' = put, NEW e \in Edges
    PROVE  /\ On(e)' = On(e) /\ pending'[e] = pending[e] /\ put'[e] = put[e]
           /\ mode'[Src[e]] = mode[Src[e]] /\ Settled(e)' = Settled(e)
  BY DEF On, Settled, EndPlanned

LEMMA BackedBound ==
    ASSUME TypeOK, NEW e \in Edges, NEW c \in Nat, Backs(e, c)
    PROVE  c <= put[e]
  <1> DEFINE o == Len(Load(On(e)))
             p == Len(pending[e])
  <1>1. o \in Nat /\ p \in Nat /\ put[e] \in Nat
    BY OnType
  <1>2. c + o + p <= put[e]
    BY DEF Backs, Supplies
  <1> HIDE DEF o, p
  <1> QED
    BY <1>1, <1>2

\* Taking one item of entry b.
LEMMA UnpackShape ==
    ASSUME TypeOK, NEW n \in Nodes, NEW b \in Entry, b.items # <<>>, Dst[b.edge] = n, Unpack(n, b)
    PROVE  /\ Part(batch'[n], b.edge) = Tail(b.items)
           /\ \A e \in Edges : e # b.edge =>
                 Part(batch'[n], e) = <<>> /\ kept'[e] = kept[e] /\ got'[e] = got[e]
           /\ \/ /\ Watched(n) \subseteq {b.edge} /\ got'[b.edge] = got[b.edge] + 1
                 /\ kept' = kept /\ taken'[n] = <<Head(b.items)>>
              \/ /\ ~(Watched(n) \subseteq {b.edge}) /\ got' = got
                 /\ kept'[b.edge] = Append(kept[b.edge], Head(b.items))
  <1>1. b.edge \in Edges /\ b.items \in Seq(Nat) /\ Len(b.items) \in Nat
    BY DEF Entry, Items
  <1>2. /\ got \in [Edges -> Nat] /\ kept \in [Edges -> Seq(Nat)] /\ batch \in [Nodes -> Entry]
        /\ taken \in [Nodes -> Seq(Nat)]
    BY MoreShapes
  <1>3. batch'[n] = IF Len(b.items) = 1 THEN NoEntry ELSE [b EXCEPT !.items = Tail(b.items)]
    BY <1>2 DEF Unpack
  <1>4. Part(batch'[n], b.edge) = Tail(b.items) /\ \A e \in Edges : e # b.edge => Part(batch'[n], e) = <<>>
    <2>1. CASE Len(b.items) = 1
      <3>1. batch'[n] = NoEntry
        BY <1>3, <2>1
      <3>2. Tail(b.items) = <<>>
        <4>1. Tail(b.items) \in Seq(Nat) /\ Len(Tail(b.items)) = 0
          BY <1>1, <2>1, TailOf
        <4> QED
          BY <4>1, EmptySeq
      <3>3. \A e : Part(NoEntry, e) = <<>>
        BY NoEntryIsEntry DEF Part
      <3> QED
        BY <3>1, <3>2, <3>3
    <2>2. CASE Len(b.items) # 1
      <3>1. batch'[n].edge = b.edge /\ batch'[n].items = Tail(b.items)
        BY <1>3, <2>2 DEF Entry
      <3> QED
        BY <3>1 DEF Part
    <2> QED
      BY <2>1, <2>2
  <1>5. CASE Watched(n) \subseteq {b.edge}
    <2>1. /\ taken' = [taken EXCEPT ![n] = <<Head(b.items)>>]
          /\ got' = [got EXCEPT ![b.edge] = got[b.edge] + 1] /\ kept' = kept
      BY <1>5 DEF Unpack
    <2> QED
      BY <1>1, <1>2, <1>4, <1>5, <2>1
  <1>6. CASE ~(Watched(n) \subseteq {b.edge})
    <2>1. kept' = [kept EXCEPT ![b.edge] = Append(kept[b.edge], Head(b.items))] /\ got' = got
      BY <1>6 DEF Unpack
    <2> QED
      BY <1>1, <1>2, <1>4, <1>6, <2>1
  <1> QED
    BY <1>5, <1>6

LEMMA OneMoved ==
    \A g, k, m \in Nat : g + 1 + k + (m - 1) = g + k + m /\ g + (k + 1) + (m - 1) = g + k + m
  OBVIOUS

\* An item of b is handed over, if no other source is read, or held back.
LEMMA UnpackSteps ==
    ASSUME TypeOK, TypeOK', NEW n \in Nodes, NEW e \in Edges, Dst[e] = n, Sound(e),
           NEW b \in Entry, b.items # <<>>, Dst[b.edge] = n, Unpack(n, b),
           b.edge \notin ended, ended' = ended, ~done[n], done' = done, cancelled' = cancelled,
           mode' = mode, plan' = plan, hand' = hand, pending' = pending, put' = put,
           Watched(n) = {} => ~HasKept(n),
           EndQueued(e)' => EndQueued(e), EndLast(q'[n], e),
           (\A i \in 1..Len(q[n]) : q[n][i].edge # e) => \A i \in 1..Len(q'[n]) : q'[n][i].edge # e,
           q'[n] \in Seq(Entry), queued'[e] \in Int,
           \A c \in Nat : Has(e, c) => /\ Stock(kept[e], Part(b, e), q'[n], e, got[e], c)
                                       /\ mode[Src[e]] = "body" =>
                                             c <= got[e] + Len(kept[e]) + Len(Part(b, e)) + queued'[e]
    PROVE  Sound(e)' /\ ChanStep(e)
  <1>1. /\ On(e)' = On(e) /\ pending'[e] = pending[e] /\ put'[e] = put[e]
        /\ mode'[Src[e]] = mode[Src[e]] /\ Settled(e)' = Settled(e)
    BY SenderIdle
  <1>2. /\ Part(batch'[n], b.edge) = Tail(b.items)
        /\ \A d \in Edges : d # b.edge =>
              Part(batch'[n], d) = <<>> /\ kept'[d] = kept[d] /\ got'[d] = got[d]
        /\ \/ /\ Watched(n) \subseteq {b.edge} /\ got'[b.edge] = got[b.edge] + 1
              /\ kept' = kept /\ taken'[n] = <<Head(b.items)>>
           \/ /\ ~(Watched(n) \subseteq {b.edge}) /\ got' = got
              /\ kept'[b.edge] = Append(kept[b.edge], Head(b.items))
    BY UnpackShape
  <1>3. /\ got[e] \in Nat /\ put[e] \in Nat /\ kept[e] \in Seq(Nat) /\ Len(kept[e]) \in Nat
        /\ b.items \in Seq(Nat) /\ Len(b.items) \in Nat
    BY OnType DEF Entry, Items
  <1>4. PICK k \in Nat : k = Len(kept[e])
    BY <1>3
  <1>5. Received(e)' = got'[e] + Len(kept'[e]) + Len(Part(batch'[n], e))
    <2>1. batch'[n] \in Entry
      BY DEF TypeOK, ReceiversTyped
    <2>2. Len(Part(batch'[n], e)) = CountOf(batch'[n], e)
      BY <2>1, PartType
    <2> QED
      BY <2>2 DEF Received, CountOf
  <1>6. Part(batch[Dst[e]], e)' = Part(batch'[n], e)
    BY DEF Part
  <1>7. e \in ended' => Part(batch[Dst[e]], e)' = <<>> /\ \A i \in 1..Len(q'[Dst[e]]) : q'[Dst[e]][i].edge # e
    <2>1. e \in ended' => e # b.edge
      OBVIOUS
    <2> QED
      BY <1>2, <1>6, <2>1 DEF Sound, Closed
  <1>8. ~done'[Dst[e]] /\ ~done[Dst[e]]
    OBVIOUS
  <1>9. CASE e # b.edge
    <2>1. Part(b, e) = <<>> /\ Part(batch'[n], e) = <<>> /\ kept'[e] = kept[e] /\ got'[e] = got[e]
      BY <1>2, <1>9 DEF Part
    <2>2. KeptBack(e)'
      BY <2>1 DEF Sound, KeptBack
    <2>3. ASSUME NEW c \in Nat, Has(e, c)  PROVE Has(e, c)'
      BY <1>1, <1>5, <1>6, <2>1, <2>3 DEF Has
    <2>4. Sound(e)'
      BY <1>1, <1>7, <1>8, <2>2, <2>3, ReceiverSound
    <2>5. ChanStep(e)
      BY <1>1, <2>1, StillChan
    <2> QED
      BY <2>4, <2>5
  <1>10. CASE e = b.edge
    <2>1. Part(b, e) = b.items /\ Part(batch'[n], e) = Tail(b.items)
      BY <1>2, <1>10 DEF Part
    <2>2. PICK m \in Nat : m = Len(b.items) /\ m > 0
      <3>1. Len(b.items) > 0
        BY <1>3, TailOf
      <3> QED
        BY <1>3, <3>1
    <2>3. Tail(b.items) \in Seq(Nat) /\ Len(Tail(b.items)) = m - 1
      BY <1>3, <2>2, TailOf
    <2>4. ASSUME NEW c \in Nat, Has(e, c)
          PROVE  /\ Stock(kept[e], b.items, q'[n], e, got[e], c)
                 /\ mode[Src[e]] = "body" => c <= got[e] + k + m + queued'[e]
      BY <1>4, <2>1, <2>2, <2>4
    <2>5. CASE Watched(n) \subseteq {e}
      <3>1. got'[e] = got[e] + 1 /\ kept' = kept /\ taken'[n] = <<Head(b.items)>>
        BY <1>2, <1>10, <2>5
      <3>2. kept[e] = <<>>
        <4>1. CASE Watched(n) = {}
          BY <4>1 DEF HasKept
        <4>2. CASE Watched(n) # {}
          BY <2>5, <4>2 DEF Sound, KeptBack, Watched
        <4> QED
          BY <4>1, <4>2
      <3>3. KeptBack(e)'
        BY <3>1, <3>2 DEF KeptBack
      <3>4. ASSUME NEW c \in Nat, Has(e, c)
            PROVE  Has(e, c)' /\ Head(b.items) = got[e] + 1 /\ got[e] + 1 <= c
        <4>1. /\ Stock(<<>>, b.items, q'[n], e, got[e], c)
              /\ mode[Src[e]] = "body" => c <= got[e] + k + m + queued'[e]
          BY <2>4, <3>2, <3>4
        <4>2. Stock(<<>>, Tail(b.items), q'[n], e, got[e] + 1, c) /\ Head(b.items) = got[e] + 1
              /\ got[e] + 1 <= c
          BY <1>3, <4>1, StockDelivers
        <4>3. Received(e)' = got[e] + 1 + k + (m - 1)
          BY <1>4, <1>5, <2>1, <2>3, <3>1
        <4>4. mode[Src[e]] = "body" => c <= Received(e)' + queued'[e]
          <5> DEFINE g == got[e]
          <5>1. g + 1 + k + (m - 1) = g + k + m
            <6>1. g \in Nat
              BY <1>3
            <6> HIDE DEF g
            <6> QED
              BY <6>1, OneMoved
          <5> QED
            BY <4>1, <4>3, <5>1
        <4>5. kept'[e] = <<>>
          BY <3>1, <3>2
        <4> QED
          BY <1>1, <1>6, <2>1, <3>1, <4>2, <4>4, <4>5 DEF Has
      <3>5. Sound(e)'
        BY <1>1, <1>7, <1>8, <3>3, <3>4, ReceiverSound
      <3>6. PICK c \in Nat : Has(e, c) /\ Backs(e, c)
        BY <1>8 DEF Sound, Carries
      <3>7. Head(b.items) = got[e] + 1 /\ got[e] + 1 <= put[e]
        <4>3. c <= put[e]
          BY <3>6, BackedBound
        <4>4. Head(b.items) = got[e] + 1 /\ got[e] + 1 <= c
          BY <3>4, <3>6
        <4> QED
          BY <1>3, <4>3, <4>4
      <3>8. taken'[Dst[e]] = [i \in 1..1 |-> got[e] + i]
        <4>1. taken'[n] = <<got[e] + 1>>
          BY <3>1, <3>7
        <4>2. <<got[e] + 1>> = [i \in 1..1 |-> got[e] + i]
          BY <1>3
        <4> QED
          BY <4>1, <4>2
      <3>9. e \notin ended /\ e \notin ended'
        BY <1>10
      <3>10. ChanStep(e)
        <4>1. 1 \in Nat \ {0} /\ got[e] + 1 <= put[e] /\ put'[e] = put[e]
          BY <1>1, <3>7
        <4> QED
          BY <1>8, <3>1, <3>8, <3>9, <4>1, ReceiveChan
      <3> QED
        BY <3>5, <3>10
    <2>6. CASE ~(Watched(n) \subseteq {e})
      <3>1. got'[e] = got[e] /\ kept'[e] = Append(kept[e], Head(b.items))
        BY <1>2, <1>10, <2>6
      <3>2. KeptBack(e)'
        <4>1. PICK d \in Prefer[n] : d # e
          BY <2>6 DEF Watched
        <4>2. e \notin Prefer[n]
          BY <4>1, PreferType
        <4> QED
          BY <4>1, <4>2 DEF KeptBack
      <3>3. ASSUME NEW c \in Nat, Has(e, c)  PROVE Has(e, c)'
        <4>1. /\ Stock(kept[e], b.items, q'[n], e, got[e], c)
              /\ mode[Src[e]] = "body" => c <= got[e] + k + m + queued'[e]
          BY <2>4, <3>3
        <4>2. Stock(Append(kept[e], Head(b.items)), Tail(b.items), q'[n], e, got[e], c)
          BY <1>3, <4>1, StockKeeps
        <4>3. Len(kept'[e]) = k + 1
          <5>1. Head(b.items) \in Nat
            BY <1>3, HeadTailProperties
          <5> QED
            BY <1>3, <1>4, <3>1, <5>1
        <4>4. Received(e)' = got[e] + (k + 1) + (m - 1)
          BY <1>5, <2>1, <2>3, <3>1, <4>3
        <4>5. mode[Src[e]] = "body" => c <= Received(e)' + queued'[e]
          <5> DEFINE g == got[e]
          <5>1. g + (k + 1) + (m - 1) = g + k + m
            <6>1. g \in Nat
              BY <1>3
            <6> HIDE DEF g
            <6> QED
              BY <6>1, OneMoved
          <5> QED
            BY <4>1, <4>4, <5>1
        <4> QED
          BY <1>1, <1>6, <2>1, <3>1, <4>2, <4>5 DEF Has
      <3>4. Sound(e)'
        BY <1>1, <1>7, <1>8, <3>2, <3>3, ReceiverSound
      <3>5. e \notin ended /\ e \notin ended'
        BY <1>10
      <3>6. ChanStep(e)
        BY <1>1, <3>1, <3>5, StillChan
      <3> QED
        BY <3>4, <3>6
    <2> QED
      BY <2>5, <2>6
  <1> QED
    BY <1>9, <1>10
-----------------------------------------------------------------------------
(* Steps that an edge hardly sees.                                         *)

\* The receiver does nothing, and the sender nothing but give up what it has in hand.
LEMMA EdgeRests ==
    ASSUME TypeOK, TypeOK', NEW e \in Edges, Sound(e), ReceiverSame(e), put'[e] = put[e],
           Settled(e) => Settled(e)', mode'[Src[e]] = "body" => mode[Src[e]] = "body",
           On(e)' \in {On(e), <<>>}, pending'[e] \in {pending[e], <<>>},
           \/ done[Dst[e]]
           \/ On(e)' = On(e) /\ pending'[e] = pending[e]
           \/ mode'[Src[e]] # "body" /\ On(e)' = <<>> /\ pending'[e] = pending[e],
           cancelled => cancelled'
    PROVE  Sound(e)' /\ ChanStep(e)
  <1>1. Sound(e)'
    BY RestsSound
  <1>2. /\ got'[e] = got[e] /\ done'[Dst[e]] = done[Dst[e]]
        /\ (e \in ended' /\ kept'[e] = <<>>) = (e \in ended /\ kept[e] = <<>>)
    BY DEF ReceiverSame
  <1>3. ChanStep(e)
    BY <1>2, StillChan
  <1> QED
    BY <1>1, <1>3

\* What n receives on other edges.
LEMMA ElsewhereRests ==
    ASSUME CreditInv, TypeOK', NEW n \in Nodes, Moves(n), Queue(n), NEW e \in Edges, Dst[e] # n,
           Sound(e), mode' = mode, plan' = plan, hand' = hand, pending' = pending, put' = put,
           q'[Dst[e]] = q[Dst[e]], queued'[e] = queued[e], cancelled' = cancelled
    PROVE  Sound(e)' /\ ChanStep(e)
  <1>1. TypeOK /\ Dst[e] \in Nodes
    BY GraphType DEF CreditInv
  <1>2. kept'[e] = kept[e] /\ got'[e] = got[e] /\ (e \in ended' <=> e \in ended)
    BY ReceiverLocal
  <1>3. batch'[Dst[e]] = batch[Dst[e]] /\ done'[Dst[e]] = done[Dst[e]]
    BY <1>1, LocalMove
  <1>4. ReceiverSame(e)
    BY <1>2, <1>3 DEF ReceiverSame
  <1>5. /\ On(e)' = On(e) /\ pending'[e] = pending[e] /\ put'[e] = put[e]
        /\ mode'[Src[e]] = mode[Src[e]] /\ Settled(e)' = Settled(e)
    BY SenderIdle
  <1> QED
    BY <1>1, <1>4, <1>5, EdgeRests
-----------------------------------------------------------------------------
(* The receiver's steps.                                                   *)

\* An item held back is handed over.
LEMMA TakeKeptMove ==
    ASSUME LoopFree, StreamInv, TypeOK', NEW n \in Nodes, Queue(n), NEW e \in Edges, Sound(e), TakeKept(n),
           ~done[n]
    PROVE  Sound(e)' /\ ChanStep(e)
  <1>1. CreditInv /\ TypeOK
    BY DEF StreamInv, WakeInv, CreditInv
  <1>2. /\ mode' = mode /\ plan' = plan /\ hand' = hand /\ pending' = pending /\ put' = put
        /\ q' = q /\ queued' = queued /\ batch' = batch /\ ended' = ended /\ done' = done
        /\ cancelled' = cancelled
    BY DEF TakeKept, edgeVars, runVars
  <1>3. CASE Dst[e] # n
    <2>1. Moves(n)
      BY DEF Moves, Steps
    <2> QED
      BY <1>1, <1>2, <1>3, <2>1, ElsewhereRests
  <1>4. CASE Dst[e] = n
    <2>1. PICK d \in Edges : /\ Dst[d] = n /\ kept[d] # <<>>
                             /\ kept' = [kept EXCEPT ![d] = Tail(kept[d])]
                             /\ taken' = [taken EXCEPT ![n] = <<Head(kept[d])>>]
                             /\ got' = [got EXCEPT ![d] = got[d] + 1]
      BY DEF TakeKept
    <2>2. /\ On(e)' = On(e) /\ pending'[e] = pending[e] /\ put'[e] = put[e]
          /\ mode'[Src[e]] = mode[Src[e]] /\ Settled(e)' = Settled(e)
      BY <1>2, SenderIdle
    <2>3. CASE d # e
      <3>1. kept'[e] = kept[e] /\ got'[e] = got[e]
        BY <1>1, <2>1, <2>3, MoreShapes
      <3>2. ReceiverSame(e)
        BY <1>2, <3>1 DEF ReceiverSame
      <3> QED
        BY <1>1, <1>2, <2>2, <3>2, EdgeRests
    <2>4. CASE d = e
      <3>1. kept'[e] = Tail(kept[e]) /\ kept[e] # <<>> /\ got'[e] = got[e] + 1
            /\ taken'[n] = <<Head(kept[e])>>
        BY <1>1, <2>1, <2>4, MoreShapes
      <3>2. /\ kept[e] \in Seq(Nat) /\ got[e] \in Nat /\ put[e] \in Nat /\ q[n] \in Seq(Entry)
            /\ Part(batch[n], e) \in Seq(Nat) /\ Len(Part(batch[n], e)) \in Nat
            /\ Received(e) = got[e] + Len(kept[e]) + Len(Part(batch[n], e))
            /\ Received(e) \in Nat /\ queued[e] \in Int
        BY <1>1, <1>4, OnType, QueueOfEntries
      <3>3. Len(kept[e]) \in Nat \ {0} /\ Len(kept'[e]) = Len(kept[e]) - 1
        BY <3>1, <3>2, TailOf
      <3>4. Received(e)' = Received(e)
        <4>1. Received(e)' = got'[e] + Len(kept'[e]) + Len(Part(batch'[n], e))
          BY <1>2, <1>4, <3>2 DEF Received, CountOf, Part
        <4> DEFINE k == Len(kept[e])     p == Len(Part(batch[n], e))
        <4>2. Received(e)' = (got[e] + 1) + (k - 1) + p
          BY <1>2, <3>1, <3>3, <4>1
        <4>3. k \in Nat /\ p \in Nat /\ Received(e) = got[e] + k + p
          BY <3>2, <3>3
        <4> HIDE DEF k, p
        <4>4. (got[e] + 1) + (k - 1) + p = got[e] + k + p
          BY <3>2, <4>3
        <4> QED
          BY <4>2, <4>3, <4>4
      <3>5. ASSUME NEW c \in Nat, Has(e, c)
            PROVE  Has(e, c)' /\ Head(kept[e]) = got[e] + 1 /\ got[e] + 1 <= c
        <4>1. Stock(kept[e], Part(batch[n], e), q[n], e, got[e], c)
          BY <1>4, <3>5 DEF Has
        <4>2. /\ Stock(Tail(kept[e]), Part(batch[n], e), q[n], e, got[e] + 1, c)
              /\ Head(kept[e]) = got[e] + 1 /\ got[e] + 1 <= c
          BY <3>1, <3>2, <4>1, StockTaken
        <4>3. Stock(kept'[e], Part(batch[n], e)', q'[n], e, got'[e], c)
          BY <1>2, <3>1, <4>2 DEF Part
        <4>4. mode'[Src[e]] = "body" => c <= Received(e)' + queued'[e]
          BY <1>2, <3>4, <3>5 DEF Has
        <4> QED
          BY <1>4, <4>2, <4>3, <4>4 DEF Has
      <3>6. PICK c \in Nat : Has(e, c) /\ Backs(e, c)
        BY <1>4 DEF Sound, Carries
      <3>7. Head(kept[e]) = got[e] + 1 /\ got[e] + 1 <= put[e]
        <4>1. c <= put[e]
          BY <1>1, <3>6, BackedBound
        <4>2. Head(kept[e]) = got[e] + 1 /\ got[e] + 1 <= c
          BY <3>5, <3>6
        <4> QED
          BY <3>2, <4>1, <4>2
      <3>8. KeptBack(e)'
        BY <3>1 DEF Sound, KeptBack
      <3>9. Sound(e)'
        <4>1. EndQueued(e)' = EndQueued(e)
          BY <1>2 DEF EndQueued
        <4>2. /\ e \in ended' => /\ Part(batch[Dst[e]], e)' = <<>>
                                 /\ \A i \in 1..Len(q'[Dst[e]]) : q'[Dst[e]][i].edge # e
              /\ EndLast(q'[Dst[e]], e)
          BY <1>2 DEF Sound, Closed, Part
        <4> QED
          BY <1>1, <1>2, <1>4, <2>2, <3>5, <3>8, <4>1, <4>2, ReceiverSound
      <3>10. taken'[Dst[e]] = [i \in 1..1 |-> got[e] + i]
        <4>1. taken'[n] = <<got[e] + 1>>
          BY <3>1, <3>7
        <4>2. <<got[e] + 1>> = [i \in 1..1 |-> got[e] + i]
          BY <3>2
        <4> QED
          BY <1>4, <4>1, <4>2
      <3>11. e \in ended' /\ kept'[e] = <<>> /\ ~cancelled => got'[e] = put[e]
        <4> SUFFICES ASSUME e \in ended, kept'[e] = <<>>, ~cancelled  PROVE got'[e] = put[e]
          BY <1>2
        <4>1. put[e] = Received(e) /\ CountOf(batch[n], e) = 0
          BY <1>4, FreeFlows DEF StreamInv, Stream, Conserves
        <4>2. Len(kept[e]) = 1
          BY <3>3
        <4>3. Received(e) = got[e] + Len(kept[e]) + CountOf(batch[n], e)
          BY <1>4 DEF Received
        <4> QED
          BY <3>1, <3>2, <4>1, <4>2, <4>3
      <3> QED
        <4>1. 1 \in Nat \ {0} /\ got[e] + 1 <= put[e] /\ ~(e \in ended /\ kept[e] = <<>>)
          BY <3>1, <3>7
        <4>2. ChanStep(e)
          BY <1>1, <1>2, <1>4, <2>2, <3>1, <3>10, <3>11, <4>1, ReceiveChan
        <4> QED
          BY <3>9, <4>2
    <2> QED
      BY <2>3, <2>4
  <1> QED
    BY <1>3, <1>4

\* take_batch: the whole of the batch is handed over.
LEMMA DrainMove ==
    ASSUME CreditInv, TypeOK', NEW n \in Nodes, Queue(n), NEW e \in Edges, Sound(e), Drain(n), ~done[n]
    PROVE  Sound(e)' /\ ChanStep(e)
  <1>1. TypeOK
    BY DEF CreditInv
  <1>2. /\ mode' = mode /\ plan' = plan /\ hand' = hand /\ pending' = pending /\ put' = put
        /\ q' = q /\ queued' = queued /\ kept' = kept /\ ended' = ended /\ done' = done
        /\ cancelled' = cancelled
        /\ batch[n].items # <<>> /\ batch' = [batch EXCEPT ![n] = NoEntry] /\ Fast(n)
        /\ taken' = [taken EXCEPT ![n] = batch[n].items]
        /\ got' = [got EXCEPT ![batch[n].edge] = got[batch[n].edge] + Len(batch[n].items)]
    BY DEF Drain, edgeVars, runVars
  <1>3. CASE Dst[e] # n
    <2>1. Moves(n)
      BY DEF Moves, Steps
    <2> QED
      BY <1>1, <1>2, <1>3, <2>1, ElsewhereRests
  <1>4. CASE Dst[e] = n
    <2> DEFINE s == Part(batch[n], e)
    <2>1. /\ On(e)' = On(e) /\ pending'[e] = pending[e] /\ put'[e] = put[e]
          /\ mode'[Src[e]] = mode[Src[e]] /\ Settled(e)' = Settled(e)
      BY <1>2, SenderIdle
    <2>2. batch'[n] = NoEntry /\ Part(batch'[n], e) = <<>>
      BY <1>1, <1>2, MoreShapes DEF Part, NoEntry
    <2>3. /\ s \in Seq(Nat) /\ Len(s) \in Nat /\ got[e] \in Nat /\ put[e] \in Nat
          /\ kept[e] \in Seq(Nat) /\ Len(kept[e]) \in Nat /\ q[n] \in Seq(Entry)
          /\ Received(e) = got[e] + Len(kept[e]) + Len(s) /\ queued[e] \in Int
      BY <1>1, <1>4, OnType, QueueOfEntries
    <2>4. kept[e] = <<>>
      <3>1. Prefer[n] = {}
        BY <1>2, PreferType DEF Fast
      <3> QED
        BY <1>4, <3>1 DEF Sound, KeptBack
    <2>5. got'[e] = got[e] + Len(s)
      <3>1. got' \in [Edges -> Nat] /\ got \in [Edges -> Nat] /\ Len(<<>>) = 0
        BY <1>1, MoreShapes DEF TypeOK, CodeTyped
      <3>2. CASE batch[n].edge = e
        BY <1>2, <3>1, <3>2 DEF Part
      <3>3. CASE batch[n].edge # e
        <4>1. s = <<>> /\ got'[e] = got[e]
          BY <1>2, <3>1, <3>3 DEF Part
        <4> QED
          BY <2>3, <3>1, <4>1
      <3> QED
        BY <3>2, <3>3
    <2> HIDE DEF s
    <2>6. Received(e)' = got'[e]
      <3>1. Received(e)' = got'[e] + Len(kept'[e]) + CountOf(batch'[n], e)
        BY <1>4 DEF Received
      <3>2. Len(kept'[e]) = 0 /\ CountOf(batch'[n], e) = 0
        BY <1>2, <2>2, <2>4 DEF CountOf, NoEntry
      <3> QED
        BY <2>3, <2>5, <3>1, <3>2
    <2>7. Received(e)' = Received(e)
      BY <2>3, <2>4, <2>5, <2>6
    <2>8. ASSUME NEW c \in Nat, Has(e, c)
          PROVE  Has(e, c)' /\ s = [i \in 1..Len(s) |-> got[e] + i] /\ got[e] + Len(s) <= c
      <3>1. Stock(<<>>, s, q[n], e, got[e], c)
        BY <1>4, <2>4, <2>8 DEF Has, s
      <3>2. /\ Stock(<<>>, <<>>, q[n], e, got[e] + Len(s), c)
            /\ s = [i \in 1..Len(s) |-> got[e] + i] /\ got[e] + Len(s) <= c
        BY <2>3, <3>1, StockDrained
      <3>3. Stock(kept'[e], Part(batch[n], e)', q'[n], e, got'[e], c)
        BY <1>2, <2>2, <2>4, <2>5, <3>2 DEF Part
      <3>4. mode'[Src[e]] = "body" => c <= Received(e)' + queued'[e]
        BY <1>2, <2>7, <2>8 DEF Has
      <3> QED
        BY <1>4, <3>2, <3>3, <3>4 DEF Has
    <2>9. Sound(e)'
      <3>1. EndQueued(e)' = EndQueued(e)
        BY <1>2 DEF EndQueued
      <3>2. /\ e \in ended' => /\ Part(batch[Dst[e]], e)' = <<>>
                               /\ \A i \in 1..Len(q'[Dst[e]]) : q'[Dst[e]][i].edge # e
            /\ EndLast(q'[Dst[e]], e) /\ KeptBack(e)'
        BY <1>2, <1>4, <2>2, <2>4 DEF Sound, Closed, Part, KeptBack
      <3> QED
        BY <1>1, <1>2, <1>4, <2>1, <2>8, <3>1, <3>2, ReceiverSound
    <2>10. CASE s = <<>>
      <3>1. got'[e] = got[e]
        <4>1. Len(s) = 0
          BY <2>10
        <4> QED
          BY <2>3, <2>5, <4>1
      <3> QED
        BY <1>1, <1>2, <2>9, <3>1, StillChan
    <2>11. CASE s # <<>>
      <3>1. Len(s) \in Nat \ {0}
        BY <2>3, <2>11, EmptySeq
      <3>2. PICK c \in Nat : Has(e, c) /\ Backs(e, c)
        BY <1>4 DEF Sound, Carries
      <3>3. got[e] + Len(s) <= put[e]
        <4>1. c <= put[e] /\ got[e] + Len(s) <= c
          BY <1>1, <2>8, <3>2, BackedBound
        <4> QED
          BY <2>3, <4>1
      <3>4. taken'[Dst[e]] = [i \in 1..Len(s) |-> got[e] + i]
        <4>1. s = [i \in 1..Len(s) |-> got[e] + i]
          BY <2>8, <3>2
        <4>2. taken'[n] = batch[n].items /\ batch[n].items = s
          BY <1>1, <1>2, <2>11, MoreShapes DEF s, Part
        <4> QED
          BY <1>4, <4>1, <4>2
      <3>5. e \notin ended /\ e \notin ended'
        BY <1>2, <1>4, <2>11 DEF Sound, Closed, s
      <3>6. ChanStep(e)
        BY <1>1, <1>2, <1>4, <2>5, <3>1, <3>3, <3>4, <3>5, ReceiveChan
      <3> QED
        BY <2>9, <3>6
    <2> QED
      BY <2>10, <2>11
  <1> QED
    BY <1>3, <1>4

\* The next item of the batch.
LEMMA NextOfBatchMove ==
    ASSUME CreditInv, TypeOK', NEW n \in Nodes, Queue(n), \A d \in Edges : Sound(d), NextOfBatch(n),
           ~done[n], NEW e \in Edges
    PROVE  Sound(e)' /\ ChanStep(e)
  <1>1. TypeOK
    BY DEF CreditInv
  <1>2. /\ mode' = mode /\ plan' = plan /\ hand' = hand /\ pending' = pending /\ put' = put
        /\ q' = q /\ queued' = queued /\ ended' = ended /\ done' = done /\ cancelled' = cancelled
        /\ batch[n].items # <<>> /\ Unpack(n, batch[n]) /\ (Watched(n) = {} => ~HasKept(n))
    BY DEF NextOfBatch, edgeVars, runVars
  <1>3. CASE Dst[e] # n
    <2>1. Moves(n)
      BY DEF Moves, Steps
    <2> QED
      BY <1>1, <1>2, <1>3, <2>1, ElsewhereRests
  <1>4. CASE Dst[e] = n
    <2> DEFINE b == batch[n]
    <2>1. b \in Entry /\ b.edge \in Edges /\ Dst[b.edge] = n
      BY <1>1, <1>2, MoreShapes DEF CreditInv, BatchWired, Entry
    <2>2. b.edge \notin ended
      BY <1>2, <2>1 DEF Sound, Closed, Part
    <2>3. q'[n] \in Seq(Entry) /\ queued'[e] \in Int
      BY <1>1, <1>2, QueueOfEntries, MoreShapes
    <2>4. EndLast(q'[n], e) /\ EndQueued(e)' = EndQueued(e)
      BY <1>2, <1>4 DEF Sound, Closed, EndQueued
    <2>5. ASSUME NEW c \in Nat, Has(e, c)
          PROVE  /\ Stock(kept[e], Part(b, e), q'[n], e, got[e], c)
                 /\ mode[Src[e]] = "body" => c <= got[e] + Len(kept[e]) + Len(Part(b, e)) + queued'[e]
      <3>1. Received(e) = got[e] + Len(kept[e]) + Len(Part(b, e))
        BY <1>1, <1>4, OnType
      <3> HIDE DEF b
      <3>2. Stock(kept[e], Part(b, e), q[n], e, got[e], c)
        BY <1>4, <2>5 DEF Has, b
      <3> QED
        BY <1>2, <2>5, <3>1, <3>2 DEF Has
    <2>6. Sound(e)
      OBVIOUS
    <2> HIDE DEF b
    <2> QED
      BY <1>1, <1>2, <1>4, <2>1, <2>2, <2>3, <2>4, <2>5, <2>6, UnpackSteps DEF b
  <1> QED
    BY <1>3, <1>4

LEMMA SomePopped == \A g, k, p \in Nat, x \in Int : g + k + p + (x - p) = g + k + x
  OBVIOUS

\* The oldest entry of the queue: the end of an input, or its next items.
LEMMA PopMove ==
    ASSUME LoopFree, CreditInv, StreamInv', TypeOK', NEW n \in Nodes, Queue(n), Waits(n),
           \A d \in Edges : Sound(d), Pop(n), NEW e \in Edges
    PROVE  Sound(e)' /\ ChanStep(e)
  <1>1. TypeOK /\ Sound(e)
    BY DEF CreditInv
  <1> DEFINE b == Head(q[n])
  <1>2. /\ q[n] # <<>> /\ q[n] \in Seq(Entry) /\ b \in Entry /\ b.edge \in Edges
        /\ b.items \in Seq(Nat) /\ b.items # <<>> /\ Dst[b.edge] = n
        /\ batch[n].items = <<>> /\ ~done[n]
        /\ q' = [q EXCEPT ![n] = Tail(q[n])]
        /\ queued' = [queued EXCEPT ![b.edge] = queued[b.edge] - Len(b.items)]
    BY PopShape
  <1>3. \/ /\ b.items = <<EOS>> /\ ended' = ended \cup {b.edge}
           /\ batch' = batch /\ kept' = kept /\ got' = got /\ taken' = taken
        \/ b.items # <<EOS>> /\ Unpack(n, b) /\ ended' = ended
    BY PopShape
  <1>4. /\ mode' = mode /\ plan' = plan /\ hand' = hand /\ pending' = pending /\ put' = put
        /\ done' = done /\ cancelled' = cancelled
        /\ (Popping(n) \/ pc[n] = "park_in")
    BY DEF Pop, runVars
  <1>5. b.edge \notin ended /\ b = q[n][1] /\ 1 \in 1..Len(q[n])
    <2>1. b = q[n][1] /\ 1 \in 1..Len(q[n])
      BY <1>2, TailOf
    <2> HIDE DEF b
    <2> QED
      BY <1>2, <2>1 DEF Sound, Closed
  <1>6. Watched(n) = {} => ~HasKept(n)
    BY <1>4 DEF Popping, Waits
  <1> HIDE DEF b
  <1>7. CASE Dst[e] # n
    <2>1. Moves(n)
      BY DEF Moves, Steps
    <2>2. q'[Dst[e]] = q[Dst[e]] /\ queued'[e] = queued[e]
      BY <1>1, <1>2, <1>7, GraphType, MoreShapes, Shapes
    <2> QED
      BY <1>1, <1>4, <1>7, <2>1, <2>2, ElsewhereRests
  <1>8. CASE Dst[e] = n
    <2>1. q'[n] = Tail(q[n]) /\ q'[n] \in Seq(Entry)
      BY <1>1, <1>2, Shapes, HeadTailProperties
    <2>2. /\ EndLast(q'[n], e)
          /\ EndsEdge(b, e) => \A i \in 1..Len(q'[n]) : q'[n][i].edge # e
          /\ (\A i \in 1..Len(q[n]) : q[n][i].edge # e) => \A i \in 1..Len(q'[n]) : q'[n][i].edge # e
          /\ EndQueued(e)' => EndQueued(e) /\ ~EndsEdge(b, e)
      <3>1. EndLast(q[n], e)
        BY <1>1, <1>8 DEF Sound, Closed
      <3>2. /\ EndLast(Tail(q[n]), e)
            /\ EndsEdge(b, e) => \A i \in 1..Len(Tail(q[n])) : Tail(q[n])[i].edge # e
            /\ (\A i \in 1..Len(q[n]) : q[n][i].edge # e) =>
                   \A i \in 1..Len(Tail(q[n])) : Tail(q[n])[i].edge # e
            /\ (\E i \in DOMAIN Tail(q[n]) : EndsEdge(Tail(q[n])[i], e)) =>
                   (\E i \in DOMAIN q[n] : EndsEdge(q[n][i], e)) /\ ~EndsEdge(b, e)
        BY <1>2, <3>1, EndsLastTail DEF b
      <3> QED
        BY <1>8, <2>1, <3>2 DEF EndQueued
    <2>3. queued[e] \in Int /\ queued'[e] \in Int /\ queued'[e] = queued[e] - Len(Part(b, e))
      <3>1. queued \in [Edges -> Int] /\ queued' \in [Edges -> Int] /\ Len(<<>>) = 0
        BY <1>1, MoreShapes DEF TypeOK, EdgesTyped
      <3>2. CASE b.edge = e
        BY <1>2, <3>1, <3>2 DEF Part
      <3>3. CASE b.edge # e
        <4>1. queued'[e] = queued[e] /\ Part(b, e) = <<>>
          BY <1>2, <3>1, <3>3 DEF Part
        <4> QED
          BY <3>1, <4>1
      <3> QED
        BY <3>1, <3>2, <3>3
    <2>4. Part(batch[n], e) = <<>>
      BY <1>2 DEF Part
    <2>5. /\ kept[e] \in Seq(Nat) /\ Len(kept[e]) \in Nat /\ got[e] \in Nat
          /\ Received(e) = got[e] + Len(kept[e])
      <3>1. /\ kept[e] \in Seq(Nat) /\ Len(kept[e]) \in Nat /\ got[e] \in Nat
            /\ Received(e) = got[e] + Len(kept[e]) + Len(Part(batch[n], e))
        BY <1>1, <1>8, OnType
      <3>2. Len(Part(batch[n], e)) = 0
        BY <2>4
      <3> QED
        BY <3>1, <3>2
    <2>6. ASSUME NEW c \in Nat, Has(e, c)
          PROVE  /\ Stock(kept[e], Cargo(b, e), q'[n], e, got[e], c)
                 /\ mode[Src[e]] = "body" => c <= got[e] + Len(kept[e]) + queued[e]
      <3>1. Stock(kept[e], <<>>, q[n], e, got[e], c)
        BY <1>8, <2>4, <2>6 DEF Has
      <3>2. Stock(kept[e], Cargo(Head(q[n]), e), Tail(q[n]), e, got[e], c)
        BY <1>2, <2>5, <3>1, StockPopped
      <3> QED
        BY <2>1, <2>5, <2>6, <3>2 DEF Has, b
    <2>7. /\ On(e)' = On(e) /\ pending'[e] = pending[e] /\ put'[e] = put[e]
          /\ mode'[Src[e]] = mode[Src[e]] /\ Settled(e)' = Settled(e)
      BY <1>4, SenderIdle
    <2>8. CASE b.items # <<EOS>>
      <3>1. Unpack(n, b) /\ ended' = ended
        BY <1>3, <2>8
      <3>2. EndQueued(e)' => EndQueued(e)
        BY <2>2
      <3>3. ASSUME NEW c \in Nat, Has(e, c)
            PROVE  /\ Stock(kept[e], Part(b, e), q'[n], e, got[e], c)
                   /\ mode[Src[e]] = "body" => c <= got[e] + Len(kept[e]) + Len(Part(b, e)) + queued'[e]
        <4>1. Cargo(b, e) = Part(b, e) /\ Len(Part(b, e)) \in Nat
          <5>1. Len(Part(b, e)) \in Nat
            BY <1>2, PartType DEF CountOf
          <5>2. Cargo(b, e) = Part(b, e)
            BY <2>8 DEF Cargo, Load, Part
          <5> QED
            BY <5>1, <5>2
        <4> DEFINE p == Len(Part(b, e))    k == Len(kept[e])
        <4>2. queued'[e] = queued[e] - p /\ p \in Nat /\ k \in Nat
          BY <2>3, <2>5, <4>1
        <4> HIDE DEF p, k
        <4>3. got[e] + k + p + queued'[e] = got[e] + k + queued[e]
          <5> DEFINE x == queued[e]    g == got[e]    y == queued'[e]
          <5>1. x \in Int /\ g \in Nat /\ y = x - p
            BY <2>3, <2>5, <4>2
          <5> HIDE DEF x, y, g
          <5>2. g + k + p + y = g + k + x
            BY <4>2, <5>1, SomePopped
          <5> QED
            BY <5>2 DEF x, y, g
        <4>4. got[e] + Len(kept[e]) + Len(Part(b, e)) + queued'[e] = got[e] + Len(kept[e]) + queued[e]
          BY <4>3 DEF p, k
        <4>5. mode[Src[e]] = "body" => c <= got[e] + Len(kept[e]) + queued[e]
          BY <2>6, <3>3
        <4>6. Stock(kept[e], Part(b, e), q'[n], e, got[e], c)
          BY <2>6, <3>3, <4>1
        <4> QED
          BY <4>4, <4>5, <4>6
      <3> QED
        BY <1>1, <1>2, <1>4, <1>5, <1>6, <1>8, <2>1, <2>2, <2>3, <3>1, <3>2, <3>3, UnpackSteps
    <2>9. CASE b.items = <<EOS>>
      <3>1. /\ ended' = ended \cup {b.edge} /\ batch' = batch /\ kept' = kept /\ got' = got
        BY <1>3, <2>9
      <3>2. Received(e)' = Received(e) /\ Part(batch[n], e)' = <<>> /\ Cargo(b, e) = <<>>
        BY <2>4, <2>9, <3>1 DEF Received, CountOf, Cargo, Load, Part
      <3>3. Len(Part(b, e)) = IF b.edge = e THEN 1 ELSE 0
        BY <2>9 DEF Part
      <3>4. b.edge = e => mode[Src[e]] = "closing" /\ EndQueued(e)
        <4>1. b.edge = e => EndsEdge(q[n][1], e)
          BY <1>5, <2>9 DEF EndsEdge
        <4>2. b.edge = e => EndQueued(e)
          BY <1>2, <1>5, <1>8, <4>1 DEF EndQueued
        <4> QED
          BY <1>1, <4>2 DEF Sound, Closed, Settled
      <3>5. ASSUME NEW c \in Nat, Has(e, c)  PROVE Has(e, c)'
        <4>1. Stock(kept'[e], Part(batch[n], e)', q'[n], e, got'[e], c)
          BY <2>6, <3>1, <3>2, <3>5
        <4>2. mode'[Src[e]] = "body" => c <= Received(e)' + queued'[e]
          <5>1. mode'[Src[e]] = "body" => queued'[e] = queued[e]
            BY <2>3, <2>7, <3>3, <3>4
          <5>2. mode[Src[e]] = "body" => c <= got[e] + Len(kept[e]) + queued[e]
            BY <2>6, <3>5
          <5>3. Received(e)' = got[e] + Len(kept[e]) /\ mode'[Src[e]] = mode[Src[e]]
            BY <2>5, <2>7, <3>2
          <5> QED
            BY <5>1, <5>2, <5>3
        <4> QED
          BY <1>8, <4>1, <4>2 DEF Has
      <3>6. Sound(e)'
        <4>1. KeptBack(e)'
          BY <1>1, <3>1 DEF Sound, KeptBack
        <4>2. EndQueued(e)' \/ e \in ended' => EndQueued(e) \/ e \in ended
          BY <2>2, <3>1, <3>4
        <4>3. e \in ended' => /\ Part(batch[Dst[e]], e)' = <<>>
                              /\ \A i \in 1..Len(q'[Dst[e]]) : q'[Dst[e]][i].edge # e
          <5>1. CASE b.edge = e
            BY <1>8, <2>2, <2>9, <3>2, <5>1 DEF EndsEdge
          <5>2. CASE b.edge # e
            BY <1>1, <1>8, <2>2, <3>1, <3>2, <5>2 DEF Sound, Closed
          <5> QED
            BY <5>1, <5>2
        <4> QED
          BY <1>1, <1>4, <1>8, <2>2, <2>7, <3>5, <4>1, <4>2, <4>3, ReceiverSound
      <3>7. CASE b.edge = e /\ kept[e] = <<>>
        <4>1. ~cancelled => got'[e] = put[e]
          <5> SUFFICES ASSUME ~cancelled  PROVE got'[e] = put[e]
            OBVIOUS
          <5>1. Stream'
            BY <1>4 DEF StreamInv
          <5>2. put'[e] = Received(e)'
            <6>1. Flows(e)'
              BY FreeFlows DEF Flows, Feedback
            <6> QED
              BY <3>1, <3>7, <5>1, <6>1 DEF Stream, Conserves
          <5>3. Len(kept[e]) = 0
            BY <3>7
          <5> QED
            BY <2>5, <2>7, <3>1, <3>2, <5>2, <5>3
        <4>2. e \notin ended /\ e \in ended' /\ kept'[e] = <<>>
          BY <1>5, <3>1, <3>7
        <4>3. Chan(e)!End
          BY <1>2, <1>4, <1>8, <2>7, <3>1, <4>1, <4>2 DEF Chan!End, Chan!MayEnd
        <4>4. HandedInOrder(e)
          BY <3>1 DEF HandedInOrder
        <4> QED
          BY <3>6, <4>3, <4>4 DEF ChanStep, Chan!Next
      <3>8. CASE ~(b.edge = e /\ kept[e] = <<>>)
        <4>1. (e \in ended' /\ kept'[e] = <<>>) = (e \in ended /\ kept[e] = <<>>)
          BY <3>1, <3>8
        <4>2. ChanStep(e)
          BY <1>1, <1>4, <2>7, <3>1, <4>1, StillChan
        <4> QED
          BY <3>6, <4>2
      <3> QED
        BY <3>7, <3>8
    <2> QED
      BY <2>8, <2>9
  <1> QED
    BY <1>7, <1>8

\* mark_done: the receiver has finished, and its queue is dropped.
LEMMA MarkMove ==
    ASSUME CreditInv, TypeOK', NEW n \in Nodes, Queue(n), Tidy(n), NEW e \in Edges, Sound(e), Mark(n)
    PROVE  Sound(e)' /\ ChanStep(e)
  <1>1. TypeOK
    BY DEF CreditInv
  <1>2. /\ mode' = mode /\ plan' = plan /\ hand' = hand /\ pending' = pending /\ put' = put
        /\ queued' = queued /\ batch' = batch /\ kept' = kept /\ got' = got /\ ended' = ended
        /\ cancelled' = cancelled
        /\ done' = [done EXCEPT ![n] = TRUE] /\ q' = [q EXCEPT ![n] = <<>>]
        /\ pc[n] = "run"
    BY DEF Mark, receiveVars, codeVars
  <1>3. CASE Dst[e] # n
    <2>1. Moves(n)
      BY DEF Moves, Steps
    <2>2. q'[Dst[e]] = q[Dst[e]]
      BY <1>1, <1>2, <1>3, GraphType, Shapes
    <2> QED
      BY <1>1, <1>2, <1>3, <2>1, <2>2, ElsewhereRests
  <1>4. CASE Dst[e] = n
    <2>1. /\ On(e)' = On(e) /\ pending'[e] = pending[e] /\ put'[e] = put[e]
          /\ mode'[Src[e]] = mode[Src[e]] /\ Settled(e)' = Settled(e)
      BY <1>2, SenderIdle
    <2>2. done'[n] /\ ~done[n] /\ q'[n] = <<>> /\ Len(<<>>) = 0
      BY <1>1, <1>2, Shapes DEF Tidy
    <2>3. /\ KeptBack(e)' /\ EndLast(q'[n], e) /\ ~EndQueued(e)'
          /\ e \in ended' => /\ Part(batch[n], e)' = <<>>
                             /\ \A i \in 1..Len(q'[n]) : q'[n][i].edge # e
      BY <1>2, <1>4, <2>2 DEF Sound, KeptBack, Closed, EndLast, EndQueued, Part
    <2>4. Sound(e)'
      BY <1>1, <1>2, <1>4, <2>1, <2>2, <2>3, ReceiverSound
    <2>5. Chan(e)!Leave
      BY <1>2, <1>4, <2>2 DEF Chan!Leave
    <2>6. ChanStep(e)
      BY <1>2, <2>5 DEF ChanStep, Chan!Next, HandedInOrder
    <2> QED
      BY <2>4, <2>6
  <1> QED
    BY <1>3, <1>4
-----------------------------------------------------------------------------
(* The sender's steps.                                                     *)

\* What n sends on other edges.
LEMMA ElsewhereSent ==
    ASSUME CreditInv, TypeOK', NEW n \in Nodes, Moves(n), NEW e \in Edges, Src[e] # n, Sound(e),
           ReceiverSame(e), put'[e] = put[e], cancelled => cancelled'
    PROVE  Sound(e)' /\ ChanStep(e)
  <1>1. TypeOK /\ Src[e] \in Nodes
    BY GraphType DEF CreditInv
  <1>2. mode'[Src[e]] = mode[Src[e]] /\ plan'[Src[e]] = plan[Src[e]] /\ hand'[Src[e]] = hand[Src[e]]
    BY <1>1, LocalMove
  <1>3. pending'[e] = pending[e]
    BY PendingLocal
  <1>4. On(e)' = On(e) /\ Settled(e)' = Settled(e)
    BY <1>2, <1>3 DEF On, Part, Settled, EndPlanned
  <1> QED
    BY <1>1, <1>2, <1>3, <1>4, EdgeRests

\* A step that neither sends nor receives.
LEMMA CalmMove ==
    ASSUME TypeOK, TypeOK', NEW n \in Nodes, NEW e \in Edges, Sound(e),
           \/ Start(n) \/ Doze(n) \/ WakeProducer(n) \/ End(n) \/ Claim(n) \/ Await(n) \/ Release(n)
           \/ CancelStep(n) \/ CancelReturns(n)
    PROVE  Sound(e)' /\ ChanStep(e)
  <1>1. /\ mode' = mode /\ plan' = plan /\ hand' = hand /\ pending' = pending /\ put' = put
        /\ q' = q /\ queued' = queued /\ batch' = batch /\ kept' = kept /\ got' = got
        /\ ended' = ended /\ done' = done /\ cancelled' = cancelled
    BY DEF Start, Doze, WakeProducer, End, Claim, Claimed, Await, Release, CancelStep, CancelReturns,
       edgeVars, receiveVars, codeVars, runVars
  <1>2. ReceiverSame(e)
    BY <1>1 DEF ReceiverSame
  <1>3. /\ On(e)' = On(e) /\ pending'[e] = pending[e] /\ put'[e] = put[e]
        /\ mode'[Src[e]] = mode[Src[e]] /\ Settled(e)' = Settled(e)
    BY <1>1, SenderIdle
  <1> QED
    BY <1>1, <1>2, <1>3, EdgeRests

\* A step that plans what to send, or gives it up.
LEMMA PlanMove ==
    ASSUME CreditInv, TypeOK', NEW n \in Nodes, NEW e \in Edges, Sound(e),
           \/ Produce(n) \/ Process(n) \/ FlushFirst(n) \/ Return(n) \/ Fail(n) \/ Skip(n) \/ Unwind(n)
    PROVE  Sound(e)' /\ ChanStep(e)
  <1>1. TypeOK
    BY DEF CreditInv
  <1>2. /\ pending' = pending /\ put' = put
        /\ q' = q /\ queued' = queued /\ batch' = batch /\ kept' = kept /\ got' = got
        /\ ended' = ended /\ done' = done /\ (cancelled => cancelled')
    <2>1. CASE Produce(n) \/ Process(n) \/ FlushFirst(n)
      BY <2>1 DEF Produce, Process, FlushFirst, edgeVars, receiveVars, codeVars, runVars
    <2>2. CASE Return(n) \/ Fail(n)
      BY <2>2 DEF Return, Fail, edgeVars, receiveVars, codeVars, runVars
    <2>3. CASE Skip(n) \/ Unwind(n)
      BY <2>3 DEF Skip, Unwind, edgeVars, receiveVars, codeVars, runVars
    <2> QED
      BY <2>1, <2>2, <2>3
  <1>3. ReceiverSame(e)
    BY <1>2 DEF ReceiverSame
  <1>4. CASE Src[e] # n
    <2>1. Moves(n)
      BY DEF Moves, Steps
    <2> QED
      BY <1>2, <1>3, <1>4, <2>1, ElsewhereSent
  <1>5. CASE Src[e] = n
    <2>1. CASE Unwind(n)
      <3>1. /\ mode'[n] = "closing" /\ hand'[n] = NoEntry
            /\ mode[n] # "body" => plan'[n] = <<>>
        BY <1>1, <2>1, Shapes, MoreShapes DEF Unwind
      <3>2. On(e)' = <<>>
        BY <1>5, <3>1 DEF On, Part, NoEntry
      <3>3. Settled(e) => Settled(e)'
        BY <1>2, <1>5, <3>1, EmptyPlanShuts DEF Settled, EndPlanned
      <3>4. mode'[Src[e]] # "body"
        BY <1>5, <3>1
      <3> QED
        BY <1>1, <1>2, <1>3, <3>2, <3>3, <3>4, EdgeRests
    <2>2. CASE Skip(n)
      <3>1. /\ mode' = mode /\ hand' = hand /\ plan[n] # <<>> /\ plan'[n] = Tail(plan[n])
        BY <1>1, <2>2, MoreShapes DEF Skip, Sending
      <3>2. On(e)' = On(e)
        BY <3>1 DEF On, Part
      <3>3. Settled(e) => Settled(e)'
        BY <1>2, <1>5, <3>1, EndPlannedTail DEF Settled
      <3> QED
        BY <1>1, <1>2, <1>3, <3>1, <3>2, <3>3, EdgeRests
    <2>3. CASE Produce(n) \/ Process(n) \/ FlushFirst(n) \/ Return(n) \/ Fail(n)
      <3>1. hand' = hand
        BY <2>3 DEF Produce, Process, FlushFirst, Return, Fail
      <3>2. mode[n] = "body"
        BY <2>3 DEF Produce, Process, FlushFirst, Return, Fail, Making, Popping, Asking, Free, Coding
      <3>3. On(e)' = On(e)
        BY <3>1 DEF On, Part
      <3>4. ~Settled(e) /\ mode[Src[e]] = "body"
        BY <1>5, <3>2 DEF Settled
      <3> QED
        BY <1>1, <1>2, <1>3, <3>3, <3>4, EdgeRests
    <2> QED
      BY <2>1, <2>2, <2>3
  <1> QED
    BY <1>4, <1>5

\* An item is put into the buffer.
LEMMA BufferMove ==
    ASSUME CreditInv, CreditInv', NEW n \in Nodes, Tidy(n), ShutsDown(n), NEW e \in Edges, Sound(e), Buffer(n)
    PROVE  Sound(e)' /\ ChanStep(e)
  <1>1. TypeOK /\ TypeOK'
    BY DEF CreditInv
  <1> DEFINE d == HeadEdge(n)
  <1>2. /\ pc[n] = "run" /\ plan[n] # <<>> /\ HeadOp(n) = "put"
        /\ hand' = hand /\ mode' = mode /\ plan' = [plan EXCEPT ![n] = Tail(plan[n])]
        /\ put' = [put EXCEPT ![d] = put[d] + 1]
        /\ pending' = [pending EXCEPT ![d] = Append(pending[d], put[d] + 1)]
        /\ q' = q /\ queued' = queued /\ batch' = batch /\ kept' = kept /\ got' = got
        /\ ended' = ended /\ done' = done /\ cancelled' = cancelled
        /\ Len(pending[d]) + 1 < Batch(d)
    BY DEF Buffer, Sending, receiveVars, runVars
  <1>3. d \in Edges /\ Src[d] = n
    BY <1>2, HeadWired
  <1>4. mode[n] = "body"
    BY <1>1, <1>2, ClosingSends, MoreShapes DEF ShutsDown
  <1> HIDE DEF d
  <1>5. ReceiverSame(e)
    BY <1>2 DEF ReceiverSame
  <1>6. CASE e # d
    <2>1. put'[e] = put[e] /\ pending'[e] = pending[e]
      BY <1>1, <1>2, <1>6, MoreShapes
    <2>2. CASE Src[e] # n
      <3>1. Moves(n)
        BY DEF Moves, Steps
      <3> QED
        BY <1>1, <1>2, <1>5, <2>1, <2>2, <3>1, ElsewhereSent
    <2>3. CASE Src[e] = n
      <3>1. On(e)' = On(e) /\ ~Settled(e) /\ mode'[Src[e]] = mode[Src[e]]
        BY <1>2, <1>4, <2>3 DEF On, Part, Settled
      <3> QED
        BY <1>1, <1>2, <1>5, <2>1, <3>1, EdgeRests
    <2> QED
      BY <2>2, <2>3
  <1>7. CASE e = d
    <2>1. /\ put'[e] = put[e] + 1 /\ pending'[e] = Append(pending[e], put[e] + 1)
          /\ Len(pending[e]) + 1 < Batch(e)
      BY <1>1, <1>2, <1>7, MoreShapes
    <2>2. On(e) = <<>> /\ On(e)' = <<>> /\ mode[Src[e]] = "body" /\ mode'[Src[e]] = "body"
      BY <1>2, <1>3, <1>4, <1>7 DEF Tidy, On, Part
    <2>3. Sound(e)'
      BY <1>1, <1>5, <2>1, <2>2, BufferSound
    <2>4. ChanStep(e)
      BY <1>1, <1>2, <1>5, <2>1, <2>2, <2>3, SenderChan
    <2> QED
      BY <2>3, <2>4
  <1> QED
    BY <1>6, <1>7

\* An entry, or an end of stream, is taken up to be sent.
LEMMA PrepareMove ==
    ASSUME CreditInv, CreditInv', NEW n \in Nodes, Tidy(n), ShutsDown(n), NEW e \in Edges, Sound(e), Prepare(n)
    PROVE  Sound(e)' /\ ChanStep(e)
  <1>1. TypeOK /\ TypeOK'
    BY DEF CreditInv
  <1> DEFINE d == HeadEdge(n)
  <1>2. /\ pc[n] = "run" /\ plan[n] # <<>> /\ mode' = mode
        /\ plan' = [plan EXCEPT ![n] = Tail(plan[n])]
        /\ put' = [put EXCEPT ![d] = IF HeadOp(n) = "put" THEN put[d] + 1 ELSE put[d]]
        /\ pending' = [pending EXCEPT ![d] = IF HeadOp(n) \in {"put", "flush"} THEN <<>> ELSE pending[d]]
        /\ q' = q /\ queued' = queued /\ batch' = batch /\ kept' = kept /\ got' = got
        /\ ended' = ended /\ done' = done /\ cancelled' = cancelled
        /\ (HeadOp(n) = "flush" => pending[d] # <<>>)
    BY DEF Prepare, Sending, receiveVars, runVars
  <1>3. hand'[n] = CASE HeadOp(n) = "put"   -> [edge |-> d, items |-> Append(pending[d], put[d] + 1)]
                     [] HeadOp(n) = "flush" -> [edge |-> d, items |-> pending[d]]
                     [] HeadOp(n) = "eos"   -> [edge |-> d, items |-> <<EOS>>]
                     [] HeadOp(n) = "any"   -> NoEntry
    BY <1>1, Shapes DEF Prepare
  <1>4. d \in Edges /\ HeadOp(n) \in Ops /\ (HeadOp(n) # "any" => Src[d] = n)
    BY <1>2, HeadWired
  <1>5. /\ mode[n] = "closing" => HeadOp(n) \in {"flush", "eos"}
        /\ mode[n] = "body" => HeadOp(n) # "eos"
        /\ mode[n] \in {"body", "closing"}
    BY <1>1, <1>2, ClosingSends, MoreShapes DEF ShutsDown
  <1>6. /\ plan[n] \in Seq(Commands) /\ plan'[n] = Tail(plan[n])
        /\ 1 \in DOMAIN plan[n] /\ plan[n][1] = [op |-> HeadOp(n), edge |-> d]
    <2>1. plan[n] \in Seq(Commands) /\ plan'[n] = Tail(plan[n])
      BY <1>1, <1>2, MoreShapes
    <2>2. 1 \in DOMAIN plan[n] /\ plan[n][1] = Head(plan[n])
      BY <1>2, <2>1, TailOf
    <2>3. Head(plan[n]) = [op |-> HeadOp(n), edge |-> d]
      <3>1. Head(plan[n]) \in Commands
        BY <1>2, <2>1, HeadTailProperties
      <3> QED
        BY <3>1 DEF HeadOp, HeadEdge, Commands
    <2> QED
      BY <2>1, <2>2, <2>3
  <1> HIDE DEF d
  <1>7. ReceiverSame(e)
    BY <1>2 DEF ReceiverSame
  <1>8. CASE Src[e] # n
    <2>1. put'[e] = put[e]
      BY <1>1, <1>2, <1>4, <1>8, MoreShapes
    <2>2. Moves(n)
      BY DEF Moves, Steps
    <2> QED
      BY <1>1, <1>2, <1>7, <1>8, <2>1, <2>2, ElsewhereSent
  <1>9. CASE Src[e] = n
    <2>1. On(e) = <<>> /\ mode'[Src[e]] = mode[Src[e]]
      BY <1>2, <1>9 DEF Tidy, On, Part
    <2>2. EndPlanned(e)' => EndPlanned(e)
      BY <1>2, <1>6, <1>9, EndPlannedTail
    <2>3. CASE e # d \/ HeadOp(n) = "any"
      <3>1. put'[e] = put[e] /\ pending'[e] = pending[e]
        BY <1>1, <1>2, <2>3, MoreShapes
      <3>2. On(e)' = <<>>
        BY <1>3, <1>4, <1>9, <2>3 DEF On, Part, NoEntry, Ops
      <3>3. Settled(e) => Settled(e)'
        BY <1>2, <2>2, <3>1 DEF Settled
      <3> QED
        BY <1>1, <1>2, <1>7, <2>1, <3>1, <3>2, <3>3, EdgeRests
    <2>4. CASE e = d /\ HeadOp(n) = "put"
      <3>1. /\ put'[e] = put[e] + 1 /\ pending'[e] = <<>>
            /\ On(e)' = Append(pending[e], put[e] + 1)
        <4>1. hand'[n] = [edge |-> d, items |-> Append(pending[d], put[d] + 1)]
          BY <1>3, <2>4
        <4>2. On(e)' = Append(pending[e], put[e] + 1)
          BY <1>9, <2>4, <4>1 DEF On, Part
        <4>3. put'[e] = put[e] + 1 /\ pending'[e] = <<>>
          BY <1>1, <1>2, <2>4, MoreShapes
        <4> QED
          BY <4>2, <4>3
      <3>2. On(e)' # <<>>
        <4>1. pending[e] \in Seq(Nat) /\ put[e] \in Nat
          BY <1>1, MoreShapes
        <4>2. Append(pending[e], put[e] + 1) # <<>>
          BY <4>1
        <4> QED
          BY <3>1, <4>2
      <3>3. mode[Src[e]] = "body"
        BY <1>5, <1>9, <2>4
      <3>4. Sound(e)'
        BY <1>1, <1>7, <2>1, <3>1, <3>2, <3>3, TakesSound
      <3>5. ChanStep(e)
        BY <1>1, <1>2, <1>7, <2>1, <3>1, <3>3, <3>4, SenderChan
      <3> QED
        BY <3>4, <3>5
    <2>5. CASE e = d /\ HeadOp(n) = "flush"
      <3>1. /\ put'[e] = put[e] /\ pending'[e] = <<>>
            /\ On(e)' = pending[e] /\ pending[e] # <<>>
        BY <1>1, <1>2, <1>3, <1>9, <2>5, MoreShapes DEF On, Part
      <3>2. Sound(e)'
        BY <1>1, <1>7, <2>1, <3>1, TakesSound
      <3>3. ChanStep(e)
        BY <1>1, <1>2, <1>7, <3>1, <3>2, SenderChan
      <3> QED
        BY <3>2, <3>3
    <2>6. CASE e = d /\ HeadOp(n) = "eos"
      <3>1. mode[n] = "closing" /\ Shuts(plan[n])
        BY <1>5, <2>6 DEF ShutsDown
      <3>2. EndPlanned(e) /\ plan[n][1] = Cmd("eos", e)
        BY <1>6, <1>9, <2>6 DEF EndPlanned, Cmd
      <3>3. pending[e] = <<>>
        <4> SUFFICES ASSUME pending[e] # <<>>  PROVE FALSE
          OBVIOUS
        <4>1. Flushes(plan[n], e)
          BY <1>9, <3>1, <3>2 DEF ShutsDown
        <4>2. PICK i \in DOMAIN plan[n] : i < 1
          BY <1>6, <3>2, <4>1 DEF Flushes, Cmd
        <4>3. DOMAIN plan[n] = 1..Len(plan[n])
          BY <1>2, <1>6, TailOf
        <4> QED
          BY <4>2, <4>3
      <3>4. ~EndPlanned(e)'
        <4> SUFFICES ASSUME NEW i \in DOMAIN Tail(plan[n]), Tail(plan[n])[i] = Cmd("eos", e)  PROVE FALSE
          BY <1>6, <1>9 DEF EndPlanned
        <4>1. i \in Nat /\ i + 1 \in DOMAIN plan[n] /\ plan[n][i + 1] = Cmd("eos", e)
          <5>1. i \in Nat /\ i + 1 \in DOMAIN plan[n] /\ Tail(plan[n])[i] = plan[n][i + 1]
            BY <1>2, <1>6, TailElements
          <5>2. DOMAIN Tail(plan[n]) = 1..(Len(plan[n]) - 1)
            BY <1>2, <1>6, TailOf
          <5> QED
            BY <5>1
        <4>2. i + 1 = 1
          BY <1>6, <3>1, <3>2, <4>1 DEF Shuts, Cmd
        <4>3. DOMAIN Tail(plan[n]) = 1..(Len(plan[n]) - 1)
          BY <1>2, <1>6, TailOf
        <4>4. i > 0
          BY <4>3
        <4> QED
          BY <4>1, <4>2, <4>4
      <3>5. put'[e] = put[e] /\ pending'[e] = <<>> /\ On(e)' = <<EOS>>
        BY <1>1, <1>2, <1>3, <1>9, <2>6, <3>3, MoreShapes DEF On, Part
      <3>6. ~Settled(e) /\ Settled(e)' /\ mode'[Src[e]] = "closing"
        BY <1>2, <1>9, <3>1, <3>2, <3>4, <3>5 DEF Settled
      <3>7. Sound(e)'
        BY <1>1, <1>7, <2>1, <3>3, <3>5, <3>6, EndsSound
      <3>8. ChanStep(e)
        BY <1>1, <1>2, <1>7, <3>5, <3>7, SenderChan
      <3> QED
        BY <3>7, <3>8
    <2> QED
      BY <1>4, <2>3, <2>4, <2>5, <2>6 DEF Ops
  <1> QED
    BY <1>8, <1>9

\* _put_any: an item goes to the first output with room.
LEMMA ClaimAnyMove ==
    ASSUME CreditInv, CreditInv', NEW n \in Nodes, Tidy(n), OnDemand(n), NEW e \in Edges, Sound(e), ClaimAny(n)
    PROVE  Sound(e)' /\ ChanStep(e)
  <1>1. TypeOK /\ TypeOK'
    BY DEF CreditInv
  <1>2. /\ pc[n] \in {"credit", "park_out"} /\ hand[n].items = <<>>
        /\ mode' = mode /\ plan' = plan /\ pending' = pending
        /\ q' = q /\ queued' = queued /\ batch' = batch /\ kept' = kept /\ got' = got
        /\ ended' = ended /\ done' = done /\ cancelled' = cancelled
    BY DEF ClaimAny, Claiming, Claimed, receiveVars, runVars
  <1>3. mode[n] = "body" /\ Policy[n] = "on_demand"
    BY <1>2 DEF Tidy, OnDemand
  <1>4. rr[n] \in Nat
    BY <1>1 DEF TypeOK, EdgesTyped
  <1>5. PICK d \in Edges : /\ Src[d] = n
                           /\ put' = [put EXCEPT ![d] = put[d] + 1]
                           /\ hand' = [hand EXCEPT ![n] = [edge |-> d, items |-> <<put[d] + 1>>]]
    BY <1>4, ClaimAnyPicks
  <1>6. ReceiverSame(e)
    BY <1>2 DEF ReceiverSame
  <1>7. CASE Src[e] # n
    <2>1. put'[e] = put[e]
      BY <1>1, <1>5, <1>7, MoreShapes
    <2>2. Moves(n)
      BY DEF Moves, Steps
    <2> QED
      BY <1>1, <1>2, <1>6, <1>7, <2>1, <2>2, ElsewhereSent
  <1>8. CASE Src[e] = n /\ e # d
    <2>1. hand'[n] = [edge |-> d, items |-> <<put[d] + 1>>]
      BY <1>1, <1>5, Shapes
    <2>2. On(e) = <<>> /\ On(e)' = <<>> /\ ~Settled(e) /\ mode'[Src[e]] = mode[Src[e]]
      BY <1>2, <1>3, <1>8, <2>1 DEF On, Part, Settled
    <2>3. put'[e] = put[e] /\ pending'[e] = pending[e]
      BY <1>1, <1>2, <1>5, <1>8, MoreShapes
    <2> QED
      BY <1>1, <1>2, <1>6, <2>2, <2>3, EdgeRests
  <1>9. CASE e = d
    <2>1. put'[e] = put[e] + 1 /\ put[e] \in Nat
      BY <1>1, <1>5, <1>9, MoreShapes
    <2>2. On(e) = <<>> /\ On(e)' = <<put[e] + 1>>
      BY <1>1, <1>2, <1>5, <1>9, Shapes DEF On, Part
    <2>3. pending[e] = <<>>
      <3>1. BatchSize[e] = 1
        BY <1>3, <1>5, <1>9, CodeAssumption
      <3>2. Len(pending[e]) < Batch(e) /\ Batch(e) \in Nat /\ Batch(e) <= 1
        BY <3>1, BatchType DEF Sound, Small
      <3>3. pending[e] \in Seq(Nat)
        BY <1>1, MoreShapes
      <3> HIDE DEF Batch
      <3>4. ~(Len(pending[e]) \in Nat \ {0})
        BY <3>2
      <3> QED
        BY <3>3, <3>4, EmptySeq
    <2>4. /\ pending'[e] = <<>> /\ On(e)' # <<>> /\ On(e)' = Append(pending[e], put[e] + 1)
          /\ mode[Src[e]] = "body" /\ mode'[Src[e]] = mode[Src[e]]
      BY <1>2, <1>3, <1>5, <1>9, <2>2, <2>3
    <2>5. Sound(e)'
      BY <1>1, <1>6, <2>1, <2>2, <2>4, TakesSound
    <2>6. ChanStep(e)
      BY <1>1, <1>2, <1>6, <2>1, <2>4, <2>5, SenderChan
    <2> QED
      BY <2>5, <2>6
  <1> QED
    BY <1>7, <1>8, <1>9

\* What n has in hand is queued.
LEMMA PushMove ==
    ASSUME CreditInv, TypeOK', NEW n \in Nodes, NEW e \in Edges, Queue(Dst[e]), Sound(e), Push(n)
    PROVE  Sound(e)' /\ ChanStep(e)
  <1>1. TypeOK
    BY DEF CreditInv
  <1> DEFINE b == hand[n]
             d == b.edge
             m == Dst[d]
  <1>2. /\ pc[n] = "push" /\ mode' = mode /\ plan' = plan /\ pending' = pending /\ put' = put
        /\ batch' = batch /\ kept' = kept /\ got' = got /\ ended' = ended /\ done' = done
        /\ cancelled' = cancelled /\ hand' = [hand EXCEPT ![n] = NoEntry]
    BY DEF Push, receiveVars, codeVars, runVars
  <1>3. /\ done[m] => q' = q /\ queued' = queued
        /\ ~done[m] => /\ q' = [q EXCEPT ![m] = Append(q[m], b)]
                       /\ queued' = [queued EXCEPT ![d] = queued[d] + Len(b.items)]
    BY DEF Push
  <1>4. b \in Entry /\ b.items # <<>> /\ d \in Edges /\ Src[d] = n /\ m \in Nodes
    <2>1. b \in Entry /\ b.items # <<>> /\ Src[d] = n
      BY <1>1, <1>2, Shapes DEF CreditInv, HandWired, TypeOK, ThreadsTyped
    <2>2. d \in Edges
      BY <2>1 DEF Entry
    <2> QED
      BY <2>1, <2>2, GraphType
  <1>5. e # d => On(e)' = On(e)
    <2>1. CASE Src[e] = n
      <3>1. e # d => On(e) = <<>>
        BY <2>1 DEF On, Part
      <3>2. On(e)' = <<>>
        BY <1>1, <1>2, <2>1, Shapes DEF On, Part, NoEntry
      <3> QED
        BY <3>1, <3>2
    <2>2. CASE Src[e] # n
      BY <1>1, <1>2, <2>2, GraphType, Shapes DEF On, Part
    <2> QED
      BY <2>1, <2>2
  <1>6. e = d => On(e)' = <<>> /\ On(e) = b.items
    BY <1>1, <1>2, <1>4, Shapes DEF On, Part, NoEntry
  <1>7. Settled(e)' = Settled(e)
    BY <1>2 DEF Settled, EndPlanned
  <1> HIDE DEF b, d, m
  <1>8. CASE done[m]
    <2>1. ReceiverSame(e)
      BY <1>2, <1>3, <1>8 DEF ReceiverSame
    <2>2. e = d => done[Dst[e]]
      BY <1>8 DEF m
    <2> QED
      BY <1>1, <1>2, <1>5, <1>6, <1>7, <2>1, <2>2, EdgeRests
  <1>9. CASE ~done[m] /\ e = d
    <2>1. /\ q'[Dst[e]] = Append(q[Dst[e]], b) /\ queued'[e] = queued[e] + Len(b.items)
          /\ ~done[Dst[e]] /\ b.edge = e
      BY <1>1, <1>3, <1>4, <1>9, Shapes, MoreShapes DEF m, d
    <2>2. Sound(e)'
      BY <1>1, <1>2, <1>4, <1>6, <1>7, <1>9, <2>1, EntersSound
    <2>3. ChanStep(e)
      BY <1>1, <1>2, StillChan
    <2> QED
      BY <2>2, <2>3
  <1>10. CASE ~done[m] /\ e # d
    <2>1. queued'[e] = queued[e] /\ On(e)' = On(e) /\ b.edge # e
      BY <1>1, <1>3, <1>4, <1>5, <1>10, MoreShapes DEF d
    <2>2. CASE Dst[e] = m
      <3>1. q'[Dst[e]] = Append(q[Dst[e]], b)
        BY <1>1, <1>3, <1>4, <1>10, <2>2, Shapes
      <3>2. Sound(e)'
        BY <1>1, <1>2, <1>4, <1>7, <2>1, <3>1, PassesSound
      <3>3. ChanStep(e)
        BY <1>1, <1>2, StillChan
      <3> QED
        BY <3>2, <3>3
    <2>3. CASE Dst[e] # m
      <3>1. q'[Dst[e]] = q[Dst[e]]
        BY <1>1, <1>3, <1>10, <2>3, GraphType, Shapes
      <3>2. ReceiverSame(e)
        BY <1>2, <2>1, <3>1 DEF ReceiverSame
      <3> QED
        BY <1>1, <1>2, <1>7, <2>1, <3>2, EdgeRests
    <2> QED
      BY <2>2, <2>3
  <1> QED
    BY <1>8, <1>9, <1>10

\* What is pending on other edges is queued before n waits for room on one.
LEMMA BlockMove ==
    ASSUME CreditInv, TypeOK', NEW n \in Nodes, NEW e \in Edges, Queue(Dst[e]), Sound(e), Block(n)
    PROVE  Sound(e)' /\ ChanStep(e)
  <1>1. TypeOK
    BY DEF CreditInv
  <1> DEFINE F == Flushable(n)
             P == {d \in F : ~done[Dst[d]]}
             New == {d \in P : Dst[d] = Dst[e]}
             x == CHOOSE d \in New : TRUE
             b == [edge |-> x, items |-> pending[x]]
  <1>2. /\ mode' = mode /\ plan' = plan /\ hand' = hand /\ put' = put
        /\ batch' = batch /\ kept' = kept /\ got' = got /\ ended' = ended /\ done' = done
        /\ cancelled' = cancelled
    BY DEF Block, receiveVars, codeVars, runVars
  <1>3. /\ queued'[e] = IF e \in P THEN queued[e] + Len(pending[e]) ELSE queued[e]
        /\ pending'[e] = IF e \in F THEN <<>> ELSE pending[e]
        /\ q'[Dst[e]] = IF New = {} THEN q[Dst[e]] ELSE Append(q[Dst[e]], b)
    BY GraphType DEF Block
  <1>4. \A d \in F : d \in Edges /\ Src[d] = n /\ pending[d] # <<>>
    BY DEF Flushable
  <1>5. On(e)' = On(e) /\ mode'[Src[e]] = mode[Src[e]] /\ put'[e] = put[e]
    BY <1>2 DEF On, Part
  <1>6. Settled(e) => Settled(e)'
    BY <1>2, <1>3 DEF Settled, EndPlanned
  <1>7. e \in F => On(e) = <<>>
    BY <1>4 DEF Sound, Small
  <1>8. ASSUME New # {}
        PROVE  x \in F /\ x \in P /\ x \in Edges /\ Dst[x] = Dst[e] /\ ~done[Dst[e]] /\ b \in Entry
    <2>1. x \in New
      BY <1>8
    <2>2. x \in F /\ x \in P /\ Dst[x] = Dst[e] /\ ~done[Dst[e]]
      BY <2>1
    <2>3. x \in Edges
      BY <1>4, <2>2
    <2> HIDE DEF x
    <2>4. b \in Entry
      BY <1>1, <2>3, MoreShapes DEF Entry, Items
    <2> QED
      BY <2>2, <2>3, <2>4
  <1>9. ChanStep(e)
    BY <1>1, <1>2, StillChan
  <1>10. CASE e \in P
    <2>1. e \in F /\ e \in New /\ ~done[Dst[e]]
      BY <1>10
    <2>2. x = e
      <3>1. x \in F /\ x \in Edges /\ Dst[x] = Dst[e]
        BY <1>8, <2>1
      <3>2. Src[x] = Src[e]
        BY <1>4, <2>1, <3>1
      <3> HIDE DEF x
      <3> QED
        BY <3>1, <3>2, GraphAssumption
    <2>3. b.edge = e /\ b.items = pending[e] /\ b \in Entry /\ b.items # <<>>
      BY <1>4, <1>8, <2>1, <2>2
    <2>4. q'[Dst[e]] = Append(q[Dst[e]], b) /\ pending'[e] = <<>>
          /\ queued'[e] = queued[e] + Len(b.items)
      BY <1>3, <1>10, <2>1, <2>3
    <2>5. On(e) = <<>> /\ On(e)' = <<>>
      BY <1>5, <1>7, <2>1
    <2> HIDE DEF b, x, F, P, New
    <2>6. Sound(e)'
      BY <1>1, <1>2, <1>5, <1>6, <2>1, <2>3, <2>4, <2>5, EntersSound
    <2> QED
      BY <1>9, <2>6
  <1>11. CASE e \in F /\ e \notin P
    <2>1. done[Dst[e]] /\ New = {}
      BY <1>11
    <2>2. ReceiverSame(e)
      BY <1>2, <1>3, <1>11, <2>1 DEF ReceiverSame
    <2>3. pending'[e] = <<>>
      BY <1>3, <1>11
    <2> HIDE DEF b, x, F, P, New
    <2> QED
      BY <1>1, <1>2, <1>5, <1>6, <2>1, <2>2, <2>3, EdgeRests
  <1>12. CASE e \notin F
    <2>1. pending'[e] = pending[e] /\ queued'[e] = queued[e]
      BY <1>3, <1>12
    <2>2. CASE New = {}
      <3>1. ReceiverSame(e)
        BY <1>2, <1>3, <2>1, <2>2 DEF ReceiverSame
      <3> HIDE DEF b, x, F, P, New
      <3> QED
        BY <1>1, <1>2, <1>5, <1>6, <2>1, <3>1, EdgeRests
    <2>3. CASE New # {}
      <3>1. b.edge # e /\ b \in Entry
        <4>1. x \in F /\ b.edge = x
          BY <1>8, <2>3
        <4> QED
          BY <1>8, <1>12, <2>3, <4>1
      <3>2. q'[Dst[e]] = Append(q[Dst[e]], b)
        BY <1>3, <2>3
      <3> HIDE DEF b, x, F, P, New
      <3>3. Sound(e)'
        BY <1>1, <1>2, <1>5, <1>6, <2>1, <3>1, <3>2, PassesSound
      <3> QED
        BY <1>9, <3>3
    <2> QED
      BY <2>2, <2>3
  <1> QED
    BY <1>10, <1>11, <1>12
-----------------------------------------------------------------------------
(* Every step.                                                             *)

LEMMA EdgeMove ==
    ASSUME LoopFree, StreamInv, StreamInv', NEW n \in Nodes, Moves(n), \A m \in Nodes : NodeSound(m),
           \A d \in Edges : Sound(d), NEW e \in Edges
    PROVE  Sound(e)' /\ ChanStep(e)
  <1>1. CreditInv /\ TypeOK /\ CreditInv' /\ TypeOK'
    BY DEF StreamInv, WakeInv, CreditInv
  <1>2. Tidy(n) /\ Queue(n) /\ ShutsDown(n) /\ OnDemand(n) /\ Waits(n)
    BY DEF NodeSound
  <1>3. Sound(e) /\ Queue(Dst[e])
    BY GraphType DEF NodeSound
  <1>4. CASE \/ Start(n) \/ Doze(n) \/ WakeProducer(n) \/ End(n) \/ Claim(n) \/ Await(n) \/ Release(n)
             \/ CancelStep(n) \/ CancelReturns(n)
    BY <1>1, <1>3, <1>4, CalmMove
  <1>5. CASE \/ Produce(n) \/ Process(n) \/ FlushFirst(n) \/ Return(n) \/ Fail(n) \/ Skip(n)
             \/ Unwind(n)
    BY <1>1, <1>3, <1>5, PlanMove
  <1>6. CASE Buffer(n) \/ Prepare(n)
    BY <1>1, <1>2, <1>3, <1>6, BufferMove, PrepareMove
  <1>7. CASE ClaimAny(n)
    BY <1>1, <1>2, <1>3, <1>7, ClaimAnyMove
  <1>8. CASE Push(n) \/ Block(n)
    BY <1>1, <1>3, <1>8, PushMove, BlockMove
  <1>9. CASE TakeKept(n) \/ Drain(n) \/ NextOfBatch(n)
    <2>1. ~done[n]
      BY <1>2, <1>9 DEF TakeKept, Drain, NextOfBatch, Asking, Free, Coding, Tidy
    <2> QED
      BY <1>1, <1>2, <1>3, <1>9, <2>1, TakeKeptMove, DrainMove, NextOfBatchMove
  <1>10. CASE Pop(n)
    BY <1>1, <1>2, <1>10, PopMove
  <1>11. CASE Mark(n)
    BY <1>1, <1>2, <1>3, <1>11, MarkMove
  <1> QED
    BY <1>4, <1>5, <1>6, <1>7, <1>8, <1>9, <1>10, <1>11 DEF Moves, Steps

\* The main thread moves nothing; it may cancel the run.
LEMMA ChannelStays ==
    ASSUME ChannelInv, StreamInv',
           UNCHANGED <<pc, mode, plan, hand, owes, pending, put, q, queued, batch, kept, ended, got, done>>,
           cancelled => cancelled'
    PROVE  ChannelInv' /\ \A e \in Edges : ChanStep(e)
  <1>1. TypeOK /\ TypeOK'
    BY DEF ChannelInv, StreamInv, WakeInv, CreditInv
  <1>2. ASSUME NEW n \in Nodes  PROVE NodeSound(n)'
    <2>1. Tidy(n) /\ Queue(n) /\ ShutsDown(n) /\ OnDemand(n) /\ Waits(n)
      BY DEF ChannelInv, NodeSound
    <2>2. Tidy(n)' /\ Queue(n)'
      BY <2>1 DEF Tidy, Queue
    <2>3. ShutsDown(n)'
      BY <2>1 DEF ShutsDown, EndPlanned
    <2>4. OnDemand(n)' /\ Waits(n)'
      BY <2>1 DEF OnDemand, Waits, Watched, HasKept
    <2> QED
      BY <2>2, <2>3, <2>4 DEF NodeSound
  <1>3. ASSUME NEW e \in Edges  PROVE Sound(e)' /\ ChanStep(e)
    <2>1. ReceiverSame(e) /\ Sound(e)
      BY DEF ReceiverSame, ChannelInv
    <2>2. /\ On(e)' = On(e) /\ pending'[e] = pending[e] /\ put'[e] = put[e]
          /\ mode'[Src[e]] = mode[Src[e]] /\ Settled(e)' = Settled(e)
      BY SenderIdle
    <2> QED
      BY <1>1, <2>1, <2>2, EdgeRests
  <1> QED
    BY <1>2, <1>3 DEF ChannelInv

LEMMA InitChannel == Init => ChannelInv /\ \A e \in Edges : Chan(e)!Init
  <1> SUFFICES ASSUME Init  PROVE ChannelInv /\ \A e \in Edges : Chan(e)!Init
    OBVIOUS
  <1>1. StreamInv /\ TypeOK
    BY InitStream, InitTyped
  <1>2. ASSUME NEW n \in Nodes  PROVE NodeSound(n)
    <2>1. /\ pc[n] = "new" /\ mode[n] = "body" /\ plan[n] = <<>> /\ hand[n] = NoEntry /\ q[n] = <<>>
          /\ ~owes[n] /\ ~done[n]
      BY DEF Init
    <2>2. Tidy(n) /\ Queue(n)
      BY <2>1 DEF Tidy, Queue, NoEntry
    <2>3. ShutsDown(n) /\ OnDemand(n) /\ Waits(n)
      BY <2>1 DEF ShutsDown, OnDemand, Waits
    <2> QED
      BY <2>2, <2>3 DEF NodeSound
  <1>3. ASSUME NEW e \in Edges  PROVE Sound(e) /\ Chan(e)!Init
    <2>1. Src[e] \in Nodes /\ Dst[e] \in Nodes
      BY GraphType
    <2>2. /\ mode[Src[e]] = "body" /\ hand[Src[e]] = NoEntry /\ batch[Dst[e]] = NoEntry
          /\ pending[e] = <<>> /\ kept[e] = <<>> /\ ended = {} /\ q[Dst[e]] = <<>>
          /\ queued[e] = 0 /\ put[e] = 0 /\ got[e] = 0 /\ ~done[Dst[e]] /\ ~cancelled
          /\ Len(<<>>) = 0
      BY <2>1 DEF Init
    <2>3. On(e) = <<>> /\ Part(batch[Dst[e]], e) = <<>>
      BY <2>2 DEF On, Part, NoEntry
    <2>4. KeptBack(e) /\ Closed(e)
      <3>1. ~EndQueued(e) /\ EndLast(q[Dst[e]], e)
        BY <2>2 DEF EndQueued, EndLast
      <3> QED
        BY <2>2, <2>3, <3>1 DEF KeptBack, Closed
    <2>5. Small(e)
      <3>1. Batch(e) > 0
        <4>1. Batch(e) \in Nat \ {0}
          BY BatchType
        <4> HIDE DEF Batch
        <4> QED
          BY <4>1
      <3> QED
        BY <2>2, <2>3, <3>1 DEF Small
    <2>6. Has(e, 0)
      <3>1. Received(e) = 0
        <4>1. Received(e) = got[e] + Len(kept[e]) + Len(Part(batch[Dst[e]], e))
          BY <1>1, OnType
        <4> QED
          BY <2>2, <2>3, <4>1
      <3>2. Line(<<>>, e, 0, 0)
        BY LineNone
      <3>3. Stock(<<>>, <<>>, <<>>, e, 0, 0)
        BY <2>2, <3>2, NumberedNone DEF Stock
      <3> QED
        BY <2>2, <2>3, <3>1, <3>3 DEF Has
    <2>7. Backs(e, 0)
      <3>1. Load(<<>>) = <<>>
        BY DEF Load
      <3> QED
        BY <2>2, <2>3, <3>1, NumberedNone DEF Backs, Supplies
    <2>8. Chan(e)!Init
      BY <2>2 DEF Chan!Init
    <2> QED
      BY <2>4, <2>5, <2>6, <2>7, <2>8 DEF Sound, Carries
  <1> QED
    BY <1>1, <1>2, <1>3 DEF ChannelInv

AllChannels == \A e \in Edges : ChanStep(e)

LEMMA ChannelStep == LoopFree => (ChannelInv /\ [Next]_vars => ChannelInv' /\ AllChannels)
  <1> SUFFICES ASSUME LoopFree, ChannelInv, [Next]_vars  PROVE ChannelInv' /\ AllChannels
    OBVIOUS
  <1>1. StreamInv /\ StreamInv' /\ CreditInv /\ TypeOK
    <2>1. StreamInv
      BY DEF ChannelInv
    <2>2. StreamInv'
      BY <2>1, StreamStep
    <2> QED
      BY <2>1, <2>2 DEF StreamInv, WakeInv, CreditInv
  <1>2. ASSUME NEW n \in Nodes, Node(n)  PROVE ChannelInv' /\ AllChannels
    <2>1. \A m \in Nodes : NodeSound(m)
      BY DEF ChannelInv
    <2>2. Moves(n)
      <3>1. Untied
        BY DEF ChannelInv, StreamInv
      <3> QED
        BY <1>2, <3>1, OnlyMoves DEF Node
    <2>3. \A m \in Nodes : NodeSound(m)'
      BY <1>1, <2>1, <2>2, NodeMove
    <2>4. \A e \in Edges : Sound(e)
      BY DEF ChannelInv
    <2>5. \A e \in Edges : Sound(e)' /\ ChanStep(e)
      BY <1>1, <2>1, <2>2, <2>4, EdgeMove
    <2> QED
      BY <1>1, <2>3, <2>5 DEF ChannelInv, AllChannels
  <1>3. CASE MainThread \/ Over \/ UNCHANGED vars
    <2>1. /\ UNCHANGED <<pc, mode, plan, hand, owes, pending, put, q, queued, batch, kept, ended, got, done>>
          /\ cancelled => cancelled'
      <3>1. CASE CancelStep(Main)
        BY <3>1 DEF CancelStep, edgeVars, receiveVars, loopVars, codeVars
      <3>2. CASE Tick
        BY <3>2 DEF Tick, threadVars, edgeVars, receiveVars, loopVars, codeVars
      <3>3. CASE MainCancelReturns \/ Join \/ Over \/ UNCHANGED vars
        BY <3>3 DEF MainCancelReturns, Join, Over, vars, threadVars, edgeVars, receiveVars, loopVars,
                    codeVars, runVars
      <3> QED
        BY <1>3, <3>1, <3>2, <3>3 DEF MainThread
    <2> QED
      BY <1>1, <2>1, ChannelStays DEF AllChannels
  <1> QED
    BY <1>2, <1>3 DEF Next

\* In a graph without a feedback loop every edge is a bounded FIFO channel, in every
\* run: at most its capacity and one batch are on their way, items are handed over in
\* the order they were sent, each once, and the end after the last of them, unless the
\* run is cancelled (Outbox and Inbox of channel.py, FirstCome of policies.py).
THEOREM EdgesChannels == LoopFree => (Spec => EdgesAreChannels)
  <1> SUFFICES ASSUME LoopFree  PROVE Spec => EdgesAreChannels
    OBVIOUS
  <1>1. Init => ChannelInv /\ \A e \in Edges : Chan(e)!Init
    BY InitChannel
  <1>2. ChannelInv /\ [Next]_vars => ChannelInv' /\ AllChannels
    BY ChannelStep
  <1>3. AllChannels => \A e \in Edges : [Chan(e)!Next]_(Chan(e)!vars) /\ HandedInOrder(e)
    BY DEF AllChannels, ChanStep
  <1> QED
    BY <1>1, <1>2, <1>3, PTL DEF Spec, EdgesAreChannels
-----------------------------------------------------------------------------
(* A graph without a cycle does not lock up.                               *)

Acyclic == \E N \in Nat : \E rank \in [Nodes -> 0..N] : \A e \in Edges : rank[Src[e]] < rank[Dst[e]]
NoneHoldsBack == \A n \in Nodes : Prefer[n] = {}

\* A node waits only while some input is open, and has made all its sends when it ends.
Waiting(n) ==
    /\ pc[n] = "park_in" => \E e \in Edges : Dst[e] = n /\ e \notin ended
    /\ pc[n] \in {"wake", "end"} => plan[n] = <<>> /\ done[n]

LockInv == /\ ChannelInv /\ WatchInv
           /\ ~cancelled => \A n \in Nodes : Waiting(n)
           /\ ~deadlock

LEMMA Lowest ==
    ASSUME NEW S, S # {}, NEW N \in Nat, NEW r \in [S -> 0..N]
    PROVE  \E n \in S : \A m \in S : r[n] <= r[m]
  <1> DEFINE T == {r[n] : n \in S}
  <1>1. T # {} /\ T \subseteq Nat
    OBVIOUS
  <1>2. PICK x \in T : \A y \in T : ~(<<y, x>> \in OpToRel(<, Nat))
    <2>1. IsWellFoundedOn(OpToRel(<, Nat), Nat)
      BY NatLessThanWellFounded
    <2> HIDE DEF T
    <2> QED
      BY <1>1, <2>1, WFMin
  <1>3. \A y \in T : x \in Nat /\ y \in Nat /\ ~(y < x)
    BY <1>1, <1>2 DEF OpToRel
  <1>4. PICK n \in S : x = r[n]
    OBVIOUS
  <1>5. \A m \in S : r[n] \in Nat /\ r[m] \in Nat /\ ~(r[m] < r[n])
    BY <1>3, <1>4
  <1> QED
    BY <1>5

LEMMA Highest ==
    ASSUME NEW S, S # {}, NEW N \in Nat, NEW r \in [S -> 0..N]
    PROVE  \E n \in S : \A m \in S : r[m] <= r[n]
  <1> DEFINE f == [n \in S |-> N - r[n]]
  <1>1. \A n \in S : r[n] \in 0..N
    OBVIOUS
  <1>2. f \in [S -> 0..N]
    BY <1>1
  <1>3. PICK n \in S : \A m \in S : f[n] <= f[m]
    <2> HIDE DEF f
    <2> QED
      BY <1>2, Lowest
  <1>4. \A m \in S : r[m] <= r[n]
    BY <1>1, <1>3
  <1> QED
    BY <1>4

LEMMA WaitingStep ==
    ASSUME CreditInv, NEW n \in Nodes, Steps(n), Queue(n), NEW m \in Nodes, Waiting(m)
    PROVE  Waiting(m)'
  <1>1. TypeOK
    BY DEF CreditInv
  <1>2. ASSUME pc'[m] = pc[m], plan'[m] = plan[m], done'[m] = done[m],
               \A e \in Edges : Dst[e] = m => (e \in ended' <=> e \in ended)
        PROVE  Waiting(m)'
    BY <1>2 DEF Waiting
  <1>3. CASE m # n
    <2>1. pc'[m] = pc[m] /\ plan'[m] = plan[m] /\ done'[m] = done[m]
      BY <1>1, <1>3, Local
    <2>2. \A e \in Edges : Dst[e] = m => (e \in ended' <=> e \in ended)
      BY <1>3, ReceiverLocal DEF Moves
    <2> QED
      BY <1>2, <2>1, <2>2
  <1>4. CASE m = n
    <2>1. ASSUME pc'[n] \notin {"park_in", "wake", "end"}  PROVE Waiting(m)'
      BY <1>4, <2>1 DEF Waiting
    <2>2. CASE Doze(n) \/ WakeProducer(n)
      <3>1. UNCHANGED <<pc, plan, done, ended>>
        BY <2>2 DEF Doze, WakeProducer, edgeVars, receiveVars
      <3> QED
        BY <1>2, <3>1
    <2>3. CASE Await(n)
      <3>1. pc'[n] = "park_in" /\ ended' = ended /\ Remaining(n) # {}
        BY <1>1, <2>3, Shapes DEF Await, Popping, receiveVars
      <3> QED
        <4>1. PICK e \in Edges : Dst[e] = n /\ e \notin ended
          BY <3>1 DEF Remaining
        <4>2. e \notin ended'
          BY <3>1, <4>1
        <4>3. pc'[m] = "park_in"
          BY <1>4, <3>1
        <4> QED
          BY <1>4, <4>1, <4>2, <4>3 DEF Waiting
    <2>4. CASE Mark(n)
      <3>1. pc'[n] = "wake" /\ plan'[n] = <<>> /\ done'[n]
        BY <1>1, <2>4, Shapes DEF Mark
      <3> QED
        BY <1>4, <3>1 DEF Waiting
    <2>5. CASE End(n)
      <3>1. pc'[n] = "end" /\ plan' = plan /\ done' = done /\ pc[n] = "wake"
        BY <1>1, <2>5, Shapes DEF End, edgeVars
      <3> QED
        BY <1>4, <3>1 DEF Waiting
    <2>6. CASE Start(n) \/ Produce(n) \/ Process(n) \/ Return(n) \/ FlushFirst(n)
      <3>1. pc'[n] \notin {"wake", "end"} /\ (pc'[n] = "park_in" => FlushFirst(n))
        BY <1>1, <2>6, Shapes DEF Start, Produce, Process, Return, FlushFirst, Popping, Asking,
                                  Making, Free, Coding
      <3>2. CASE FlushFirst(n)
        <4>1. pc' = pc /\ ended' = ended
          BY <3>2 DEF FlushFirst, receiveVars
        <4> QED
          BY <1>4, <3>1, <4>1 DEF Waiting
      <3> QED
        BY <2>1, <3>1, <3>2
    <2>7. CASE Buffer(n) \/ Skip(n) \/ Prepare(n) \/ Claim(n) \/ ClaimAny(n) \/ Block(n) \/ Push(n)
      BY <1>1, <2>1, <2>7, Shapes DEF Buffer, Skip, Prepare, Claim, ClaimAny, Claimed, Block, Push, Sending
    <2>8. CASE TakeKept(n) \/ Drain(n) \/ NextOfBatch(n) \/ Release(n)
      BY <1>1, <2>1, <2>8, Shapes DEF TakeKept, Drain, NextOfBatch, Unpack, Release
    <2>9. CASE Pop(n)
      BY <1>1, <2>1, <2>9, Shapes DEF Pop, Unpack
    <2> QED
      BY <2>2, <2>3, <2>4, <2>5, <2>6, <2>7, <2>8, <2>9 DEF Steps
  <1> QED
    BY <1>3, <1>4
-----------------------------------------------------------------------------
(* Why: in a locked run ...                                                *)

\* ... a live thread waits, and the others have ended.
LEMMA LockedOrEnded ==
    ASSUME LockInv, ~cancelled, Locked, NEW n \in Nodes
    PROVE  \/ /\ Live(n) /\ n \in asleep /\ ~Ready(n) /\ pc[n] \in {"park_in", "park_out"}
              /\ ~done[n]
           \/ ~Live(n) /\ pc[n] = "end" /\ done[n]
  <1>1. Honest(n) /\ Waiting(n) /\ Tidy(n)
    BY DEF LockInv, WatchInv, ChannelInv, NodeSound
  <1>2. CASE Live(n)
    <2>1. n \in asleep /\ ~Ready(n)
      BY <1>2 DEF Locked
    <2>2. pc[n] \in {"park_in", "park_out"}
      BY <2>1 DEF LockInv, WatchInv, StreamInv, WakeInv, Sleeper
    <2> QED
      BY <1>1, <1>2, <2>1, <2>2 DEF Tidy
  <1>3. CASE ~Live(n)
    BY <1>1, <1>3 DEF Live, Honest, Waiting
  <1> QED
    BY <1>2, <1>3

\* ... one that waits for an entry holds nothing.
LEMMA NothingHeld ==
    ASSUME LoopFree, LockInv, ~cancelled, NoneHoldsBack, NEW e \in Edges,
           pc[Dst[e]] = "park_in", q[Dst[e]] = <<>>, ~done[Dst[e]]
    PROVE  queued[e] = 0 /\ Held(e) = 0 /\ kept[e] = <<>> /\ Part(batch[Dst[e]], e) = <<>>
  <1>1. Dst[e] \in Nodes /\ CreditInv /\ TypeOK /\ Stream
    BY GraphType DEF LockInv, ChannelInv, StreamInv, WakeInv, CreditInv
  <1>2. queued[e] = 0
    <2>1. Counted(q[Dst[e]], e, queued[e])
      BY <1>1, FreeFlows DEF Stream, Conserves
    <2>2. Counted(<<>>, e, queued[e])
      BY <2>1
    <2>3. Len(<<>>) = 0
      OBVIOUS
    <2> QED
      BY <2>2, <2>3 DEF Counted, Counts
  <1>3. kept[e] = <<>>
    BY <1>1 DEF LockInv, ChannelInv, Sound, KeptBack, NoneHoldsBack
  <1>4. batch[Dst[e]].items = <<>>
    BY <1>1 DEF CreditInv, BatchWired
  <1>5. Part(batch[Dst[e]], e) = <<>>
    BY <1>4 DEF Part
  <1>6. Len(kept[e]) = 0 /\ Len(batch[Dst[e]].items) = 0
    BY <1>3, <1>4
  <1>7. Held(e) = 0
    BY <1>6 DEF Held
  <1> QED
    BY <1>2, <1>3, <1>5, <1>7

\* ... one that waits for room waits for a receiver that waits for room.
LEMMA WaitsForRoom ==
    ASSUME LoopFree, LockInv, ~cancelled, Locked, NoneHoldsBack, NEW n \in Nodes, pc[n] = "park_out"
    PROVE  \E e \in Edges : Src[e] = n /\ pc[Dst[e]] = "park_out"
  <1>1. CreditInv /\ TypeOK /\ ~HandReady(n)
    <2>1. ~Ready(n)
      BY LockedOrEnded
    <2> QED
      BY <2>1 DEF Ready, LockInv, ChannelInv, StreamInv, WakeInv, CreditInv
  <1>2. PICK e \in Edges, k \in Nat : /\ Src[e] = n /\ ~done[Dst[e]] /\ ~(credits[e] >= k)
                                      /\ k <= Capacity[e]
    <2>1. CASE hand[n].items = <<>>
      <3>1. Out[n] # <<>> /\ ~AnyReady(n)
        <4>1. OnDemand(n)
          BY DEF LockInv, ChannelInv, NodeSound
        <4> QED
          BY <1>1, <2>1, <4>1 DEF OnDemand, HandReady
      <3>2. Out[n] \in Seq(Edges) /\ Back[n] \in Seq(Edges)
        BY GraphAssumption
      <3>3. 1 \in DOMAIN Out[n] /\ Out[n][1] \in Edges /\ All(n)[1] = Out[n][1] /\ 1 \in DOMAIN All(n)
        <4>1. Len(Out[n]) \in Nat \ {0} /\ Len(Back[n]) \in Nat
          BY <3>1, <3>2
        <4>2. 1 \in DOMAIN Out[n] /\ Out[n][1] \in Edges
          BY <3>2, <4>1
        <4>3. Len(Out[n] \o Back[n]) = Len(Out[n]) + Len(Back[n]) /\ (Out[n] \o Back[n])[1] = Out[n][1]
          <5> DEFINE a == Out[n]
                     b == Back[n]
          <5>1. a \in Seq(Edges) /\ b \in Seq(Edges) /\ Len(a) \in Nat \ {0} /\ Len(b) \in Nat
            BY <3>2, <4>1
          <5> HIDE DEF a, b
          <5>2. /\ Len(a \o b) = Len(a) + Len(b)
                /\ \A i \in 1..(Len(a) + Len(b)) :
                      (a \o b)[i] = IF i <= Len(a) THEN a[i] ELSE b[i - Len(a)]
            BY <5>1, ConcatProperties
          <5>3. (a \o b)[1] = a[1]
            BY <5>1, <5>2
          <5> QED
            BY <5>2, <5>3 DEF a, b
        <4>4. Out[n] \o Back[n] \in Seq(Edges)
          BY <3>2
        <4>5. 1 \in DOMAIN (Out[n] \o Back[n])
          <5>1. \A t \in Seq(Edges) : Len(t) >= 1 => 1 \in DOMAIN t
            OBVIOUS
          <5>2. Len(Out[n]) + Len(Back[n]) >= 1
            <6>1. \A x \in Nat \ {0}, y \in Nat : x + y >= 1
              OBVIOUS
            <6> QED
              BY <4>1, <6>1
          <5> DEFINE t == Out[n] \o Back[n]
          <5>3. t \in Seq(Edges) /\ Len(t) = Len(Out[n]) + Len(Back[n])
            BY <4>3, <4>4
          <5> HIDE DEF t
          <5>4. 1 \in DOMAIN t
            BY <5>1, <5>2, <5>3
          <5> QED
            BY <5>4 DEF t
        <4>6. All(n) = Out[n] \o Back[n]
          BY DEF All
        <4>7. All(n)[1] = Out[n][1]
          BY <4>3, <4>6
        <4>8. 1 \in DOMAIN All(n)
          BY <4>5, <4>6
        <4> QED
          BY <4>2, <4>7, <4>8
      <3>4. Src[Out[n][1]] = n
        BY <3>3, OutputStart
      <3>5. ~OutReady(Out[n][1], 1)
        BY <3>1, <3>3 DEF AnyReady
      <3> QED
        BY <3>3, <3>4, <3>5, BatchType DEF OutReady
    <2>2. CASE hand[n].items # <<>>
      <3> DEFINE e == hand[n].edge
      <3>1. hand[n] \in Entry
        BY <1>1, Shapes
      <3>2. e \in Edges /\ Src[e] = n /\ Len(hand[n].items) \in Nat
        BY <1>1, <2>2, <3>1 DEF CreditInv, HandWired, Entry, Items
      <3>3. ~OutReady(e, Len(hand[n].items))
        BY <1>1, <2>2 DEF HandReady
      <3>4. Len(hand[n].items) <= Capacity[e]
        <4>1. On(e) = hand[n].items
          BY <3>2 DEF On, Part
        <4>2. Len(On(e)) <= Batch(e)
          BY <2>2, <3>2, <4>1 DEF LockInv, ChannelInv, Sound, Small
        <4>3. Batch(e) <= Capacity[e] /\ Batch(e) \in Nat /\ Capacity[e] \in Nat
          BY <3>2, SizeAssumption DEF Batch
        <4> QED
          BY <3>2, <4>1, <4>2, <4>3
      <3> QED
        BY <3>2, <3>3, <3>4 DEF OutReady
    <2> QED
      BY <2>1, <2>2
  <1>3. queued[e] # 0 \/ Held(e) # 0
    <2>1. credits[e] + Sent(e) + queued[e] + Held(e) = Capacity[e] /\ Sent(e) = 0
      BY <1>1, <1>2 DEF CreditInv, CreditConservation, Balanced, Sent
    <2>2. credits[e] \in Int /\ queued[e] \in Int /\ Held(e) \in Nat /\ Capacity[e] \in Nat
      BY <1>1, CountType
    <2> QED
      BY <1>2, <2>1, <2>2
  <1>4. Dst[e] \in Nodes
    BY GraphType
  <1>5. ~Ready(Dst[e]) /\ pc[Dst[e]] \in {"park_in", "park_out"}
    BY <1>2, <1>4, LockedOrEnded
  <1>6. pc[Dst[e]] # "park_in"
    <2> SUFFICES ASSUME pc[Dst[e]] = "park_in"  PROVE FALSE
      OBVIOUS
    <2>1. q[Dst[e]] = <<>>
      BY <1>5 DEF Ready
    <2> QED
      BY <1>2, <1>3, <2>1, NothingHeld
  <1> QED
    BY <1>2, <1>5, <1>6

\* ... one that waits for an entry waits for a sender that waits.
LEMMA WaitsForEntry ==
    ASSUME LoopFree, LockInv, ~cancelled, Locked, NoneHoldsBack, NEW n \in Nodes, pc[n] = "park_in"
    PROVE  \E e \in Edges : Dst[e] = n /\ Live(Src[e])
  <1>1. PICK e \in Edges : Dst[e] = n /\ e \notin ended
    BY DEF LockInv, Waiting
  <1>2. q[n] = <<>> /\ ~done[n]
    BY LockedOrEnded DEF Ready
  <1>3. CreditInv /\ TypeOK /\ Stream /\ Src[e] \in Nodes
    BY GraphType DEF LockInv, ChannelInv, StreamInv, WakeInv, CreditInv
  <1> SUFFICES ASSUME ~Live(Src[e])  PROVE FALSE
    BY <1>1
  <1>4. pc[Src[e]] = "end"
    BY <1>3, LockedOrEnded
  <1>5. mode[Src[e]] = "closing" /\ plan[Src[e]] = <<>> /\ hand[Src[e]].items = <<>>
    <2>1. Tidy(Src[e]) /\ Waiting(Src[e])
      BY <1>3 DEF LockInv, Stream
    <2> QED
      BY <1>4, <2>1 DEF Tidy, Waiting
  <1>6. Sealed(e) /\ pending[e] = <<>> /\ InHand(e) = 0
    <2>1. Sealed(e)
      BY <1>5 DEF Sealed
    <2>2. pending[e] = <<>>
      BY <1>3, <2>1, FreeFlows DEF Stream, Seals
    <2>3. Len(<<>>) = 0
      OBVIOUS
    <2> QED
      BY <1>5, <2>1, <2>2, <2>3 DEF InHand, CountOf
  <1>7. queued[e] = 0
    BY <1>1, <1>2, NothingHeld
  <1>8. put[e] + 1 = Received(e)
    <2>1. put[e] + Once(Sealed(e)) =
                Received(e) + queued[e] + InHand(e) + Len(pending[e]) + Once(e \in ended)
      BY <1>1, <1>2, <1>3, FreeFlows DEF Stream, Conserves
    <2>2. Once(Sealed(e)) = 1 /\ Once(e \in ended) = 0 /\ Len(pending[e]) = 0
      BY <1>1, <1>6 DEF Once
    <2>3. put[e] \in Nat /\ Received(e) \in Nat
      BY <1>3, EdgeCounts
    <2>4. put[e] + 1 = Received(e) + 0 + 0 + 0 + 0
      BY <1>6, <1>7, <2>1, <2>2
    <2> QED
      BY <2>3, <2>4
  <1>9. Received(e) <= put[e]
    <2>1. PICK c \in Nat : Has(e, c) /\ Backs(e, c)
      BY <1>1, <1>2 DEF LockInv, ChannelInv, Sound, Carries
    <2>2. c = Received(e)
      <3> DEFINE a == got[e] + Len(kept[e]) + Len(Part(batch[Dst[e]], e))
      <3>1. Line(<<>>, e, a, c)
        BY <1>1, <1>2, <2>1 DEF Has, Stock
      <3>2. Len(<<>>) = 0
        OBVIOUS
      <3>3. a = c
        BY <3>1, <3>2 DEF Line, Marks
      <3> QED
        <4>1. a = Received(e)
          BY <1>3, OnType
        <4> QED
          BY <3>3, <4>1
    <2>3. c + Len(Load(On(e))) + Len(pending[e]) <= put[e]
      BY <2>1 DEF Backs, Supplies
    <2>4. Len(Load(On(e))) \in Nat /\ Len(pending[e]) \in Nat /\ put[e] \in Nat
      BY <1>3, OnType
    <2> QED
      BY <2>1, <2>2, <2>3, <2>4
  <1> QED
    BY <1>3, <1>8, <1>9, EdgeCounts

\* So there is none: the last of those that wait for room has none to wait for, then
\* the first of those that wait for an entry.
LEMMA NeverLocked ==
    ASSUME LoopFree, LockInv, ~cancelled, Acyclic, NoneHoldsBack, AnyLive
    PROVE  ~Locked
  <1> SUFFICES ASSUME Locked  PROVE FALSE
    OBVIOUS
  <1>0. PICK N \in Nat : \E r \in [Nodes -> 0..N] : \A e \in Edges : r[Src[e]] < r[Dst[e]]
    BY DEF Acyclic
  <1>1. PICK rank \in [Nodes -> 0..N] : \A e \in Edges : rank[Src[e]] < rank[Dst[e]]
    BY <1>0
  <1>2. \A n \in Nodes : rank[n] \in 0..N
    BY <1>1
  <1>3. \A n \in Nodes : pc[n] # "park_out"
    <2> DEFINE S == {n \in Nodes : pc[n] = "park_out"}
    <2> SUFFICES ASSUME S # {}  PROVE FALSE
      OBVIOUS
    <2>1. [n \in S |-> rank[n]] \in [S -> 0..N]
      BY <1>2
    <2>2. PICK n \in S : \A m \in S : rank[m] <= rank[n]
      <3>1. PICK n \in S : \A m \in S : [k \in S |-> rank[k]][m] <= [k \in S |-> rank[k]][n]
        <4> HIDE DEF S
        <4> QED
          BY <2>1, Highest
      <3> QED
        BY <3>1
    <2>3. PICK e \in Edges : Src[e] = n /\ pc[Dst[e]] = "park_out"
      BY <2>2, WaitsForRoom
    <2>4. Dst[e] \in S /\ rank[Dst[e]] <= rank[n] /\ rank[n] < rank[Dst[e]]
      BY <1>1, <2>2, <2>3, GraphType
    <2> QED
      BY <1>2, <2>2, <2>4
  <1>4. ASSUME NEW n \in Nodes, Live(n)  PROVE pc[n] = "park_in"
    BY <1>3, <1>4, LockedOrEnded
  <1> DEFINE L == {n \in Nodes : Live(n)}
  <1>5. L # {} /\ [n \in L |-> rank[n]] \in [L -> 0..N]
    BY <1>2 DEF AnyLive
  <1>6. PICK n \in L : \A m \in L : rank[n] <= rank[m]
    <2>1. PICK n \in L : \A m \in L : [k \in L |-> rank[k]][n] <= [k \in L |-> rank[k]][m]
      <3> HIDE DEF L
      <3> QED
        BY <1>5, Lowest
    <2> QED
      BY <2>1
  <1>7. PICK e \in Edges : Dst[e] = n /\ Live(Src[e])
    BY <1>4, <1>6, WaitsForEntry
  <1>8. rank[n] <= rank[Src[e]] /\ rank[Src[e]] < rank[n] /\ Src[e] \in Nodes
    BY <1>1, <1>6, <1>7, GraphType
  <1> QED
    BY <1>2, <1>6, <1>8

LEMMA LockStep ==
    LoopFree /\ NoneStopsReading /\ NoneHoldsBack /\ Acyclic => (LockInv /\ [Next]_vars => LockInv')
  <1> SUFFICES ASSUME LoopFree, NoneStopsReading, NoneHoldsBack, Acyclic, LockInv, [Next]_vars
               PROVE  LockInv'
    OBVIOUS
  <1>1. ChannelInv' /\ WatchInv' /\ ReportsLock
    BY ChannelStep, WatchStep DEF LockInv
  <1>2. CreditInv /\ TypeOK
    BY DEF LockInv, ChannelInv, StreamInv, WakeInv, CreditInv
  <1>3. ~deadlock'
    <2> SUFFICES ASSUME deadlock' # deadlock  PROVE FALSE
      BY DEF LockInv
    <2>1. Tick
      <3>1. CASE Tick
        BY <3>1
      <3>2. CASE CancelStep(Main) \/ MainCancelReturns \/ Join \/ Over \/ UNCHANGED vars
        BY <3>2 DEF CancelStep, MainCancelReturns, Join, Over, vars, mainVars
      <3>3. ASSUME NEW n \in Nodes, Node(n)  PROVE FALSE
        BY <3>3, NodeKeepsMain DEF Node, mainVars
      <3> QED
        BY <3>1, <3>2, <3>3 DEF Next, MainThread
    <2>2. Locked /\ ~cancelled /\ AnyLive
      BY <2>1, ReportIsLock DEF LockInv
    <2> QED
      BY <2>2, NeverLocked
  <1>4. ASSUME ~cancelled', NEW m \in Nodes  PROVE Waiting(m)'
    <2>1. ASSUME NEW n \in Nodes, Node(n)  PROVE Waiting(m)'
      <3>1. Emits(n) \/ Receives(n) \/ Runs(n)
        BY <2>1 DEF Node
      <3>2. ~cancelled
        BY <1>4, <3>1, CancelStays
      <3>3. Queue(n) /\ Tidy(n) /\ WakeInv /\ Waiting(m)
        BY <3>2 DEF LockInv, ChannelInv, NodeSound, StreamInv
      <3>4. Steps(n)
        <4>1. ~LoopSteps(n)
          <5>1. Untied
            BY DEF LockInv, ChannelInv, StreamInv
          <5> QED
            BY <5>1 DEF Untied, LoopSteps, LoopDone, Owing, ExternalEnded, Tell
        <4> QED
          BY <1>4, <3>1, <3>3, <4>1, OnlySteps
      <3> QED
        BY <1>2, <3>3, <3>4, WaitingStep
    <2>2. CASE MainThread \/ Over \/ UNCHANGED vars
      <3>1. UNCHANGED <<pc, plan, done, ended>> /\ (cancelled => cancelled')
        <4>1. CASE CancelStep(Main)
          BY <4>1 DEF CancelStep, edgeVars, receiveVars
        <4>2. CASE Tick
          BY <4>2 DEF Tick, threadVars, edgeVars, receiveVars
        <4>3. CASE MainCancelReturns \/ Join \/ Over \/ UNCHANGED vars
          BY <4>3 DEF MainCancelReturns, Join, Over, vars, threadVars, edgeVars, receiveVars, runVars
        <4> QED
          BY <2>2, <4>1, <4>2, <4>3 DEF MainThread
      <3>2. Waiting(m)
        BY <1>4, <3>1 DEF LockInv
      <3> QED
        BY <3>1, <3>2 DEF Waiting
    <2> QED
      BY <2>1, <2>2 DEF Next
  <1> QED
    BY <1>1, <1>3, <1>4 DEF LockInv

LEMMA InitLock == Init => LockInv
  <1> SUFFICES ASSUME Init  PROVE LockInv
    OBVIOUS
  <1>1. \A n \in Nodes : pc[n] = "new"
    BY DEF Init
  <1>2. ~deadlock
    BY DEF Init
  <1> QED
    BY <1>1, <1>2, InitChannel, InitWatch DEF LockInv, Waiting

\* A graph without a cycle, whose nodes read their inputs as items come and to their
\* end, is never reported as a deadlock, whatever its capacities, batches and
\* policies and whatever its code sends or raises (the watchdog of
\* ThreadsRuntime.execute, the credits of Outbox and Inbox).
THEOREM NeverDeadlocked ==
    LoopFree /\ Acyclic /\ NoneHoldsBack /\ NoneStopsReading => (Spec => []NoDeadlock)
  <1> SUFFICES ASSUME LoopFree, Acyclic, NoneHoldsBack, NoneStopsReading
               PROVE  Spec => []NoDeadlock
    OBVIOUS
  <1>1. LockInv /\ [Next]_vars => LockInv'
    BY LockStep
  <1>2. LockInv => NoDeadlock
    BY DEF LockInv, NoDeadlock
  <1> QED
    BY <1>1, <1>2, InitLock, PTL DEF Spec
=============================================================================
