---------------------------- MODULE StreamProofs ----------------------------
(***************************************************************************)
(* What an edge delivers in a run that is not cancelled: an end of stream  *)
(* comes after every item, and a run that is over has delivered everything *)
(* and has its credits back.  It holds of every edge of every graph, of a  *)
(* feedback edge until its loop closes.  And, in a graph without a loop,   *)
(* the watchdog reports a run only when it is stuck.                       *)
(***************************************************************************)
EXTENDS DataflowProofs

LoopFree == LoopNodes = {} /\ \A n \in Nodes : Back[n] = <<>>
-----------------------------------------------------------------------------
(* The entries of one edge in a queue, counted: x is how many items of e   *)
(* the queue s holds, an end of stream counting as one, and nothing of e   *)
(* comes after its end: w[i] is the count of the i oldest entries.  What a *)
(* loop tells a head is from no edge and does not count.                   *)

CountOf(b, e) == IF b.edge = e THEN Len(b.items) ELSE 0
EndsEdge(b, e) == b.edge = e /\ b.items = <<EOS>>
CountIn(b, e) == IF b.items = <<LOOP_DONE>> THEN 0 ELSE CountOf(b, e)
OnEdge(b, e) == b.edge = e /\ b.items # <<LOOP_DONE>>

Counts(w, s, e, x) ==
    /\ w[0] = 0 /\ w[Len(s)] = x /\ \A i, j \in 0..Len(s) : i <= j => w[i] <= w[j]
    /\ \A i \in 1..Len(s) : /\ w[i] = w[i - 1] + CountIn(s[i], e) /\ w[i] <= x
                            /\ EndsEdge(s[i], e) => w[i] = x
EndsLast(s, e) == \A i, j \in 1..Len(s) : i < j /\ EndsEdge(s[i], e) => ~OnEdge(s[j], e)
Counted(s, e, x) == EndsLast(s, e) /\ \E w \in [0..Len(s) -> Int] : Counts(w, s, e, x)

LEMMA CountOfType ==
    ASSUME NEW b \in Entry, NEW e
    PROVE  CountOf(b, e) \in Nat
  BY DEF CountOf, Entry, Items

\* What comes from an edge is no word of the loop.
LEMMA EntryCounts ==
    ASSUME NEW b \in Entry, NEW e
    PROVE  CountIn(b, e) = CountOf(b, e) /\ OnEdge(b, e) = (b.edge = e) /\ b.items # <<LOOP_DONE>>
  <1>1. b.items \in Seq(Nat)
    BY DEF Entry, Items
  <1>2. ASSUME b.items = <<LOOP_DONE>>  PROVE FALSE
    <2>1. b.items[1] = -1 /\ 1 \in DOMAIN b.items
      BY <1>2 DEF LOOP_DONE
    <2>2. b.items[1] \in Nat
      BY <1>1, <2>1
    <2> QED
      BY <2>1, <2>2
  <1> QED
    BY <1>2 DEF CountIn, OnEdge

LEMMA CountInType ==
    ASSUME NEW b \in Queued, NEW e
    PROVE  /\ CountIn(b, e) \in Nat
           /\ EndsEdge(b, e) => CountIn(b, e) = 1 /\ OnEdge(b, e)
           /\ ~OnEdge(b, e) => CountIn(b, e) = 0
  <1>1. CASE b \in Entry
    BY <1>1, EntryCounts, CountOfType DEF EndsEdge, CountOf
  <1>2. CASE b \in Control
    <2>1. b.items = <<LOOP_DONE>>
      BY <1>2 DEF Control
    <2>2. <<LOOP_DONE>> # <<EOS>>
      BY LoopDoneIsNotEos
    <2> QED
      BY <2>1, <2>2 DEF CountIn, OnEdge, EndsEdge
  <1> QED
    BY <1>1, <1>2 DEF Queued

LEMMA CountedNone ==
    ASSUME NEW e
    PROVE  Counted(<<>>, e, 0)
  <1> DEFINE w == [i \in 0..0 |-> 0]
  <1>1. Len(<<>>) = 0
    OBVIOUS
  <1>2. w \in [0..Len(<<>>) -> Int] /\ w[0] = 0
    BY <1>1
  <1>3. Counts(w, <<>>, e, 0)
    BY <1>1, <1>2 DEF Counts
  <1> QED
    BY <1>1, <1>2, <1>3 DEF Counted, EndsLast

\* What is queued behind goes on counting, and nothing of e follows its end.
LEMMA CountedAppend ==
    ASSUME NEW s \in Seq(Queued), NEW e, NEW x \in Int, NEW b \in Queued, Counted(s, e, x),
           OnEdge(b, e) => \A i \in 1..Len(s) : ~EndsEdge(s[i], e)
    PROVE  Counted(Append(s, b), e, x + CountIn(b, e))
  <1>1. PICK w \in [0..Len(s) -> Int] : Counts(w, s, e, x)
    BY DEF Counted
  <1>2. PICK L \in Nat : L = Len(s)
    OBVIOUS
  <1>3. PICK c \in Nat : c = CountIn(b, e)
    BY CountInType
  <1> DEFINE t == Append(s, b)
             v == [i \in 0..(L + 1) |-> IF i = L + 1 THEN x + c ELSE w[i]]
  <1>4. /\ Len(t) = L + 1 /\ t[L + 1] = b
        /\ \A i \in 1..L : t[i] = s[i]
    BY <1>2
  <1>5. /\ w[0] = 0 /\ w[L] = x
        /\ \A i \in 1..L : w[i] = w[i - 1] + CountIn(s[i], e)
        /\ \A i \in 1..L : w[i] <= x /\ (EndsEdge(s[i], e) => w[i] = x)
        /\ \A i \in 0..L : w[i] \in Int
        /\ \A i, j \in 0..L : i <= j => w[i] <= w[j]
    BY <1>1, <1>2 DEF Counts
  <1>6. v \in [0..(L + 1) -> Int]
    BY <1>3, <1>5
  <1>7. v[0] = 0 /\ v[L + 1] = x + c /\ \A i \in 0..L : v[i] = w[i]
    BY <1>5
  <1>8. ASSUME NEW i \in 1..(L + 1)
        PROVE  /\ v[i] = v[i - 1] + CountIn(t[i], e) /\ v[i] <= x + c
               /\ EndsEdge(t[i], e) => v[i] = x + c
    <2>1. CASE i = L + 1
      <3>1. v[i] = x + c /\ v[i - 1] = x /\ t[i] = b
        <4>1. i - 1 = L /\ L \in 0..L
          BY <2>1
        <4> QED
          BY <1>4, <1>5, <1>7, <2>1, <4>1
      <3> HIDE DEF v, t
      <3> QED
        BY <1>3, <3>1
    <2>2. CASE i # L + 1
      <3>1. i \in 1..L /\ i \in 0..L /\ i - 1 \in 0..L
        BY <2>2
      <3>2. v[i] = w[i] /\ v[i - 1] = w[i - 1] /\ t[i] = s[i]
        BY <1>4, <1>7, <3>1
      <3>3. EndsEdge(s[i], e) => c = 0
        BY <1>2, <1>3, <3>1, CountInType
      <3>8. w[i] = w[i - 1] + CountIn(s[i], e) /\ w[i] <= x /\ (EndsEdge(s[i], e) => w[i] = x)
        BY <1>5, <3>1
      <3>4. v[i] = v[i - 1] + CountIn(t[i], e) /\ v[i] <= x
        BY <3>2, <3>8
      <3>5. v[i] \in Int
        BY <1>5, <3>1, <3>2
      <3>6. v[i] <= x + c
        BY <1>3, <3>4, <3>5
      <3>7. EndsEdge(t[i], e) => v[i] = x + c
        <4>1. EndsEdge(t[i], e) = EndsEdge(s[i], e) /\ v[i] = w[i]
          BY <3>2
        <4> HIDE DEF v, t
        <4> QED
          BY <3>3, <3>8, <4>1
      <3> HIDE DEF v, t
      <3> QED
        BY <3>4, <3>6, <3>7
    <2> QED
      BY <2>1, <2>2
  <1>11. ASSUME NEW i \in 0..(L + 1), NEW j \in 0..(L + 1), i <= j  PROVE v[i] <= v[j]
    <2>1. CASE j \in 0..L
      <3>1. i \in 0..L
        BY <1>11, <2>1
      <3> QED
        BY <1>5, <1>7, <1>11, <2>1, <3>1
    <2>2. CASE j = L + 1 /\ i \in 0..L
      <3>1. L \in 0..L /\ i <= L
        BY <2>2
      <3>2. w[i] <= x /\ w[i] \in Int
        BY <1>5, <2>2, <3>1
      <3>3. v[i] = w[i] /\ v[j] = x + c
        BY <1>7, <2>2
      <3> HIDE DEF v
      <3> QED
        BY <1>3, <3>2, <3>3
    <2>3. CASE j = L + 1 /\ i = L + 1
      BY <1>3, <1>7, <2>3
    <2> QED
      BY <1>2, <1>11, <2>1, <2>2, <2>3
  <1> HIDE DEF v, t
  <1>9. Counts(v, t, e, x + c)
    BY <1>4, <1>7, <1>8, <1>11 DEF Counts
  <1>10. EndsLast(t, e)
    <2>1. ASSUME NEW i \in 1..(L + 1), NEW j \in 1..(L + 1), i < j, EndsEdge(t[i], e)
          PROVE  ~OnEdge(t[j], e)
      <3>1. i \in 1..L /\ t[i] = s[i] /\ (j \in 1..L \/ j = L + 1)
        BY <1>4, <2>1
      <3>2. CASE j \in 1..L
        BY <1>2, <1>4, <2>1, <3>1, <3>2 DEF Counted, EndsLast
      <3>3. CASE j = L + 1
        BY <1>2, <1>4, <2>1, <3>1, <3>3
      <3> QED
        BY <3>1, <3>2, <3>3
    <2> QED
      BY <1>4, <2>1 DEF EndsLast
  <1> QED
    BY <1>3, <1>4, <1>6, <1>9, <1>10 DEF Counted, t

\* With nothing counted there is nothing of e.
LEMMA CountedZero ==
    ASSUME NEW s \in Seq(Queued), NEW e, NEW x \in Int, Counted(s, e, x)
    PROVE  x >= 0 /\ (x = 0 => \A i \in DOMAIN s : ~OnEdge(s[i], e))
  <1>1. PICK w \in [0..Len(s) -> Int] : Counts(w, s, e, x)
    BY DEF Counted
  <1>2. PICK L \in Nat : L = Len(s)
    OBVIOUS
  <1>3. /\ w[0] = 0 /\ w[L] = x /\ \A i \in 0..L : w[i] \in Int
        /\ \A i, j \in 0..L : i <= j => w[i] <= w[j]
        /\ \A i \in 1..L : w[i] = w[i - 1] + CountIn(s[i], e)
    BY <1>1, <1>2 DEF Counts
  <1>4. x >= 0
    <2>1. 0 \in 0..L /\ L \in 0..L /\ 0 <= L
      OBVIOUS
    <2>2. w[0] <= w[L]
      BY <1>3, <2>1
    <2> QED
      BY <1>3, <2>2
  <1>5. ASSUME x = 0, NEW i \in DOMAIN s  PROVE ~OnEdge(s[i], e)
    <2>1. i \in 1..L /\ i \in 0..L /\ i - 1 \in 0..L /\ 0 \in 0..L /\ L \in 0..L
          /\ 0 <= i /\ i <= L /\ 0 <= i - 1 /\ i - 1 <= L /\ s[i] \in Queued
      BY <1>2
    <2>2. w[0] <= w[i] /\ w[i] <= w[L] /\ w[0] <= w[i - 1] /\ w[i - 1] <= w[L]
      BY <1>3, <2>1
    <2>3. w[i] \in Int /\ w[i - 1] \in Int /\ w[i] = w[i - 1] + CountIn(s[i], e)
      BY <1>3, <2>1
    <2>4. w[i] = 0 /\ w[i - 1] = 0
      BY <1>3, <1>5, <2>2, <2>3
    <2>5. CountIn(s[i], e) \in Nat
      BY <2>1, CountInType
    <2>6. CountIn(s[i], e) = 0
      BY <2>3, <2>4, <2>5
    <2>7. CASE s[i] \in Entry
      <3>1. s[i].items \in Seq(Nat) /\ (s[i].items # <<>> => Len(s[i].items) # 0)
        BY <2>7, EmptySeq DEF Entry, Items
      <3>2. s[i] \in Control => ~OnEdge(s[i], e)
        BY DEF Control, OnEdge
      <3>3. s[i] \notin Control => s[i].items # <<>>
        BY <2>1 DEF Queued
      <3> QED
        BY <2>6, <3>1, <3>2, <3>3 DEF CountIn, CountOf, OnEdge
    <2>8. CASE s[i] \in Control
      BY <2>8 DEF Control, OnEdge
    <2> QED
      BY <2>1, <2>7, <2>8 DEF Queued
  <1> QED
    BY <1>4, <1>5

\* The oldest entry leaves the queue.
LEMMA CountedTail ==
    ASSUME NEW s \in Seq(Queued), NEW e, NEW x \in Int, Counted(s, e, x), s # <<>>
    PROVE  /\ Counted(Tail(s), e, x - CountIn(Head(s), e))
           /\ CountIn(Head(s), e) <= x
           /\ EndsEdge(Head(s), e) => x = 1 /\ \A i \in 1..Len(Tail(s)) : ~OnEdge(Tail(s)[i], e)
  <1>1. PICK w \in [0..Len(s) -> Int] : Counts(w, s, e, x)
    BY DEF Counted
  <1>2. PICK L \in Nat : L = Len(s)
    OBVIOUS
  <1>3. L > 0 /\ Head(s) \in Queued /\ Head(s) = s[1]
    BY <1>2, EmptySeq
  <1>4. PICK c \in Nat : c = CountIn(Head(s), e)
    BY <1>3, CountInType
  <1> DEFINE t == Tail(s)
             v == [i \in 0..(L - 1) |-> w[i + 1] - c]
  <1>5. Len(t) = L - 1 /\ \A i \in 1..(L - 1) : t[i] = s[i + 1]
    BY <1>2, <1>3
  <1>6. /\ w[0] = 0 /\ w[L] = x
        /\ \A i \in 1..L : w[i] = w[i - 1] + CountIn(s[i], e)
        /\ \A i \in 1..L : w[i] <= x /\ (EndsEdge(s[i], e) => w[i] = x)
        /\ \A i \in 0..L : w[i] \in Int
        /\ \A i, j \in 0..L : i <= j => w[i] <= w[j]
    BY <1>1, <1>2 DEF Counts
  <1>7. w[1] = c /\ c <= x /\ (EndsEdge(s[1], e) => w[1] = x)
    <2>1. 1 \in 1..L /\ 1 - 1 = 0
      BY <1>3
    <2> QED
      BY <1>3, <1>4, <1>6, <2>1
  <1>8. v \in [0..(L - 1) -> Int]
    BY <1>3, <1>4, <1>6
  <1>9. v[0] = 0 /\ v[L - 1] = x - c
    <2>1. 0 \in 0..(L - 1) /\ L - 1 \in 0..(L - 1) /\ (L - 1) + 1 = L /\ 0 + 1 = 1
      BY <1>3
    <2>2. v[0] = w[1] - c /\ v[L - 1] = w[L] - c
      BY <2>1
    <2> QED
      BY <1>4, <1>6, <1>7, <2>2
  <1>10. ASSUME NEW i \in 1..(L - 1)
         PROVE  /\ v[i] = v[i - 1] + CountIn(t[i], e) /\ v[i] <= x - c
                /\ EndsEdge(t[i], e) => v[i] = x - c
    <2>1. i \in 0..(L - 1) /\ i - 1 \in 0..(L - 1) /\ i + 1 \in 1..L /\ i \in 0..L
          /\ (i + 1) - 1 = i /\ (i - 1) + 1 = i
      BY <1>3
    <2>2. v[i] = w[i + 1] - c /\ v[i - 1] = w[i] - c /\ t[i] = s[i + 1]
      BY <1>5, <2>1
    <2>3. /\ w[i + 1] = w[i] + CountIn(s[i + 1], e) /\ w[i + 1] <= x
          /\ EndsEdge(s[i + 1], e) => w[i + 1] = x
      <3>1. w[i + 1] = w[(i + 1) - 1] + CountIn(s[i + 1], e)
        BY <1>6, <2>1
      <3>2. w[i + 1] <= x /\ (EndsEdge(s[i + 1], e) => w[i + 1] = x)
        BY <1>6, <2>1
      <3> QED
        BY <2>1, <3>1, <3>2
    <2>4. w[i] \in Int /\ CountIn(s[i + 1], e) \in Nat
      <3>1. s[i + 1] \in Queued
        BY <1>2, <2>1
      <3> QED
        BY <1>6, <2>1, <3>1, CountInType
    <2>5. w[i + 1] \in Int
      BY <2>3, <2>4
    <2>6. v[i] = v[i - 1] + CountIn(t[i], e)
      <3>1. CountIn(t[i], e) = CountIn(s[i + 1], e) /\ w[i] \in Int
        BY <2>2, <2>4
      <3> HIDE DEF v, t
      <3> QED
        BY <1>4, <2>2, <2>3, <2>4, <2>5, <3>1
    <2>7. v[i] <= x - c
      BY <1>4, <2>2, <2>3, <2>5
    <2>8. EndsEdge(t[i], e) => v[i] = x - c
      BY <2>2, <2>3
    <2> HIDE DEF v, t
    <2> QED
      BY <2>6, <2>7, <2>8
  <1>14. ASSUME NEW i \in 0..(L - 1), NEW j \in 0..(L - 1), i <= j  PROVE v[i] <= v[j]
    <2>1. i + 1 \in 0..L /\ j + 1 \in 0..L /\ i + 1 <= j + 1
      BY <1>3, <1>14
    <2>2. w[i + 1] <= w[j + 1] /\ w[i + 1] \in Int /\ w[j + 1] \in Int
      BY <1>6, <2>1
    <2>3. v[i] = w[i + 1] - c /\ v[j] = w[j + 1] - c
      BY <1>14
    <2> HIDE DEF v
    <2> QED
      BY <1>4, <2>2, <2>3
  <1> HIDE DEF v, t
  <1>11. Counts(v, t, e, x - c)
    BY <1>5, <1>9, <1>10, <1>14 DEF Counts
  <1>12. EndsEdge(Head(s), e) => c = 1 /\ x = c
    BY <1>3, <1>4, <1>7, CountInType
  <1>13. EndsLast(t, e) /\ (EndsEdge(Head(s), e) => \A i \in 1..Len(t) : ~OnEdge(t[i], e))
    <2>1. ASSUME NEW i \in 1..(L - 1), NEW j \in 1..(L - 1), i < j, EndsEdge(t[i], e)
          PROVE  ~OnEdge(t[j], e)
      <3>1. i + 1 \in 1..Len(s) /\ j + 1 \in 1..Len(s) /\ i + 1 < j + 1
            /\ t[i] = s[i + 1] /\ t[j] = s[j + 1]
        BY <1>2, <1>5, <2>1
      <3> QED
        BY <2>1, <3>1 DEF Counted, EndsLast
    <2>2. ASSUME EndsEdge(Head(s), e), NEW i \in 1..(L - 1)  PROVE ~OnEdge(t[i], e)
      <3>1. 1 \in 1..Len(s) /\ i + 1 \in 1..Len(s) /\ 1 < i + 1 /\ t[i] = s[i + 1]
        BY <1>2, <1>3, <1>5, <2>2
      <3> QED
        BY <1>3, <2>2, <3>1 DEF Counted, EndsLast
    <2> QED
      BY <1>5, <2>1, <2>2 DEF EndsLast
  <1> QED
    BY <1>4, <1>5, <1>7, <1>8, <1>11, <1>12, <1>13 DEF Counted, t
-----------------------------------------------------------------------------
(* The invariant.                                                          *)

\* Without a loop no thread has anything to do with one.
Untied == /\ ~closed
          /\ \A n \in Nodes : ~owes[n] /\ pc[n] \notin {"tell", "external"}

\* Hands are empty between sends, and a node that closes its outputs has stopped
\* reading.
Tidy(n) ==
    /\ pc[n] \notin {"credit", "park_out", "push"} => hand[n].items = <<>>
    /\ pc[n] \in {"credit", "park_out"} /\ hand[n].items = <<>> => mode[n] = "body"
    /\ pc[n] \in {"wake", "end"} => mode[n] = "closing"
    /\ mode[n] = "body" => \A i \in DOMAIN plan[n] : plan[n][i].op # "eos"
    /\ done[n] => pc[n] \in {"wake", "end"}
    /\ mode[n] = "closing" => pc[n] \notin {"new", "park_in", "release"}
\* Entries come from an edge, and none to a receiver that is done.
Queue(n) == /\ \A i \in DOMAIN q[n] : q[n][i] \in Entry
            /\ done[n] => q[n] = <<>>

\* close_all flushes each output before it ends any, and ends each once.
Shuts(p) ==
    /\ \A i \in DOMAIN p : p[i].op \in {"flush", "eos"}
    /\ \A i, j \in DOMAIN p : p[i] = p[j] /\ p[i].op = "eos" => i = j
Flushes(p, e) == \E i \in DOMAIN p : /\ p[i] = Cmd("flush", e)
                                     /\ \A j \in DOMAIN p : p[j].op = "eos" => i < j
Closes(n) ==
    mode[n] = "closing" =>
        /\ Shuts(plan[n])
        /\ \A e \in Edges : Src[e] = n /\ pending[e] # <<>> => Flushes(plan[n], e)

\* The end of e has left its sender's plan.
Sealed(e) == /\ mode[Src[e]] = "closing"
             /\ \A i \in DOMAIN plan[Src[e]] : plan[Src[e]][i] # Cmd("eos", e)
HandOn(e) == hand[Src[e]].edge = e /\ hand[Src[e]].items # <<>>
HoldsEnd(e) == EndsEdge(hand[Src[e]], e)
InHand(e) == CountOf(hand[Src[e]], e)

\* The end of an edge is sent when nothing is pending, after everything else.
Seals(e) ==
    /\ \A i \in DOMAIN pending[e] : pending[e][i] > 0
    /\ Sealed(e) => pending[e] = <<>>
    /\ HoldsEnd(e) => Sealed(e)
    /\ HandOn(e) /\ Sealed(e) => HoldsEnd(e)

EndQueued(e) == \E i \in DOMAIN q[Dst[e]] : EndsEdge(q[Dst[e]][i], e)
Received(e) == got[e] + Len(kept[e]) + CountOf(batch[Dst[e]], e)
Once(b) == IF b THEN 1 ELSE 0

\* What was sent on e is received, queued, in the sender's hand or pending; its end
\* is in one of those places too, and stays with the receiver once it is there.
Conserves(e) ==
    /\ EndQueued(e) \/ e \in ended => Sealed(e) /\ ~HandOn(e)
    /\ EndQueued(e) => e \notin ended
    /\ e \in ended => put[e] = Received(e) /\ CountOf(batch[Dst[e]], e) = 0
    /\ ~done[Dst[e]] =>
          /\ Counted(q[Dst[e]], e, queued[e])
          /\ put[e] + Once(Sealed(e)) =
                Received(e) + queued[e] + InHand(e) + Len(pending[e]) + Once(e \in ended)

\* A loop that closes ends the feedback edges itself, before their senders do.
Flows(e) == Feedback(e) => ~closed
Shut(n) == done[n] => q[n] = <<>>

\* A node that stopped reading without ctx.stop() has read every input to its end
\* and given every credit back.
Finishes(n) ==
    mode[n] = "closing" /\ ~stopped[n] =>
        \A e \in Edges : Dst[e] = n =>
            /\ e \in ended /\ kept[e] = <<>> /\ batch[n].items = <<>>
            /\ ~Feedback(e) => credits[e] = Capacity[e]

Stream == /\ \A n \in Nodes : Tidy(n) /\ Shut(n) /\ Closes(n) /\ Finishes(n)
          /\ \A e \in Edges : Flows(e) => Seals(e) /\ Conserves(e)
          /\ ~closed => \A n \in Nodes : Queue(n) /\ pc[n] # "tell"
          /\ main = "over" => \A n \in Nodes : pc[n] = "end"

StreamInv == WakeInv /\ (LoopFree => Untied) /\ (~cancelled => Stream)
-----------------------------------------------------------------------------
(* What each step touches.                                                 *)

LEMMA MoreShapes ==
    ASSUME TypeOK
    PROVE  /\ mode \in [Nodes -> {"body", "closing"}] /\ plan \in [Nodes -> Seq(Commands)]
           /\ pending \in [Edges -> Seq(Nat)] /\ queued \in [Edges -> Int]
           /\ batch \in [Nodes -> Entry] /\ kept \in [Edges -> Seq(Nat)] /\ ended \subseteq Edges
           /\ rel \in [Nodes -> [edge : Edges, n : Nat]] /\ taken \in [Nodes -> Seq(Nat)]
           /\ put \in [Edges -> Nat] /\ got \in [Edges -> Nat]
           /\ stopped \in [Nodes -> BOOLEAN] /\ owes \in [Nodes -> BOOLEAN]
  BY DEF TypeOK, ThreadsTyped, EdgesTyped, ReceiversTyped, LoopTyped, CodeTyped, Items

LEMMA EdgeCounts ==
    ASSUME TypeOK, NEW e \in Edges
    PROVE  /\ Src[e] \in Nodes /\ Dst[e] \in Nodes
           /\ put[e] \in Nat /\ queued[e] \in Int /\ got[e] \in Nat
           /\ Len(pending[e]) \in Nat /\ Len(kept[e]) \in Nat
           /\ InHand(e) \in Nat /\ Received(e) \in Nat
           /\ CountOf(batch[Dst[e]], e) \in Nat
  <1>1. Src[e] \in Nodes /\ Dst[e] \in Nodes
    BY GraphType
  <1>2. hand[Src[e]] \in Entry /\ batch[Dst[e]] \in Entry
    BY <1>1, Shapes, MoreShapes
  <1>3. Len(pending[e]) \in Nat /\ Len(kept[e]) \in Nat
    BY MoreShapes
  <1>4. CountOf(hand[Src[e]], e) \in Nat /\ CountOf(batch[Dst[e]], e) \in Nat
    BY <1>2, CountOfType
  <1>5. put[e] \in Nat /\ queued[e] \in Int /\ got[e] \in Nat
    BY MoreShapes
  <1>6. Received(e) \in Nat
    <2> DEFINE c == CountOf(batch[Dst[e]], e)
    <2>1. c \in Nat /\ Received(e) = got[e] + Len(kept[e]) + c
      BY <1>4 DEF Received
    <2> HIDE DEF c
    <2> QED
      BY <1>3, <1>5, <2>1
  <1> QED
    BY <1>1, <1>3, <1>4, <1>5, <1>6 DEF InHand

\* A step of the run that keeps it from being cancelled, and those of the loop.
Steps(n) ==
    \/ Start(n) \/ Produce(n) \/ Process(n) \/ Return(n) \/ Doze(n)
    \/ Mark(n) \/ WakeProducer(n) \/ End(n)
    \/ Buffer(n) \/ Skip(n) \/ Prepare(n) \/ Claim(n) \/ ClaimAny(n) \/ Block(n) \/ Push(n)
    \/ TakeKept(n) \/ Drain(n) \/ NextOfBatch(n) \/ Pop(n) \/ FlushFirst(n) \/ Await(n)
    \/ Release(n)

LoopSteps(n) == LoopDone(n) \/ ExternalEnded(n) \/ Tell(n)

LEMMA OnlySteps ==
    ASSUME WakeInv, NEW n \in Nodes, ~cancelled',
           Emits(n) \/ Receives(n) \/ Runs(n)
    PROVE  (Steps(n) \/ LoopSteps(n)) /\ ~cancelled
  <1>2. ~Unwind(n) /\ ~Fail(n)
    BY DEF Unwind, Fail, runVars
  <1>3. ~CancelStep(n) /\ ~CancelReturns(n)
    <2>1. CancelStep(n) \/ CancelReturns(n) => cancelled
      BY DEF CancelStep, CancelReturns, WakeInv, NoCancelYet
    <2> QED
      BY <2>1 DEF CancelStep, CancelReturns, runVars
  <1>4. Steps(n) \/ LoopSteps(n)
    BY <1>2, <1>3 DEF Emits, Receives, Runs, Steps, LoopSteps
  <1>5. cancelled' = cancelled
    <2>0. CASE LoopSteps(n)
      BY <2>0 DEF LoopSteps, LoopDone, ExternalEnded, Tell, runVars
    <2>1. CASE \/ Start(n) \/ Produce(n) \/ Process(n) \/ Return(n) \/ Doze(n)
               \/ Mark(n) \/ WakeProducer(n) \/ End(n)
      BY <2>1 DEF Start, Produce, Process, Return, Doze, Mark, WakeProducer, End, runVars
    <2>2. CASE \/ Buffer(n) \/ Skip(n) \/ Prepare(n) \/ Claim(n) \/ ClaimAny(n) \/ Block(n)
               \/ Push(n)
      BY <2>2 DEF Buffer, Skip, Prepare, Claim, ClaimAny, Claimed, Block, Push, runVars
    <2>3. CASE \/ TakeKept(n) \/ Drain(n) \/ NextOfBatch(n) \/ Pop(n) \/ FlushFirst(n)
               \/ Await(n) \/ Release(n)
      BY <2>3 DEF TakeKept, Drain, NextOfBatch, Pop, FlushFirst, Await, Release, runVars
    <2> QED
      BY <1>4, <2>0, <2>1, <2>2, <2>3 DEF Steps
  <1> QED
    BY <1>4, <1>5

\* A step of n touches only its own thread.
LEMMA Local ==
    ASSUME TypeOK, NEW n \in Nodes, Steps(n), NEW m \in Nodes, m # n
    PROVE  /\ pc'[m] = pc[m] /\ mode'[m] = mode[m] /\ plan'[m] = plan[m]
           /\ hand'[m] = hand[m] /\ batch'[m] = batch[m] /\ owes'[m] = owes[m]
           /\ stopped'[m] = stopped[m] /\ done'[m] = done[m]
  <1>1. CASE Start(n) \/ Return(n) \/ Doze(n) \/ WakeProducer(n) \/ End(n) \/ Skip(n) \/ FlushFirst(n) \/ Await(n)
    BY <1>1, Shapes, MoreShapes DEF Start, Return, Doze, WakeProducer, End, Skip, FlushFirst, Await,
        edgeVars, receiveVars, loopVars, codeVars
  <1>2. CASE Produce(n) \/ Process(n) \/ Mark(n)
    BY <1>2, Shapes, MoreShapes DEF Produce, Process, Mark, receiveVars, loopVars, codeVars
  <1>3. CASE Buffer(n) \/ Prepare(n) \/ Push(n)
    BY <1>3, Shapes, MoreShapes DEF Buffer, Prepare, Push, CountSent, receiveVars, loopVars, codeVars
  <1>4. CASE Claim(n) \/ ClaimAny(n) \/ Block(n)
    BY <1>4, Shapes, MoreShapes DEF Claim, ClaimAny, Claimed, Block, CountSent, receiveVars, loopVars, codeVars
  <1>5. CASE TakeKept(n) \/ Drain(n) \/ NextOfBatch(n)
    <2>1. UNCHANGED <<mode, plan, hand, stopped, done>>
      BY <1>5 DEF TakeKept, Drain, NextOfBatch, edgeVars
    <2>2. pc'[m] = pc[m]
      BY <1>5, Shapes DEF TakeKept, Drain, NextOfBatch, Unpack
    <2>3. batch'[m] = batch[m]
      BY <1>5, MoreShapes DEF TakeKept, Drain, NextOfBatch, Unpack
    <2>4. owes'[m] = owes[m]
      BY <1>5, MoreShapes DEF TakeKept, Drain, NextOfBatch, Unpack, loopVars
    <2> QED
      BY <2>1, <2>2, <2>3, <2>4
  <1>6. CASE Pop(n)
    <2>1. UNCHANGED <<mode, plan, hand, stopped, done>>
      BY <1>6 DEF Pop
    <2>2. pc'[m] = pc[m]
      BY <1>6, Shapes DEF Pop, Unpack
    <2>3. batch'[m] = batch[m]
      BY <1>6, MoreShapes DEF Pop, Unpack
    <2>4. owes'[m] = owes[m]
      BY <1>6, MoreShapes DEF Pop, Unpack, loopVars
    <2> QED
      BY <2>1, <2>2, <2>3, <2>4
  <1>7. CASE Release(n)
    BY <1>7, Shapes, MoreShapes DEF Release, loopVars, codeVars
  <1> QED
    BY <1>1, <1>2, <1>3, <1>4, <1>5, <1>6, <1>7 DEF Steps

\* The sends of node code are puts.
LEMMA SendsPut ==
    ASSUME NEW n \in Nodes, NEW k, NEW s \in Sends(n, k), NEW i \in DOMAIN s
    PROVE  s[i].op \in {"put", "any"}
  <1> DEFINE L == Len(Out[n])
             To(j) == Cmd("put", Out[n][j])
             Round(m) == [j \in 1..(k * m) |-> To(((j - 1) % m) + 1)]
  <1>1. CASE Policy[n] = "round_robin"
    <2>1. s = [j \in 1..k |-> To(((rr[n] + j - 1) % L) + 1)]
      BY <1>1 DEF Sends
    <2> QED
      BY <2>1 DEF Cmd
  <1>2. CASE Policy[n] = "broadcast"
    <2>1. s = Round(L)
      BY <1>2 DEF Sends
    <2> QED
      BY <2>1 DEF Cmd
  <1>3. CASE Policy[n] = "scatter"
    <2>1. PICK m \in 1..L : s = Round(m)
      BY <1>3 DEF Sends
    <2> QED
      BY <2>1 DEF Cmd
  <1>4. CASE Policy[n] = "key"
    <2>1. PICK f \in [1..k -> 1..L] : s = [j \in 1..k |-> To(f[j])]
      BY <1>4 DEF Sends
    <2> QED
      BY <2>1 DEF Cmd
  <1>5. CASE Policy[n] = "on_demand"
    <2>1. s = [j \in 1..k |-> Cmd("any", NoEntry.edge)]
      BY <1>5 DEF Sends
    <2> QED
      BY <2>1 DEF Cmd
  <1> QED
    BY <1>1, <1>2, <1>3, <1>4, <1>5, SizeType DEF Policies

LEMMA FeedsPut ==
    ASSUME NEW n \in Nodes, NEW feed \in Feeds(n), NEW i \in DOMAIN feed
    PROVE  feed[i].op = "put"
  BY DEF Feeds, Cmd

LEMMA TailOf ==
    ASSUME NEW S, NEW s \in Seq(S), s # <<>>
    PROVE  /\ DOMAIN s = 1..Len(s) /\ Len(s) \in Nat /\ Len(s) > 0 /\ Head(s) = s[1]
           /\ Tail(s) \in Seq(S) /\ Len(Tail(s)) = Len(s) - 1
           /\ DOMAIN Tail(s) = 1..(Len(s) - 1)
           /\ \A i \in 1..(Len(s) - 1) : Tail(s)[i] = s[i + 1]
  <1>1. Len(s) \in Nat \ {0} /\ DOMAIN s = 1..Len(s)
    BY EmptySeq
  <1>2. Tail(s) \in Seq(S) /\ Len(Tail(s)) = Len(s) - 1
    BY HeadTailProperties
  <1>3. \A i \in 1..(Len(s) - 1) : Tail(s)[i] = s[i + 1]
    BY <1>1
  <1>4. DOMAIN Tail(s) = 1..(Len(s) - 1)
    BY <1>2
  <1> QED
    BY <1>1, <1>2, <1>3, <1>4

LEMMA TailElements ==
    ASSUME NEW S, NEW s \in Seq(S), s # <<>>, NEW i \in DOMAIN Tail(s)
    PROVE  i \in Nat /\ i + 1 \in DOMAIN s /\ Tail(s)[i] = s[i + 1]
  BY TailOf

\* Only an end of stream or a flush is left to a node that closes.
LEMMA ClosingSends ==
    ASSUME TypeOK, NEW n \in Nodes, Tidy(n), plan[n] # <<>>,
           mode[n] = "closing" => Shuts(plan[n])
    PROVE  /\ mode[n] = "closing" => HeadOp(n) \in {"flush", "eos"}
           /\ mode[n] = "body" => HeadOp(n) # "eos"
  <1>1. 1 \in DOMAIN plan[n] /\ Head(plan[n]) = plan[n][1]
    BY MoreShapes, TailOf
  <1> QED
    BY <1>1 DEF Tidy, Shuts, HeadOp
-----------------------------------------------------------------------------
(* A thread stays tidy.                                                    *)

LEMMA TidyStep ==
    ASSUME TypeOK, NEW n \in Nodes, Tidy(n), Steps(n),
           mode[n] = "closing" => Shuts(plan[n])
    PROVE  Tidy(n)'
  <1>1. TypeOK
    OBVIOUS
  <1>2. CASE \/ Start(n) \/ Doze(n) \/ WakeProducer(n) \/ End(n) \/ Await(n) \/ Claim(n)
             \/ Block(n)
    <2>1. /\ mode' = mode /\ plan' = plan /\ hand' = hand /\ owes' = owes /\ done' = done
          /\ \A m \in Nodes \ {n} : pc'[m] = pc[m]
      BY <1>1, <1>2, Shapes DEF Start, Doze, WakeProducer, End, Await, Claim, Claimed, Block,
         edgeVars, loopVars, Tidy
    <2>2. CASE Start(n)
      BY <1>1, <2>1, <2>2, Shapes DEF Start, Tidy
    <2>3. CASE Doze(n) \/ WakeProducer(n)
      BY <1>1, <2>1, <2>3 DEF Doze, WakeProducer, Tidy
    <2>4. CASE End(n)
      BY <1>1, <2>1, <2>4, Shapes DEF End, Tidy
    <2>5. CASE Await(n)
      BY <1>1, <2>1, <2>5, Shapes DEF Await, Tidy, Popping, Asking, Free, Coding
    <2>6. CASE Claim(n)
      BY <1>1, <2>1, <2>6, Shapes DEF Claim, Claimed, Claiming, Tidy
    <2>7. CASE Block(n)
      BY <1>1, <2>1, <2>7, Shapes DEF Block, Tidy
    <2> QED
      BY <1>2, <2>2, <2>3, <2>4, <2>5, <2>6, <2>7
  <1>3. CASE Produce(n) \/ Process(n) \/ FlushFirst(n)
    <2>1. /\ pc' = pc /\ mode' = mode /\ hand' = hand /\ owes' = owes /\ done' = done
          /\ mode[n] = "body"
      BY <1>3 DEF Produce, Process, FlushFirst, receiveVars, edgeVars, loopVars, Making, Popping,
         Asking, Free, Coding
    <2>2. ASSUME NEW i \in DOMAIN plan'[n]  PROVE plan'[n][i].op # "eos"
      <3>1. CASE Produce(n)
        <4>1. PICK s \in Sends(n, 1) : plan'[n] = s
          BY <1>1, <3>1, MoreShapes DEF Produce
        <4> QED
          BY <2>2, <4>1, SendsPut
      <3>2. CASE Process(n)
        <4>0. PICK k \in Fanout[n], feed \in Feeds(n) :
                 \E s \in Sends(n, k) : plan' = [plan EXCEPT ![n] = s \o feed]
          BY <3>2 DEF Process
        <4>1. PICK s \in Sends(n, k) : plan'[n] = s \o feed
          BY <1>1, <4>0, MoreShapes
        <4>2. feed \in Seq(CommandsOf(n)) /\ \A j \in DOMAIN feed : feed[j].op = "put"
          BY <4>0, FeedsType, FeedsPut
        <4>3. k \in Nat /\ (Out[n] = <<>> => k = 0) /\ rr[n] \in Nat
          BY <1>1, SizeType, NoOutput DEF TypeOK, EdgesTyped
        <4>4. s \in Seq(CommandsOf(n))
          BY <4>3, SendsType
        <4> DEFINE p == s \o feed
        <4>5. /\ p \in Seq(CommandsOf(n)) /\ Len(p) = Len(s) + Len(feed)
              /\ \A j \in 1..(Len(s) + Len(feed)) :
                    p[j] = IF j <= Len(s) THEN s[j] ELSE feed[j - Len(s)]
          BY <4>2, <4>4, ConcatProperties
        <4> HIDE DEF p
        <4>6. i \in 1..(Len(s) + Len(feed)) /\ Len(s) \in Nat /\ Len(feed) \in Nat
          BY <2>2, <4>1, <4>2, <4>4, <4>5 DEF p
        <4>7. CASE i <= Len(s)
          <5>1. i \in DOMAIN s /\ p[i] = s[i]
            BY <4>4, <4>5, <4>6, <4>7
          <5>2. s[i].op # "eos"
            BY <5>1, SendsPut
          <5> QED
            BY <4>1, <5>1, <5>2 DEF p
        <4>8. CASE ~(i <= Len(s))
          <5>1. i - Len(s) \in DOMAIN feed /\ p[i] = feed[i - Len(s)]
            BY <4>2, <4>5, <4>6, <4>8
          <5>2. feed[i - Len(s)].op = "put"
            BY <4>2, <5>1
          <5> QED
            BY <4>1, <5>1, <5>2 DEF p
        <4> QED
          BY <4>7, <4>8
      <3>3. CASE FlushFirst(n)
        <4>1. plan'[n] = FlushPlan(n)
          BY <1>1, <3>3, MoreShapes DEF FlushFirst
        <4> QED
          BY <2>2, <4>1 DEF FlushPlan, Cmd
      <3> QED
        BY <1>3, <3>1, <3>2, <3>3
    <2> QED
      BY <2>1, <2>2 DEF Tidy
  <1>4. CASE Return(n)
    <2>1. pc' = pc /\ hand' = hand /\ owes' = owes /\ done' = done /\ pc[n] = "run"
          /\ mode'[n] = "closing"
      BY <1>1, <1>4, MoreShapes DEF Return, Free, Coding, edgeVars, loopVars
    <2> QED
      BY <2>1 DEF Tidy
  <1>5. ASSUME plan'[n] = Tail(plan[n]), plan[n] # <<>>, mode' = mode
        PROVE  mode'[n] = "body" => \A i \in DOMAIN plan'[n] : plan'[n][i].op # "eos"
    <2>1. ASSUME NEW i \in DOMAIN plan'[n]  PROVE i + 1 \in DOMAIN plan[n] /\ plan'[n][i] = plan[n][i + 1]
      BY <1>1, <1>5, MoreShapes, TailElements
    <2> QED
      BY <1>5, <2>1 DEF Tidy
  <1>6. CASE Skip(n) \/ Buffer(n)
    <2>1. /\ pc' = pc /\ mode' = mode /\ hand' = hand /\ owes' = owes /\ done' = done
          /\ plan'[n] = Tail(plan[n]) /\ plan[n] # <<>>
      BY <1>1, <1>6, MoreShapes DEF Skip, Buffer, CountSent, Sending, edgeVars, loopVars
    <2> QED
      BY <1>5, <2>1 DEF Tidy
  <1>7. CASE Prepare(n)
    <2>1. /\ mode' = mode /\ owes' = owes /\ done' = done /\ pc[n] = "run" /\ pc'[n] = "credit"
          /\ plan'[n] = Tail(plan[n]) /\ plan[n] # <<>>
      BY <1>1, <1>7, Shapes, MoreShapes DEF Prepare, CountSent, Sending, loopVars
    <2>2. hand'[n].items = <<>> => HeadOp(n) \notin {"flush", "eos"}
      <3>1. hand'[n] = CASE HeadOp(n) = "put"   -> [edge |-> HeadEdge(n), items |-> Append(pending[HeadEdge(n)], put[HeadEdge(n)] + 1)]
                         [] HeadOp(n) = "flush" -> [edge |-> HeadEdge(n), items |-> pending[HeadEdge(n)]]
                         [] HeadOp(n) = "eos"   -> [edge |-> HeadEdge(n), items |-> <<EOS>>]
                         [] HeadOp(n) = "any"   -> NoEntry
        BY <1>1, <1>7, Shapes DEF Prepare
      <3>2. HeadOp(n) = "flush" => hand'[n].items = pending[HeadEdge(n)] /\ pending[HeadEdge(n)] # <<>>
        BY <1>7, <3>1 DEF Prepare
      <3>3. HeadOp(n) = "eos" => hand'[n].items = <<EOS>>
        BY <3>1
      <3> QED
        BY <3>2, <3>3
    <2>3. hand'[n].items = <<>> => mode[n] = "body"
      BY <1>1, <2>1, <2>2, ClosingSends, MoreShapes
    <2> QED
      BY <1>5, <2>1, <2>3 DEF Tidy
  <1>8. CASE ClaimAny(n)
    <2>1. /\ mode' = mode /\ plan' = plan /\ owes' = owes /\ done' = done
          /\ pc[n] \in {"credit", "park_out"} /\ pc'[n] = "push"
      BY <1>1, <1>8, Shapes DEF ClaimAny, Claiming, Claimed, CountSent
    <2> QED
      BY <2>1 DEF Tidy
  <1>9. CASE Push(n)
    <2>1. /\ mode' = mode /\ plan' = plan /\ owes' = owes /\ done' = done
          /\ pc[n] = "push" /\ pc'[n] = "run" /\ hand'[n].items = <<>>
      BY <1>1, <1>9, Shapes, NoEntryIsEntry DEF Push, loopVars
    <2> QED
      BY <2>1 DEF Tidy
  <1>10. CASE Mark(n)
    <2>1. /\ mode' = mode /\ plan' = plan /\ owes' = owes /\ hand' = hand
          /\ pc[n] = "run" /\ pc'[n] = "wake" /\ mode[n] = "closing"
      BY <1>1, <1>10, Shapes DEF Mark, loopVars
    <2> QED
      BY <2>1 DEF Tidy
  <1>11. CASE TakeKept(n) \/ Drain(n) \/ NextOfBatch(n) \/ Pop(n)
    <2>1. /\ mode' = mode /\ plan' = plan /\ hand' = hand /\ done' = done
      BY <1>11 DEF TakeKept, Drain, NextOfBatch, Pop, edgeVars
    <2>2. mode[n] = "body" /\ pc[n] \in {"run", "park_in"}
      BY <1>1, <1>11, MoreShapes DEF TakeKept, Drain, NextOfBatch, Pop, Popping, Asking, Free, Coding, Tidy
    <2>3. pc'[n] \in {"run", "release"}
      BY <1>1, <1>11, Shapes DEF TakeKept, Drain, NextOfBatch, Pop, Unpack
    <2> QED
      BY <2>1, <2>2, <2>3 DEF Tidy
  <1>12. CASE Release(n)
    <2>1. /\ mode' = mode /\ plan' = plan /\ owes' = owes /\ hand' = hand /\ done' = done
          /\ pc[n] = "release"
      BY <1>12 DEF Release, loopVars
    <2>2. pc'[n] \in {"run", "external"}
      BY <1>1, <1>12, Shapes DEF Release
    <2> QED
      BY <2>1, <2>2 DEF Tidy
  <1> QED
    BY <1>2, <1>3, <1>4, <1>6, <1>7, <1>8, <1>9, <1>10, <1>11, <1>12 DEF Steps

\* Entries come from an edge, and none comes to a receiver that is done.
LEMMA QueueStep1 ==
    ASSUME TypeOK, NEW n \in Nodes, Steps(n), \A m \in Nodes : Queue(m), NEW m \in Nodes
    PROVE  Queue(m)'
  <1>1. ASSUME q'[m] = q[m], done'[m] = done[m]  PROVE Queue(m)'
    BY <1>1 DEF Queue
  <1>2. ASSUME NEW b \in Entry, q'[m] = Append(q[m], b), ~done'[m]  PROVE Queue(m)'
    <2>1. q[m] \in Seq(Queued) /\ DOMAIN q[m] = 1..Len(q[m]) /\ Len(q[m]) \in Nat
      BY Shapes
    <2>2. DOMAIN q'[m] = 1..(Len(q[m]) + 1) /\ q'[m][Len(q[m]) + 1] = b
          /\ \A i \in 1..Len(q[m]) : q'[m][i] = q[m][i]
      BY <1>2, <2>1, AppendProperties
    <2>3. ASSUME NEW i \in DOMAIN q'[m]  PROVE q'[m][i] \in Entry
      <3>1. i = Len(q[m]) + 1 \/ i \in 1..Len(q[m])
        BY <2>1, <2>2
      <3> QED
        BY <2>1, <2>2, <3>1 DEF Queue
    <2> QED
      BY <1>2, <2>3 DEF Queue
  <1>3. CASE Push(n)
    <2>1. done' = done /\ hand[n] \in Entry
      BY <1>3, Shapes DEF Push
    <2>2. CASE done[Dst[hand[n].edge]] \/ m # Dst[hand[n].edge]
      BY <1>1, <1>3, <2>1, <2>2, Shapes DEF Push
    <2>3. CASE ~done[Dst[hand[n].edge]] /\ m = Dst[hand[n].edge]
      <3>1. q'[m] = Append(q[m], hand[n])
        BY <1>3, <2>3, Shapes DEF Push
      <3> QED
        BY <1>2, <2>1, <2>3, <3>1
    <2> QED
      BY <2>2, <2>3
  <1>4. CASE Block(n)
    <2> DEFINE New == {e \in {e \in Flushable(n) : ~done[Dst[e]]} : Dst[e] = m}
    <2>1. /\ done' = done
          /\ q'[m] = IF New = {} THEN q[m]
                     ELSE Append(q[m], [edge |-> CHOOSE e \in New : TRUE,
                                        items |-> pending[CHOOSE e \in New : TRUE]])
      BY <1>4 DEF Block
    <2>2. CASE New = {}
      BY <1>1, <2>1, <2>2
    <2>3. CASE New # {}
      <3>1. PICK e \in New : e = CHOOSE d \in New : TRUE
        BY <2>3
      <3>2. e \in Edges /\ ~done[m]
        BY <3>1 DEF Flushable
      <3>3. [edge |-> e, items |-> pending[e]] \in Entry
        BY <3>2, MoreShapes DEF Entry, Items
      <3>4. q'[m] = Append(q[m], [edge |-> e, items |-> pending[e]])
        BY <2>1, <2>3, <3>1
      <3> QED
        BY <1>2, <2>1, <3>2, <3>3, <3>4
    <2> QED
      BY <2>2, <2>3
  <1>5. CASE Pop(n)
    <2>1. done' = done /\ q[n] # <<>> /\ q' = [q EXCEPT ![n] = Tail(q[n])]
      BY <1>5 DEF Pop
    <2>2. CASE m # n
      BY <1>1, <2>1, <2>2
    <2>3. CASE m = n
      <3>1. q'[n] = Tail(q[n]) /\ ~done[n] /\ q[n] \in Seq(Queued)
        BY <2>1, Shapes DEF Queue
      <3>2. ASSUME NEW i \in DOMAIN q'[n]  PROVE q'[n][i] \in Entry
        BY <2>1, <3>1, TailElements DEF Queue
      <3> QED
        BY <2>1, <2>3, <3>1, <3>2 DEF Queue
    <2> QED
      BY <2>2, <2>3
  <1>6. CASE Mark(n)
    <2>1. q' = [q EXCEPT ![n] = <<>>] /\ done' = [done EXCEPT ![n] = TRUE]
      BY <1>6 DEF Mark
    <2>2. CASE m # n
      BY <1>1, <2>1, <2>2
    <2>3. CASE m = n
      <3>1. q'[n] = <<>>
        BY <2>1, Shapes
      <3> QED
        BY <2>3, <3>1 DEF Queue
    <2> QED
      BY <2>2, <2>3
  <1>7. CASE \/ Start(n) \/ Produce(n) \/ Process(n) \/ Return(n) \/ Doze(n)
             \/ WakeProducer(n) \/ End(n)
    BY <1>1, <1>7 DEF Start, Produce, Process, Return, Doze, WakeProducer, End, edgeVars
  <1>8. CASE Buffer(n) \/ Skip(n) \/ Prepare(n) \/ Claim(n) \/ ClaimAny(n)
    BY <1>1, <1>8 DEF Buffer, Skip, Prepare, Claim, ClaimAny, Claimed, edgeVars
  <1>9. CASE \/ TakeKept(n) \/ Drain(n) \/ NextOfBatch(n) \/ FlushFirst(n) \/ Await(n)
             \/ Release(n)
    BY <1>1, <1>9 DEF TakeKept, Drain, NextOfBatch, FlushFirst, Await, Release, edgeVars
  <1> QED
    BY <1>3, <1>4, <1>5, <1>6, <1>7, <1>8, <1>9 DEF Steps
-----------------------------------------------------------------------------
(* What the two ends of an edge see of a step.                             *)

SenderSame(e) == /\ mode'[Src[e]] = mode[Src[e]] /\ plan'[Src[e]] = plan[Src[e]]
                 /\ hand'[Src[e]] = hand[Src[e]]
                 /\ pending'[e] = pending[e] /\ put'[e] = put[e]
ReceiverSame(e) == /\ q'[Dst[e]] = q[Dst[e]] /\ queued'[e] = queued[e]
                   /\ batch'[Dst[e]] = batch[Dst[e]] /\ kept'[e] = kept[e] /\ got'[e] = got[e]
                   /\ (e \in ended' <=> e \in ended) /\ done'[Dst[e]] = done[Dst[e]]

LEMMA SenderKept ==
    ASSUME NEW e \in Edges, SenderSame(e)
    PROVE  /\ Sealed(e)' = Sealed(e) /\ HandOn(e)' = HandOn(e) /\ HoldsEnd(e)' = HoldsEnd(e)
           /\ InHand(e)' = InHand(e)
           /\ Seals(e) => Seals(e)'
  <1>1. /\ Sealed(e)' = Sealed(e) /\ HandOn(e)' = HandOn(e) /\ HoldsEnd(e)' = HoldsEnd(e)
        /\ InHand(e)' = InHand(e)
    BY DEF SenderSame, Sealed, HandOn, HoldsEnd, EndsEdge, InHand, CountOf
  <1> QED
    BY <1>1 DEF SenderSame, Seals

LEMMA ReceiverKept ==
    ASSUME NEW e \in Edges, ReceiverSame(e)
    PROVE  /\ EndQueued(e)' = EndQueued(e) /\ Received(e)' = Received(e)
           /\ Counted(q[Dst[e]], e, queued[e]) => Counted(q'[Dst[e]], e, queued'[e])
           /\ CountOf(batch[Dst[e]], e)' = CountOf(batch[Dst[e]], e)
           /\ Once(e \in ended)' = Once(e \in ended)
  BY DEF ReceiverSame, EndQueued, Received, CountOf, Once

\* What e owes its receiver: sent or sealed, and not yet on its way to the queue.
Outgoing(e) == put[e] + Once(Sealed(e)) - InHand(e) - Len(pending[e])

\* A step of the sending node, and one that moves nothing.
LEMMA SenderConserves ==
    ASSUME TypeOK, TypeOK', NEW e \in Edges, Conserves(e), ReceiverSame(e),
           Outgoing(e)' = Outgoing(e),
           EndQueued(e) \/ e \in ended => Sealed(e)' /\ ~HandOn(e)' /\ put'[e] = put[e]
    PROVE  Conserves(e)'
  <1>1. /\ EndQueued(e)' = EndQueued(e) /\ Received(e)' = Received(e)
        /\ Counted(q[Dst[e]], e, queued[e]) => Counted(q'[Dst[e]], e, queued'[e])
        /\ CountOf(batch[Dst[e]], e)' = CountOf(batch[Dst[e]], e)
        /\ Once(e \in ended)' = Once(e \in ended)
    BY ReceiverKept
  <1>2. (e \in ended' <=> e \in ended) /\ done'[Dst[e]] = done[Dst[e]] /\ queued'[e] = queued[e]
    BY DEF ReceiverSame
  <1>3. ASSUME ~done[Dst[e]]
        PROVE  put'[e] + Once(Sealed(e)') = Received(e)' + queued'[e] + InHand(e)' + Len(pending'[e])
                                            + Once(e \in ended)'
    <2>1. put[e] + Once(Sealed(e)) = Received(e) + queued[e] + InHand(e) + Len(pending[e])
                                            + Once(e \in ended)
      BY <1>3 DEF Conserves
    <2>2. /\ put[e] \in Int /\ queued[e] \in Int /\ InHand(e) \in Int /\ Len(pending[e]) \in Int
          /\ Received(e) \in Int /\ Once(Sealed(e)) \in Int /\ Once(e \in ended) \in Int
      BY EdgeCounts DEF Once
    <2>3. put'[e] \in Int /\ InHand(e)' \in Int /\ Len(pending'[e]) \in Int /\ Once(Sealed(e)') \in Int
      <3>1. hand'[Src[e]] \in Entry
        BY GraphType DEF TypeOK, ThreadsTyped
      <3>2. InHand(e)' \in Nat
        BY <3>1, CountOfType DEF InHand
      <3>3. put'[e] \in Nat /\ Len(pending'[e]) \in Nat
        BY DEF TypeOK, EdgesTyped, CodeTyped, Items
      <3> QED
        BY <3>2, <3>3 DEF Once
    <2>4. put'[e] + Once(Sealed(e)') - InHand(e)' - Len(pending'[e])
            = put[e] + Once(Sealed(e)) - InHand(e) - Len(pending[e])
      BY DEF Outgoing, Once
    <2> DEFINE p == put[e]      s == Once(Sealed(e))     h == InHand(e)     l == Len(pending[e])
               p1 == put'[e]    s1 == Once(Sealed(e)')   h1 == InHand(e)'   l1 == Len(pending'[e])
               r == Received(e) k == queued[e]           d == Once(e \in ended)
    <2>5. p1 + s1 = r + k + h1 + l1 + d
      <3>1. p + s = r + k + h + l + d /\ p1 + s1 - h1 - l1 = p + s - h - l
        BY <2>1, <2>4
      <3>2. /\ p \in Int /\ s \in Int /\ h \in Int /\ l \in Int /\ r \in Int /\ k \in Int
            /\ d \in Int /\ p1 \in Int /\ s1 \in Int /\ h1 \in Int /\ l1 \in Int
        BY <2>2, <2>3
      <3> HIDE DEF p, s, h, l, p1, s1, h1, l1, r, k, d
      <3> QED
        BY <3>1, <3>2
    <2> QED
      BY <1>1, <1>2, <2>5
  <1> QED
    BY <1>1, <1>2, <1>3 DEF Conserves, Once
-----------------------------------------------------------------------------
(* The edges in each step.                                                 *)

LEMMA EdgeSame ==
    ASSUME TypeOK, TypeOK', NEW e \in Edges, Seals(e), Conserves(e),
           SenderSame(e), ReceiverSame(e)
    PROVE  Seals(e)' /\ Conserves(e)'
  <1>1. /\ Sealed(e)' = Sealed(e) /\ HandOn(e)' = HandOn(e) /\ InHand(e)' = InHand(e) /\ Seals(e)'
    BY SenderKept
  <1>2. pending'[e] = pending[e] /\ put'[e] = put[e]
    BY DEF SenderSame
  <1>3. Outgoing(e)' = Outgoing(e)
    BY <1>1, <1>2 DEF Outgoing, Once
  <1>4. EndQueued(e) \/ e \in ended => Sealed(e)' /\ ~HandOn(e)' /\ put'[e] = put[e]
    BY <1>1, <1>2 DEF Conserves
  <1> QED
    BY <1>1, <1>3, <1>4, SenderConserves

LEMMA StillSteps ==
    ASSUME TypeOK, TypeOK', NEW n \in Nodes, NEW e \in Edges, Seals(e), Conserves(e),
           \/ Start(n) \/ Doze(n) \/ WakeProducer(n) \/ End(n) \/ Claim(n) \/ Await(n)
           \/ Release(n)
    PROVE  Seals(e)' /\ Conserves(e)'
  <1>1. /\ mode' = mode /\ plan' = plan /\ hand' = hand /\ pending' = pending /\ put' = put
        /\ q' = q /\ queued' = queued /\ batch' = batch /\ kept' = kept /\ got' = got
        /\ ended' = ended /\ done' = done
    BY DEF Start, Doze, WakeProducer, End, Claim, Claimed, Await, Release, edgeVars,
       receiveVars, codeVars
  <1> QED
    BY <1>1, EdgeSame DEF SenderSame, ReceiverSame

LEMMA OutputOnce ==
    \A n \in Nodes : \A i, j \in DOMAIN All(n) : All(n)[i] = All(n)[j] => i = j
  BY GraphAssumption

\* close_all flushes all the outputs of n, then ends them all.
LEMMA ClosePlanShuts ==
    ASSUME NEW n \in Nodes
    PROVE  /\ Shuts(ClosePlan(n))
           /\ \A e \in Edges : Src[e] = n => Flushes(ClosePlan(n), e)
           /\ \A e \in Edges : Src[e] = n =>
                 \E i \in DOMAIN ClosePlan(n) : ClosePlan(n)[i] = Cmd("eos", e)
  <1> DEFINE L == Len(All(n))
             F == FlushPlan(n)
             E == EosPlan(n)
             p == ClosePlan(n)
  <1>1. All(n) \in Seq(Edges) /\ L \in Nat /\ DOMAIN All(n) = 1..L
    BY AllType
  <1>2. F \in [1..L -> CommandsOf(n)] /\ E \in [1..L -> CommandsOf(n)]
    BY <1>1, AllType, CommandType DEF FlushPlan, EosPlan, Ops
  <1>3. F \in Seq(CommandsOf(n)) /\ E \in Seq(CommandsOf(n)) /\ Len(F) = L /\ Len(E) = L
    BY <1>1, <1>2, FunctionIsSeq
  <1>4. /\ Len(p) = L + L
        /\ \A i \in 1..L : p[i] = F[i]
        /\ \A i \in (L + 1)..(L + L) : p[i] = E[i - L]
    <2>1. F \o E \in Seq(CommandsOf(n)) /\ Len(F \o E) = Len(F) + Len(E)
      BY <1>3, ConcatProperties
    <2>2. \A i \in 1..Len(F) + Len(E) : (F \o E)[i] = IF i <= Len(F) THEN F[i] ELSE E[i - Len(F)]
      BY <1>3, ConcatProperties
    <2>3. p = F \o E
      BY DEF ClosePlan
    <2> HIDE DEF F, E, p
    <2> QED
      BY <1>1, <1>3, <2>1, <2>2, <2>3
  <1>5. p \in Seq(CommandsOf(n)) /\ DOMAIN p = 1..(L + L)
    BY <1>3, <1>4, ClosePlanType
  <1>6. \A i \in 1..L : F[i] = Cmd("flush", All(n)[i]) /\ E[i] = Cmd("eos", All(n)[i])
    BY <1>1 DEF FlushPlan, EosPlan
  <1>7. /\ \A i \in 1..L : p[i] = Cmd("flush", All(n)[i])
        /\ \A i \in (L + 1)..(L + L) : i - L \in 1..L /\ p[i] = Cmd("eos", All(n)[i - L])
    BY <1>1, <1>4, <1>6
  <1> HIDE DEF p, F, E
  <1>8. \A i \in 1..(L + L) : i \in 1..L \/ i \in (L + 1)..(L + L)
    BY <1>1
  <1>11. ASSUME NEW i \in DOMAIN p
         PROVE  \/ i \in 1..L /\ p[i] = Cmd("flush", All(n)[i]) /\ p[i].op = "flush"
                \/ /\ i > L /\ i - L \in 1..L /\ p[i] = Cmd("eos", All(n)[i - L])
                   /\ p[i].op = "eos" /\ p[i].edge = All(n)[i - L]
    <2>1. CASE i \in 1..L
      <3>1. p[i] = Cmd("flush", All(n)[i])
        BY <1>7, <2>1
      <3> QED
        BY <2>1, <3>1 DEF Cmd
    <2>2. CASE i \in (L + 1)..(L + L)
      <3>1. i - L \in 1..L /\ p[i] = Cmd("eos", All(n)[i - L])
        BY <1>7, <2>2
      <3>2. i > L
        BY <1>1, <2>2
      <3> QED
        BY <3>1, <3>2 DEF Cmd
    <2> QED
      BY <1>5, <1>8, <2>1, <2>2
  <1>9. Shuts(p)
    <2>1. ASSUME NEW i \in DOMAIN p  PROVE p[i].op \in {"flush", "eos"}
      BY <1>11, <2>1
    <2>2. ASSUME NEW i \in DOMAIN p, NEW j \in DOMAIN p, p[i] = p[j], p[i].op = "eos"
          PROVE  i = j
      <3>1. i - L \in 1..L /\ p[i].edge = All(n)[i - L]
        BY <1>11, <2>2
      <3>2. j - L \in 1..L /\ p[j].edge = All(n)[j - L]
        BY <1>11, <2>2
      <3>3. i - L = j - L
        <4>1. \A a, b \in 1..L : All(n)[a] = All(n)[b] => a = b
          BY <1>1, OutputOnce
        <4>2. All(n)[i - L] = All(n)[j - L]
          BY <2>2, <3>1, <3>2
        <4> QED
          BY <3>1, <3>2, <4>1, <4>2
      <3>4. i \in Int /\ j \in Int
        BY <1>1, <1>5
      <3> QED
        BY <1>1, <3>3, <3>4
    <2> QED
      BY <2>1, <2>2 DEF Shuts
  <1>10. ASSUME NEW e \in Edges, Src[e] = n
         PROVE  Flushes(p, e) /\ \E i \in DOMAIN p : p[i] = Cmd("eos", e)
    <2>1. PICK i \in 1..L : All(n)[i] = e
      BY <1>1, <1>10, GraphAssumption
    <2>2. i \in DOMAIN p /\ i + L \in (L + 1)..(L + L) /\ i + L \in DOMAIN p /\ (i + L) - L = i
      BY <1>1, <1>5
    <2>3. p[i] = Cmd("flush", e) /\ p[i + L] = Cmd("eos", e)
      BY <1>7, <2>1, <2>2
    <2>4. ASSUME NEW j \in DOMAIN p, p[j].op = "eos"  PROVE i < j
      <3>1. j > L /\ j \in Int
        BY <1>1, <1>5, <1>11, <2>4
      <3> QED
        BY <1>1, <3>1
    <2> QED
      BY <2>2, <2>3, <2>4 DEF Flushes
  <1> QED
    BY <1>9, <1>10 DEF p

\* A plan that ends nothing leaves every output open.
LEMMA PlanSteps ==
    ASSUME TypeOK, TypeOK', NEW n \in Nodes, NEW e \in Edges, Tidy(n), Tidy(n)', Seals(e), Conserves(e),
           Produce(n) \/ Process(n) \/ FlushFirst(n) \/ Return(n)
    PROVE  Seals(e)' /\ Conserves(e)'
  <1>1. /\ hand' = hand /\ pending' = pending /\ put' = put
        /\ q' = q /\ queued' = queued /\ batch' = batch /\ kept' = kept /\ got' = got
        /\ ended' = ended /\ done' = done /\ mode[n] = "body"
    BY DEF Produce, Process, FlushFirst, Return, Making, Popping, Asking, Free, Coding,
       edgeVars, receiveVars, codeVars
  <1>2. \A m \in Nodes \ {n} : mode'[m] = mode[m] /\ plan'[m] = plan[m]
    BY MoreShapes DEF Produce, Process, FlushFirst, Return
  <1>3. CASE Src[e] # n
    <2>1. SenderSame(e) /\ ReceiverSame(e)
      BY <1>1, <1>2, <1>3, GraphType DEF SenderSame, ReceiverSame
    <2> QED
      BY <2>1, EdgeSame
  <1>4. CASE Src[e] = n
    <2>1. ~Sealed(e) /\ ~Sealed(e)'
      <3>1. CASE Produce(n) \/ Process(n) \/ FlushFirst(n)
        BY <1>1, <1>4, <3>1 DEF Produce, Process, FlushFirst, Sealed
      <3>2. CASE Return(n)
        <4>1. plan'[n] = ClosePlan(n)
          BY <3>2, MoreShapes DEF Return
        <4> QED
          BY <1>1, <1>4, <4>1, ClosePlanShuts DEF Sealed
      <3> QED
        BY <3>1, <3>2
    <2>2. ReceiverSame(e) /\ HandOn(e)' = HandOn(e) /\ HoldsEnd(e)' = HoldsEnd(e) /\ InHand(e)' = InHand(e)
      BY <1>1 DEF ReceiverSame, HandOn, HoldsEnd, EndsEdge, InHand, CountOf
    <2>3. Seals(e)'
      BY <1>1, <2>1, <2>2 DEF Seals
    <2>4. Outgoing(e)' = Outgoing(e)
      BY <1>1, <2>1, <2>2 DEF Outgoing, Once
    <2>5. ~(EndQueued(e) \/ e \in ended)
      BY <2>1 DEF Conserves
    <2> QED
      BY <2>2, <2>3, <2>4, <2>5, SenderConserves
  <1> QED
    BY <1>3, <1>4

\* A plan with its first send made.
LEMMA SealedTail ==
    ASSUME TypeOK, NEW e \in Edges, mode'[Src[e]] = mode[Src[e]], plan[Src[e]] # <<>>,
           plan'[Src[e]] = Tail(plan[Src[e]]), Closes(Src[e])
    PROVE  Sealed(e)' <=> Sealed(e) \/ (mode[Src[e]] = "closing" /\ Head(plan[Src[e]]) = Cmd("eos", e))
  <1> DEFINE n == Src[e]
             p == plan[n]
  <1>1. n \in Nodes /\ p \in Seq(Commands) /\ p # <<>>
    BY GraphType, MoreShapes
  <1>2. /\ DOMAIN p = 1..Len(p) /\ Len(p) \in Nat /\ Head(p) = p[1] /\ 1 \in DOMAIN p
        /\ DOMAIN Tail(p) = 1..(Len(p) - 1) /\ \A i \in 1..(Len(p) - 1) : Tail(p)[i] = p[i + 1]
    BY <1>1, TailOf
  <1>3. mode'[n] = mode[n] /\ plan'[n] = Tail(p) /\ Closes(n)
    OBVIOUS
  <1>4. Sealed(e) = (mode[n] = "closing" /\ \A i \in DOMAIN p : p[i] # Cmd("eos", e))
    BY DEF Sealed
  <1>5. Sealed(e)' = (mode[n] = "closing" /\ \A i \in DOMAIN Tail(p) : Tail(p)[i] # Cmd("eos", e))
    BY <1>3 DEF Sealed
  <1> HIDE DEF n, p
  <1>6. ASSUME Sealed(e)', Head(p) # Cmd("eos", e)  PROVE Sealed(e)
    <2>1. ASSUME NEW i \in DOMAIN p  PROVE p[i] # Cmd("eos", e)
      <3>1. CASE i = 1
        BY <1>2, <1>6, <3>1
      <3>2. CASE i # 1
        <4>1. i - 1 \in DOMAIN Tail(p) /\ Tail(p)[i - 1] = p[i]
          BY <1>2, <3>2
        <4> QED
          BY <1>5, <1>6, <4>1
      <3> QED
        BY <3>1, <3>2
    <2> QED
      BY <1>4, <1>5, <1>6, <2>1
  <1>7. ASSUME Sealed(e)  PROVE Sealed(e)'
    <2>1. ASSUME NEW i \in DOMAIN Tail(p)  PROVE Tail(p)[i] # Cmd("eos", e)
      <3>1. i + 1 \in DOMAIN p /\ Tail(p)[i] = p[i + 1]
        BY <1>2
      <3> QED
        BY <1>4, <1>7, <3>1
    <2> QED
      BY <1>4, <1>5, <1>7, <2>1
  <1>8. ASSUME mode[n] = "closing", Head(p) = Cmd("eos", e)  PROVE Sealed(e)'
    <2>1. Shuts(p)
      BY <1>3, <1>8 DEF Closes, p
    <2>2. ASSUME NEW i \in DOMAIN Tail(p)  PROVE Tail(p)[i] # Cmd("eos", e)
      <3>1. i + 1 \in DOMAIN p /\ Tail(p)[i] = p[i + 1] /\ i + 1 # 1 /\ 1 \in DOMAIN p /\ p[1] = Cmd("eos", e)
        BY <1>2, <1>8
      <3>2. p[1].op = "eos"
        BY <3>1 DEF Cmd
      <3>3. p[1] # p[i + 1]
        BY <2>1, <3>1, <3>2 DEF Shuts
      <3> QED
        BY <3>1, <3>3
    <2> QED
      BY <1>5, <1>8, <2>2
  <1>9. Sealed(e)' <=> Sealed(e) \/ (mode[n] = "closing" /\ Head(p) = Cmd("eos", e))
    BY <1>5, <1>6, <1>7, <1>8
  <1> QED
    BY <1>9 DEF n, p

LEMMA SkipSteps ==
    ASSUME TypeOK, TypeOK', NEW n \in Nodes, NEW e \in Edges, Closes(n), Seals(e), Conserves(e), Skip(n)
    PROVE  Seals(e)' /\ Conserves(e)'
  <1>1. /\ hand' = hand /\ pending' = pending /\ put' = put /\ mode' = mode
        /\ q' = q /\ queued' = queued /\ batch' = batch /\ kept' = kept /\ got' = got
        /\ ended' = ended /\ done' = done /\ plan' = [plan EXCEPT ![n] = Tail(plan[n])]
        /\ plan[n] # <<>> /\ Head(plan[n]).op = "flush"
    BY DEF Skip, Sending, HeadOp, edgeVars, receiveVars, codeVars
  <1>2. Sealed(e)' <=> Sealed(e)
    <2>1. CASE Src[e] = n
      <3>1. plan'[n] = Tail(plan[n]) /\ Head(plan[n]) # Cmd("eos", e)
        BY <1>1, MoreShapes DEF Cmd
      <3> QED
        BY <1>1, <2>1, <3>1, SealedTail
    <2>2. CASE Src[e] # n
      BY <1>1, <2>2, GraphType, MoreShapes DEF Sealed
    <2> QED
      BY <2>1, <2>2
  <1>3. ReceiverSame(e) /\ HandOn(e)' = HandOn(e) /\ HoldsEnd(e)' = HoldsEnd(e) /\ InHand(e)' = InHand(e)
    BY <1>1 DEF ReceiverSame, HandOn, HoldsEnd, EndsEdge, InHand, CountOf
  <1>4. Seals(e)'
    BY <1>1, <1>2, <1>3 DEF Seals
  <1>5. Outgoing(e)' = Outgoing(e)
    BY <1>1, <1>2, <1>3 DEF Outgoing, Once
  <1>6. EndQueued(e) \/ e \in ended => Sealed(e)' /\ ~HandOn(e)' /\ put'[e] = put[e]
    BY <1>1, <1>2, <1>3 DEF Conserves
  <1> QED
    BY <1>3, <1>4, <1>5, <1>6, SenderConserves

\* A put on an edge of n whose code is running.
LEMMA PutSteps ==
    ASSUME CreditInv, TypeOK', NEW n \in Nodes, NEW e \in Edges,
           Tidy(n), Closes(n), Seals(e), Conserves(e), Buffer(n)
    PROVE  Seals(e)' /\ Conserves(e)'
  <1>1. TypeOK
    BY DEF CreditInv
  <1> DEFINE d == HeadEdge(n)
  <1>2. /\ pc[n] = "run" /\ plan[n] # <<>> /\ HeadOp(n) = "put"
        /\ hand' = hand /\ mode' = mode /\ plan' = [plan EXCEPT ![n] = Tail(plan[n])]
        /\ put' = [put EXCEPT ![d] = put[d] + 1]
        /\ pending' = [pending EXCEPT ![d] = Append(pending[d], put[d] + 1)]
        /\ q' = q /\ queued' = queued /\ batch' = batch /\ kept' = kept /\ got' = got
        /\ ended' = ended /\ done' = done
    BY DEF Buffer, Sending, receiveVars
  <1>3. d \in Edges /\ Src[d] = n
    BY <1>1, <1>2, HeadWired, HeadType
  <1>4. mode[n] = "body"
    BY <1>1, <1>2, ClosingSends, MoreShapes DEF Closes
  <1>5. ReceiverSame(e) /\ HandOn(e)' = HandOn(e) /\ HoldsEnd(e)' = HoldsEnd(e) /\ InHand(e)' = InHand(e)
    BY <1>2 DEF ReceiverSame, HandOn, HoldsEnd, EndsEdge, InHand, CountOf
  <1>6. CASE Src[e] # n
    <2>1. SenderSame(e)
      BY <1>1, <1>2, <1>3, <1>6, GraphType, MoreShapes DEF SenderSame
    <2> QED
      BY <1>1, <1>5, <2>1, EdgeSame
  <1>7. CASE Src[e] = n
    <2>1. ~Sealed(e) /\ ~Sealed(e)'
      BY <1>2, <1>4, <1>7 DEF Sealed
    <2>2. put[e] \in Nat /\ pending[e] \in Seq(Nat)
      BY <1>1, MoreShapes
    <2>3. CASE e = d
      <3>1. put'[e] = put[e] + 1 /\ pending'[e] = Append(pending[e], put[e] + 1)
        BY <1>1, <1>2, <2>3, MoreShapes
      <3>2. Len(pending'[e]) = Len(pending[e]) + 1
        BY <2>2, <3>1
      <3>3. ASSUME NEW i \in DOMAIN pending'[e]  PROVE pending'[e][i] > 0
        <4>1. (i \in DOMAIN pending[e] /\ pending'[e][i] = pending[e][i]) \/ pending'[e][i] = put[e] + 1
          BY <2>2, <3>1, <3>3
        <4> QED
          BY <2>2, <4>1 DEF Seals
      <3>4. Seals(e)'
        BY <1>5, <2>1, <3>3 DEF Seals
      <3>5. Outgoing(e)' = Outgoing(e)
        <4>1. Once(Sealed(e)') = 0 /\ Once(Sealed(e)) = 0
          BY <2>1 DEF Once
        <4>2. InHand(e) \in Nat /\ Len(pending[e]) \in Nat
          BY <1>1, EdgeCounts
        <4>3. Outgoing(e)' = put'[e] + Once(Sealed(e)') - InHand(e)' - Len(pending'[e])
          BY DEF Outgoing, Once
        <4>4. Outgoing(e)' = (put[e] + 1) + 0 - InHand(e) - (Len(pending[e]) + 1)
          BY <1>5, <3>1, <3>2, <4>1, <4>3
        <4>5. Outgoing(e) = put[e] + 0 - InHand(e) - Len(pending[e])
          BY <4>1 DEF Outgoing
        <4> QED
          BY <2>2, <4>2, <4>4, <4>5
      <3>6. ~(EndQueued(e) \/ e \in ended)
        BY <2>1 DEF Conserves
      <3> QED
        BY <1>1, <1>5, <3>4, <3>5, <3>6, SenderConserves
    <2>4. CASE e # d
      <3>1. put'[e] = put[e] /\ pending'[e] = pending[e]
        BY <1>1, <1>2, <2>4, MoreShapes
      <3>2. Seals(e)'
        BY <1>5, <2>1, <3>1 DEF Seals
      <3>3. Outgoing(e)' = Outgoing(e)
        BY <1>5, <2>1, <3>1 DEF Outgoing, Once
      <3>4. ~(EndQueued(e) \/ e \in ended)
        BY <2>1 DEF Conserves
      <3> QED
        BY <1>1, <1>5, <3>2, <3>3, <3>4, SenderConserves
    <2> QED
      BY <2>3, <2>4
  <1> QED
    BY <1>6, <1>7

\* _put_any numbers its item when it has found an edge with room.
LEMMA AnySteps ==
    ASSUME TypeOK, TypeOK', NEW n \in Nodes, NEW e \in Edges, Tidy(n), Seals(e), Conserves(e), ClaimAny(n)
    PROVE  Seals(e)' /\ Conserves(e)'
  <1>1. /\ pc[n] \in {"credit", "park_out"} /\ hand[n].items = <<>>
        /\ mode' = mode /\ plan' = plan /\ pending' = pending
        /\ q' = q /\ queued' = queued /\ batch' = batch /\ kept' = kept /\ got' = got
        /\ ended' = ended /\ done' = done
    BY DEF ClaimAny, Claiming, Claimed, receiveVars
  <1>2. mode[n] = "body"
    BY <1>1 DEF Tidy
  <1>3. rr[n] \in Nat
    BY DEF TypeOK, EdgesTyped
  <1>4. PICK d \in Edges : /\ Src[d] = n
                           /\ put' = [put EXCEPT ![d] = put[d] + 1]
                           /\ hand' = [hand EXCEPT ![n] = [edge |-> d, items |-> <<put[d] + 1>>]]
    BY <1>3, ClaimAnyPicks
  <1>5. ReceiverSame(e)
    BY <1>1 DEF ReceiverSame
  <1>6. CASE Src[e] # n
    <2>1. hand'[Src[e]] = hand[Src[e]] /\ put'[e] = put[e]
      BY <1>4, <1>6, GraphType, Shapes, MoreShapes
    <2>2. SenderSame(e)
      BY <1>1, <2>1 DEF SenderSame
    <2> QED
      BY <1>5, <2>2, EdgeSame
  <1>7. CASE Src[e] = n
    <2>1. ~Sealed(e) /\ ~Sealed(e)'
      BY <1>1, <1>2, <1>7 DEF Sealed
    <2>2. put[e] \in Nat /\ put[d] \in Nat /\ Len(pending[e]) \in Nat
      BY MoreShapes
    <2>3. hand'[n] = [edge |-> d, items |-> <<put[d] + 1>>]
      BY <1>4, Shapes
    <2>4. InHand(e) = 0 /\ ~HoldsEnd(e)' /\ InHand(e)' = IF d = e THEN 1 ELSE 0
      <3>1. InHand(e) = 0
        BY <1>1, <1>7 DEF InHand, CountOf
      <3>2. InHand(e)' = IF d = e THEN 1 ELSE 0
        BY <1>7, <2>3 DEF InHand, CountOf
      <3>3. <<put[d] + 1>> # <<EOS>>
        BY <2>2 DEF EOS
      <3>4. ~HoldsEnd(e)'
        BY <1>7, <2>3, <3>3 DEF HoldsEnd, EndsEdge
      <3> QED
        BY <3>1, <3>2, <3>4
    <2>5. Seals(e)'
      BY <1>1, <2>1, <2>4 DEF Seals
    <2>6. put'[e] = IF d = e THEN put[e] + 1 ELSE put[e]
      BY <1>4, MoreShapes
    <2>7. Outgoing(e)' = Outgoing(e)
      <3>1. Once(Sealed(e)') = 0 /\ Once(Sealed(e)) = 0
        BY <2>1 DEF Once
      <3>2. Outgoing(e)' = put'[e] + Once(Sealed(e)') - InHand(e)' - Len(pending'[e])
        BY DEF Outgoing, Once
      <3>3. Outgoing(e)' = put'[e] + 0 - InHand(e)' - Len(pending[e])
        BY <1>1, <3>1, <3>2
      <3>4. Outgoing(e) = put[e] + 0 - 0 - Len(pending[e])
        BY <2>4, <3>1 DEF Outgoing
      <3>5. CASE d = e
        BY <2>2, <2>4, <2>6, <3>3, <3>4, <3>5
      <3>6. CASE d # e
        BY <2>2, <2>4, <2>6, <3>3, <3>4, <3>6
      <3> QED
        BY <3>5, <3>6
    <2>8. ~(EndQueued(e) \/ e \in ended)
      BY <2>1 DEF Conserves
    <2> QED
      BY <1>5, <2>5, <2>7, <2>8, SenderConserves
  <1> QED
    BY <1>6, <1>7

\* An entry leaves pending for the sender's hand.
LEMMA PrepareSteps ==
    ASSUME CreditInv, TypeOK', NEW n \in Nodes, NEW e \in Edges,
           Tidy(n), Closes(n), Seals(e), Conserves(e), Prepare(n)
    PROVE  Seals(e)' /\ Conserves(e)'
  <1>1. TypeOK
    BY DEF CreditInv
  <1> DEFINE d == HeadEdge(n)
  <1>2. /\ pc[n] = "run" /\ plan[n] # <<>> /\ mode' = mode
        /\ plan' = [plan EXCEPT ![n] = Tail(plan[n])]
        /\ put' = [put EXCEPT ![d] = IF HeadOp(n) = "put" THEN put[d] + 1 ELSE put[d]]
        /\ pending' = [pending EXCEPT ![d] = IF HeadOp(n) \in {"put", "flush"} THEN <<>> ELSE pending[d]]
        /\ q' = q /\ queued' = queued /\ batch' = batch /\ kept' = kept /\ got' = got
        /\ ended' = ended /\ done' = done
    BY DEF Prepare, Sending, receiveVars
  <1>3. hand'[n] = CASE HeadOp(n) = "put"   -> [edge |-> d, items |-> Append(pending[d], put[d] + 1)]
                     [] HeadOp(n) = "flush" -> [edge |-> d, items |-> pending[d]]
                     [] HeadOp(n) = "eos"   -> [edge |-> d, items |-> <<EOS>>]
                     [] HeadOp(n) = "any"   -> NoEntry
    BY <1>1, Shapes DEF Prepare
  <1>4. \A m \in Nodes \ {n} : hand'[m] = hand[m]
    BY <1>1, Shapes DEF Prepare
  <1>5. HeadOp(n) = "flush" => pending[d] # <<>>
    BY DEF Prepare
  <1>6. d \in Edges /\ HeadOp(n) \in Ops /\ (HeadOp(n) # "any" => Src[d] = n)
    BY <1>2, HeadWired
  <1>7. hand[n].items = <<>>
    BY <1>2 DEF Tidy
  <1>8. /\ mode[n] = "closing" => HeadOp(n) \in {"flush", "eos"}
        /\ mode[n] = "body" => HeadOp(n) # "eos"
        /\ mode[n] \in {"body", "closing"}
    BY <1>1, <1>2, ClosingSends, MoreShapes DEF Closes
  <1>9. ReceiverSame(e)
    BY <1>2 DEF ReceiverSame
  <1>10. put[e] \in Nat /\ pending[e] \in Seq(Nat) /\ Len(pending[e]) \in Nat
         /\ put[d] \in Nat /\ pending[d] \in Seq(Nat) /\ put \in [Edges -> Nat]
    BY <1>1, <1>6, MoreShapes
  <1>11. CASE Src[e] # n
    <2>1. /\ plan'[Src[e]] = plan[Src[e]] /\ hand'[Src[e]] = hand[Src[e]]
      BY <1>1, <1>2, <1>4, <1>11, GraphType, MoreShapes
    <2>2. put'[e] = put[e] /\ pending'[e] = pending[e]
      BY <1>1, <1>2, <1>6, <1>11, MoreShapes
    <2>3. SenderSame(e)
      BY <1>2, <2>1, <2>2 DEF SenderSame
    <2> QED
      BY <1>1, <1>9, <2>3, EdgeSame
  <1>12. CASE Src[e] = n
    <2>1. plan'[n] = Tail(plan[n])
      BY <1>1, <1>2, MoreShapes
    <2>2. Sealed(e)' <=> Sealed(e) \/ (mode[n] = "closing" /\ Head(plan[n]) = Cmd("eos", e))
      BY <1>1, <1>2, <1>12, <2>1, SealedTail
    <2>3. ~HandOn(e) /\ InHand(e) = 0
      BY <1>7, <1>12 DEF HandOn, InHand, CountOf
    <2>4. InHand(e)' = IF hand'[n].edge = e THEN Len(hand'[n].items) ELSE 0
      BY <1>12 DEF InHand, CountOf
    <2>5. HandOn(e)' = (hand'[n].edge = e /\ hand'[n].items # <<>>)
      BY <1>12 DEF HandOn
    <2>6. HoldsEnd(e)' = (hand'[n].edge = e /\ hand'[n].items = <<EOS>>)
      BY <1>12 DEF HoldsEnd, EndsEdge
    <2>7. Outgoing(e) = put[e] + Once(Sealed(e)) - 0 - Len(pending[e])
      BY <2>3 DEF Outgoing
    <2>8. Outgoing(e)' = put'[e] + Once(Sealed(e)') - InHand(e)' - Len(pending'[e])
      BY DEF Outgoing, Once
    <2>9. CASE HeadOp(n) = "put" /\ d = e
      <3>1. ~Sealed(e) /\ ~Sealed(e)'
        BY <1>2, <1>8, <1>12, <2>9 DEF Sealed
      <3>2. hand'[n] = [edge |-> e, items |-> Append(pending[e], put[e] + 1)]
        BY <1>3, <2>9
      <3>3. put'[e] = put[e] + 1 /\ pending'[e] = <<>>
        BY <1>1, <1>2, <2>9, MoreShapes
      <3>4. Len(Append(pending[e], put[e] + 1)) = Len(pending[e]) + 1
            /\ Append(pending[e], put[e] + 1)[Len(pending[e]) + 1] = put[e] + 1
        BY <1>10
      <3>5. ~HoldsEnd(e)'
        <4> DEFINE a == Append(pending[e], put[e] + 1)
        <4>1. hand'[n].items = a
          BY <3>2
        <4>2. ASSUME a = <<EOS>>  PROVE FALSE
          <5>1. Len(<<EOS>>) = 1 /\ <<EOS>>[1] = EOS
            OBVIOUS
          <5>2. Len(pending[e]) + 1 = 1 /\ a[Len(pending[e]) + 1] = put[e] + 1
            BY <3>4, <4>2, <5>1
          <5> HIDE DEF a
          <5>3. put[e] + 1 = EOS
            BY <4>2, <5>1, <5>2
          <5> QED
            BY <1>10, <5>3 DEF EOS
        <4> HIDE DEF a
        <4> QED
          BY <2>6, <4>1, <4>2
      <3>6. Seals(e)'
        BY <3>1, <3>3, <3>5 DEF Seals
      <3>7. Outgoing(e)' = Outgoing(e)
        <4>1. InHand(e)' = Len(pending[e]) + 1 /\ Len(pending'[e]) = 0
          BY <2>4, <3>2, <3>3, <3>4
        <4>2. Once(Sealed(e)') = 0 /\ Once(Sealed(e)) = 0
          BY <3>1 DEF Once
        <4>3. Outgoing(e)' = (put[e] + 1) + 0 - (Len(pending[e]) + 1) - 0
          BY <2>8, <3>3, <4>1, <4>2
        <4>4. Outgoing(e) = put[e] + 0 - 0 - Len(pending[e])
          BY <2>7, <4>2
        <4> DEFINE p == put[e]
                   l == Len(pending[e])
        <4>5. p \in Nat /\ l \in Nat /\ Outgoing(e)' = (p + 1) + 0 - (l + 1) - 0
              /\ Outgoing(e) = p + 0 - 0 - l
          BY <1>10, <4>3, <4>4
        <4> HIDE DEF p, l
        <4> QED
          BY <4>5
      <3>8. ~(EndQueued(e) \/ e \in ended)
        BY <3>1 DEF Conserves
      <3> QED
        BY <1>1, <1>9, <3>6, <3>7, <3>8, SenderConserves
    <2>10. CASE HeadOp(n) = "flush" /\ d = e
      <3>1. ~Sealed(e) /\ ~Sealed(e)'
        <4>1. Head(plan[n]) # Cmd("eos", e)
          BY <2>10 DEF HeadOp, Cmd
        <4> QED
          BY <1>5, <2>2, <2>10, <4>1 DEF Seals
      <3>2. hand'[n] = [edge |-> e, items |-> pending[e]]
        BY <1>3, <2>10
      <3>3. put'[e] = put[e] /\ pending'[e] = <<>>
        BY <1>1, <1>2, <2>10, MoreShapes
      <3>4. ~HoldsEnd(e)'
        <4>1. hand'[n].items = pending[e]
          BY <3>2
        <4>2. ASSUME pending[e] = <<EOS>>  PROVE FALSE
          <5>1. 1 \in DOMAIN pending[e] /\ pending[e][1] = EOS
            BY <4>2
          <5>2. pending[e][1] > 0
            BY <5>1 DEF Seals
          <5> QED
            BY <5>1, <5>2 DEF EOS
        <4> QED
          BY <2>6, <4>1, <4>2
      <3>5. Seals(e)'
        BY <3>1, <3>3, <3>4 DEF Seals
      <3>6. Outgoing(e)' = Outgoing(e)
        <4>1. InHand(e)' = Len(pending[e]) /\ Len(pending'[e]) = 0
          BY <2>4, <3>2, <3>3
        <4>2. Once(Sealed(e)') = 0 /\ Once(Sealed(e)) = 0
          BY <3>1 DEF Once
        <4>3. Outgoing(e)' = put[e] + 0 - Len(pending[e]) - 0
          BY <2>8, <3>3, <4>1, <4>2
        <4> QED
          BY <1>10, <2>7, <4>2, <4>3
      <3>7. ~(EndQueued(e) \/ e \in ended)
        BY <3>1 DEF Conserves
      <3> QED
        BY <1>1, <1>9, <3>5, <3>6, <3>7, SenderConserves
    <2>11. CASE HeadOp(n) = "eos" /\ d = e
      <3>1. mode[n] = "closing" /\ Head(plan[n]) = Cmd("eos", e) /\ Sealed(e)'
        <4>1. plan[n] \in Seq(Commands)
          BY <1>1, MoreShapes
        <4>2. Head(plan[n]) \in Commands
          BY <1>2, <4>1, HeadTailProperties
        <4>3. Head(plan[n]) = Cmd("eos", e)
          BY <2>11, <4>2 DEF HeadOp, HeadEdge, Cmd, Commands
        <4> QED
          BY <1>8, <2>2, <2>11, <4>3
      <3>2. 1 \in DOMAIN plan[n] /\ plan[n][1] = Cmd("eos", e)
        BY <1>1, <1>2, <3>1, MoreShapes, TailOf
      <3>3. ~Sealed(e)
        BY <1>12, <3>2 DEF Sealed
      <3>4. pending[e] = <<>>
        <4>1. SUFFICES ASSUME pending[e] # <<>>  PROVE FALSE
          OBVIOUS
        <4>2. Flushes(plan[n], e)
          BY <1>12, <3>1, <4>1 DEF Closes
        <4>3. PICK i \in DOMAIN plan[n] : i < 1
          BY <3>2, <4>2 DEF Flushes, Cmd
        <4>4. DOMAIN plan[n] = 1..Len(plan[n])
          BY <1>1, <1>2, MoreShapes, TailOf
        <4> QED
          BY <4>3, <4>4
      <3>5. hand'[n] = [edge |-> e, items |-> <<EOS>>]
        BY <1>3, <2>11
      <3>6. put'[e] = put[e] /\ pending'[e] = pending[e]
        BY <1>1, <1>2, <2>11, MoreShapes
      <3>7. HoldsEnd(e)' /\ InHand(e)' = 1
        <4>1. hand'[n].edge = e /\ hand'[n].items = <<EOS>> /\ Len(<<EOS>>) = 1
          BY <3>5
        <4> QED
          BY <2>4, <2>6, <4>1
      <3>8. Seals(e)'
        BY <3>1, <3>4, <3>6, <3>7 DEF Seals
      <3>9. Outgoing(e)' = Outgoing(e)
        <4>1. Once(Sealed(e)') = 1 /\ Once(Sealed(e)) = 0
          BY <3>1, <3>3 DEF Once
        <4>2. Outgoing(e)' = put[e] + 1 - 1 - Len(pending[e])
          BY <2>8, <3>6, <3>7, <4>1
        <4> QED
          BY <1>10, <2>7, <4>1, <4>2
      <3>10. ~(EndQueued(e) \/ e \in ended)
        BY <3>3 DEF Conserves
      <3> QED
        BY <1>1, <1>9, <3>8, <3>9, <3>10, SenderConserves
    <2>12. CASE HeadOp(n) = "any" \/ d # e
      <3>1. put'[e] = put[e] /\ pending'[e] = pending[e]
        BY <1>1, <1>2, <2>12, MoreShapes
      <3>2. hand'[n].edge # e \/ hand'[n].items = <<>>
        <4>1. CASE HeadOp(n) = "any"
          <5>1. hand'[n] = NoEntry
            BY <1>3, <4>1
          <5> QED
            BY <5>1, NoEntryIsEntry
        <4>2. CASE HeadOp(n) # "any" /\ d # e
          <5>1. hand'[n].edge = d
            <6>1. CASE HeadOp(n) = "put"
              BY <1>3, <6>1
            <6>2. CASE HeadOp(n) = "flush"
              BY <1>3, <6>2
            <6>3. CASE HeadOp(n) = "eos"
              BY <1>3, <6>3
            <6> QED
              BY <1>6, <4>2, <6>1, <6>2, <6>3 DEF Ops
          <5> QED
            BY <4>2, <5>1
        <4> QED
          BY <2>12, <4>1, <4>2
      <3>3. ~HandOn(e)' /\ ~HoldsEnd(e)' /\ InHand(e)' = 0
        <4>1. <<EOS>> # <<>> /\ Len(<<>>) = 0
          OBVIOUS
        <4> QED
          BY <2>4, <2>5, <2>6, <3>2, <4>1
      <3>4. Sealed(e)' = Sealed(e)
        <4>1. mode[n] = "closing" => Head(plan[n]) # Cmd("eos", e)
          BY <1>8, <2>12 DEF HeadOp, HeadEdge, Cmd
        <4> QED
          BY <2>2, <4>1 DEF Sealed
      <3>5. Seals(e)'
        BY <3>1, <3>3, <3>4 DEF Seals
      <3>6. Outgoing(e)' = Outgoing(e)
        <4>1. Once(Sealed(e)') = Once(Sealed(e))
          BY <3>4 DEF Once
        <4> QED
          BY <2>7, <2>8, <3>1, <3>3, <4>1
      <3>7. EndQueued(e) \/ e \in ended => Sealed(e)' /\ ~HandOn(e)' /\ put'[e] = put[e]
        BY <3>1, <3>3, <3>4 DEF Conserves
      <3> QED
        BY <1>1, <1>9, <3>5, <3>6, <3>7, SenderConserves
    <2> QED
      BY <1>6, <2>9, <2>10, <2>11, <2>12 DEF Ops
  <1> QED
    BY <1>11, <1>12
-----------------------------------------------------------------------------
(* Entries that arrive.                                                    *)

\* Entry b is queued behind the others of the receiver of e.
LEMMA Arrives ==
    ASSUME TypeOK, TypeOK', NEW e \in Edges, NEW b \in Entry, b.items # <<>>,
           Conserves(e), ~done[Dst[e]], q'[Dst[e]] = Append(q[Dst[e]], b), queued'[e] = queued[e] + CountOf(b, e),
           batch' = batch, kept' = kept, got' = got, ended' = ended, done' = done, put'[e] = put[e],
           Outgoing(e)' = Outgoing(e) + CountOf(b, e),
           b.edge = e => ~EndQueued(e) /\ e \notin ended,
           EndQueued(e) \/ e \in ended \/ EndsEdge(b, e) => Sealed(e)' /\ ~HandOn(e)'
    PROVE  Conserves(e)'
  <1> DEFINE s == q[Dst[e]]
  <1>1. s \in Seq(Queued) /\ Len(s) \in Nat /\ DOMAIN s = 1..Len(s)
    <2>1. Dst[e] \in Nodes
      BY GraphType
    <2>2. s \in Seq(Queued)
      BY <2>1, Shapes
    <2> HIDE DEF s
    <2> QED
      BY <2>2
  <1>0. b \in Queued /\ CountIn(b, e) = CountOf(b, e) /\ (OnEdge(b, e) => b.edge = e)
    <2>1. b \in Queued
      BY DEF Queued
    <2>2. CountIn(b, e) = CountOf(b, e)
      BY EntryCounts
    <2> QED
      BY <2>1, <2>2 DEF OnEdge
  <1>2. /\ DOMAIN Append(s, b) = 1..(Len(s) + 1) /\ Append(s, b)[Len(s) + 1] = b
        /\ \A i \in 1..Len(s) : Append(s, b)[i] = s[i]
    BY <1>0, <1>1, AppendProperties
  <1>3. EndQueued(e)' <=> EndQueued(e) \/ EndsEdge(b, e)
    <2>1. EndQueued(e) <=> \E i \in 1..Len(s) : EndsEdge(s[i], e)
      BY <1>1 DEF EndQueued
    <2>2. EndQueued(e)' <=> \E i \in 1..(Len(s) + 1) : EndsEdge(Append(s, b)[i], e)
      BY <1>2 DEF EndQueued
    <2>3. \A i \in 1..(Len(s) + 1) : i \in 1..Len(s) \/ i = Len(s) + 1
      BY <1>1
    <2>4. 1..Len(s) \subseteq 1..(Len(s) + 1) /\ Len(s) + 1 \in 1..(Len(s) + 1)
      BY <1>1
    <2> HIDE DEF s
    <2> QED
      BY <1>2, <2>1, <2>2, <2>3, <2>4
  <1>4. Received(e)' = Received(e)
    BY DEF Received, CountOf
  <1>5. /\ queued[e] \in Int /\ CountOf(b, e) \in Nat /\ queued'[e] \in Int
    BY EdgeCounts, CountOfType
  <1>6. Counted(s, e, queued[e])
    BY DEF Conserves
  <1>7. b.edge = e => \A i \in 1..Len(s) : ~EndsEdge(s[i], e)
    BY <1>1 DEF EndQueued
  <1>8. Counted(Append(s, b), e, queued[e] + CountOf(b, e))
    BY <1>0, <1>1, <1>5, <1>6, <1>7, CountedAppend
  <1>9. Counted(q'[Dst[e]], e, queued'[e])
    BY <1>8
  <1>10. put'[e] + Once(Sealed(e)') = Received(e)' + queued'[e] + InHand(e)' + Len(pending'[e])
                                            + Once(e \in ended)'
    <2>1. put[e] + Once(Sealed(e)) = Received(e) + queued[e] + InHand(e) + Len(pending[e])
                                            + Once(e \in ended)
      BY DEF Conserves
    <2>2. /\ put[e] \in Int /\ InHand(e) \in Int /\ Len(pending[e]) \in Int
          /\ Received(e) \in Int /\ Once(Sealed(e)) \in Int /\ Once(e \in ended) \in Int
      BY EdgeCounts DEF Once
    <2>3. put'[e] \in Int /\ InHand(e)' \in Int /\ Len(pending'[e]) \in Int /\ Once(Sealed(e)') \in Int
      <3>1. hand'[Src[e]] \in Entry
        BY GraphType DEF TypeOK, ThreadsTyped
      <3>2. InHand(e)' \in Nat
        BY <3>1, CountOfType DEF InHand
      <3>3. put'[e] \in Nat /\ Len(pending'[e]) \in Nat
        BY DEF TypeOK, EdgesTyped, CodeTyped, Items
      <3> QED
        BY <3>2, <3>3 DEF Once
    <2>4. put'[e] + Once(Sealed(e)') - InHand(e)' - Len(pending'[e])
            = put[e] + Once(Sealed(e)) - InHand(e) - Len(pending[e]) + CountOf(b, e)
      BY DEF Outgoing, Once
    <2>5. Once(e \in ended)' = Once(e \in ended)
      BY DEF Once
    <2> DEFINE p == put[e]      z == Once(Sealed(e))     h == InHand(e)     l == Len(pending[e])
               p1 == put'[e]    z1 == Once(Sealed(e)')   h1 == InHand(e)'   l1 == Len(pending'[e])
               r == Received(e) k == queued[e]           d == Once(e \in ended)
               c == CountOf(b, e)
    <2>6. p1 + z1 = r + (k + c) + h1 + l1 + d
      <3>1. p + z = r + k + h + l + d /\ p1 + z1 - h1 - l1 = p + z - h - l + c
        BY <2>1, <2>4
      <3>2. /\ p \in Int /\ z \in Int /\ h \in Int /\ l \in Int /\ r \in Int /\ k \in Int
            /\ d \in Int /\ p1 \in Int /\ z1 \in Int /\ h1 \in Int /\ l1 \in Int /\ c \in Int
        BY <1>5, <2>2, <2>3
      <3> HIDE DEF p, z, h, l, p1, z1, h1, l1, r, k, d, c
      <3> QED
        BY ONLY <3>1, <3>2
    <2> QED
      BY <1>4, <2>5, <2>6
  <1>11. CountOf(batch[Dst[e]], e)' = CountOf(batch[Dst[e]], e)
    BY DEF CountOf
  <1>12. EndQueued(e)' => e \notin ended'
    BY <1>3 DEF Conserves, EndsEdge
  <1>13. EndQueued(e)' \/ e \in ended' => Sealed(e)' /\ ~HandOn(e)'
    BY <1>3
  <1>14. e \in ended' => put'[e] = Received(e)' /\ CountOf(batch[Dst[e]], e)' = 0
    BY <1>4, <1>11 DEF Conserves
  <1> QED
    BY <1>9, <1>10, <1>12, <1>13, <1>14 DEF Conserves, Once

\* A receiver that is done is owed nothing any more.
LEMMA DoneConserves ==
    ASSUME NEW e \in Edges, Conserves(e), ReceiverSame(e), done[Dst[e]], put'[e] = put[e],
           EndQueued(e) \/ e \in ended => Sealed(e)' /\ ~HandOn(e)'
    PROVE  Conserves(e)'
  <1>1. /\ EndQueued(e)' = EndQueued(e) /\ Received(e)' = Received(e)
        /\ CountOf(batch[Dst[e]], e)' = CountOf(batch[Dst[e]], e)
    BY ReceiverKept
  <1>2. (e \in ended' <=> e \in ended) /\ done'[Dst[e]]
    BY DEF ReceiverSame
  <1> QED
    BY <1>1, <1>2 DEF Conserves

LEMMA PushSteps ==
    ASSUME CreditInv, TypeOK', NEW n \in Nodes, NEW e \in Edges,
           Seals(e), Conserves(e), Push(n)
    PROVE  Seals(e)' /\ Conserves(e)'
  <1>1. TypeOK
    BY DEF CreditInv
  <1> DEFINE b == hand[n]
             d == b.edge
             m == Dst[d]
  <1>2. /\ mode' = mode /\ plan' = plan /\ pending' = pending /\ put' = put
        /\ batch' = batch /\ kept' = kept /\ got' = got /\ ended' = ended /\ done' = done
        /\ pc[n] = "push"
    BY DEF Push, receiveVars, codeVars
  <1>3. b \in Entry /\ d \in Edges /\ m \in Nodes /\ b.items # <<>> /\ Src[d] = n
    <2>1. b \in Entry /\ b.items # <<>>
      BY <1>1, <1>2, Shapes DEF TypeOK, ThreadsTyped
    <2>2. d \in Edges
      BY <2>1 DEF Entry
    <2> QED
      BY <2>1, <2>2, GraphType DEF CreditInv, HandWired
  <1>4. hand'[n] = NoEntry /\ \A k \in Nodes \ {n} : hand'[k] = hand[k]
    BY <1>1, Shapes DEF Push
  <1>5. Sealed(e)' = Sealed(e)
    BY <1>2 DEF Sealed
  <1>6. Src[e] # n => HandOn(e)' = HandOn(e) /\ HoldsEnd(e)' = HoldsEnd(e) /\ InHand(e)' = InHand(e)
    BY <1>4, GraphType DEF HandOn, HoldsEnd, EndsEdge, InHand, CountOf
  <1>7. Src[e] = n => ~HandOn(e)' /\ ~HoldsEnd(e)' /\ InHand(e)' = 0
    <2>1. NoEntry.items = <<>> /\ Len(<<>>) = 0 /\ <<EOS>> # <<>>
      BY NoEntryIsEntry
    <2> QED
      BY <1>4, <2>1 DEF HandOn, HoldsEnd, EndsEdge, InHand, CountOf
  <1>8. Seals(e)'
    BY <1>2, <1>5, <1>6, <1>7 DEF Seals
  <1>9. Src[e] = n /\ e # d => InHand(e) = 0
    BY DEF InHand, CountOf
  <1>10. InHand(d) = CountOf(b, d) /\ HandOn(d)
    BY <1>3 DEF InHand, HandOn
  <1>11. InHand(e) \in Nat /\ CountOf(b, e) \in Nat
    BY <1>1, <1>3, EdgeCounts, CountOfType
  <1>12. Outgoing(e)' = Outgoing(e) + (IF e = d THEN CountOf(b, e) ELSE 0)
    <2>1. Outgoing(e)' = put[e] + Once(Sealed(e)) - InHand(e)' - Len(pending[e])
      BY <1>2, <1>5 DEF Outgoing, Once
    <2>2. Outgoing(e) = put[e] + Once(Sealed(e)) - InHand(e) - Len(pending[e])
      BY DEF Outgoing
    <2>3. put[e] \in Int /\ Once(Sealed(e)) \in Int /\ Len(pending[e]) \in Int
      BY <1>1, EdgeCounts DEF Once
    <2>4. CASE e = d
      <3>1. InHand(e)' = 0 /\ InHand(e) = CountOf(b, e)
        BY <1>3, <1>7, <1>10, <2>4
      <3> QED
        BY <1>11, <2>1, <2>2, <2>3, <2>4, <3>1
    <2>5. CASE e # d
      <3>1. InHand(e)' = InHand(e)
        BY <1>6, <1>7, <1>9, <2>5
      <3>2. Outgoing(e)' = Outgoing(e) /\ Outgoing(e) \in Int
        BY <1>11, <2>1, <2>2, <2>3, <3>1
      <3> QED
        BY <2>5, <3>2
    <2> QED
      BY <2>4, <2>5
  <1>13. EndQueued(e) \/ e \in ended => Sealed(e)' /\ ~HandOn(e)' /\ put'[e] = put[e]
    BY <1>2, <1>5, <1>6, <1>7 DEF Conserves
  <1>14. CASE done[m] \/ Dst[e] # m
    <2>1. ReceiverSame(e)
      <3>1. CASE done[m]
        <4>1. q' = q /\ queued' = queued
          BY <1>14, <3>1 DEF Push
        <4> QED
          BY <1>2, <4>1 DEF ReceiverSame
      <3>2. CASE Dst[e] # m
        <4>1. q'[Dst[e]] = q[Dst[e]] /\ queued'[e] = queued[e]
          <5>1. \/ q' = q /\ queued' = queued
                \/ /\ q' = [q EXCEPT ![m] = Append(q[m], b)]
                   /\ queued' = [queued EXCEPT ![d] = queued[d] + Len(b.items)]
            BY DEF Push
          <5>2. e # d /\ Dst[e] \in Nodes /\ Dst[e] # m
            BY <3>2, GraphType
          <5>3. q \in [Nodes -> Seq(Queued)] /\ queued \in [Edges -> Int]
            BY <1>1, Shapes, MoreShapes
          <5> HIDE DEF b, d, m
          <5> QED
            BY <5>1, <5>2, <5>3
        <4> QED
          BY <1>2, <4>1 DEF ReceiverSame
      <3> QED
        BY <1>14, <3>1, <3>2
    <2>2. CASE e = d
      BY <1>2, <1>8, <1>13, <1>14, <2>1, <2>2, DoneConserves
    <2>3. CASE e # d
      <3>1. Outgoing(e)' = Outgoing(e)
        <4>1. put[e] \in Int /\ Once(Sealed(e)) \in Int /\ Len(pending[e]) \in Int
          BY <1>1, EdgeCounts DEF Once
        <4>2. Outgoing(e) \in Int
          BY <1>11, <4>1 DEF Outgoing
        <4> QED
          BY <1>12, <2>3, <4>2
      <3> QED
        BY <1>1, <1>8, <1>13, <2>1, <3>1, SenderConserves
    <2> QED
      BY <2>2, <2>3
  <1>15. CASE ~done[m] /\ Dst[e] = m
    <2>1. q'[m] = Append(q[m], b)
      BY <1>1, <1>3, <1>15, Shapes DEF Push
    <2>2. queued' = [queued EXCEPT ![d] = queued[d] + Len(b.items)]
      BY <1>15 DEF Push
    <2>3. queued'[e] = queued[e] + CountOf(b, e)
      <3>1. queued \in [Edges -> Int]
        BY <1>1, MoreShapes
      <3>2. CASE e = d
        BY <2>2, <3>1, <3>2 DEF CountOf
      <3>3. CASE e # d
        BY <2>2, <3>1, <3>3 DEF CountOf
      <3> QED
        BY <3>2, <3>3
    <2>4. e # d => CountOf(b, e) = 0
      BY DEF CountOf
    <2>5. Outgoing(e)' = Outgoing(e) + CountOf(b, e)
      BY <1>12, <2>4
    <2>6. e = d => ~EndQueued(e) /\ e \notin ended
      BY <1>10 DEF Conserves
    <2>7. EndsEdge(b, e) => Sealed(e)' /\ ~HandOn(e)'
      <3>1. ASSUME EndsEdge(b, e)  PROVE e = d /\ HoldsEnd(d)
        BY <1>3, <3>1 DEF EndsEdge, HoldsEnd
      <3> QED
        BY <1>3, <1>5, <1>7, <3>1 DEF Seals
    <2> HIDE DEF b
    <2> QED
      BY <1>1, <1>2, <1>3, <1>8, <1>13, <1>15, <2>1, <2>3, <2>5, <2>6, <2>7, Arrives
  <1> QED
    BY <1>14, <1>15

\* Pending batches go out before their sender waits.
LEMMA BlockSteps ==
    ASSUME TypeOK, TypeOK', NEW n \in Nodes, NEW e \in Edges,
           Seals(e), Conserves(e), Block(n)
    PROVE  Seals(e)' /\ Conserves(e)'
  <1> DEFINE F == Flushable(n)
             P == {d \in F : ~done[Dst[d]]}
             New == {d \in P : Dst[d] = Dst[e]}
             x == CHOOSE d \in New : TRUE
             b == [edge |-> x, items |-> pending[x]]
  <1>1. /\ mode' = mode /\ plan' = plan /\ hand' = hand /\ put' = put
        /\ batch' = batch /\ kept' = kept /\ got' = got /\ ended' = ended /\ done' = done
    BY DEF Block, receiveVars, codeVars
  <1>2. /\ queued'[e] = IF e \in P THEN queued[e] + Len(pending[e]) ELSE queued[e]
        /\ pending'[e] = IF e \in F THEN <<>> ELSE pending[e]
        /\ q'[Dst[e]] = IF New = {} THEN q[Dst[e]] ELSE Append(q[Dst[e]], b)
    BY GraphType DEF Block
  <1>3. \A d \in F : d \in Edges /\ Src[d] = n /\ pending[d] # <<>>
    BY DEF Flushable
  <1>4. /\ Sealed(e)' = Sealed(e) /\ HandOn(e)' = HandOn(e) /\ HoldsEnd(e)' = HoldsEnd(e)
        /\ InHand(e)' = InHand(e)
    BY <1>1 DEF Sealed, HandOn, HoldsEnd, EndsEdge, InHand, CountOf
  <1>5. e \in F => ~Sealed(e) /\ ~EndQueued(e) /\ e \notin ended
    BY <1>3 DEF Seals, Conserves
  <1>6. ASSUME New # {}
        PROVE  /\ x \in New /\ x \in Edges /\ x \in F /\ Dst[x] = Dst[e] /\ ~done[Dst[e]]
               /\ b \in Entry /\ b.items # <<>>
    <2>1. x \in New
      BY <1>6
    <2>2. x \in F /\ Dst[x] = Dst[e] /\ ~done[Dst[e]]
      BY <2>1
    <2>3. x \in Edges
      BY <1>3, <2>2
    <2> HIDE DEF x
    <2>4. b \in Entry /\ b.items # <<>>
      BY <1>3, <2>2, <2>3, MoreShapes DEF Entry, Items
    <2> QED
      BY <2>1, <2>2, <2>3, <2>4
  <1>7. Seals(e)'
    BY <1>2, <1>4, <1>5 DEF Seals
  <1>8. EndQueued(e) \/ e \in ended => Sealed(e)' /\ ~HandOn(e)' /\ put'[e] = put[e]
    BY <1>1, <1>4 DEF Conserves
  <1>9. put[e] \in Int /\ Once(Sealed(e)) \in Int /\ Len(pending[e]) \in Int /\ InHand(e) \in Int
    BY EdgeCounts DEF Once
  <1>10. /\ Outgoing(e)' = put[e] + Once(Sealed(e)) - InHand(e) - Len(pending'[e])
         /\ Outgoing(e) = put[e] + Once(Sealed(e)) - InHand(e) - Len(pending[e])
    BY <1>1, <1>4 DEF Outgoing, Once
  <1>11. CASE e \in P
    <2>1. e \in F /\ e \in New /\ ~done[Dst[e]]
      BY <1>11
    <2>2. x = e
      <3>1. x \in F /\ x \in Edges /\ Dst[x] = Dst[e]
        BY <1>6, <2>1
      <3>2. Src[x] = Src[e]
        BY <1>3, <2>1, <3>1
      <3> HIDE DEF x
      <3> QED
        BY <3>1, <3>2, GraphAssumption
    <2>3. b.edge = e /\ b.items = pending[e] /\ b \in Entry /\ b.items # <<>>
      BY <1>6, <2>1, <2>2
    <2>4. q'[Dst[e]] = Append(q[Dst[e]], b) /\ pending'[e] = <<>>
          /\ queued'[e] = queued[e] + Len(pending[e])
      BY <1>2, <1>11, <2>1
    <2> HIDE DEF b, x, F, P, New
    <2>5. CountOf(b, e) = Len(pending[e])
      BY <2>3 DEF CountOf
    <2>6. ~EndsEdge(b, e)
      <3>1. ASSUME pending[e] = <<EOS>>  PROVE FALSE
        <4>1. 1 \in DOMAIN pending[e] /\ pending[e][1] = EOS
          BY <3>1
        <4>2. pending[e][1] > 0
          BY <4>1 DEF Seals
        <4> QED
          BY <4>1, <4>2 DEF EOS
      <3> QED
        BY <2>3, <3>1 DEF EndsEdge
    <2>7. Outgoing(e)' = Outgoing(e) + CountOf(b, e)
      <3>1. Len(pending'[e]) = 0
        BY <2>4
      <3> QED
        BY <1>9, <1>10, <2>5, <3>1
    <2>8. queued'[e] = queued[e] + CountOf(b, e)
      BY <2>4, <2>5
    <2>9. Conserves(e)'
      BY <1>1, <1>5, <1>8, <2>1, <2>3, <2>4, <2>6, <2>7, <2>8, Arrives
    <2> QED
      BY <1>7, <2>9
  <1>12. CASE e \in F /\ e \notin P
    <2>1. done[Dst[e]] /\ New = {}
      BY <1>12
    <2>2. ReceiverSame(e)
      BY <1>1, <1>2, <1>12, <2>1 DEF ReceiverSame
    <2> QED
      BY <1>1, <1>7, <1>8, <2>1, <2>2, DoneConserves
  <1>13. CASE e \notin F
    <2>1. pending'[e] = pending[e] /\ queued'[e] = queued[e]
      BY <1>2, <1>13
    <2>2. CASE New = {}
      <3>1. SenderSame(e) /\ ReceiverSame(e)
        BY <1>1, <1>2, <2>1, <2>2 DEF SenderSame, ReceiverSame
      <3> QED
        BY <3>1, EdgeSame
    <2>3. CASE New # {}
      <3>1. b.edge # e /\ b \in Entry /\ b.items # <<>> /\ ~done[Dst[e]]
        <4>1. x \in F /\ b.edge = x
          BY <1>6, <2>3
        <4> QED
          BY <1>6, <1>13, <2>3, <4>1
      <3>2. q'[Dst[e]] = Append(q[Dst[e]], b)
        BY <1>2, <2>3
      <3> HIDE DEF b, x, F, P, New
      <3>3. CountOf(b, e) = 0 /\ ~EndsEdge(b, e)
        BY <3>1 DEF CountOf, EndsEdge
      <3>4. Outgoing(e)' = Outgoing(e) + CountOf(b, e)
        BY <1>9, <1>10, <2>1, <3>3
      <3>5. queued[e] \in Int
        BY EdgeCounts
      <3>6. queued'[e] = queued[e] + CountOf(b, e)
        BY <2>1, <3>3, <3>5
      <3>7. Conserves(e)'
        BY <1>1, <1>8, <3>1, <3>2, <3>3, <3>4, <3>6, Arrives
      <3> QED
        BY <1>7, <3>7
    <2> QED
      BY <2>2, <2>3
  <1> QED
    BY <1>11, <1>12, <1>13
-----------------------------------------------------------------------------
(* What the receiver does with them.                                       *)

\* Items change place on the receiver's side of the edge.
LEMMA ReceiverConserves ==
    ASSUME TypeOK, NEW e \in Edges, Seals(e), Conserves(e), SenderSame(e),
           q'[Dst[e]] = q[Dst[e]], queued'[e] = queued[e], done'[Dst[e]] = done[Dst[e]],
           e \in ended' <=> e \in ended, Received(e)' = Received(e),
           CountOf(batch[Dst[e]], e) = 0 => CountOf(batch[Dst[e]], e)' = 0
    PROVE  Seals(e)' /\ Conserves(e)'
  <1>1. /\ Sealed(e)' = Sealed(e) /\ HandOn(e)' = HandOn(e) /\ InHand(e)' = InHand(e) /\ Seals(e)'
    BY SenderKept
  <1>2. pending'[e] = pending[e] /\ put'[e] = put[e]
    BY DEF SenderSame
  <1>3. EndQueued(e)' = EndQueued(e)
    BY DEF EndQueued
  <1>4. Once(Sealed(e)') = Once(Sealed(e)) /\ Once(e \in ended') = Once(e \in ended)
    BY <1>1 DEF Once
  <1>5. ~done[Dst[e]] =>
           /\ Counted(q'[Dst[e]], e, queued'[e])
           /\ put'[e] + Once(Sealed(e)') = Received(e)' + queued'[e] + InHand(e)' + Len(pending'[e])
                                            + Once(e \in ended')
    BY <1>1, <1>2, <1>4 DEF Conserves
  <1>6. e \in ended => put'[e] = Received(e)' /\ CountOf(batch[Dst[e]], e)' = 0
    BY <1>2 DEF Conserves
  <1>7. /\ EndQueued(e)' \/ e \in ended' => Sealed(e)' /\ ~HandOn(e)'
        /\ EndQueued(e)' => e \notin ended'
    BY <1>1, <1>3 DEF Conserves
  <1> QED
    BY <1>1, <1>5, <1>6, <1>7 DEF Conserves, Once

\* Unpack hands over or keeps back the first item of b; the rest is the batch.
LEMMA UnpackReceives ==
    ASSUME TypeOK, NEW n \in Nodes, NEW b \in Entry, b.items # <<>>, Dst[b.edge] = n,
           Unpack(n, b), NEW e \in Edges
    PROVE  /\ got'[e] + Len(kept'[e]) = got[e] + Len(kept[e]) + (IF e = b.edge THEN 1 ELSE 0)
           /\ Dst[e] = n => CountOf(batch'[Dst[e]], e) = CountOf(b, e) - (IF e = b.edge THEN 1 ELSE 0)
           /\ Dst[e] # n => batch'[Dst[e]] = batch[Dst[e]]
  <1>1. b.edge \in Edges /\ b.items \in Seq(Nat) /\ Len(b.items) \in Nat
    BY DEF Entry, Items
  <1>2. got \in [Edges -> Nat] /\ kept \in [Edges -> Seq(Nat)] /\ batch \in [Nodes -> Entry]
    BY MoreShapes
  <1>3. batch' = [batch EXCEPT ![n] = IF Len(b.items) = 1 THEN NoEntry ELSE [b EXCEPT !.items = Tail(b.items)]]
    BY DEF Unpack
  <1>4. Len(Tail(b.items)) = Len(b.items) - 1
    BY <1>1
  <1>5. batch'[n] = IF Len(b.items) = 1 THEN NoEntry ELSE [b EXCEPT !.items = Tail(b.items)]
    BY <1>2, <1>3
  <1>6. Dst[e] # n => batch'[Dst[e]] = batch[Dst[e]]
    BY <1>2, <1>3, GraphType
  <1>7. CountOf(batch'[n], e) = CountOf(b, e) - (IF e = b.edge THEN 1 ELSE 0)
    <2>1. CASE Len(b.items) = 1
      <3>1. batch'[n] = NoEntry
        BY <1>5, <2>1
      <3>2. CountOf(batch'[n], e) = 0
        BY <3>1, NoEntryIsEntry DEF CountOf
      <3>3. CASE e = b.edge
        BY <2>1, <3>2, <3>3 DEF CountOf
      <3>4. CASE e # b.edge
        BY <3>2, <3>4 DEF CountOf
      <3> QED
        BY <3>3, <3>4
    <2>2. CASE Len(b.items) # 1
      <3>1. batch'[n] = [b EXCEPT !.items = Tail(b.items)]
        BY <1>5, <2>2
      <3>2. batch'[n].edge = b.edge /\ batch'[n].items = Tail(b.items)
        BY <3>1 DEF Entry
      <3>3. CASE e = b.edge
        BY <1>1, <1>4, <3>2, <3>3 DEF CountOf
      <3>4. CASE e # b.edge
        BY <3>2, <3>4 DEF CountOf
      <3> QED
        BY <3>3, <3>4
    <2> QED
      BY <2>1, <2>2
  <1>8. got'[e] + Len(kept'[e]) = got[e] + Len(kept[e]) + (IF e = b.edge THEN 1 ELSE 0)
    <2>1. CASE Watched(n) \subseteq {b.edge}
      <3>1. got' = [got EXCEPT ![b.edge] = got[b.edge] + 1] /\ kept' = kept
        BY <2>1 DEF Unpack
      <3>2. got'[e] = got[e] + (IF e = b.edge THEN 1 ELSE 0) /\ got[e] \in Nat /\ Len(kept[e]) \in Nat
        BY <1>2, <3>1 DEF Once
      <3> QED
        BY <3>1, <3>2 DEF Once
    <2>2. CASE ~(Watched(n) \subseteq {b.edge})
      <3>1. kept' = [kept EXCEPT ![b.edge] = Append(kept[b.edge], Head(b.items))] /\ got' = got
        BY <2>2 DEF Unpack
      <3>2. Head(b.items) \in Nat
        BY <1>1, HeadTailProperties
      <3>3. got[e] \in Nat /\ kept[e] \in Seq(Nat) /\ Len(kept[e]) \in Nat
        BY <1>2
      <3>4. CASE e = b.edge
        <4>1. kept'[e] = Append(kept[e], Head(b.items))
          BY <1>2, <3>1, <3>4
        <4>2. Len(kept'[e]) = Len(kept[e]) + 1
          BY <3>2, <3>3, <4>1
        <4>3. got'[e] = got[e]
          BY <3>1
        <4> DEFINE g == got[e]
                   k == Len(kept[e])
        <4>4. got'[e] + Len(kept'[e]) = g + (k + 1) /\ g \in Nat /\ k \in Nat
          BY <3>3, <4>2, <4>3
        <4> HIDE DEF g, k
        <4>5. got'[e] + Len(kept'[e]) = g + k + 1
          BY <4>4
        <4> QED
          BY <3>4, <4>5 DEF g, k
      <3>5. CASE e # b.edge
        <4>1. kept'[e] = kept[e]
          BY <1>2, <3>1, <3>5
        <4> QED
          BY <3>1, <3>3, <3>5, <4>1
      <3> QED
        BY <3>4, <3>5
    <2> QED
      BY <2>1, <2>2
  <1> QED
    BY <1>6, <1>7, <1>8

LEMMA TakeSteps ==
    ASSUME CreditInv, TypeOK', NEW n \in Nodes, NEW e \in Edges, Seals(e), Conserves(e),
           TakeKept(n) \/ Drain(n) \/ NextOfBatch(n)
    PROVE  Seals(e)' /\ Conserves(e)'
  <1>1. TypeOK
    BY DEF CreditInv
  <1>2. /\ mode' = mode /\ plan' = plan /\ hand' = hand /\ pending' = pending /\ put' = put
        /\ q' = q /\ queued' = queued /\ ended' = ended /\ done' = done
    BY DEF TakeKept, Drain, NextOfBatch, edgeVars
  <1>3. /\ got \in [Edges -> Nat] /\ kept \in [Edges -> Seq(Nat)] /\ batch \in [Nodes -> Entry]
        /\ Dst[e] \in Nodes
    BY <1>1, MoreShapes, GraphType
  <1>4. got[e] \in Nat /\ Len(kept[e]) \in Nat /\ CountOf(batch[Dst[e]], e) \in Nat
    BY <1>1, EdgeCounts
  <1>5. Received(e)' = got'[e] + Len(kept'[e]) + CountOf(batch'[Dst[e]], e)
    BY DEF Received, CountOf
  <1>6. Received(e) = got[e] + Len(kept[e]) + CountOf(batch[Dst[e]], e)
    BY DEF Received
  <1>7. Received(e)' = Received(e) /\ (CountOf(batch[Dst[e]], e) = 0 => CountOf(batch'[Dst[e]], e) = 0)
    <2>1. CASE TakeKept(n)
      <3>1. PICK d \in Edges : /\ kept[d] # <<>> /\ kept' = [kept EXCEPT ![d] = Tail(kept[d])]
                               /\ got' = [got EXCEPT ![d] = got[d] + 1]
        BY <2>1 DEF TakeKept
      <3>2. batch' = batch
        BY <2>1 DEF TakeKept
      <3>3. CASE e = d
        <4>1. got'[e] = got[e] + 1 /\ kept'[e] = Tail(kept[e]) /\ kept[e] \in Seq(Nat) /\ kept[e] # <<>>
          BY <1>3, <3>1, <3>3
        <4>2. Len(kept'[e]) = Len(kept[e]) - 1
          BY <4>1
        <4> QED
          BY <1>4, <1>5, <1>6, <3>2, <4>1, <4>2
      <3>4. CASE e # d
        <4>1. got'[e] = got[e] /\ kept'[e] = kept[e]
          BY <1>3, <3>1, <3>4
        <4> QED
          BY <1>5, <1>6, <3>2, <4>1
      <3> QED
        BY <3>3, <3>4
    <2>2. CASE Drain(n)
      <3> DEFINE d == batch[n].edge
      <3>1. /\ got' = [got EXCEPT ![d] = got[d] + Len(batch[n].items)] /\ kept' = kept
            /\ batch' = [batch EXCEPT ![n] = NoEntry] /\ batch[n].items # <<>>
        BY <2>2 DEF Drain
      <3>2. d \in Edges /\ Dst[d] = n /\ Len(batch[n].items) \in Nat
        BY <1>3, <3>1 DEF CreditInv, BatchWired, Entry, Items
      <3>3. CASE Dst[e] # n
        <4>1. e # d /\ batch'[Dst[e]] = batch[Dst[e]]
          BY <1>3, <3>1, <3>2, <3>3
        <4>2. got'[e] = got[e]
          BY <1>3, <3>1, <4>1
        <4> QED
          BY <1>5, <1>6, <3>1, <4>1, <4>2
      <3>4. CASE Dst[e] = n
        <4>1. CountOf(batch'[Dst[e]], e) = 0
          BY <1>3, <3>1, <3>4, NoEntryIsEntry DEF CountOf
        <4>2. got'[e] = got[e] + CountOf(batch[n], e)
          <5>1. CASE e = d
            BY <1>3, <3>1, <3>2, <5>1 DEF CountOf
          <5>2. CASE e # d
            BY <1>3, <1>4, <3>1, <3>2, <5>2 DEF CountOf
          <5> QED
            BY <5>1, <5>2
        <4> QED
          BY <1>4, <1>5, <1>6, <3>1, <3>4, <4>1, <4>2
      <3> QED
        BY <3>3, <3>4
    <2>3. CASE NextOfBatch(n)
      <3> DEFINE b == batch[n]
      <3>1. Unpack(n, b) /\ b.items # <<>> /\ b \in Entry
        BY <1>3, <2>3 DEF NextOfBatch
      <3>2. Dst[b.edge] = n
        BY <3>1 DEF CreditInv, BatchWired
      <3>3. /\ got'[e] + Len(kept'[e]) = got[e] + Len(kept[e]) + (IF e = b.edge THEN 1 ELSE 0)
            /\ Dst[e] = n => CountOf(batch'[Dst[e]], e) = CountOf(b, e) - (IF e = b.edge THEN 1 ELSE 0)
            /\ Dst[e] # n => batch'[Dst[e]] = batch[Dst[e]]
        <4> HIDE DEF b
        <4> QED
          BY <1>1, <3>1, <3>2, UnpackReceives
      <3>5. CountOf(b, e) = 0 => e # b.edge
        <4>1. Len(b.items) # 0
          BY <3>1 DEF Entry, Items
        <4> QED
          BY <4>1 DEF CountOf
      <3>6. got'[e] \in Nat /\ Len(kept'[e]) \in Nat
        BY DEF TypeOK, CodeTyped, ReceiversTyped, Items
      <3>7. CASE Dst[e] # n
        <4>1. e # b.edge /\ batch'[Dst[e]] = batch[Dst[e]]
          BY <3>2, <3>3, <3>7
        <4> QED
          BY <1>4, <1>5, <1>6, <3>3, <3>6, <4>1
      <3>8. CASE Dst[e] = n /\ e = b.edge
        <4>1. /\ got'[e] + Len(kept'[e]) = got[e] + Len(kept[e]) + 1
              /\ CountOf(batch'[Dst[e]], e) = CountOf(batch[Dst[e]], e) - 1
          BY <3>3, <3>8
        <4> DEFINE g == got[e]    k == Len(kept[e])    c == CountOf(batch[Dst[e]], e)
                   g1 == got'[e]  k1 == Len(kept'[e])  c1 == CountOf(batch'[Dst[e]], e)
        <4>2. /\ g \in Nat /\ k \in Nat /\ c \in Nat /\ g1 \in Nat /\ k1 \in Nat
              /\ g1 + k1 = g + k + 1 /\ c1 = c - 1 /\ c # 0
              /\ Received(e)' = g1 + k1 + c1 /\ Received(e) = g + k + c
          BY <1>4, <1>5, <1>6, <3>5, <3>6, <3>8, <4>1
        <4> HIDE DEF g, k, c, g1, k1, c1
        <4>3. Received(e)' = Received(e)
          BY <4>2
        <4> QED
          BY <4>2, <4>3 DEF c
      <3>9. CASE Dst[e] = n /\ e # b.edge
        <4>1. /\ got'[e] + Len(kept'[e]) = got[e] + Len(kept[e]) + 0
              /\ CountOf(batch'[Dst[e]], e) = CountOf(batch[Dst[e]], e) - 0
          BY <3>3, <3>9
        <4> QED
          BY <1>4, <1>5, <1>6, <3>6, <4>1
      <3> QED
        BY <3>7, <3>8, <3>9
    <2> QED
      BY <2>1, <2>2, <2>3
  <1>8. SenderSame(e)
    BY <1>2 DEF SenderSame
  <1>9. CountOf(batch[Dst[e]], e)' = CountOf(batch'[Dst[e]], e)
    BY DEF CountOf
  <1> QED
    BY <1>1, <1>2, <1>7, <1>8, <1>9, ReceiverConserves

\* The oldest entry of the queue is taken, an end of stream among them.
LEMMA PopSteps ==
    ASSUME CreditInv, TypeOK', NEW n \in Nodes, NEW e \in Edges,
           Shut(n), Seals(e), Conserves(e), Pop(n), Head(q[n]).items # <<LOOP_DONE>>
    PROVE  Seals(e)' /\ Conserves(e)'
  <1>1. TypeOK
    BY DEF CreditInv
  <1> DEFINE b == Head(q[n])
             c == CountOf(b, e)
  <1>2. /\ mode' = mode /\ plan' = plan /\ hand' = hand /\ pending' = pending /\ put' = put
        /\ done' = done /\ q[n] # <<>> /\ q' = [q EXCEPT ![n] = Tail(q[n])]
    BY DEF Pop
  <1>3. q[n] \in Seq(Queued)
    BY <1>1, Shapes
  <1>4. b \in Queued /\ b \in QueuedFor(n) /\ b \notin Control
    BY <1>2, <1>3, HeadQueued, HeadTailProperties DEF Control
  <1>5. b \in Entry /\ b.items \in Seq(Nat) /\ b.edge \in Edges /\ b.items # <<LOOP_DONE>>
    BY <1>4 DEF Queued, Entry, Items
  <1>6. b.items # <<>> /\ Dst[b.edge] = n
    BY <1>4 DEF QueuedFor, Queued
  <1>7. queued' = [queued EXCEPT ![b.edge] = queued[b.edge] - Len(b.items)]
    BY <1>5 DEF Pop
  <1>8. \/ /\ b.items = <<EOS>> /\ ended' = ended \cup {b.edge}
           /\ batch' = batch /\ kept' = kept /\ got' = got
        \/ b.items # <<EOS>> /\ Unpack(n, b) /\ ended' = ended
    BY <1>5 DEF Pop
  <1>9. batch[n].items = <<>>
    BY DEF Pop, Popping, CreditInv, BatchWired
  <1>10. SenderSame(e)
    BY <1>2 DEF SenderSame
  <1> HIDE DEF b
  <1>11. got[e] \in Nat /\ Len(kept[e]) \in Nat /\ got'[e] \in Nat /\ Len(kept'[e]) \in Nat
    <2>1. got' \in [Edges -> Nat] /\ kept' \in [Edges -> Seq(Nat)]
      BY DEF TypeOK, CodeTyped, ReceiversTyped, Items
    <2> QED
      BY <1>1, <2>1, MoreShapes
  <1>12. Received(e)' = got'[e] + Len(kept'[e]) + CountOf(batch'[Dst[e]], e)
    BY DEF Received, CountOf
  <1>13. CASE Dst[e] # n
    <2>1. e # b.edge
      BY <1>6, <1>13
    <2>2. batch'[Dst[e]] = batch[Dst[e]] /\ got'[e] + Len(kept'[e]) = got[e] + Len(kept[e])
      <3>1. CASE b.items = <<EOS>>
        BY <1>8, <3>1
      <3>2. CASE b.items # <<EOS>>
        <4>1. /\ got'[e] + Len(kept'[e]) = got[e] + Len(kept[e]) + (IF e = b.edge THEN 1 ELSE 0)
              /\ batch'[Dst[e]] = batch[Dst[e]]
          BY <1>1, <1>5, <1>6, <1>8, <1>13, <3>2, UnpackReceives
        <4> QED
          BY <1>11, <2>1, <4>1
      <3> QED
        BY <3>1, <3>2
    <2>3. Received(e)' = Received(e)
      BY <1>12, <2>2 DEF Received
    <2>4. q'[Dst[e]] = q[Dst[e]] /\ queued'[e] = queued[e] /\ (e \in ended' <=> e \in ended)
      BY <1>1, <1>2, <1>7, <1>8, <1>13, <2>1, GraphType, Shapes, MoreShapes
    <2>5. CountOf(batch[Dst[e]], e)' = CountOf(batch[Dst[e]], e)
      BY <2>2 DEF CountOf
    <2> QED
      BY <1>1, <1>2, <1>10, <2>3, <2>4, <2>5, ReceiverConserves
  <1>14. CASE Dst[e] = n
    <2> DEFINE t == Tail(q[n])
               k == queued[e]
    <2>1. ~done[Dst[e]]
      BY <1>2, <1>14 DEF Shut
    <2>2. /\ Counted(q[n], e, k)
          /\ put[e] + Once(Sealed(e)) =
                Received(e) + k + InHand(e) + Len(pending[e]) + Once(e \in ended)
      BY <1>14, <2>1 DEF Conserves
    <2>3. /\ put[e] \in Nat /\ k \in Int /\ InHand(e) \in Nat /\ Len(pending[e]) \in Nat
          /\ Received(e) \in Nat
      BY <1>1, EdgeCounts
    <2>4. c \in Nat /\ (e = b.edge => c = Len(b.items) /\ c > 0) /\ (e # b.edge => c = 0)
      <3>1. Len(b.items) \in Nat \ {0}
        BY <1>5, <1>6, EmptySeq
      <3> QED
        BY <3>1 DEF CountOf
    <2>5. /\ Counted(t, e, k - c) /\ c <= k
          /\ EndsEdge(b, e) => k = 1 /\ \A i \in 1..Len(t) : ~EndsEdge(t[i], e)
      <3>1. CountIn(b, e) = c
        BY <1>5, EntryCounts
      <3>2. /\ Counted(t, e, k - CountIn(b, e)) /\ CountIn(b, e) <= k
            /\ EndsEdge(b, e) => k = 1 /\ \A i \in 1..Len(t) : ~OnEdge(t[i], e)
        BY <1>2, <1>3, <2>2, <2>3, CountedTail DEF b
      <3>3. \A i \in 1..Len(t) : EndsEdge(t[i], e) => OnEdge(t[i], e)
        <4>1. t \in Seq(Queued)
          BY <1>2, <1>3, HeadTailProperties
        <4>2. \A i \in 1..Len(t) : t[i] \in Queued
          BY <4>1
        <4> HIDE DEF t
        <4> QED
          BY <4>2, CountInType
      <3> HIDE DEF t, k, c
      <3> QED
        BY <3>1, <3>2, <3>3
    <2>6. q'[Dst[e]] = t /\ queued'[e] = k - c
      <3>1. q'[n] = t
        BY <1>1, <1>2, Shapes
      <3>2. queued \in [Edges -> Int]
        BY <1>1, MoreShapes
      <3>3. CASE e = b.edge
        <4>1. queued'[e] = queued[e] - Len(b.items)
          BY <1>7, <3>2, <3>3
        <4> QED
          BY <1>14, <2>4, <3>1, <3>3, <4>1
      <3>4. CASE e # b.edge
        <4>1. queued'[e] = queued[e]
          BY <1>7, <3>2, <3>4
        <4>2. c = 0 /\ k = queued[e] /\ k \in Int
          BY <2>3, <2>4, <3>4
        <4>3. queued'[e] = k - c
          <5> HIDE DEF k, c
          <5> QED
            BY <4>1, <4>2
        <4> QED
          BY <1>14, <3>1, <4>3
      <3> QED
        BY <3>3, <3>4
    <2>7. DOMAIN t = 1..Len(t) /\ \A i \in DOMAIN t : i + 1 \in DOMAIN q[n] /\ t[i] = q[n][i + 1]
      BY <1>2, <1>3, TailOf, TailElements
    <2>8. EndQueued(e)' => EndQueued(e) /\ ~EndsEdge(b, e)
      <3>1. SUFFICES ASSUME EndQueued(e)'  PROVE EndQueued(e) /\ ~EndsEdge(b, e)
        OBVIOUS
      <3>2. PICK i \in DOMAIN t : EndsEdge(t[i], e)
        BY <2>6, <3>1 DEF EndQueued
      <3>3. EndQueued(e)
        BY <1>14, <2>7, <3>2 DEF EndQueued
      <3>4. i \in 1..Len(t)
        BY <2>7
      <3> QED
        BY <2>5, <3>2, <3>3, <3>4
    <2>9. EndsEdge(b, e) => EndQueued(e)
      <3>1. 1 \in DOMAIN q[n] /\ q[n][1] = b
        BY <1>2, <1>3, TailOf DEF b
      <3> QED
        BY <1>14, <3>1 DEF EndQueued
    <2>10. CountOf(batch[n], e) = 0
      BY <1>9 DEF CountOf
    <2>11. Received(e) = got[e] + Len(kept[e])
      BY <1>11, <1>14, <2>10 DEF Received
    <2>12. /\ Sealed(e)' = Sealed(e) /\ HandOn(e)' = HandOn(e) /\ InHand(e)' = InHand(e) /\ Seals(e)'
      BY <1>10, SenderKept
    <2>13. Once(Sealed(e)') = Once(Sealed(e))
      BY <2>12 DEF Once
    <2> HIDE DEF t, k, c
    <2>14. CASE EndsEdge(b, e)
      <3>1. b.items = <<EOS>> /\ e \in ended' /\ batch' = batch /\ kept' = kept /\ got' = got /\ c = 1
        BY <1>8, <2>4, <2>14 DEF EndsEdge
      <3>2. EndQueued(e) /\ Sealed(e) /\ ~HandOn(e) /\ e \notin ended
        BY <2>9, <2>14 DEF Conserves
      <3>3. Received(e)' = Received(e) /\ CountOf(batch'[n], e) = 0
        BY <1>12, <2>10, <3>1 DEF Received
      <3>4. InHand(e) = 0 /\ Len(pending[e]) = 0
        BY <3>2 DEF HandOn, InHand, CountOf, Seals
      <3>5. Once(Sealed(e)) = 1 /\ Once(e \in ended) = 0 /\ Once(e \in ended') = 1
        BY <3>1, <3>2 DEF Once
      <3>6. k = 1
        BY <2>5, <2>14
      <3>7. put[e] = Received(e)
        BY <2>2, <2>3, <3>4, <3>5, <3>6
      <3>8. put'[e] + Once(Sealed(e)') = Received(e)' + queued'[e] + InHand(e)' + Len(pending'[e])
                                            + Once(e \in ended')
        BY <1>2, <2>3, <2>6, <2>12, <2>13, <3>1, <3>3, <3>4, <3>5, <3>6, <3>7
      <3>9. Counted(q'[Dst[e]], e, queued'[e])
        BY <2>5, <2>6
      <3>10. ~EndQueued(e)'
        BY <2>8, <2>14
      <3>11. CountOf(batch[Dst[e]], e)' = 0
        BY <1>14, <3>3 DEF CountOf
      <3> QED
        BY <1>2, <2>12, <3>2, <3>3, <3>7, <3>8, <3>9, <3>10, <3>11 DEF Conserves, Once
    <2>15. CASE ~EndsEdge(b, e)
      <3>1. e \in ended' <=> e \in ended
        BY <1>8, <2>15 DEF EndsEdge
      <3>2. Received(e)' = Received(e) + c
            /\ (e # b.edge => CountOf(batch'[n], e) = 0)
        <4>1. CASE b.items = <<EOS>>
          <5>1. e # b.edge
            BY <2>15, <4>1 DEF EndsEdge
          <5> QED
            BY <1>8, <1>11, <1>12, <1>14, <2>4, <2>10, <2>11, <4>1, <5>1
        <4>2. CASE b.items # <<EOS>>
          <5>1. /\ got'[e] + Len(kept'[e]) = got[e] + Len(kept[e]) + (IF e = b.edge THEN 1 ELSE 0)
                /\ CountOf(batch'[n], e) = CountOf(b, e) - (IF e = b.edge THEN 1 ELSE 0)
            BY <1>1, <1>5, <1>6, <1>8, <1>14, <4>2, UnpackReceives
          <5>2. Received(e)' = got'[e] + Len(kept'[e]) + CountOf(batch'[n], e)
            BY <1>12, <1>14
          <5>3. CASE e = b.edge
            BY <1>11, <2>4, <2>11, <5>1, <5>2, <5>3 DEF c
          <5>4. CASE e # b.edge
            BY <1>11, <2>4, <2>11, <5>1, <5>2, <5>4 DEF c
          <5> QED
            BY <5>3, <5>4
        <4> QED
          BY <4>1, <4>2
      <3>3. e \in ended => e # b.edge
        <4>1. SUFFICES ASSUME e \in ended, e = b.edge  PROVE FALSE
          OBVIOUS
        <4>2. Sealed(e) /\ put[e] = Received(e)
          BY <4>1 DEF Conserves
        <4>3. Once(Sealed(e)) = 1 /\ Once(e \in ended) = 1
          BY <4>1, <4>2 DEF Once
        <4>4. k <= 0
          <5> DEFINE p == put[e]  h == InHand(e)  l == Len(pending[e])
          <5>1. p + 1 = p + k + h + l + 1
            BY <2>2, <4>2, <4>3
          <5>2. p \in Nat /\ h \in Nat /\ l \in Nat /\ k \in Int
            BY <2>3
          <5> HIDE DEF p, h, l
          <5> QED
            BY ONLY <5>1, <5>2
        <4>5. c > 0 /\ c <= k
          BY <2>4, <2>5, <4>1
        <4> QED
          BY <2>3, <2>4, <4>4, <4>5
      <3>4. Once(e \in ended') = Once(e \in ended) /\ Once(e \in ended) \in Nat
            /\ Once(Sealed(e)) \in Nat
        BY <3>1 DEF Once
      <3>5. put'[e] + Once(Sealed(e)') = Received(e)' + queued'[e] + InHand(e)' + Len(pending'[e])
                                            + Once(e \in ended')
        <4> DEFINE p == put[e]  z == Once(Sealed(e))  h == InHand(e)  l == Len(pending[e])
                   r == Received(e)  d == Once(e \in ended)
        <4>1. p + z = (r + c) + (k - c) + h + l + d
          <5>1. /\ p + z = r + k + h + l + d
                /\ p \in Int /\ z \in Int /\ h \in Int /\ l \in Int /\ r \in Int /\ d \in Int
                /\ k \in Int /\ c \in Int
            BY <2>2, <2>3, <2>4, <3>4
          <5> HIDE DEF p, z, h, l, r, d
          <5> QED
            BY ONLY <5>1
        <4> QED
          BY <1>2, <2>6, <2>12, <2>13, <3>2, <3>4, <4>1
      <3>6. Counted(q'[Dst[e]], e, queued'[e])
        BY <2>5, <2>6
      <3>7. e \in ended => put'[e] = Received(e)' /\ CountOf(batch'[n], e) = 0
        BY <1>2, <2>3, <2>4, <3>2, <3>3 DEF Conserves
      <3>8. CountOf(batch[Dst[e]], e)' = CountOf(batch'[n], e)
        BY <1>14 DEF CountOf
      <3>9. /\ EndQueued(e)' \/ e \in ended' => Sealed(e)' /\ ~HandOn(e)'
            /\ EndQueued(e)' => e \notin ended'
        BY <2>8, <2>12, <3>1 DEF Conserves
      <3> QED
        BY <2>12, <3>1, <3>5, <3>6, <3>7, <3>8, <3>9 DEF Conserves, Once
    <2> QED
      BY <2>14, <2>15
  <1> QED
    BY <1>13, <1>14

\* A loop's word ends feedback edges and nothing else.
LEMMA ToldSteps ==
    ASSUME CreditInv, TypeOK', NEW n \in Nodes, NEW e \in Edges, Feedback(e) => Queue(n),
           Shut(n), Seals(e), Conserves(e), Pop(n), Head(q[n]).items = <<LOOP_DONE>>
    PROVE  Seals(e)' /\ Conserves(e)'
  <1>1. TypeOK
    BY DEF CreditInv
  <1> DEFINE b == Head(q[n])
             t == Tail(q[n])
  <1>2. /\ mode' = mode /\ plan' = plan /\ hand' = hand /\ pending' = pending /\ put' = put
        /\ done' = done /\ q[n] # <<>> /\ q' = [q EXCEPT ![n] = t]
    BY DEF Pop
  <1>3. /\ batch' = batch /\ kept' = kept /\ got' = got
        /\ ended' = ended \cup {d \in Edges : Dst[d] = n /\ Feedback(d)}
    BY LoopDoneIsNotEos DEF Pop
  <1>4. queued'[e] = queued[e]
    <2>1. queued' = [queued EXCEPT ![b.edge] = queued[b.edge]]
      BY DEF Pop
    <2>2. queued \in [Edges -> Int]
      BY <1>1, MoreShapes
    <2> HIDE DEF b
    <2> QED
      BY <2>1, <2>2
  <1>5. q[n] \in Seq(Queued)
    BY <1>1, Shapes
  <1>6. b \in Queued /\ b \notin Entry
    <2>1. b \in Queued
      BY <1>2, <1>5, HeadTailProperties
    <2> QED
      BY <2>1, EntryCounts
  <1>7. ~(Dst[e] = n /\ Feedback(e))
    <2>1. b = q[n][1] /\ 1 \in DOMAIN q[n]
      BY <1>2, <1>5, TailOf
    <2> QED
      BY <1>6, <2>1 DEF Queue
  <1>8. e \in ended' <=> e \in ended
    BY <1>3, <1>7
  <1>9. SenderSame(e)
    BY <1>2 DEF SenderSame
  <1>10. CASE Dst[e] # n
    <2>1. ReceiverSame(e)
      BY <1>1, <1>2, <1>3, <1>4, <1>8, <1>10, GraphType, Shapes DEF ReceiverSame
    <2> QED
      BY <1>1, <1>9, <2>1, EdgeSame
  <1>11. CASE Dst[e] = n
    <2>1. /\ Sealed(e)' = Sealed(e) /\ HandOn(e)' = HandOn(e) /\ InHand(e)' = InHand(e) /\ Seals(e)'
      BY <1>9, SenderKept
    <2>2. ~done[n] /\ q'[n] = t
      BY <1>1, <1>2, Shapes DEF Shut
    <2>3. Received(e)' = Received(e) /\ CountOf(batch[Dst[e]], e)' = CountOf(batch[Dst[e]], e)
          /\ Once(Sealed(e)') = Once(Sealed(e)) /\ Once(e \in ended') = Once(e \in ended)
      BY <1>3, <1>8, <2>1 DEF Received, CountOf, Once
    <2>4. DOMAIN t = 1..Len(t) /\ \A i \in DOMAIN t : i + 1 \in DOMAIN q[n] /\ t[i] = q[n][i + 1]
      BY <1>2, <1>5, TailOf, TailElements
    <2>5. EndQueued(e)' => EndQueued(e)
      BY <1>11, <2>2, <2>4 DEF EndQueued
    <2>6. Counted(t, e, queued[e])
      <3>1. Counted(q[n], e, queued[e]) /\ queued[e] \in Int
        BY <1>1, <1>11, <2>2, EdgeCounts DEF Conserves
      <3>2. Counted(t, e, queued[e] - CountIn(b, e))
        BY <1>2, <1>5, <3>1, CountedTail
      <3>3. CountIn(b, e) = 0
        BY DEF CountIn
      <3> HIDE DEF t, b
      <3> QED
        BY <3>1, <3>2, <3>3
    <2> HIDE DEF t, b
    <2>7. ~done[Dst[e]] =>
             put'[e] + Once(Sealed(e)') = Received(e)' + queued'[e] + InHand(e)' + Len(pending'[e])
                                            + Once(e \in ended')
      BY <1>2, <1>4, <2>1, <2>3 DEF Conserves
    <2>8. e \in ended' => put'[e] = Received(e)' /\ CountOf(batch[Dst[e]], e)' = 0
      BY <1>2, <1>8, <2>3 DEF Conserves
    <2>9. /\ EndQueued(e)' \/ e \in ended' => Sealed(e)' /\ ~HandOn(e)'
          /\ EndQueued(e)' => e \notin ended'
      BY <1>8, <2>1, <2>5 DEF Conserves
    <2> QED
      BY <1>2, <1>4, <1>11, <2>1, <2>2, <2>6, <2>7, <2>8, <2>9 DEF Conserves, Once
  <1> QED
    BY <1>10, <1>11

LEMMA MarkSteps ==
    ASSUME TypeOK, TypeOK', NEW n \in Nodes, NEW e \in Edges, Seals(e), Conserves(e), Mark(n)
    PROVE  Seals(e)' /\ Conserves(e)'
  <1>1. /\ mode' = mode /\ plan' = plan /\ hand' = hand /\ pending' = pending /\ put' = put
        /\ queued' = queued /\ batch' = batch /\ kept' = kept /\ got' = got /\ ended' = ended
        /\ q' = [q EXCEPT ![n] = <<>>] /\ done' = [done EXCEPT ![n] = TRUE]
    BY DEF Mark, receiveVars, codeVars
  <1>2. SenderSame(e)
    BY <1>1 DEF SenderSame
  <1>3. CASE Dst[e] # n
    <2>1. ReceiverSame(e)
      BY <1>1, <1>3, GraphType, Shapes DEF ReceiverSame
    <2> QED
      BY <1>2, <2>1, EdgeSame
  <1>4. CASE Dst[e] = n
    <2>1. done'[Dst[e]] /\ q'[Dst[e]] = <<>>
      BY <1>1, <1>4, Shapes
    <2>2. ~EndQueued(e)'
      BY <2>1 DEF EndQueued
    <2>3. /\ Sealed(e)' = Sealed(e) /\ HandOn(e)' = HandOn(e) /\ Seals(e)'
      BY <1>2, SenderKept
    <2>4. Received(e)' = Received(e) /\ CountOf(batch[Dst[e]], e)' = CountOf(batch[Dst[e]], e)
      BY <1>1 DEF Received, CountOf
    <2> QED
      BY <1>1, <2>1, <2>2, <2>3, <2>4 DEF Conserves
  <1> QED
    BY <1>3, <1>4

LEMMA EdgeStep ==
    ASSUME CreditInv, TypeOK', NEW n \in Nodes, NEW e \in Edges, Steps(n), Tidy(n), Tidy(n)',
           Closes(n), Feedback(e) => Queue(n), Shut(n), Seals(e), Conserves(e)
    PROVE  Seals(e)' /\ Conserves(e)'
  <1>1. TypeOK
    BY DEF CreditInv
  <1>2. CASE \/ Start(n) \/ Doze(n) \/ WakeProducer(n) \/ End(n) \/ Claim(n) \/ Await(n)
             \/ Release(n)
    BY <1>1, <1>2, StillSteps
  <1>3. CASE Produce(n) \/ Process(n) \/ FlushFirst(n) \/ Return(n)
    BY <1>1, <1>3, PlanSteps
  <1>4. CASE Skip(n)
    BY <1>1, <1>4, SkipSteps
  <1>5. CASE Buffer(n)
    BY <1>5, PutSteps
  <1>6. CASE Prepare(n)
    BY <1>6, PrepareSteps
  <1>7. CASE ClaimAny(n)
    BY <1>1, <1>7, AnySteps
  <1>8. CASE Block(n)
    BY <1>1, <1>8, BlockSteps
  <1>9. CASE Push(n)
    BY <1>9, PushSteps
  <1>10. CASE TakeKept(n) \/ Drain(n) \/ NextOfBatch(n)
    BY <1>10, TakeSteps
  <1>11. CASE Pop(n)
    BY <1>11, PopSteps, ToldSteps
  <1>12. CASE Mark(n)
    BY <1>1, <1>12, MarkSteps
  <1> QED
    BY <1>2, <1>3, <1>4, <1>5, <1>6, <1>7, <1>8, <1>9, <1>10, <1>11, <1>12 DEF Steps
-----------------------------------------------------------------------------
(* Closing.                                                                *)

LEMMA TailShuts ==
    ASSUME NEW p \in Seq(Commands), p # <<>>, Shuts(p), NEW e \in Edges
    PROVE  /\ Shuts(Tail(p))
           /\ Flushes(p, e) /\ Head(p) # Cmd("flush", e) => Flushes(Tail(p), e)
  <1>1. /\ DOMAIN p = 1..Len(p) /\ Len(p) \in Nat /\ Head(p) = p[1]
        /\ DOMAIN Tail(p) = 1..(Len(p) - 1) /\ \A i \in 1..(Len(p) - 1) : Tail(p)[i] = p[i + 1]
    BY TailOf
  <1>2. \A i \in DOMAIN Tail(p) : i + 1 \in DOMAIN p /\ Tail(p)[i] = p[i + 1] /\ i \in Int
    BY <1>1
  <1>3. Shuts(Tail(p))
    <2>1. \A i \in DOMAIN Tail(p) : Tail(p)[i].op \in {"flush", "eos"}
      BY <1>2 DEF Shuts
    <2>2. ASSUME NEW i \in DOMAIN Tail(p), NEW j \in DOMAIN Tail(p),
                 Tail(p)[i] = Tail(p)[j], Tail(p)[i].op = "eos"
          PROVE  i = j
      <3>1. i + 1 = j + 1
        BY <1>2, <2>2 DEF Shuts
      <3> QED
        BY <1>2, <3>1
    <2> QED
      BY <2>1, <2>2 DEF Shuts
  <1>4. ASSUME Flushes(p, e), Head(p) # Cmd("flush", e)  PROVE Flushes(Tail(p), e)
    <2>1. PICK i \in DOMAIN p : p[i] = Cmd("flush", e) /\ \A j \in DOMAIN p : p[j].op = "eos" => i < j
      BY <1>4 DEF Flushes
    <2>2. i # 1
      BY <1>1, <1>4, <2>1
    <2>3. i - 1 \in DOMAIN Tail(p) /\ Tail(p)[i - 1] = p[i]
      BY <1>1, <2>2
    <2>4. ASSUME NEW j \in DOMAIN Tail(p), Tail(p)[j].op = "eos"  PROVE i - 1 < j
      <3>1. j + 1 \in DOMAIN p /\ p[j + 1].op = "eos" /\ j \in Int
        BY <1>2, <2>4
      <3>2. i < j + 1
        BY <2>1, <3>1
      <3>3. i \in Int
        BY <1>1
      <3> QED
        BY <3>1, <3>2, <3>3
    <2> QED
      BY <2>1, <2>3, <2>4 DEF Flushes
  <1> QED
    BY <1>3, <1>4

\* A node that closes only makes the sends of its plan.
LEMMA PlanTail ==
    ASSUME CreditInv, NEW n \in Nodes, Closes(n), plan[n] # <<>>, mode' = mode,
           plan' = [plan EXCEPT ![n] = Tail(plan[n])],
           \A e \in Edges : Src[e] = n /\ pending'[e] # <<>> =>
                               pending[e] # <<>> /\ Head(plan[n]) # Cmd("flush", e)
    PROVE  Closes(n)'
  <1>1. plan[n] \in Seq(Commands) /\ plan'[n] = Tail(plan[n])
    BY MoreShapes DEF CreditInv
  <1>2. SUFFICES ASSUME mode[n] = "closing"
                 PROVE  /\ Shuts(plan'[n])
                        /\ \A e \in Edges : Src[e] = n /\ pending'[e] # <<>> => Flushes(plan'[n], e)
    BY DEF Closes
  <1>3. Shuts(plan[n])
    BY <1>2 DEF Closes
  <1>4. PICK e \in Edges : TRUE
    BY GraphType
  <1>5. Shuts(plan'[n])
    BY <1>1, <1>3, <1>4, TailShuts
  <1>6. ASSUME NEW d \in Edges, Src[d] = n, pending'[d] # <<>>  PROVE Flushes(plan'[n], d)
    <2>1. Flushes(plan[n], d) /\ Head(plan[n]) # Cmd("flush", d)
      BY <1>2, <1>6 DEF Closes
    <2> QED
      BY <1>1, <1>3, <2>1, TailShuts
  <1> QED
    BY <1>5, <1>6

LEMMA PendingKept ==
    ASSUME CreditInv, NEW n \in Nodes, Steps(n), NEW e \in Edges, Src[e] # n
    PROVE  pending'[e] = pending[e]
  <1>1. TypeOK
    BY DEF CreditInv
  <1>2. CASE \/ Start(n) \/ Produce(n) \/ Process(n) \/ Return(n) \/ Doze(n)
             \/ Mark(n) \/ WakeProducer(n) \/ End(n)
    BY <1>2 DEF Start, Produce, Process, Return, Doze, Mark, WakeProducer, End, edgeVars
  <1>3. CASE Skip(n) \/ Claim(n) \/ ClaimAny(n) \/ Push(n)
    BY <1>3 DEF Skip, Claim, ClaimAny, Claimed, Push, edgeVars
  <1>4. CASE \/ TakeKept(n) \/ Drain(n) \/ NextOfBatch(n) \/ Pop(n) \/ FlushFirst(n) \/ Await(n)
             \/ Release(n)
    BY <1>4 DEF TakeKept, Drain, NextOfBatch, Pop, FlushFirst, Await, Release, edgeVars
  <1>5. CASE Buffer(n)
    <2>1. plan[n] # <<>> /\ HeadOp(n) = "put"
          /\ pending' = [pending EXCEPT ![HeadEdge(n)] = Append(pending[HeadEdge(n)], put[HeadEdge(n)] + 1)]
      BY <1>5 DEF Buffer, Sending
    <2>2. HeadEdge(n) # e
      BY <2>1, HeadWired
    <2> QED
      BY <1>1, <2>1, <2>2, MoreShapes
  <1>6. CASE Prepare(n)
    <2>1. plan[n] # <<>>
          /\ pending' = [pending EXCEPT ![HeadEdge(n)] = IF HeadOp(n) \in {"put", "flush"} THEN <<>> ELSE pending[HeadEdge(n)]]
      BY <1>6 DEF Prepare, Sending
    <2>2. HeadOp(n) \in {"put", "flush"} => HeadEdge(n) # e
      BY <2>1, HeadWired
    <2> QED
      BY <1>1, <2>1, <2>2, MoreShapes
  <1>7. CASE Block(n)
    BY <1>7 DEF Block, Flushable
  <1> QED
    BY <1>2, <1>3, <1>4, <1>5, <1>6, <1>7 DEF Steps

LEMMA ClosesStep ==
    ASSUME CreditInv, NEW n \in Nodes, Steps(n), Tidy(n), NEW m \in Nodes, Closes(n), Closes(m)
    PROVE  Closes(m)'
  <1>1. TypeOK
    BY DEF CreditInv
  <1>2. CASE m # n
    <2>1. mode'[m] = mode[m] /\ plan'[m] = plan[m]
      BY <1>1, <1>2, Local
    <2>2. \A e \in Edges : Src[e] = m => pending'[e] = pending[e]
      BY <1>2, PendingKept
    <2> QED
      BY <2>1, <2>2 DEF Closes
  <1>3. CASE m = n
    <2>1. CASE \/ Start(n) \/ Doze(n) \/ Mark(n) \/ WakeProducer(n) \/ End(n)
               \/ Claim(n) \/ ClaimAny(n) \/ Push(n)
               \/ TakeKept(n) \/ Drain(n) \/ NextOfBatch(n) \/ Pop(n) \/ Await(n) \/ Release(n)
      <3>1. mode' = mode /\ plan' = plan /\ pending' = pending
        <4>1. CASE Start(n) \/ Doze(n) \/ Mark(n) \/ WakeProducer(n) \/ End(n)
          BY <4>1 DEF Start, Doze, Mark, WakeProducer, End, edgeVars
        <4>2. CASE Claim(n) \/ ClaimAny(n) \/ Push(n)
          BY <4>2 DEF Claim, ClaimAny, Claimed, Push
        <4>3. CASE TakeKept(n) \/ Drain(n) \/ NextOfBatch(n) \/ Pop(n) \/ Await(n) \/ Release(n)
          BY <4>3 DEF TakeKept, Drain, NextOfBatch, Pop, Await, Release, edgeVars
        <4> QED
          BY <2>1, <4>1, <4>2, <4>3
      <3> QED
        BY <1>3, <3>1 DEF Closes
    <2>2. CASE Produce(n) \/ Process(n) \/ FlushFirst(n)
      <3>1. mode' = mode /\ mode[n] = "body"
        BY <2>2 DEF Produce, Process, FlushFirst, Making, Popping, Asking, Free, Coding
      <3> QED
        BY <1>3, <3>1 DEF Closes
    <2>3. CASE Return(n)
      <3>1. plan'[n] = ClosePlan(n)
        BY <1>1, <2>3, MoreShapes DEF Return
      <3> QED
        BY <1>3, <3>1, ClosePlanShuts DEF Closes
    <2>4. CASE Buffer(n)
      <3>1. mode' = mode /\ HeadOp(n) = "put" /\ plan[n] # <<>>
        BY <2>4 DEF Buffer, Sending
      <3>2. mode[n] # "closing"
        BY <1>1, <3>1, ClosingSends DEF Closes
      <3> QED
        BY <1>3, <3>1, <3>2 DEF Closes
    <2>5. CASE Block(n)
      <3>1. mode' = mode /\ plan' = plan
        BY <2>5 DEF Block
      <3>2. \A e \in Edges : pending'[e] # <<>> => pending[e] # <<>>
        BY <2>5 DEF Block
      <3> QED
        BY <1>3, <3>1, <3>2 DEF Closes
    <2>6. CASE Skip(n)
      <3>1. mode' = mode /\ pending' = pending /\ plan' = [plan EXCEPT ![n] = Tail(plan[n])]
            /\ plan[n] # <<>> /\ pending[HeadEdge(n)] = <<>>
        BY <2>6 DEF Skip, Sending, edgeVars
      <3>2. \A e \in Edges : Head(plan[n]) = Cmd("flush", e) => HeadEdge(n) = e
        BY DEF HeadEdge, Cmd
      <3> QED
        BY <1>3, <3>1, <3>2, PlanTail
    <2>7. CASE Prepare(n)
      <3>1. mode' = mode /\ plan' = [plan EXCEPT ![n] = Tail(plan[n])] /\ plan[n] # <<>>
            /\ pending' = [pending EXCEPT ![HeadEdge(n)] = IF HeadOp(n) \in {"put", "flush"} THEN <<>> ELSE pending[HeadEdge(n)]]
        BY <2>7 DEF Prepare, Sending
      <3>2. \A e \in Edges : Head(plan[n]) = Cmd("flush", e) => HeadEdge(n) = e /\ HeadOp(n) = "flush"
        BY DEF HeadEdge, HeadOp, Cmd
      <3>3. ASSUME NEW e \in Edges, pending'[e] # <<>>
            PROVE  pending[e] # <<>> /\ Head(plan[n]) # Cmd("flush", e)
        BY <1>1, <3>1, <3>2, <3>3, MoreShapes
      <3> QED
        BY <1>3, <3>1, <3>3, PlanTail
    <2> QED
      BY <2>1, <2>2, <2>3, <2>4, <2>5, <2>6, <2>7 DEF Steps
  <1> QED
    BY <1>2, <1>3
-----------------------------------------------------------------------------
(* Having read everything.                                                 *)

\* The credits of an edge that has ended stay where they are.
LEMMA EndedCredits ==
    ASSUME CreditInv, NEW n \in Nodes, Steps(n), NEW e \in Edges, Tidy(n), Seals(e), Conserves(e),
           e \in ended, mode[Dst[e]] = "closing"
    PROVE  credits'[e] = credits[e]
  <1>1. TypeOK
    BY DEF CreditInv
  <1>2. Sealed(e) /\ ~HandOn(e) /\ pending[e] = <<>> /\ mode[Src[e]] = "closing"
    BY DEF Conserves, Seals, Sealed
  <1>3. CASE \/ Start(n) \/ Produce(n) \/ Process(n) \/ Return(n) \/ Doze(n)
             \/ Mark(n) \/ WakeProducer(n) \/ End(n)
    BY <1>3 DEF Start, Produce, Process, Return, Doze, Mark, WakeProducer, End, edgeVars
  <1>4. CASE Buffer(n) \/ Skip(n) \/ Prepare(n) \/ Push(n)
    BY <1>4 DEF Buffer, Skip, Prepare, Push, edgeVars
  <1>5. CASE \/ TakeKept(n) \/ Drain(n) \/ NextOfBatch(n) \/ Pop(n) \/ FlushFirst(n) \/ Await(n)
    BY <1>5 DEF TakeKept, Drain, NextOfBatch, Pop, FlushFirst, Await, edgeVars
  <1>6. CASE Claim(n)
    <2>1. credits' = Charge(hand[n].edge, Len(hand[n].items)) /\ hand[n].items # <<>>
      BY <1>6 DEF Claim
    <2>2. hand[n].edge # e
      BY <1>2, <2>1 DEF CreditInv, HandWired, HandOn
    <2> QED
      BY <1>1, <2>1, <2>2, Shapes DEF Charge
  <1>7. CASE ClaimAny(n)
    <2>1. mode[n] = "body"
      BY <1>7 DEF ClaimAny, Claiming, Tidy
    <2>2. rr[n] \in Nat
      BY <1>1 DEF TypeOK, EdgesTyped
    <2>3. PICK d \in Edges : Src[d] = n /\ credits' = Charge(d, 1)
      BY <1>7, <2>2, ClaimAnyPicks
    <2>4. d # e
      BY <1>2, <2>1, <2>3
    <2> QED
      BY <1>1, <2>3, <2>4, Shapes DEF Charge
  <1>8. CASE Block(n)
    BY <1>2, <1>8 DEF Block, Flushable
  <1>9. CASE Release(n)
    <2>1. pc[n] = "release" /\ credits' = [credits EXCEPT ![rel[n].edge] = credits[rel[n].edge] + rel[n].n]
      BY <1>9 DEF Release
    <2>2. mode[n] # "closing" /\ Dst[rel[n].edge] = n
      BY <2>1 DEF Tidy, CreditInv, ReleaseWired
    <2>3. rel[n].edge # e
      BY <2>2
    <2> QED
      BY <1>1, <2>1, <2>3, Shapes
  <1> QED
    BY <1>3, <1>4, <1>5, <1>6, <1>7, <1>8, <1>9 DEF Steps

\* Only its receiver ends an edge or keeps items of it, while it reads.
LEMMA ClosedInput ==
    ASSUME CreditInv, NEW n \in Nodes, Steps(n), NEW e \in Edges, Tidy(n),
           mode[Dst[e]] = "closing", kept[e] = <<>>
    PROVE  kept'[e] = <<>> /\ (e \in ended => e \in ended') /\ batch'[Dst[e]] = batch[Dst[e]]
           /\ stopped'[Dst[e]] = stopped[Dst[e]] /\ mode'[Dst[e]] = "closing"
  <1>1. TypeOK /\ Dst[e] \in Nodes
    BY GraphType DEF CreditInv
  <1>2. CASE \/ Start(n) \/ Doze(n) \/ Mark(n) \/ WakeProducer(n) \/ End(n)
    BY <1>2 DEF Start, Doze, Mark, WakeProducer, End, receiveVars, codeVars
  <1>3. CASE Buffer(n) \/ Skip(n) \/ Prepare(n) \/ Claim(n) \/ ClaimAny(n) \/ Block(n) \/ Push(n)
    BY <1>3 DEF Buffer, Skip, Prepare, Claim, ClaimAny, Claimed, Block, Push, receiveVars, codeVars
  <1>4. CASE FlushFirst(n) \/ Await(n) \/ Release(n)
    BY <1>4 DEF FlushFirst, Await, Release, receiveVars, codeVars
  <1>5. CASE Return(n)
    BY <1>1, <1>5, MoreShapes DEF Return, receiveVars, codeVars
  <1>6. CASE Produce(n) \/ Process(n)
    <2>1. mode[n] = "body" /\ mode' = mode /\ batch' = batch /\ kept' = kept /\ ended' = ended
      BY <1>6 DEF Produce, Process, Making, Free, Coding, receiveVars
    <2>2. n # Dst[e]
      BY <2>1
    <2>3. stopped'[Dst[e]] = stopped[Dst[e]]
      BY <1>1, <2>2, Local
    <2> QED
      BY <2>1, <2>3
  <1>7. CASE TakeKept(n) \/ Drain(n) \/ NextOfBatch(n) \/ Pop(n)
    <2>1. mode[n] = "body"
      BY <1>1, <1>7, MoreShapes DEF TakeKept, Drain, NextOfBatch, Pop, Popping, Asking, Free, Coding, Tidy
    <2>2. n # Dst[e] /\ mode' = mode /\ (e \in ended => e \in ended')
      <3>1. mode' = mode
        BY <1>7 DEF TakeKept, Drain, NextOfBatch, Pop
      <3>2. e \in ended => e \in ended'
        BY <1>7 DEF TakeKept, Drain, NextOfBatch, Pop
      <3> QED
        BY <2>1, <3>1, <3>2
    <2>3. stopped'[Dst[e]] = stopped[Dst[e]] /\ batch'[Dst[e]] = batch[Dst[e]]
      BY <1>1, <2>2, Local
    <2>4. kept'[e] = kept[e]
      <3>1. CASE TakeKept(n)
        <4>1. PICK d \in Edges : Dst[d] = n /\ kept' = [kept EXCEPT ![d] = Tail(kept[d])]
          BY <3>1 DEF TakeKept
        <4> QED
          BY <1>1, <2>2, <4>1, MoreShapes
      <3>2. CASE Drain(n)
        BY <3>2 DEF Drain
      <3>3. ASSUME NEW b, Dst[b.edge] = n, Unpack(n, b)  PROVE kept'[e] = kept[e]
        <4>1. kept' = kept \/ kept' = [kept EXCEPT ![b.edge] = Append(kept[b.edge], Head(b.items))]
          BY <3>3 DEF Unpack
        <4>2. b.edge # e
          BY <2>2, <3>3
        <4> QED
          BY <1>1, <4>1, <4>2, MoreShapes
      <3>4. CASE NextOfBatch(n)
        <4>1. Unpack(n, batch[n]) /\ batch[n].items # <<>>
          BY <3>4 DEF NextOfBatch
        <4> QED
          BY <3>3, <4>1 DEF CreditInv, BatchWired
      <3>5. CASE Pop(n)
        <4>1. kept' = kept \/ (Unpack(n, Head(q[n])) /\ Head(q[n]).items # <<LOOP_DONE>>)
          BY <3>5 DEF Pop
        <4>2. CASE kept' = kept
          BY <4>2
        <4>3. CASE Unpack(n, Head(q[n])) /\ Head(q[n]).items # <<LOOP_DONE>>
          <5>1. Head(q[n]) \in QueuedFor(n)
            BY <3>5, HeadQueued DEF Pop
          <5>2. Dst[Head(q[n]).edge] = n
            BY <4>3, <5>1 DEF QueuedFor, Control
          <5> QED
            BY <3>3, <4>3, <5>2
        <4> QED
          BY <4>1, <4>2, <4>3
      <3> QED
        BY <1>7, <3>1, <3>2, <3>4, <3>5
    <2> QED
      BY <2>2, <2>3, <2>4
  <1> QED
    BY <1>2, <1>3, <1>4, <1>5, <1>6, <1>7 DEF Steps

LEMMA FinishesStep ==
    ASSUME CreditInv, ~cancelled, NEW n \in Nodes, Steps(n), Tidy(n),
           \A e \in Edges : Flows(e) => Seals(e) /\ Conserves(e), NEW m \in Nodes, Tidy(m), Finishes(m)
    PROVE  Finishes(m)'
  <1>1. TypeOK
    BY DEF CreditInv
  <1> SUFFICES ASSUME mode'[m] = "closing", ~stopped'[m], NEW e \in Edges, Dst[e] = m
               PROVE  /\ e \in ended' /\ kept'[e] = <<>> /\ batch'[m].items = <<>>
                      /\ ~Feedback(e) => credits'[e] = Capacity[e]
    BY DEF Finishes, Feedback
  <1>0. ~Feedback(e) => Seals(e) /\ Conserves(e)
    BY DEF Flows
  <1>2. CASE mode[m] = "closing"
    <2>1. stopped'[m] = stopped[m]
      <3>1. CASE kept[e] = <<>>
        BY <1>2, <3>1, ClosedInput
      <3>2. CASE kept[e] # <<>>
        <4>1. stopped[m]
          BY <1>2, <3>2 DEF Finishes
        <4>2. CASE m # n
          BY <1>1, <4>2, Local
        <4>3. CASE m = n
          <5>1. ~Produce(n) /\ ~Process(n)
            BY <1>2, <4>3 DEF Produce, Process, Making, Free, Coding
          <5>2. stopped' = stopped
            <6>1. CASE \/ Start(n) \/ Return(n) \/ Doze(n) \/ Mark(n) \/ WakeProducer(n) \/ End(n)
              BY <6>1 DEF Start, Return, Doze, Mark, WakeProducer, End, codeVars
            <6>2. CASE \/ Buffer(n) \/ Skip(n) \/ Prepare(n) \/ Claim(n) \/ ClaimAny(n)
                       \/ Block(n) \/ Push(n)
              BY <6>2 DEF Buffer, Skip, Prepare, Claim, ClaimAny, Claimed, Block, Push, codeVars
            <6>3. CASE \/ TakeKept(n) \/ Drain(n) \/ NextOfBatch(n) \/ Pop(n) \/ FlushFirst(n)
                       \/ Await(n) \/ Release(n)
              BY <6>3 DEF TakeKept, Drain, NextOfBatch, Pop, FlushFirst, Await, Release, codeVars
            <6> QED
              BY <5>1, <6>1, <6>2, <6>3 DEF Steps
          <5> QED
            BY <5>2
        <4> QED
          BY <4>2, <4>3
      <3> QED
        BY <3>1, <3>2
    <2>2. /\ e \in ended /\ kept[e] = <<>> /\ batch[m].items = <<>>
          /\ ~Feedback(e) => credits[e] = Capacity[e]
      BY <1>2, <2>1 DEF Finishes
    <2>3. kept'[e] = <<>> /\ e \in ended' /\ batch'[m] = batch[m]
      BY <1>2, <2>2, ClosedInput
    <2>4. ~Feedback(e) => credits'[e] = credits[e]
      BY <1>0, <1>2, <2>2, EndedCredits
    <2> QED
      BY <2>2, <2>3, <2>4
  <1>3. CASE mode[m] # "closing"
    <2>1. m = n /\ Return(n)
      <3>1. m = n
        BY <1>1, <1>3, Local
      <3>2. CASE Return(n)
        BY <3>1, <3>2
      <3>3. CASE ~Return(n)
        <4>1. mode' = mode
          <5>1. CASE \/ Start(n) \/ Produce(n) \/ Process(n) \/ Doze(n)
                     \/ Mark(n) \/ WakeProducer(n) \/ End(n)
            BY <5>1 DEF Start, Produce, Process, Doze, Mark, WakeProducer, End
          <5>2. CASE \/ Buffer(n) \/ Skip(n) \/ Prepare(n) \/ Claim(n) \/ ClaimAny(n)
                     \/ Block(n) \/ Push(n)
            BY <5>2 DEF Buffer, Skip, Prepare, Claim, ClaimAny, Claimed, Block, Push
          <5>3. CASE \/ TakeKept(n) \/ Drain(n) \/ NextOfBatch(n) \/ Pop(n) \/ FlushFirst(n)
                     \/ Await(n) \/ Release(n)
            BY <5>3 DEF TakeKept, Drain, NextOfBatch, Pop, FlushFirst, Await, Release
          <5> QED
            BY <3>3, <5>1, <5>2, <5>3 DEF Steps
        <4> QED
          BY <1>3, <4>1
      <3> QED
        BY <3>2, <3>3
    <2>2. /\ pc[n] = "run" /\ ~stopped[n] /\ Remaining(n) = {} /\ batch[n].items = <<>> /\ kept[e] = <<>>
          /\ kept' = kept /\ ended' = ended /\ batch' = batch /\ credits' = credits
      BY <2>1 DEF Return, Free, Coding, edgeVars, receiveVars, codeVars
    <2>3. e \in ended
      BY <2>1, <2>2 DEF Remaining
    <2>4. ASSUME ~Feedback(e)  PROVE credits'[e] = Capacity[e]
      <3>4. ~done[m] /\ Sealed(e) /\ ~HandOn(e) /\ put[e] = Received(e) /\ pending[e] = <<>>
        <4>1. Seals(e) /\ Conserves(e)
          BY <1>0, <2>4
        <4>2. ~done[m]
          BY <2>1, <2>2 DEF Tidy
        <4> QED
          BY <2>3, <4>1, <4>2 DEF Conserves, Seals
      <3>5. queued[e] = 0
        <4>1. Once(Sealed(e)) = 1 /\ Once(e \in ended) = 1 /\ InHand(e) = 0 /\ Len(pending[e]) = 0
          BY <2>3, <3>4 DEF Once, InHand, CountOf, HandOn
        <4>2. put[e] + Once(Sealed(e)) = Received(e) + queued[e] + InHand(e) + Len(pending[e]) + Once(e \in ended)
          BY <1>0, <2>4, <3>4 DEF Conserves
        <4>3. put[e] \in Nat /\ queued[e] \in Int
          BY <1>1, EdgeCounts
        <4> DEFINE p == put[e]
                   k == queued[e]
        <4>4. p + 1 = p + k + 0 + 0 + 1
          BY <3>4, <4>1, <4>2
        <4>5. p \in Nat /\ k \in Int
          BY <4>3
        <4> HIDE DEF p, k
        <4>6. k = 0
          BY ONLY <4>4, <4>5
        <4> QED
          BY <4>6 DEF k
      <3>6. Sent(e) = 0
        <4>1. pc[Src[e]] = "push" => hand[Src[e]].items # <<>>
          BY <1>1, GraphType DEF TypeOK, ThreadsTyped
        <4> QED
          BY <3>4, <4>1 DEF Sent, HandOn
      <3>7. Held(e) = 0
        BY <2>1, <2>2 DEF Held
      <3>8. credits[e] + Sent(e) + queued[e] + Held(e) = Capacity[e]
        BY <1>1, <3>4 DEF CreditInv, CreditConservation, Balanced
      <3>9. credits[e] \in Int
        BY <1>1, Shapes
      <3>10. credits[e] = Capacity[e]
        BY <2>2, <3>5, <3>6, <3>7, <3>8, <3>9
      <3> QED
        BY <2>2, <3>10
    <2> QED
      BY <2>1, <2>2, <2>3, <2>4
  <1> QED
    BY <1>2, <1>3
-----------------------------------------------------------------------------
(* The invariant holds, and what follows from it.                          *)

LEMMA TidyLocal ==
    ASSUME TypeOK, NEW n \in Nodes, Steps(n), NEW m \in Nodes, m # n, Tidy(m)
    PROVE  Tidy(m)'
  <1>1. /\ pc'[m] = pc[m] /\ mode'[m] = mode[m] /\ plan'[m] = plan[m]
        /\ hand'[m] = hand[m] /\ owes'[m] = owes[m] /\ done'[m] = done[m]
    BY Local
  <1> QED
    BY <1>1 DEF Tidy

\* Nothing waits for a receiver that is done.
LEMMA ShutStep ==
    ASSUME TypeOK, NEW n \in Nodes, Steps(n), Shut(n), NEW m \in Nodes, Shut(m)
    PROVE  Shut(m)'
  <1>1. ASSUME q'[m] = q[m], done'[m] = done[m]  PROVE Shut(m)'
    BY <1>1 DEF Shut
  <1>3. CASE Push(n)
    <2>1. done' = done
      BY <1>3 DEF Push
    <2>2. done[m] => q'[m] = q[m]
      BY <1>3, Shapes DEF Push
    <2> QED
      BY <2>1, <2>2 DEF Shut
  <1>4. CASE Block(n)
    <2>1. done' = done
      BY <1>4 DEF Block
    <2>2. done[m] => q'[m] = q[m]
      BY <1>4 DEF Block
    <2> QED
      BY <2>1, <2>2 DEF Shut
  <1>5. CASE Pop(n)
    <2>1. done' = done /\ q[n] # <<>> /\ q' = [q EXCEPT ![n] = Tail(q[n])]
      BY <1>5 DEF Pop
    <2>2. m # n => q'[m] = q[m]
      BY <2>1, Shapes
    <2> QED
      BY <2>1, <2>2 DEF Shut
  <1>6. CASE Mark(n)
    <2>1. q' = [q EXCEPT ![n] = <<>>] /\ done' = [done EXCEPT ![n] = TRUE]
      BY <1>6 DEF Mark
    <2> QED
      BY <2>1, Shapes DEF Shut
  <1>7. CASE \/ Start(n) \/ Produce(n) \/ Process(n) \/ Return(n) \/ Doze(n)
             \/ WakeProducer(n) \/ End(n)
    BY <1>1, <1>7 DEF Start, Produce, Process, Return, Doze, WakeProducer, End, edgeVars
  <1>8. CASE Buffer(n) \/ Skip(n) \/ Prepare(n) \/ Claim(n) \/ ClaimAny(n)
    BY <1>1, <1>8 DEF Buffer, Skip, Prepare, Claim, ClaimAny, Claimed, edgeVars
  <1>9. CASE \/ TakeKept(n) \/ Drain(n) \/ NextOfBatch(n) \/ FlushFirst(n) \/ Await(n)
             \/ Release(n)
    BY <1>1, <1>9 DEF TakeKept, Drain, NextOfBatch, FlushFirst, Await, Release, edgeVars
  <1> QED
    BY <1>3, <1>4, <1>5, <1>6, <1>7, <1>8, <1>9 DEF Steps
-----------------------------------------------------------------------------
(* The steps of a loop.                                                    *)

\* They change nothing a thread does or has read, and nothing of an edge but words
\* that are from no edge.
LEMMA LoopDoes ==
    ASSUME TypeOK, NEW n \in Nodes, LoopSteps(n)
    PROVE  /\ mode' = mode /\ plan' = plan /\ hand' = hand
           /\ credits' = credits /\ pending' = pending /\ queued' = queued /\ done' = done
           /\ batch' = batch /\ kept' = kept /\ ended' = ended /\ rel' = rel /\ taken' = taken
           /\ stopped' = stopped /\ put' = put /\ got' = got /\ main' = main
           /\ pc[n] \in {"run", "external", "tell"} /\ pc'[n] \in {"run", "tell"}
           /\ \A m \in Nodes : m # n => pc'[m] = pc[m]
           /\ (~closed' /\ pc[n] # "tell") => pc'[n] = "run" /\ q' = q
           /\ closed => closed'
  <1>1. CASE LoopDone(n)
    <2>1. UNCHANGED <<mode, plan, hand, edgeVars, receiveVars, codeVars, mainVars>> /\ pc[n] = "run"
      BY <1>1 DEF LoopDone
    <2>2. PICK t, x : MaybeClose(n, t, x)
      BY <1>1 DEF LoopDone
    <2>3. /\ pc'[n] \in {"run", "tell"} /\ (~closed' => pc'[n] = "run") /\ (closed => closed')
          /\ \A m \in Nodes : m # n => pc'[m] = pc[m]
      BY <2>2, Shapes DEF MaybeClose
    <2> QED
      BY <2>1, <2>3 DEF edgeVars, receiveVars, codeVars, mainVars
  <1>2. CASE ExternalEnded(n)
    <2>1. UNCHANGED <<mode, plan, hand, edgeVars, receiveVars, codeVars, mainVars>> /\ pc[n] = "external"
      BY <1>2 DEF ExternalEnded
    <2>2. PICK t, x : MaybeClose(n, t, x)
      BY <1>2 DEF ExternalEnded
    <2>3. /\ pc'[n] \in {"run", "tell"} /\ (~closed' => pc'[n] = "run") /\ (closed => closed')
          /\ \A m \in Nodes : m # n => pc'[m] = pc[m]
      BY <2>2, Shapes DEF MaybeClose
    <2> QED
      BY <2>1, <2>3 DEF edgeVars, receiveVars, codeVars, mainVars
  <1>3. CASE Tell(n)
    <2>1. UNCHANGED <<mode, plan, hand, credits, pending, queued, done, closed, receiveVars, codeVars, mainVars>>
          /\ pc[n] = "tell"
      BY <1>3 DEF Tell
    <2>2. /\ pc'[n] \in {"run", "tell"}
          /\ \A m \in Nodes : m # n => pc'[m] = pc[m]
      BY <1>3, Shapes DEF Tell
    <2> QED
      BY <2>1, <2>2 DEF receiveVars, codeVars, mainVars
  <1> QED
    BY <1>1, <1>2, <1>3 DEF LoopSteps

\* What it queues is one word, for a head that is not done.
LEMMA LoopQueues ==
    ASSUME TypeOK, NEW n \in Nodes, LoopSteps(n), NEW m \in Nodes
    PROVE  \/ q'[m] = q[m]
           \/ ~done[m] /\ \E b \in Control : q'[m] = Append(q[m], b)
  <1>1. CASE LoopDone(n) \/ ExternalEnded(n)
    BY <1>1 DEF LoopDone, ExternalEnded, edgeVars
  <1>2. CASE Tell(n)
    <2> DEFINE h == Head(telling[n])
               b == [NoEntry EXCEPT !.items = <<LOOP_DONE>>]
    <2>1. done[h] => q' = q
      BY <1>2 DEF Tell
    <2>2. ~done[h] => q' = [q EXCEPT ![h] = Append(q[h], b)]
      BY <1>2 DEF Tell
    <2>3. b \in Control
      <3>1. NoEntry.edge \in Edges
        BY NoEntryIsEntry DEF Entry
      <3> QED
        BY <3>1 DEF Control, NoEntry
    <2> HIDE DEF h, b
    <2>4. CASE done[h] \/ h # m
      BY <2>1, <2>2, <2>4, Shapes
    <2>5. CASE ~done[h] /\ h = m
      <3>1. q'[m] = Append(q[m], b)
        BY <2>2, <2>5, Shapes
      <3> QED
        BY <2>3, <2>5, <3>1
    <2> QED
      BY <2>4, <2>5
  <1> QED
    BY <1>1, <1>2 DEF LoopSteps

LEMMA LoopTidy ==
    ASSUME TypeOK, NEW n \in Nodes, LoopSteps(n), NEW m \in Nodes, Tidy(m), Shut(m), Closes(m), Finishes(m)
    PROVE  Tidy(m)' /\ Shut(m)' /\ Closes(m)' /\ Finishes(m)'
  <1>1. /\ mode' = mode /\ plan' = plan /\ hand' = hand
        /\ credits' = credits /\ pending' = pending /\ done' = done
        /\ batch' = batch /\ kept' = kept /\ ended' = ended /\ stopped' = stopped
        /\ pc[n] \in {"run", "external", "tell"} /\ pc'[n] \in {"run", "tell"}
        /\ (m # n => pc'[m] = pc[m])
    BY LoopDoes
  <1>2. Tidy(m)'
    BY <1>1 DEF Tidy
  <1>3. Closes(m)' /\ Finishes(m)'
    BY <1>1 DEF Closes, Finishes
  <1>4. Shut(m)'
    <2>1. done[m] => q'[m] = q[m]
      BY LoopQueues
    <2> QED
      BY <1>1, <2>1 DEF Shut
  <1> QED
    BY <1>2, <1>3, <1>4

LEMMA LoopEdge ==
    ASSUME TypeOK, TypeOK', NEW n \in Nodes, LoopSteps(n), NEW e \in Edges, Seals(e), Conserves(e)
    PROVE  Seals(e)' /\ Conserves(e)'
  <1>1. /\ mode' = mode /\ plan' = plan /\ hand' = hand
        /\ credits' = credits /\ pending' = pending /\ queued' = queued /\ done' = done
        /\ batch' = batch /\ kept' = kept /\ ended' = ended /\ put' = put /\ got' = got
    BY LoopDoes
  <1>2. SenderSame(e) /\ Dst[e] \in Nodes
    BY <1>1, GraphType DEF SenderSame
  <1>3. CASE q'[Dst[e]] = q[Dst[e]]
    <2>1. ReceiverSame(e)
      BY <1>1, <1>3 DEF ReceiverSame
    <2> QED
      BY <1>2, <2>1, EdgeSame
  <1>4. ASSUME ~done[Dst[e]], NEW b \in Control, q'[Dst[e]] = Append(q[Dst[e]], b)
        PROVE  Seals(e)' /\ Conserves(e)'
    <2> DEFINE s == q[Dst[e]]
    <2>1. b.items = <<LOOP_DONE>> /\ b \in Queued
      BY DEF Control, Queued
    <2>2. CountIn(b, e) = 0 /\ ~OnEdge(b, e) /\ ~EndsEdge(b, e)
      BY <2>1, LoopDoneIsNotEos DEF CountIn, OnEdge, EndsEdge
    <2>3. s \in Seq(Queued)
      BY <1>2, Shapes
    <2>4. /\ Sealed(e)' = Sealed(e) /\ HandOn(e)' = HandOn(e) /\ InHand(e)' = InHand(e) /\ Seals(e)'
      BY <1>2, SenderKept
    <2>5. Received(e)' = Received(e) /\ CountOf(batch[Dst[e]], e)' = CountOf(batch[Dst[e]], e)
          /\ Once(Sealed(e)') = Once(Sealed(e)) /\ Once(e \in ended') = Once(e \in ended)
      BY <1>1, <2>4 DEF Received, CountOf, Once
    <2>6. EndQueued(e)' => EndQueued(e)
      <3>1. s \in Seq(Queued) /\ DOMAIN s = 1..Len(s) /\ Len(s) \in Nat
        BY <2>3
      <3>2. /\ DOMAIN Append(s, b) = 1..(Len(s) + 1) /\ Append(s, b)[Len(s) + 1] = b
            /\ \A i \in 1..Len(s) : Append(s, b)[i] = s[i]
        BY <2>1, <3>1, AppendProperties
      <3>3. ASSUME NEW i \in 1..(Len(s) + 1), EndsEdge(Append(s, b)[i], e)
            PROVE  \E k \in DOMAIN s : EndsEdge(s[k], e)
        <4>1. i \in 1..Len(s) \/ i = Len(s) + 1
          BY <3>1
        <4> HIDE DEF s
        <4> QED
          BY <2>2, <3>1, <3>2, <3>3, <4>1
      <3> QED
        BY <1>4, <3>2, <3>3 DEF EndQueued
    <2>7. Counted(Append(s, b), e, queued[e])
      <3>1. Counted(s, e, queued[e]) /\ queued[e] \in Int
        BY <1>4, EdgeCounts DEF Conserves
      <3>2. Counted(Append(s, b), e, queued[e] + CountIn(b, e))
        BY <2>1, <2>2, <2>3, <3>1, CountedAppend
      <3> HIDE DEF s
      <3> QED
        BY <2>2, <3>1, <3>2
    <2>8. put'[e] + Once(Sealed(e)') = Received(e)' + queued'[e] + InHand(e)' + Len(pending'[e])
                                            + Once(e \in ended')
      BY <1>1, <1>4, <2>4, <2>5 DEF Conserves
    <2>9. e \in ended' => put'[e] = Received(e)' /\ CountOf(batch[Dst[e]], e)' = 0
      BY <1>1, <2>5 DEF Conserves
    <2>10. /\ EndQueued(e)' \/ e \in ended' => Sealed(e)' /\ ~HandOn(e)'
           /\ EndQueued(e)' => e \notin ended'
      BY <1>1, <2>4, <2>6 DEF Conserves
    <2>11. Counted(q'[Dst[e]], e, queued'[e])
      BY <1>1, <1>4, <2>7
    <2> QED
      BY <2>4, <2>8, <2>9, <2>10, <2>11 DEF Conserves, Once
  <1> QED
    BY <1>2, <1>3, <1>4, LoopQueues

\* Nobody tells the heads before the loop has closed.
LEMMA NoneTells ==
    ASSUME TypeOK, NEW n \in Nodes, Steps(n)
    PROVE  closed' = closed /\ (pc[n] # "tell" => pc'[n] # "tell")
  <1>1. CASE \/ Start(n) \/ Produce(n) \/ Process(n) \/ Return(n) \/ Doze(n)
             \/ Mark(n) \/ WakeProducer(n) \/ End(n)
    BY <1>1, Shapes DEF Start, Produce, Process, Return, Doze, Mark, WakeProducer, End, loopVars
  <1>2. CASE Skip(n) \/ Block(n) \/ Push(n) \/ Claim(n) \/ FlushFirst(n) \/ Await(n) \/ Release(n)
    BY <1>2, Shapes DEF Skip, Block, Push, Claim, Claimed, FlushFirst, Await, Release, loopVars
  <1>3. CASE Buffer(n) \/ ClaimAny(n)
    BY <1>3, Shapes DEF Buffer, ClaimAny, Claimed, CountSent
  <1>4. CASE Prepare(n)
    BY <1>4, Shapes DEF Prepare, CountSent, loopVars
  <1>5. CASE TakeKept(n) \/ Drain(n) \/ NextOfBatch(n) \/ Pop(n)
    <2>1. closed' = closed
      BY <1>5 DEF TakeKept, Drain, NextOfBatch, Pop, Unpack, loopVars
    <2>2. pc'[n] \in {"run", "release"}
      BY <1>5, Shapes DEF TakeKept, Drain, NextOfBatch, Pop, Unpack
    <2> QED
      BY <2>1, <2>2
  <1> QED
    BY <1>1, <1>2, <1>3, <1>4, <1>5 DEF Steps
-----------------------------------------------------------------------------
(* A graph without a loop.                                                 *)

LEMMA FreeFlows ==
    ASSUME LoopFree
    PROVE  /\ \A e \in Edges : ~InLoop(e) /\ ~EntersLoop(e) /\ ~Feedback(e) /\ Flows(e)
           /\ \A n \in Nodes : n \notin LoopNodes
  <1>1. ASSUME NEW e \in Edges  PROVE ~Feedback(e)
    <2>1. Back[Src[e]] = <<>>
      BY GraphType DEF LoopFree
    <2>2. DOMAIN <<>> = {}
      OBVIOUS
    <2> QED
      BY <2>1, <2>2 DEF Feedback
  <1> QED
    BY <1>1 DEF LoopFree, InLoop, EntersLoop, Flows

LEMMA UntiedStep ==
    ASSUME TypeOK, LoopFree, Untied, NEW n \in Nodes, Emits(n) \/ Receives(n) \/ Runs(n)
    PROVE  Untied'
  <1>0. TypeOK
    OBVIOUS
  <1>1. SUFFICES /\ ~closed' /\ ~owes'[n] /\ pc'[n] \notin {"tell", "external"}
                 /\ \A m \in Nodes : m # n => owes'[m] = owes[m] /\ pc'[m] = pc[m]
    BY DEF Untied
  <1>2. CASE \/ Start(n) \/ Produce(n) \/ Process(n) \/ Return(n) \/ Doze(n)
             \/ Mark(n) \/ WakeProducer(n) \/ End(n)
    BY <1>2, Shapes DEF Start, Produce, Process, Return, Doze, Mark, WakeProducer, End, loopVars, Untied
  <1>3. CASE Fail(n) \/ Unwind(n) \/ CancelReturns(n) \/ CancelStep(n)
    BY <1>3, Shapes DEF Fail, Unwind, CancelReturns, CancelStep, loopVars, Untied
  <1>4. CASE Skip(n) \/ Block(n) \/ Push(n) \/ Claim(n) \/ FlushFirst(n) \/ Await(n)
    BY <1>4, Shapes DEF Skip, Block, Push, Claim, Claimed, FlushFirst, Await, loopVars, Untied
  <1>5. CASE Buffer(n)
    <2>1. closed' = closed /\ owes' = owes /\ pc' = pc
      BY <1>5 DEF Buffer, CountSent
    <2> QED
      BY <2>1 DEF Untied
  <1>10. CASE ClaimAny(n)
    <2>1. closed' = closed /\ owes' = owes
      BY <1>10 DEF ClaimAny, CountSent
    <2>2. pc' = [pc EXCEPT ![n] = "push"]
      BY <1>10 DEF ClaimAny, Claimed
    <2> QED
      BY <2>1, <2>2, Shapes DEF Untied
  <1>6. CASE Prepare(n)
    BY <1>6, Shapes DEF Prepare, CountSent, loopVars, Untied
  <1>7. CASE Release(n)
    <2>1. rel[n].edge \in Edges
      BY Shapes, MoreShapes
    <2>2. ~EntersLoop(rel[n].edge)
      BY <2>1, FreeFlows
    <2> QED
      BY <1>7, <2>2, Shapes DEF Release, loopVars, Untied
  <1>8. CASE TakeKept(n) \/ Drain(n) \/ NextOfBatch(n) \/ Pop(n)
    <2>1. ~closed'
      BY <1>8 DEF TakeKept, Drain, NextOfBatch, Pop, Unpack, loopVars, Untied
    <2>2. pc'[n] \in {"run", "release"} /\ \A m \in Nodes : m # n => pc'[m] = pc[m]
      BY <1>8, Shapes DEF TakeKept, Drain, NextOfBatch, Pop, Unpack
    <2>3. owes' = owes \/ owes' = [owes EXCEPT ![n] = n \in LoopNodes]
      BY <1>8 DEF TakeKept, Drain, NextOfBatch, Pop, Unpack, loopVars
    <2>4. ~owes'[n] /\ \A m \in Nodes : m # n => owes'[m] = owes[m]
      BY <2>3, MoreShapes, FreeFlows DEF Untied
    <2> QED
      BY <2>1, <2>2, <2>4
  <1>9. CASE LoopDone(n) \/ ExternalEnded(n) \/ Tell(n)
    BY <1>9 DEF LoopDone, Owing, ExternalEnded, Tell, Untied
  <1> QED
    BY <1>2, <1>3, <1>4, <1>5, <1>6, <1>7, <1>8, <1>9, <1>10 DEF Emits, Receives, Runs
-----------------------------------------------------------------------------
(* The invariant is kept.                                                  *)

\* The steps of the main thread move nothing of the stream.
LEMMA StreamStays ==
    ASSUME UNCHANGED <<threadVars, edgeVars, receiveVars, loopVars, codeVars>>,
           NEW n \in Nodes, NEW e \in Edges
    PROVE  /\ (Tidy(n) /\ Shut(n) /\ Closes(n) /\ Finishes(n)) =>
                 (Tidy(n)' /\ Shut(n)' /\ Closes(n)' /\ Finishes(n)')
           /\ (Seals(e) /\ Conserves(e)) => (Seals(e)' /\ Conserves(e)')
           /\ Queue(n)' = Queue(n) /\ Flows(e)' = Flows(e) /\ pc' = pc /\ closed' = closed /\ owes' = owes
  <1>1. /\ pc' = pc /\ mode' = mode /\ plan' = plan /\ hand' = hand
        /\ credits' = credits /\ pending' = pending /\ queued' = queued /\ q' = q /\ done' = done
        /\ batch' = batch /\ kept' = kept /\ ended' = ended
        /\ owes' = owes /\ stopped' = stopped /\ put' = put /\ got' = got /\ closed' = closed
    BY DEF threadVars, edgeVars, receiveVars, loopVars, codeVars
  <1>2. (Tidy(n) => Tidy(n)') /\ (Shut(n) => Shut(n)') /\ Queue(n)' = Queue(n) /\ Flows(e)' = Flows(e)
    BY <1>1 DEF Tidy, Shut, Queue, Flows, Feedback
  <1>3. Closes(n) => Closes(n)'
    BY <1>1 DEF Closes
  <1>4. Finishes(n) => Finishes(n)'
    BY <1>1 DEF Finishes, Feedback
  <1>5. Sealed(e)' = Sealed(e) /\ HandOn(e)' = HandOn(e) /\ HoldsEnd(e)' = HoldsEnd(e)
    BY <1>1 DEF Sealed, HandOn, HoldsEnd
  <1>6. Seals(e) => Seals(e)'
    BY <1>1, <1>5 DEF Seals
  <1>7. EndQueued(e)' = EndQueued(e) /\ InHand(e)' = InHand(e) /\ Received(e)' = Received(e)
    BY <1>1 DEF EndQueued, InHand, Received
  <1>8. Conserves(e) => Conserves(e)'
    BY <1>1, <1>5, <1>7 DEF Conserves
  <1> QED
    BY <1>1, <1>2, <1>3, <1>4, <1>6, <1>8

LEMMA InitStream == Init => StreamInv
  <1> SUFFICES ASSUME Init  PROVE Stream /\ Untied
    BY InitWakes DEF StreamInv
  <1>1. ASSUME NEW n \in Nodes
        PROVE  Tidy(n) /\ Shut(n) /\ Closes(n) /\ Finishes(n) /\ Queue(n) /\ pc[n] # "tell"
    BY <1>1 DEF Init, Tidy, Shut, Queue, Closes, Finishes, NoEntry
  <1>2. ASSUME NEW e \in Edges  PROVE Seals(e) /\ Conserves(e)
    <2>1. Src[e] \in Nodes /\ Dst[e] \in Nodes
      BY GraphType
    <2>2. /\ mode[Src[e]] = "body" /\ hand[Src[e]].items = <<>> /\ batch[Dst[e]].items = <<>>
          /\ pending[e] = <<>> /\ kept[e] = <<>> /\ ended = {} /\ q[Dst[e]] = <<>>
          /\ queued[e] = 0 /\ put[e] = 0 /\ got[e] = 0
      BY <2>1 DEF Init, NoEntry
    <2>3. ~Sealed(e) /\ ~HandOn(e) /\ ~HoldsEnd(e) /\ InHand(e) = 0 /\ CountOf(batch[Dst[e]], e) = 0
      BY <2>2 DEF Sealed, HandOn, HoldsEnd, EndsEdge, InHand, CountOf
    <2>4. Seals(e)
      BY <2>2, <2>3 DEF Seals
    <2>5. ~EndQueued(e) /\ Received(e) = 0 /\ Once(Sealed(e)) = 0 /\ Once(e \in ended) = 0
      BY <2>2, <2>3 DEF EndQueued, Received, Once
    <2>6. Counted(q[Dst[e]], e, queued[e])
      BY <2>2, CountedNone
    <2> QED
      BY <2>2, <2>3, <2>4, <2>5, <2>6 DEF Conserves
  <1>3. Untied
    BY DEF Init, Untied
  <1> QED
    BY <1>1, <1>2, <1>3 DEF Init, Stream

\* A thread that has ended takes no step.
LEMMA StepsMove ==
    ASSUME TypeOK, NEW n \in Nodes, Steps(n)
    PROVE  pc[n] # "end"
  <1>1. CASE \/ Start(n) \/ Produce(n) \/ Process(n) \/ Return(n) \/ Doze(n)
             \/ Mark(n) \/ WakeProducer(n) \/ End(n)
    BY <1>1 DEF Start, Produce, Making, Process, Return, Free, Coding, Doze, Mark, WakeProducer, End
  <1>2. CASE \/ Buffer(n) \/ Skip(n) \/ Prepare(n) \/ Claim(n) \/ ClaimAny(n)
             \/ Block(n) \/ Push(n)
    BY <1>2 DEF Sending, Claiming, Buffer, Skip, Prepare, Claim, ClaimAny, Claimed, Block, Push
  <1>3. CASE \/ TakeKept(n) \/ Drain(n) \/ NextOfBatch(n) \/ Pop(n) \/ FlushFirst(n)
             \/ Await(n) \/ Release(n)
    BY <1>3 DEF TakeKept, Drain, NextOfBatch, Pop, Popping, Asking, Free, Coding, FlushFirst, Await,
       Release
  <1> QED
    BY <1>1, <1>2, <1>3 DEF Steps

LEMMA StepsKeepMain ==
    ASSUME NEW n \in Nodes, Steps(n)
    PROVE  main' = main
  <1>1. CASE \/ Start(n) \/ Produce(n) \/ Process(n) \/ Return(n) \/ Doze(n)
             \/ Mark(n) \/ WakeProducer(n) \/ End(n)
    BY <1>1 DEF Start, Produce, Process, Return, Doze, Mark, WakeProducer, End, mainVars
  <1>2. CASE \/ Buffer(n) \/ Skip(n) \/ Prepare(n) \/ Claim(n) \/ ClaimAny(n)
             \/ Block(n) \/ Push(n)
    BY <1>2 DEF Buffer, Skip, Prepare, Claim, ClaimAny, Claimed, Block, Push, mainVars
  <1>3. CASE \/ TakeKept(n) \/ Drain(n) \/ NextOfBatch(n) \/ Pop(n) \/ FlushFirst(n)
             \/ Await(n) \/ Release(n)
    BY <1>3 DEF TakeKept, Drain, NextOfBatch, Pop, FlushFirst, Await, Release, mainVars
  <1> QED
    BY <1>1, <1>2, <1>3 DEF Steps

LEMMA CancelStays ==
    ASSUME NEW n \in Nodes, Emits(n) \/ Receives(n) \/ Runs(n), cancelled
    PROVE  cancelled'
  <1>1. CASE Emits(n)
    BY <1>1 DEF Emits, Buffer, Skip, Prepare, Claim, ClaimAny, Claimed, Block, Push, runVars
  <1>2. CASE \/ TakeKept(n) \/ Drain(n) \/ NextOfBatch(n) \/ Pop(n) \/ FlushFirst(n)
             \/ Await(n) \/ Release(n)
    BY <1>2 DEF TakeKept, Drain, NextOfBatch, Pop, FlushFirst, Await, Release, runVars
  <1>3. CASE LoopDone(n) \/ ExternalEnded(n) \/ Tell(n)
    BY <1>3 DEF LoopDone, ExternalEnded, Tell, runVars
  <1>4. CASE \/ Start(n) \/ Produce(n) \/ Process(n) \/ Return(n) \/ Doze(n)
             \/ Mark(n) \/ WakeProducer(n) \/ End(n)
    BY <1>4 DEF Start, Produce, Process, Return, Doze, Mark, WakeProducer, End, runVars
  <1>5. CASE Fail(n) \/ Unwind(n) \/ CancelStep(n) \/ CancelReturns(n)
    BY <1>5 DEF Fail, Unwind, CancelStep, CancelReturns, runVars
  <1> QED
    BY <1>1, <1>2, <1>3, <1>4, <1>5 DEF Receives, Runs

LEMMA StreamStep == StreamInv /\ [Next]_vars => StreamInv'
  <1> SUFFICES ASSUME StreamInv, [Next]_vars  PROVE (LoopFree => Untied') /\ (~cancelled' => Stream')
    BY WakeStep DEF StreamInv, LoopFree
  <1>1. WakeInv /\ CreditInv /\ TypeOK
    BY DEF StreamInv, WakeInv, CreditInv
  <1>2. TypeOK'
    BY <1>1, WakeStep DEF WakeInv, CreditInv
  <1>3. LoopFree => Untied'
    <2> SUFFICES ASSUME LoopFree  PROVE Untied'
      OBVIOUS
    <2>1. Untied
      BY DEF StreamInv
    <2>2. ASSUME NEW n \in Nodes, Node(n)  PROVE Untied'
      BY <1>1, <2>1, <2>2, UntiedStep DEF Node
    <2>3. CASE MainThread \/ Over \/ UNCHANGED vars
      <3>1. closed' = closed /\ owes' = owes /\ pc' = pc
        BY <2>3 DEF MainThread, Tick, MainCancelReturns, Join, CancelStep, Over, vars, threadVars, loopVars
      <3> QED
        BY <2>1, <3>1 DEF Untied
    <2> QED
      BY <2>2, <2>3 DEF Next
  <1>4. ASSUME ~cancelled', NEW n \in Nodes, Node(n)  PROVE Stream'
    <2>1. Emits(n) \/ Receives(n) \/ Runs(n)
      BY <1>4 DEF Node
    <2>2. ~cancelled /\ (Steps(n) \/ LoopSteps(n))
      BY <1>1, <1>4, <2>1, OnlySteps
    <2>3. Stream
      BY <2>2 DEF StreamInv
    <2>4. CASE Steps(n)
      <3>1. ASSUME NEW m \in Nodes  PROVE Tidy(m)'
        <4>1. CASE m = n
          BY <1>1, <2>3, <2>4, <4>1, TidyStep DEF Stream, Closes
        <4>2. CASE m # n
          BY <1>1, <2>3, <2>4, <4>2, TidyLocal DEF Stream
        <4> QED
          BY <4>1, <4>2
      <3>2. ASSUME NEW m \in Nodes  PROVE Shut(m)' /\ Closes(m)' /\ Finishes(m)'
        <4>1. /\ Tidy(n) /\ Shut(n) /\ Closes(n) /\ Tidy(m) /\ Shut(m) /\ Closes(m) /\ Finishes(m)
              /\ \A e \in Edges : Flows(e) => Seals(e) /\ Conserves(e)
          BY <2>3 DEF Stream
        <4>2. Shut(m)'
          BY <1>1, <2>4, <4>1, ShutStep
        <4>3. Closes(m)'
          BY <1>1, <2>4, <4>1, ClosesStep
        <4>4. Finishes(m)'
          BY <1>1, <2>2, <2>4, <4>1, FinishesStep
        <4> QED
          BY <4>2, <4>3, <4>4
      <3>3. closed' = closed /\ (~closed => pc'[n] # "tell")
        BY <1>1, <2>3, <2>4, NoneTells DEF Stream
      <3>4. ASSUME ~closed', NEW m \in Nodes  PROVE Queue(m)' /\ pc'[m] # "tell"
        <4>1. \A k \in Nodes : Queue(k) /\ pc[k] # "tell"
          BY <2>3, <3>3, <3>4 DEF Stream
        <4>2. Queue(m)'
          BY <1>1, <2>4, <4>1, QueueStep1
        <4>3. m # n => pc'[m] = pc[m]
          BY <1>1, <2>4, Local
        <4> QED
          BY <3>3, <3>4, <4>1, <4>2, <4>3
      <3>5. ASSUME NEW e \in Edges, Flows(e)'  PROVE Seals(e)' /\ Conserves(e)'
        <4>1. Flows(e)
          BY <3>3, <3>5 DEF Flows, Feedback
        <4>2. Tidy(n) /\ Closes(n) /\ Shut(n) /\ Seals(e) /\ Conserves(e) /\ (Feedback(e) => Queue(n))
          BY <2>3, <4>1 DEF Stream, Flows
        <4>3. Tidy(n)'
          BY <3>1
        <4> QED
          BY <1>1, <1>2, <2>4, <4>2, <4>3, EdgeStep
      <3>6. main' # "over"
        <4>1. main' = main
          BY <2>4, StepsKeepMain
        <4>2. pc[n] # "end"
          BY <1>1, <2>4, StepsMove
        <4> QED
          BY <2>3, <4>1, <4>2 DEF Stream
      <3> QED
        BY <3>1, <3>2, <3>4, <3>5, <3>6 DEF Stream
    <2>5. CASE LoopSteps(n)
      <3>1. ASSUME NEW m \in Nodes  PROVE Tidy(m)' /\ Shut(m)' /\ Closes(m)' /\ Finishes(m)'
        BY <1>1, <2>3, <2>5, LoopTidy DEF Stream
      <3>2. /\ closed => closed'
            /\ main' = main /\ pc[n] # "end"
            /\ ~closed' /\ pc[n] # "tell" => pc'[n] = "run" /\ q' = q
            /\ done' = done /\ \A m \in Nodes : m # n => pc'[m] = pc[m]
        BY <1>1, <2>5, LoopDoes
      <3>3. ASSUME ~closed', NEW m \in Nodes  PROVE Queue(m)' /\ pc'[m] # "tell"
        <4>1. \A k \in Nodes : Queue(k) /\ pc[k] # "tell"
          BY <2>3, <3>2, <3>3 DEF Stream
        <4>2. pc'[n] = "run" /\ q' = q /\ done' = done
          BY <3>2, <3>3, <4>1
        <4>3. Queue(m)'
          BY <4>1, <4>2 DEF Queue
        <4> QED
          BY <3>2, <4>1, <4>2, <4>3
      <3>4. ASSUME NEW e \in Edges, Flows(e)'  PROVE Seals(e)' /\ Conserves(e)'
        <4>1. Flows(e)
          BY <3>2, <3>4 DEF Flows, Feedback
        <4>2. Seals(e) /\ Conserves(e)
          BY <2>3, <4>1 DEF Stream
        <4> QED
          BY <1>1, <1>2, <2>5, <4>2, LoopEdge
      <3>5. main' # "over"
        BY <2>3, <3>2 DEF Stream
      <3> QED
        BY <3>1, <3>3, <3>4, <3>5 DEF Stream
    <2> QED
      BY <2>2, <2>4, <2>5
  <1>5. CASE ~cancelled' /\ (MainThread \/ Over \/ UNCHANGED vars)
    <2>1. ~CancelStep(Main)
      <3>1. CancelStep(Main) => cancelled /\ cancelled' = cancelled
        BY <1>1 DEF CancelStep, WakeInv, NoCancelYet
      <3> QED
        BY <1>5, <3>1
    <2>2. CASE Tick \/ MainCancelReturns \/ Join \/ Over \/ UNCHANGED vars
      <3>1. UNCHANGED <<threadVars, edgeVars, receiveVars, loopVars, codeVars>>
        BY <2>2 DEF Tick, MainCancelReturns, Join, Over, vars
      <3>2. ~cancelled
        BY <1>5, <2>2 DEF Tick, MainCancelReturns, Join, Over, vars, runVars
      <3>3. Stream
        BY <3>2 DEF StreamInv
      <3>4. main' = "over" => \A n \in Nodes : pc'[n] = "end"
        <4>1. pc' = pc
          BY <3>1 DEF threadVars
        <4>2. CASE Join
          BY <4>1, <4>2 DEF Join
        <4>3. CASE Tick \/ MainCancelReturns
          BY <4>3, <3>3 DEF Tick, MainCancelReturns
        <4>4. CASE Over \/ UNCHANGED vars
          BY <3>3, <4>1, <4>4 DEF Stream, Over, vars, mainVars
        <4> QED
          BY <2>2, <4>2, <4>3, <4>4
      <3>5. ASSUME NEW n \in Nodes
            PROVE  /\ Tidy(n)' /\ Shut(n)' /\ Closes(n)' /\ Finishes(n)'
                   /\ ~closed' => (Queue(n)' /\ pc'[n] # "tell")
        <4>1. Tidy(n) /\ Shut(n) /\ Closes(n) /\ Finishes(n) /\ (~closed => Queue(n) /\ pc[n] # "tell")
          BY <3>3 DEF Stream
        <4>2. PICK e \in Edges : TRUE
          BY GraphAssumption
        <4>3. /\ Tidy(n)' /\ Shut(n)' /\ Closes(n)' /\ Finishes(n)'
              /\ Queue(n)' = Queue(n) /\ pc' = pc /\ closed' = closed
          BY <3>1, <4>1, <4>2, StreamStays
        <4> QED
          BY <4>1, <4>3
      <3>6. ASSUME NEW e \in Edges, Flows(e)'  PROVE Seals(e)' /\ Conserves(e)'
        <4>2. Src[e] \in Nodes
          BY GraphType
        <4>3. Flows(e)
          BY <3>1, <3>6, <4>2, StreamStays
        <4>1. Seals(e) /\ Conserves(e)
          BY <3>3, <4>3 DEF Stream
        <4> QED
          BY <3>1, <4>1, <4>2, StreamStays
      <3>7. ASSUME ~closed', NEW n \in Nodes  PROVE Queue(n)' /\ pc'[n] # "tell"
        BY <3>5, <3>7
      <3>8. ASSUME NEW n \in Nodes  PROVE Tidy(n)' /\ Shut(n)' /\ Closes(n)' /\ Finishes(n)'
        BY <3>5
      <3>9. \A n \in Nodes : Tidy(n)' /\ Shut(n)' /\ Closes(n)' /\ Finishes(n)'
        BY <3>8
      <3>10. \A e \in Edges : Flows(e)' => Seals(e)' /\ Conserves(e)'
        BY <3>6
      <3>11. ~closed' => \A n \in Nodes : Queue(n)' /\ pc'[n] # "tell"
        BY <3>7
      <3>12. Stream'
        BY <3>4, <3>9, <3>10, <3>11 DEF Stream
      <3> QED
        BY <1>3, <3>12
    <2> QED
      BY <1>5, <2>1, <2>2 DEF MainThread
  <1> QED
    BY <1>3, <1>4, <1>5 DEF Next

\* A receiver that is told a stream has ended has been given all of it.
LEMMA EndedGiven ==
    ASSUME StreamInv, ~cancelled, NEW e \in Edges, Flows(e), e \in ended
    PROVE  put[e] = got[e] + Len(kept[e])
  <1>1. put[e] = Received(e) /\ CountOf(batch[Dst[e]], e) = 0
    BY DEF StreamInv, Stream, Conserves
  <1>2. TypeOK
    BY DEF StreamInv, WakeInv, CreditInv
  <1>3. got[e] \in Nat /\ Len(kept[e]) \in Nat
    BY <1>2, EdgeCounts
  <1> QED
    BY <1>1, <1>3 DEF Received

\* A run that is over has read every edge to its end.
LEMMA OverEnded ==
    ASSUME StreamInv, ~cancelled, main = "over", NEW e \in Edges, ~stopped[Dst[e]]
    PROVE  /\ e \in ended /\ kept[e] = <<>>
           /\ ~Feedback(e) => credits[e] = Capacity[e]
           /\ done[Dst[e]] \/ pc[Dst[e]] = "end"
  <1>1. Dst[e] \in Nodes
    BY GraphType
  <1>2. Stream
    BY DEF StreamInv
  <1>3. mode[Dst[e]] = "closing" /\ pc[Dst[e]] = "end"
    <2>1. Tidy(Dst[e]) /\ pc[Dst[e]] = "end"
      BY <1>1, <1>2 DEF Stream
    <2> QED
      BY <2>1 DEF Tidy
  <1>4. Finishes(Dst[e])
    BY <1>1, <1>2 DEF Stream
  <1> QED
    BY <1>3, <1>4 DEF Finishes, Feedback
-----------------------------------------------------------------------------
(* The watchdog.                                                           *)

\* No code that reads an input stops before its end.
NoneStopsReading == \A e \in Edges : Dst[e] \notin MayStop

\* What state tells the watchdog of a thread.
Honest(n) ==
    /\ stopped[n] => n \in MayStop
    /\ state[n] = "WAITING" => pc[n] \in {"park_in", "park_out"}
    /\ state[n] = "DONE" => pc[n] = "end"
    /\ state[n] # "FAILED"

\* Since a tick saw every live node wait nothing has been pushed or popped: whoever
\* was waiting still is, or has only taken the credits it waited for.
Still(n) ==
    \/ pc[n] \in {"end", "push"}
    \/ pc[n] \in {"park_in", "park_out"} /\ n \in asleep \cup slow

WatchInv ==
    /\ StreamInv
    /\ ~cancelled => \A n \in Nodes : Honest(n) /\ (quiet => Still(n))
    /\ deadlock => cancelled

\* Nobody has anything for a receiver that is done, if it read to the end.
LEMMA NothingForDone ==
    ASSUME StreamInv, ~cancelled, NEW e \in Edges, Flows(e), ~stopped[Dst[e]], done[Dst[e]]
    PROVE  mode[Src[e]] = "closing" /\ ~HandOn(e)
  <1>1. Dst[e] \in Nodes /\ Stream
    BY GraphType DEF StreamInv
  <1>2. mode[Dst[e]] = "closing"
    BY <1>1 DEF Stream, Tidy
  <1>3. e \in ended
    BY <1>1, <1>2 DEF Stream, Finishes
  <1> QED
    BY <1>1, <1>3 DEF Stream, Conserves, Sealed

LEMMA HonestStep ==
    ASSUME TypeOK, NEW n \in Nodes, Steps(n), NEW m \in Nodes, Honest(m),
           Tidy(m)
    PROVE  Honest(m)'
  <1>1. /\ pc \in [Nodes -> Threads] /\ stopped \in [Nodes -> BOOLEAN]
        /\ state \in [Nodes -> {"NEW", "RUNNING", "WAITING", "DONE", "FAILED"}]
    BY DEF TypeOK, ThreadsTyped, CodeTyped
  <1>2. stopped'[m] => m \in MayStop
    <2>1. CASE Produce(n) \/ Process(n)
      BY <1>1, <2>1 DEF Produce, Process, MayStopNow, Honest
    <2>2. CASE stopped' = stopped
      BY <2>2 DEF Honest
    <2>3. stopped' = stopped \/ Produce(n) \/ Process(n)
      BY DEF Steps, Start, Return, Doze, Mark, WakeProducer, End, Buffer, Skip, Prepare, Claim,
             ClaimAny, Claimed, Block, Push, TakeKept, Drain, NextOfBatch, Pop, FlushFirst, Await,
             Release, codeVars
    <2> QED
      BY <2>1, <2>2, <2>3
  <1>3. CASE m # n
    <2>1. pc'[m] = pc[m]
      BY <1>3, Local
    <2>2. state'[m] = state[m]
      <3>1. CASE Start(n) \/ Produce(n) \/ Process(n) \/ Return(n) \/ Doze(n) \/ Mark(n)
                 \/ WakeProducer(n) \/ End(n)
        BY <1>1, <1>3, <3>1 DEF Start, Produce, Process, Return, Doze, Mark, WakeProducer, End
      <3>2. CASE \/ Buffer(n) \/ Skip(n) \/ Prepare(n) \/ Claim(n) \/ ClaimAny(n) \/ Block(n)
                 \/ Push(n)
        BY <1>1, <1>3, <3>2 DEF Buffer, Skip, Prepare, Claim, ClaimAny, Claimed, Block, Push
      <3>3. CASE \/ TakeKept(n) \/ Drain(n) \/ NextOfBatch(n) \/ Pop(n) \/ FlushFirst(n)
                 \/ Await(n) \/ Release(n)
        BY <1>1, <1>3, <3>3 DEF TakeKept, Drain, NextOfBatch, Pop, FlushFirst, Await, Release
      <3> QED
        BY <3>1, <3>2, <3>3 DEF Steps
    <2> QED
      BY <1>2, <2>1, <2>2 DEF Honest
  <1>4. CASE m = n
    <2>1. CASE Start(n) \/ Block(n) \/ Await(n) \/ End(n)
      BY <1>1, <1>2, <1>4, <2>1 DEF Start, Block, Await, End, Honest
    <2>2. CASE Produce(n) \/ Process(n) \/ Return(n) \/ Doze(n)  \/ WakeProducer(n)
               \/ Buffer(n) \/ Skip(n) \/ FlushFirst(n)
      <3>1. pc' = pc /\ state' = state
        BY <2>2 DEF Produce, Process, Return, Doze, WakeProducer, Buffer, Skip, FlushFirst
      <3> QED
        BY <1>2, <3>1 DEF Honest
    <2>3. CASE Mark(n) \/ Prepare(n) \/ Push(n) \/ TakeKept(n) \/ Drain(n) \/ NextOfBatch(n)
               \/ Release(n)
      <3>1. state' = state /\ pc[n] \notin {"park_in", "park_out", "end"}
        BY <2>3 DEF Mark, Prepare, Push, TakeKept, Drain, NextOfBatch, Release, Sending, Asking,
                    Free, Coding
      <3> QED
        BY <1>2, <1>4, <3>1 DEF Honest
    <2>4. CASE Claim(n) \/ ClaimAny(n) \/ Pop(n)
      <3>1. /\ pc[n] # "end"
            /\ state'[n] = IF pc[n] \in {"park_in", "park_out"} THEN "RUNNING" ELSE state[n]
        BY <1>1, <2>4 DEF Claim, ClaimAny, Claiming, Claimed, Pop, Popping, Asking, Free, Coding
      <3> QED
        BY <1>2, <1>4, <3>1 DEF Honest
    <2> QED
      BY <2>1, <2>2, <2>3, <2>4 DEF Steps
  <1> QED
    BY <1>3, <1>4

\* While everybody waits, a step is to wait again or to take credits; what is then
\* pushed ends the quiet.
LEMMA StillStep ==
    ASSUME StreamInv, LoopFree, NoneStopsReading, ~cancelled, \A m \in Nodes : Still(m) /\ Honest(m),
           NEW n \in Nodes, Steps(n), slow' = slow \ {n}, quiet', NEW m \in Nodes
    PROVE  Still(m)'
  <1>1. TypeOK /\ Stream
    BY DEF StreamInv, WakeInv, CreditInv
  <1>2. pc \in [Nodes -> Threads] /\ hand[n] \in Entry
    BY <1>1, Shapes DEF TypeOK, ThreadsTyped
  <1>3. Still(n)
    OBVIOUS
  <1>4. CASE Doze(n)
    BY <1>4 DEF Doze, Still
  <1>5. CASE Claim(n) \/ ClaimAny(n)
    <2>1. pc' = [pc EXCEPT ![n] = "push"] /\ asleep' = asleep
      BY <1>5 DEF Claim, ClaimAny, Claimed
    <2> QED
      BY <1>2, <2>1 DEF Still
  <1>6. ~Pop(n)
    BY DEF Pop
  <1>7. ~Push(n)
    <2> SUFFICES ASSUME Push(n)  PROVE FALSE
      OBVIOUS
    <2>1. hand[n].items # <<>> /\ hand[n].edge \in Edges /\ pc[n] = "push"
      BY <1>1, <1>2 DEF Push, TypeOK, ThreadsTyped, Entry
    <2>2. Src[hand[n].edge] = n
      BY <2>1 DEF StreamInv, WakeInv, CreditInv, HandWired
    <2>3. ~done[Dst[hand[n].edge]]
      <3>1. Dst[hand[n].edge] \in Nodes
        BY <2>1, GraphType
      <3>2. Honest(Dst[hand[n].edge])
        BY <3>1
      <3> QED
        BY <2>1, <2>2, <3>2, NothingForDone, FreeFlows DEF HandOn, Honest, NoneStopsReading
    <2> QED
      BY <2>3 DEF Push
  <1>8. pc[n] \in {"end", "push", "park_in", "park_out"}
    BY <1>3 DEF Still
  <1>9. Doze(n) \/ Claim(n) \/ ClaimAny(n)
    <2>1. ~(Start(n) \/ Produce(n) \/ Process(n) \/ Return(n) \/ Mark(n) \/ WakeProducer(n) \/ End(n))
      BY <1>8 DEF Start, Produce, Process, Return, Mark, WakeProducer, End, Making, Free, Coding
    <2>2. ~(Buffer(n) \/ Skip(n) \/ Prepare(n) \/ Block(n))
      BY <1>8 DEF Buffer, Skip, Prepare, Block, Sending
    <2>3. ~(\/ TakeKept(n) \/ Drain(n) \/ NextOfBatch(n) \/ FlushFirst(n) \/ Await(n) \/ Release(n))
      BY <1>8 DEF TakeKept, Drain, NextOfBatch, FlushFirst, Await, Release, Popping, Asking, Free, Coding
    <2> QED
      BY <1>6, <1>7, <2>1, <2>2, <2>3 DEF Steps
  <1> QED
    BY <1>4, <1>5, <1>9

\* What the watchdog has seen when it reports.
Locked == \A n \in Nodes : Live(n) => n \in asleep /\ ~Ready(n)

LEMMA ReportIsLock ==
    ASSUME WatchInv, Tick, deadlock' # deadlock
    PROVE  Locked /\ ~cancelled /\ AnyLive
  <1>1. /\ ~cancelled /\ AnyLive /\ AllIdle /\ slow = {} /\ ~(Stalled < StallLimit)
    BY DEF Tick
  <1>2. quiet
    <2>1. StallLimit > 0
      BY SizeAssumption
    <2> QED
      BY <1>1, <2>1 DEF Stalled
  <1>3. ASSUME NEW n \in Nodes, Live(n)  PROVE n \in asleep /\ ~Ready(n)
    <2>1. Still(n) /\ Honest(n) /\ \A m \in Nodes : Still(m)
      BY <1>1, <1>2 DEF WatchInv
    <2>2. pc[n] \in {"park_in", "park_out"}
      BY <1>1, <1>3, <2>1 DEF AllIdle, Honest
    <2>3. n \in asleep
      BY <1>1, <2>1, <2>2 DEF Still
    <2>4. Sleeper(n)
      BY <2>3 DEF WatchInv, StreamInv, WakeInv
    <2>5. ~ReceiverWillNotify(n)
      BY <1>1, <2>1, GraphType DEF ReceiverWillNotify, Still
    <2> QED
      BY <2>3, <2>4, <2>5 DEF Sleeper, Ready
  <1> QED
    BY <1>1, <1>3 DEF Locked

LEMMA InitWatch == Init => WatchInv
  BY InitStream DEF Init, WatchInv, Honest

\* A report is made by a tick, and of a locked run.
ReportsLock == deadlock' # deadlock => Locked

LEMMA NodeKeepsMain ==
    ASSUME NEW n \in Nodes, Emits(n) \/ Receives(n) \/ Runs(n)
    PROVE  UNCHANGED mainVars
  <1>1. CASE Emits(n)
    BY <1>1 DEF Emits, Buffer, Skip, Prepare, Claim, ClaimAny, Claimed, Block, Push
  <1>2. CASE Receives(n)
    BY <1>2 DEF Receives, TakeKept, Drain, NextOfBatch, Pop, FlushFirst, Await, Release,
                LoopDone, ExternalEnded, Tell
  <1>3. CASE Runs(n)
    BY <1>3 DEF Runs, Start, Produce, Process, Return, Fail, Unwind, Doze, Mark, WakeProducer,
                End, CancelStep, CancelReturns
  <1> QED
    BY <1>1, <1>2, <1>3

LEMMA WatchStep ==
    LoopFree /\ NoneStopsReading => (WatchInv /\ [Next]_vars => WatchInv' /\ ReportsLock)
  <1> SUFFICES ASSUME LoopFree, NoneStopsReading, WatchInv, [Next]_vars
               PROVE  WatchInv' /\ ReportsLock
    OBVIOUS
  <1>1. StreamInv /\ WakeInv /\ TypeOK /\ StreamInv'
    BY StreamStep DEF WatchInv, StreamInv, WakeInv, CreditInv
  <1>2. ASSUME NEW n \in Nodes, Node(n)  PROVE WatchInv' /\ ReportsLock
    <2>1. deadlock' = deadlock
      BY <1>2, NodeKeepsMain DEF Node, mainVars
    <2>2. Emits(n) \/ Receives(n) \/ Runs(n)
      BY <1>2 DEF Node
    <2>3. cancelled => cancelled'
      BY <2>2, CancelStays
    <2>4. ASSUME ~cancelled', NEW m \in Nodes  PROVE Honest(m)' /\ (quiet' => Still(m)')
      <3>1. Stream /\ ~cancelled
        BY <1>1, <2>3, <2>4 DEF StreamInv
      <3>2. Steps(n)
        <4>1. Untied
          BY <1>1 DEF StreamInv
        <4>2. ~LoopSteps(n)
          BY <4>1 DEF Untied, LoopSteps, LoopDone, Owing, ExternalEnded, Tell
        <4> QED
          BY <1>1, <2>2, <2>4, <4>2, OnlySteps
      <3>3. \A k \in Nodes : Honest(k) /\ (quiet => Still(k))
        BY <3>1 DEF WatchInv
      <3>4. Honest(m)'
        BY <1>1, <3>1, <3>2, <3>3, HonestStep DEF Stream
      <3>5. quiet' => quiet
        <4>1. CASE \/ Start(n) \/ Produce(n) \/ Process(n) \/ Return(n) \/ Doze(n) \/ Mark(n)
                   \/ WakeProducer(n) \/ End(n)
          BY <4>1 DEF Start, Produce, Process, Return, Doze, Mark, WakeProducer, End
        <4>2. CASE \/ Buffer(n) \/ Skip(n) \/ Prepare(n) \/ Claim(n) \/ ClaimAny(n) \/ Block(n)
                   \/ Push(n)
          BY <4>2 DEF Buffer, Skip, Prepare, Claim, ClaimAny, Claimed, Block, Push
        <4>3. CASE \/ TakeKept(n) \/ Drain(n) \/ NextOfBatch(n) \/ Pop(n) \/ FlushFirst(n)
                   \/ Await(n) \/ Release(n)
          BY <4>3 DEF TakeKept, Drain, NextOfBatch, Pop, FlushFirst, Await, Release
        <4> QED
          BY <3>2, <4>1, <4>2, <4>3 DEF Steps
      <3>6. quiet' => Still(m)'
        BY <1>1, <1>2, <3>1, <3>2, <3>3, <3>5, StillStep DEF Node
      <3> QED
        BY <3>4, <3>6
    <2> QED
      BY <1>1, <2>1, <2>3, <2>4 DEF WatchInv, ReportsLock
  <1>3. CASE Tick
    <2>1. UNCHANGED <<pc, state, stopped, asleep>>
      BY <1>3 DEF Tick, threadVars, codeVars
    <2>2. cancelled => cancelled'
      BY <1>3 DEF Tick
    <2>3. deadlock' = deadlock \/ cancelled'
      BY <1>3 DEF Tick
    <2>4. ASSUME ~cancelled', NEW n \in Nodes  PROVE Honest(n)' /\ (quiet' => Still(n)')
      <3>1. Honest(n) /\ (quiet => Still(n))
        BY <2>2, <2>4 DEF WatchInv
      <3>2. Honest(n)'
        BY <2>1, <3>1 DEF Honest
      <3>3. ASSUME quiet'  PROVE Still(n)'
        <4>1. CASE quiet' = quiet /\ slow' = slow
          BY <2>1, <3>1, <3>3, <4>1 DEF Still
        <4>2. CASE /\ AllIdle
                   /\ slow' = {m \in Nodes : pc[m] \in {"park_in", "park_out"} /\ m \notin asleep}
          <5>1. CASE Live(n)
            <6>1. pc[n] \in {"park_in", "park_out"}
              BY <3>1, <4>2, <5>1 DEF AllIdle, Honest
            <6> QED
              BY <2>1, <4>2, <6>1 DEF Still
          <5>2. CASE ~Live(n)
            BY <2>1, <3>1, <5>2 DEF Live, Honest, Still
          <5> QED
            BY <5>1, <5>2
        <4> QED
          BY <1>3, <3>3, <4>1, <4>2 DEF Tick
      <3> QED
        BY <3>2, <3>3
    <2>5. ReportsLock
      BY <1>3, ReportIsLock DEF ReportsLock
    <2> QED
      BY <1>1, <2>2, <2>3, <2>4, <2>5 DEF WatchInv
  <1>4. CASE CancelStep(Main)
    <2>1. cancelled /\ cancelled' /\ deadlock' = deadlock
      BY <1>1, <1>4 DEF CancelStep, WakeInv, NoCancelYet, mainVars
    <2> QED
      BY <1>1, <2>1 DEF WatchInv, ReportsLock
  <1>5. CASE MainCancelReturns \/ Join \/ Over \/ UNCHANGED vars
    <2>1. UNCHANGED <<pc, state, stopped, asleep, slow, quiet, cancelled, deadlock>>
      BY <1>5 DEF MainCancelReturns, Join, Over, vars, threadVars, codeVars, runVars, mainVars
    <2> QED
      BY <1>1, <2>1 DEF WatchInv, ReportsLock, Honest, Still
  <1> QED
    BY <1>2, <1>3, <1>4, <1>5 DEF Next, MainThread

\* In a graph without a feedback loop in which no code stops reading early, a deadlock
\* is reported only of a run in which every live thread is asleep and none could go on
\* (the watchdog of ThreadsRuntime.execute).
THEOREM NoFalseReport == LoopFree /\ NoneStopsReading => (Spec => NoFalseDeadlock)
  <1> SUFFICES ASSUME LoopFree, NoneStopsReading  PROVE Spec => NoFalseDeadlock
    OBVIOUS
  <1>1. WatchInv /\ [Next]_vars => WatchInv' /\ ReportsLock
    BY WatchStep
  <1>2. ReportsLock => (deadlock' # deadlock => \A n \in Nodes : Live(n) => n \in asleep /\ ~Ready(n))
    BY DEF ReportsLock, Locked
  <1> QED
    BY <1>1, <1>2, InitWatch, PTL DEF Spec, NoFalseDeadlock
=============================================================================
