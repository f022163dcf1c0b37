--------------------------- MODULE NetEdgeProofs ---------------------------
(***************************************************************************)
(* Theorems about an edge between two groups, for every capacity, batch    *)
(* and number of items, connections and drops: the producer's credits      *)
(* survive the wire, what is acknowledged has arrived, nothing is          *)
(* skipped, the end comes after the last item, and the whole edge is the   *)
(* channel of module Channel.                                              *)
(***************************************************************************)
EXTENDS MCNetEdge, SequenceTheorems, WellFoundedInduction, TLAPS

(* Induction, from the least element of a set of numbers.                  *)

LEMMA Least ==
    ASSUME NEW T, T \subseteq Nat, T # {}
    PROVE  \E x \in T : \A y \in T : x <= y
  <1>1. PICK x \in T : \A y \in T : ~(<<y, x>> \in OpToRel(<, Nat))
    <2>1. IsWellFoundedOn(OpToRel(<, Nat), Nat)
      BY NatLessThanWellFounded
    <2> QED
      BY <2>1, WFMin
  <1>2. \A y \in T : ~(y < x)
    BY <1>1 DEF OpToRel
  <1>3. \A y \in T : y \in Nat /\ x \in Nat
    OBVIOUS
  <1>4. \A y \in T : x <= y
    BY <1>2, <1>3
  <1> QED
    BY <1>4

LEMMA Induction ==
    ASSUME NEW S, 0 \in S, \A n \in Nat : n \in S => n + 1 \in S
    PROVE  Nat \subseteq S
  <1> DEFINE T == Nat \ S
  <1> SUFFICES ASSUME T # {}  PROVE FALSE
    OBVIOUS
  <1>1. PICK x \in T : \A y \in T : x <= y
    BY Least
  <1>2. x - 1 \in Nat /\ x - 1 \notin T
    BY <1>1
  <1>3. (x - 1) + 1 \in S
    BY <1>2
  <1> QED
    BY <1>1, <1>3
-----------------------------------------------------------------------------
(* How many entries wait in batches: Size on sequences of sequences.       *)

Sums(q, f) == f = [i \in 0..Len(q) |-> IF i = 0 THEN 0 ELSE f[i - 1] + Len(q[i])]

\* The recursive definition of Size is that of a function, and of only one.
LEMMA SumsUnique ==
    ASSUME NEW q \in Seq(Seq(Nat)), NEW f, NEW g, Sums(q, f), Sums(q, g)
    PROVE  f = g
  <1> DEFINE S == {n \in Nat : n <= Len(q) => f[n] = g[n]}
  <1>0. Len(q) \in Nat
    OBVIOUS
  <1>1. 0 \in S
    BY <1>0 DEF Sums
  <1>2. ASSUME NEW n \in Nat, n \in S  PROVE n + 1 \in S
    <2> SUFFICES ASSUME n + 1 <= Len(q)  PROVE f[n + 1] = g[n + 1]
      BY <1>2
    <2>1. n + 1 \in 0..Len(q) /\ n + 1 # 0 /\ (n + 1) - 1 = n /\ n <= Len(q)
      BY <1>0
    <2>2. f[n + 1] = f[n] + Len(q[n + 1]) /\ g[n + 1] = g[n] + Len(q[n + 1])
      BY <2>1 DEF Sums
    <2> QED
      BY <1>2, <2>1, <2>2
  <1> HIDE DEF S
  <1>3. Nat \subseteq S
    BY <1>1, <1>2, Induction
  <1>4. \A i \in 0..Len(q) : f[i] = g[i]
    BY <1>0, <1>3 DEF S
  <1>5. /\ f = [i \in 0..Len(q) |-> f[i]]
        /\ g = [i \in 0..Len(q) |-> g[i]]
    BY DEF Sums
  <1> QED
    BY <1>4, <1>5

LEMMA SizeOfSums ==
    ASSUME NEW q \in Seq(Seq(Nat)), NEW f, Sums(q, f)
    PROVE  Size(q) = f[Len(q)]
  <1>1. \A g : Sums(q, g) => g = f
    BY SumsUnique
  <1> QED
    BY <1>1 DEF Size, Sums

\* The function exists: it is built one entry at a time.
SumsUpTo(q, n) ==
    \E f \in [0..n -> Nat] : \A i \in 0..n : f[i] = IF i = 0 THEN 0 ELSE f[i - 1] + Len(q[i])

LEMMA SumsGrow ==
    ASSUME NEW q \in Seq(Seq(Nat)), NEW n \in Nat, n + 1 <= Len(q), SumsUpTo(q, n)
    PROVE  SumsUpTo(q, n + 1)
  <1>1. PICK f \in [0..n -> Nat] : \A i \in 0..n : f[i] = IF i = 0 THEN 0 ELSE f[i - 1] + Len(q[i])
    BY DEF SumsUpTo
  <1> DEFINE g == [i \in 0..(n + 1) |-> IF i = n + 1 THEN f[n] + Len(q[n + 1]) ELSE f[i]]
  <1>2. Len(q[n + 1]) \in Nat /\ f[n] \in Nat
    BY <1>1
  <1>3. g \in [0..(n + 1) -> Nat]
    BY <1>1, <1>2
  <1>4. ASSUME NEW i \in 0..(n + 1)
        PROVE  g[i] = IF i = 0 THEN 0 ELSE g[i - 1] + Len(q[i])
    <2>1. CASE i = n + 1
      BY <2>1
    <2>2. CASE i \in 0..n
      <3>1. g[i] = f[i] /\ (i # 0 => g[i - 1] = f[i - 1])
        BY <2>2
      <3> QED
        BY <1>1, <2>2, <3>1
    <2> QED
      BY <2>1, <2>2
  <1> HIDE DEF g
  <1> QED
    BY <1>3, <1>4 DEF SumsUpTo

LEMMA SumsExist ==
    ASSUME NEW q \in Seq(Seq(Nat))
    PROVE  \E f \in [0..Len(q) -> Nat] : Sums(q, f)
  <1> DEFINE S == {n \in Nat : n <= Len(q) => SumsUpTo(q, n)}
  <1>0. Len(q) \in Nat
    OBVIOUS
  <1>1. 0 \in S
    <2>1. [i \in 0..0 |-> 0] \in [0..0 -> Nat] /\ \A i \in 0..0 : i = 0 /\ [j \in 0..0 |-> 0][i] = 0
      OBVIOUS
    <2> QED
      BY <2>1 DEF SumsUpTo
  <1>2. ASSUME NEW n \in Nat, n \in S  PROVE n + 1 \in S
    <2>1. n + 1 <= Len(q) => n <= Len(q)
      BY <1>0
    <2> QED
      BY <1>2, <2>1, SumsGrow
  <1> HIDE DEF S
  <1>3. Len(q) \in S
    BY <1>0, <1>1, <1>2, Induction
  <1>4. SumsUpTo(q, Len(q))
    BY <1>0, <1>3 DEF S
  <1> QED
    BY <1>4 DEF SumsUpTo, Sums

LEMMA SizeType ==
    ASSUME NEW q \in Seq(Seq(Nat))
    PROVE  Size(q) \in Nat
  <1>1. PICK f \in [0..Len(q) -> Nat] : Sums(q, f)
    BY SumsExist
  <1> QED
    BY <1>1, SizeOfSums

LEMMA SizeAppend ==
    ASSUME NEW q \in Seq(Seq(Nat)), NEW b \in Seq(Nat)
    PROVE  Size(Append(q, b)) = Size(q) + Len(b)
  <1> DEFINE p == Append(q, b)
  <1>2. /\ p \in Seq(Seq(Nat)) /\ Len(p) = Len(q) + 1 /\ Len(q) \in Nat
        /\ p[Len(q) + 1] = b /\ \A i \in 1..Len(q) : p[i] = q[i]
    OBVIOUS
  <1> HIDE DEF p
  <1>1. PICK f \in [0..Len(p) -> Nat] : Sums(p, f)
    BY <1>2, SumsExist
  <1> DEFINE g == [i \in 0..Len(q) |-> f[i]]
  <1>3. ASSUME NEW i \in 0..Len(q)
        PROVE  g[i] = IF i = 0 THEN 0 ELSE g[i - 1] + Len(q[i])
    <2>1. i \in 0..Len(p) /\ (i # 0 => i - 1 \in 0..Len(q) /\ p[i] = q[i])
      BY <1>2
    <2>2. f[i] = IF i = 0 THEN 0 ELSE f[i - 1] + Len(p[i])
      BY <1>1, <2>1 DEF Sums
    <2> QED
      BY <2>1, <2>2
  <1>4. Sums(q, g)
    BY <1>3 DEF Sums
  <1>5. f[Len(q) + 1] = f[Len(q)] + Len(b)
    BY <1>1, <1>2 DEF Sums
  <1>6. Size(p) = f[Len(q) + 1]
    BY <1>1, <1>2, SizeOfSums
  <1>7. Size(q) = g[Len(q)]
    BY <1>4, SizeOfSums
  <1> QED
    BY <1>2, <1>5, <1>6, <1>7 DEF p

LEMMA SizeTail ==
    ASSUME NEW q \in Seq(Seq(Nat)), q # <<>>
    PROVE  \E n \in Nat : n = Len(Head(q)) /\ Size(Tail(q)) = Size(q) - n
  <1>1. PICK f \in [0..Len(q) -> Nat] : Sums(q, f)
    BY SumsExist
  <1> DEFINE t == Tail(q)
             g == [i \in 0..Len(t) |-> f[i + 1] - f[1]]
  <1>2. /\ t \in Seq(Seq(Nat)) /\ Len(t) = Len(q) - 1 /\ Len(q) \in Nat \ {0}
        /\ Head(q) = q[1] /\ \A i \in 1..Len(t) : t[i] = q[i + 1]
        /\ \A i \in 1..Len(q) : Len(q[i]) \in Nat
    OBVIOUS
  <1> HIDE DEF t
  <1>3. f[1] = Len(q[1])
    BY <1>1, <1>2 DEF Sums
  <1>4. ASSUME NEW i \in 0..Len(t)
        PROVE  g[i] = IF i = 0 THEN 0 ELSE g[i - 1] + Len(t[i])
    <2>1. i \in 0..Len(q) /\ i + 1 \in 0..Len(q) /\ 1 \in 0..Len(q) /\ i + 1 # 0 /\ (i + 1) - 1 = i
      BY <1>2
    <2>2. f[i + 1] = f[i] + Len(q[i + 1]) /\ f[i + 1] \in Nat /\ f[i] \in Nat /\ f[1] \in Nat
      BY <1>1, <2>1 DEF Sums
    <2>3. i # 0 => i - 1 \in 0..Len(t) /\ i \in 1..Len(t)
      BY <1>2
    <2>4. CASE i = 0
      BY <2>4, <1>2, <2>2
    <2>5. CASE i # 0
      <3>1. g[i] = f[i + 1] - f[1] /\ g[i - 1] = f[i] - f[1] /\ t[i] = q[i + 1]
        BY <2>5, <1>2, <2>3
      <3> QED
        BY <3>1, <2>2, <2>5, <1>2, <2>1
    <2> QED
      BY <2>4, <2>5
  <1>5. Sums(t, g)
    BY <1>4 DEF Sums
  <1>6. Size(t) = f[Len(q)] - f[1]
    <2>1. Size(t) = g[Len(t)]
      BY <1>2, <1>5, SizeOfSums
    <2> QED
      BY <1>2, <2>1
  <1>7. Size(q) = f[Len(q)] /\ f[Len(q)] \in Nat /\ f[1] \in Nat
    <2>1. Len(q) \in 0..Len(q) /\ 1 \in 0..Len(q)
      BY <1>2
    <2> QED
      BY <1>1, <2>1, SizeOfSums
  <1>8. Len(Head(q)) = f[1] /\ Size(Tail(q)) = Size(q) - f[1]
    BY <1>2, <1>3, <1>6, <1>7 DEF t
  <1> QED
    BY <1>7, <1>8

LEMMA SizeEmpty == Size(<<>>) = 0
  <1>1. <<>> \in Seq(Seq(Nat)) /\ Len(<<>>) = 0
    OBVIOUS
  <1>2. PICK f \in [0..0 -> Nat] : Sums(<<>>, f)
    BY <1>1, SumsExist
  <1> QED
    BY <1>1, <1>2, SizeOfSums DEF Sums
-----------------------------------------------------------------------------
(* The types, but for the flags.                                           *)

Frames == [kind : {"DATA", "END", "ERROR", "TORN"}, first : Nat, items : Seq(Nat)]
Answers == [kind : {"WELCOME", "ACK", "ERROR"}, upto : Nat]
Connections == [fwd : Seq(Frames), back : Seq(Answers),
                broken : BOOLEAN, sclosed : BOOLEAN, rclosed : BOOLEAN]
States == {"connect", "welcome", "snapshot", "resend", "pop", "room", "write", "finish",
           "drain", "goodbye", "callback", "farewell", "leave", "over"}
Stages == {"wait", "serve", "deliver", "drop", "close", "over"}
Verdicts == {"none", "done", "cancelled", "failed", "lost"}

ProducerTypes == produced \in Nat /\ credits \in Int /\ inq \in Seq(Seq(Nat))
ControlTypes ==
    /\ spc \in States /\ then \in {"pop", "room", "write", "drain"}
    /\ hand \in Seq(Nat) /\ frame \in Frames /\ resend \in Seq(Frames)
SenderTypes ==
    /\ sent \in Nat /\ acked \in Nat /\ unacked \in Seq(Frames)
    /\ sock \in 0..made /\ readers \subseteq Conns
WireTypes ==
    /\ conn \in [Conns -> Connections] /\ made \in 0..MaxConns /\ inbound \in Seq(1..made)
ReceiverTypes ==
    /\ rpc \in Stages /\ rsock \in 0..made /\ todo \in Seq(Nat) /\ upto \in Nat
    /\ expected \in Nat /\ passed \in Seq(Nat) /\ delivered \in Nat
VerdictTypes == verdict \in [Groups -> Verdicts]
\* Where each end has a connection.
Connected == spc \in {"snapshot", "resend", "pop", "room", "write", "finish", "drain"}
Places ==
    /\ Connected \/ spc = "goodbye" => sock # None
    /\ spc \in {"welcome", "farewell"} => made # 0
    /\ rpc = "wait" => rsock = None
    /\ rpc \in {"serve", "deliver", "drop", "close"} => rsock # None
Typed == /\ ProducerTypes /\ ControlTypes /\ SenderTypes /\ WireTypes
         /\ ReceiverTypes /\ VerdictTypes /\ Places

LEMMA Sizes ==
    /\ MaxItems \in Nat /\ Capacity \in Nat /\ Capacity > 0 /\ BatchSize \in Nat
    /\ Buffer \in Nat /\ MaxConns \in Nat
  BY WireAssumption

LEMMA TailType ==
    ASSUME NEW S, NEW s \in Seq(S), s # <<>>
    PROVE  Head(s) \in S /\ Tail(s) \in Seq(S)
  OBVIOUS

LEMMA CutType ==
    ASSUME NEW S, NEW s \in Seq(S), NEW k \in Nat, k <= Len(s)
    PROVE  Cut(s, k) \in Seq(S) /\ Len(Cut(s, k)) = k /\ \A i \in 1..k : Cut(s, k)[i] = s[i]
  BY DEF Cut

LEMMA FrameTypes ==
    /\ \A n \in Nat : End(n) \in Frames
    /\ \A n \in Nat : \A s \in Seq(Nat) : Data(n, s) \in Frames
    /\ Error \in Frames /\ Torn \in Frames
    /\ NewConn \in Connections
  BY DEF End, Data, Error, Torn, NewConn, Frames, Connections

LEMMA InitTyped == Init => Typed
  <1> SUFFICES ASSUME Init  PROVE Typed
    OBVIOUS
  <1> USE Sizes, FrameTypes
  <1>1. ProducerTypes
    BY DEF Init, ProducerTypes
  <1>2. ControlTypes
    BY DEF Init, ControlTypes, States
  <1>3. SenderTypes
    BY DEF Init, SenderTypes, None
  <1>4. WireTypes
    BY DEF Init, WireTypes
  <1>5. ReceiverTypes
    BY DEF Init, ReceiverTypes, Stages, None
  <1>6. VerdictTypes
    BY DEF Init, VerdictTypes, Verdicts
  <1>7. Places
    BY DEF Init, Places, Connected
  <1> QED
    BY <1>1, <1>2, <1>3, <1>4, <1>5, <1>6, <1>7 DEF Typed
-----------------------------------------------------------------------------
(* What a connection may go through.                                       *)

\* The connection k became l by losing a tail of each stream and closing.
Shrinks(k, l) ==
    /\ l \in Connections
    /\ \E i \in 0..Len(k.fwd) : l.fwd = Cut(k.fwd, i)
    /\ \E j \in 0..Len(k.back) : l.back = Cut(k.back, j)
    /\ k.broken => l.broken
    /\ l.rclosed = k.rclosed

LEMMA CutWhole == ASSUME NEW S, NEW s \in Seq(S)  PROVE Cut(s, Len(s)) = s /\ Cut(s, 0) = <<>>
  BY SubSeqFull, SubSeqEmpty DEF Cut

LEMMA ShrinksSelf == ASSUME NEW k \in Connections  PROVE Shrinks(k, k)
  <1>1. k.fwd = Cut(k.fwd, Len(k.fwd)) /\ k.back = Cut(k.back, Len(k.back))
    BY CutWhole DEF Connections
  <1>2. Len(k.fwd) \in 0..Len(k.fwd) /\ Len(k.back) \in 0..Len(k.back)
    BY DEF Connections
  <1> QED
    BY <1>1, <1>2 DEF Shrinks

LEMMA ShrinksTo ==
    ASSUME NEW k \in Connections, NEW l \in Connections,
           NEW i \in Nat, i <= Len(k.fwd), l.fwd = Cut(k.fwd, i),
           NEW j \in Nat, j <= Len(k.back), l.back = Cut(k.back, j),
           k.broken => l.broken, l.rclosed = k.rclosed
    PROVE  Shrinks(k, l)
  <1>1. i \in 0..Len(k.fwd) /\ j \in 0..Len(k.back)
    BY DEF Connections
  <1> QED
    BY <1>1 DEF Shrinks

\* What closing the sender's end may leave of the connections.
LEMMA IntactShrinks ==
    ASSUME NEW cn \in [Conns -> Connections], NEW c \in Conns, NEW cn2 \in Intact(cn, c)
    PROVE  /\ cn2 \in [Conns -> Connections]
           /\ cn2[c].fwd = cn[c].fwd /\ Shrinks(cn[c], cn2[c])
           /\ \A d \in Conns \ {c} : cn2[d] = cn[d]
  <1>1. PICK b \in {<<>>, Cut(cn[c].back, 1)} :
           /\ cn2 = [cn EXCEPT ![c].sclosed = TRUE, ![c].back = b]
           /\ b # <<>> => cn[c].back # <<>>
    BY DEF Intact
  <1> DEFINE k == cn[c]
             l == [k EXCEPT !.sclosed = TRUE, !.back = b]
  <1>2. k \in Connections /\ k.fwd \in Seq(Frames) /\ k.back \in Seq(Answers)
    BY DEF Connections
  <1>3. PICK j \in Nat : j <= Len(k.back) /\ b = Cut(k.back, j)
    <2>1. CASE b = <<>>
      BY <1>2, <2>1, CutWhole
    <2>2. CASE b # <<>>
      <3>1. b = Cut(k.back, 1) /\ 1 <= Len(k.back)
        BY <1>1, <1>2, <2>2
      <3> QED
        BY <3>1
    <2> QED
      BY <2>1, <2>2
  <1>4. b \in Seq(Answers)
    BY <1>2, <1>3, CutType
  <1>5. l \in Connections /\ l.fwd = k.fwd /\ l.back = b /\ l.broken = k.broken /\ l.rclosed = k.rclosed
    BY <1>2, <1>4 DEF Connections
  <1>6. k.fwd = Cut(k.fwd, Len(k.fwd)) /\ Len(k.fwd) \in Nat
    BY <1>2, CutWhole
  <1>7. Shrinks(k, l)
    <2> HIDE DEF k, l
    <2>1. Len(k.fwd) <= Len(k.fwd) /\ (k.broken => l.broken) /\ l.rclosed = k.rclosed
      BY <1>5, <1>6
    <2>2. l.fwd = Cut(k.fwd, Len(k.fwd)) /\ l.back = Cut(k.back, j)
      BY <1>3, <1>5, <1>6
    <2> QED
      BY <1>2, <1>3, <1>5, <1>6, <2>1, <2>2, ShrinksTo
  <1>8. cn2[c] = l /\ \A d \in Conns \ {c} : cn2[d] = cn[d]
    BY <1>1
  <1>9. cn2 \in [Conns -> Connections]
    BY <1>1, <1>5, <1>8
  <1> QED
    BY <1>5, <1>7, <1>8, <1>9

LEMMA ShrinksTwice ==
    ASSUME NEW k \in Connections, NEW l \in Connections, NEW m, Shrinks(k, l), Shrinks(l, m)
    PROVE  Shrinks(k, m)
  <1> USE DEF Connections
  <1>1. PICK i \in 0..Len(k.fwd), j \in 0..Len(k.back) : l.fwd = Cut(k.fwd, i) /\ l.back = Cut(k.back, j)
    BY DEF Shrinks
  <1>2. PICK x \in 0..Len(l.fwd), y \in 0..Len(l.back) : m.fwd = Cut(l.fwd, x) /\ m.back = Cut(l.back, y)
    BY DEF Shrinks
  <1>3. /\ k.fwd \in Seq(Frames) /\ k.back \in Seq(Answers)
        /\ l.fwd \in Seq(Frames) /\ l.back \in Seq(Answers)
    OBVIOUS
  <1>4. Len(l.fwd) = i /\ Len(l.back) = j
    BY <1>1, <1>3, CutType
  <1>5. m.fwd = Cut(k.fwd, x)
    <2>1. /\ m.fwd \in Seq(Frames) /\ Len(m.fwd) = x /\ \A n \in 1..x : m.fwd[n] = l.fwd[n]
          /\ \A n \in 1..i : l.fwd[n] = k.fwd[n]
      BY <1>1, <1>2, <1>3, <1>4, CutType
    <2>2. /\ Cut(k.fwd, x) \in Seq(Frames) /\ Len(Cut(k.fwd, x)) = x
          /\ \A n \in 1..x : Cut(k.fwd, x)[n] = k.fwd[n]
      BY <1>1, <1>2, <1>3, <1>4, CutType
    <2>3. \A n \in 1..x : m.fwd[n] = Cut(k.fwd, x)[n]
      BY <1>4, <2>1, <2>2
    <2> QED
      BY <2>1, <2>2, <2>3, SeqEqual
  <1>6. m.back = Cut(k.back, y)
    <2>1. /\ m.back \in Seq(Answers) /\ Len(m.back) = y /\ \A n \in 1..y : m.back[n] = l.back[n]
          /\ \A n \in 1..j : l.back[n] = k.back[n]
      BY <1>1, <1>2, <1>3, <1>4, CutType
    <2>2. /\ Cut(k.back, y) \in Seq(Answers) /\ Len(Cut(k.back, y)) = y
          /\ \A n \in 1..y : Cut(k.back, y)[n] = k.back[n]
      BY <1>1, <1>2, <1>3, <1>4, CutType
    <2>3. \A n \in 1..y : m.back[n] = Cut(k.back, y)[n]
      BY <1>4, <2>1, <2>2
    <2> QED
      BY <2>1, <2>2, <2>3, SeqEqual
  <1>7. x \in 0..Len(k.fwd) /\ y \in 0..Len(k.back)
    BY <1>2, <1>3, <1>4
  <1> QED
    BY <1>5, <1>6, <1>7 DEF Shrinks

\* Every connection loses a tail of each stream at most.
AllShrink(cn, cn2) == cn2 \in [Conns -> Connections] /\ \A d \in Conns : Shrinks(cn[d], cn2[d])

LEMMA CutFwdShrinks ==
    ASSUME NEW cn \in [Conns -> Connections], NEW c \in Conns, NEW k \in Nat, k <= Len(cn[c].fwd)
    PROVE  /\ AllShrink(cn, [cn EXCEPT ![c].fwd = Cut(@, k)])
           /\ [cn EXCEPT ![c].fwd = Cut(@, k)][c].back = cn[c].back
  <1> DEFINE h == cn[c]
             l == [h EXCEPT !.fwd = Cut(@, k)]
             cn2 == [cn EXCEPT ![c].fwd = Cut(@, k)]
  <1>1. h \in Connections /\ h.fwd \in Seq(Frames) /\ h.back \in Seq(Answers)
    BY DEF Connections
  <1>2. Cut(h.fwd, k) \in Seq(Frames) /\ h.back = Cut(h.back, Len(h.back)) /\ Len(h.back) \in Nat
    BY <1>1, CutType, CutWhole
  <1>3. /\ l \in Connections /\ l.fwd = Cut(h.fwd, k) /\ l.back = h.back
        /\ l.broken = h.broken /\ l.rclosed = h.rclosed
    BY <1>1, <1>2 DEF Connections
  <1>4. cn2[c] = l /\ (\A d \in Conns \ {c} : cn2[d] = cn[d]) /\ cn2 \in [Conns -> Connections]
    BY <1>3
  <1>5. Shrinks(h, l)
    <2> HIDE DEF l
    <2>1. l.back = Cut(h.back, Len(h.back)) /\ Len(h.back) <= Len(h.back)
      BY <1>2, <1>3
    <2>2. (h.broken => l.broken) /\ l.rclosed = h.rclosed
      BY <1>3
    <2> QED
      BY <1>1, <1>2, <1>3, <2>1, <2>2, ShrinksTo
  <1>6. \A d \in Conns \ {c} : Shrinks(cn[d], cn2[d])
    BY <1>4, ShrinksSelf
  <1> HIDE DEF cn2, l
  <1>7. \A d \in Conns : Shrinks(cn[d], cn2[d])
    BY <1>4, <1>5, <1>6
  <1> QED
    BY <1>3, <1>4, <1>7 DEF AllShrink, cn2

LEMMA SCloseShrinks ==
    ASSUME NEW cn \in [Conns -> Connections], NEW c \in Conns \cup {None}, NEW cn2 \in SClose(cn, c)
    PROVE  AllShrink(cn, cn2)
  <1>1. CASE c = None
    <2>1. cn2 = cn
      BY <1>1 DEF SClose
    <2> QED
      BY <2>1, ShrinksSelf DEF AllShrink
  <1>2. CASE c # None
    <2>1. c \in Conns /\ cn[c].fwd \in Seq(Frames)
      BY <1>2 DEF Connections
    <2>2. PICK k \in 0..Len(cn[c].fwd) : cn2 \in Intact([cn EXCEPT ![c].fwd = Cut(@, k)], c)
      BY <1>2, <2>1 DEF SClose
    <2> DEFINE mid == [cn EXCEPT ![c].fwd = Cut(@, k)]
    <2>3. k \in Nat /\ k <= Len(cn[c].fwd)
      BY <2>1
    <2>4. AllShrink(cn, mid)
      BY <2>1, <2>3, CutFwdShrinks
    <2> HIDE DEF mid
    <2>5. mid \in [Conns -> Connections]
      BY <2>4 DEF AllShrink
    <2>6. cn2 \in [Conns -> Connections] /\ \A d \in Conns : Shrinks(mid[d], cn2[d])
      <3>1. cn2 \in Intact(mid, c)
        BY <2>2 DEF mid
      <3>2. /\ cn2 \in [Conns -> Connections] /\ Shrinks(mid[c], cn2[c])
            /\ \A d \in Conns \ {c} : cn2[d] = mid[d]
        BY <2>1, <2>5, <3>1, IntactShrinks
      <3>3. \A d \in Conns : Shrinks(mid[d], mid[d])
        BY <2>5, ShrinksSelf
      <3> QED
        BY <3>2, <3>3
    <2>7. \A d \in Conns : Shrinks(cn[d], cn2[d])
      BY <2>4, <2>5, <2>6, ShrinksTwice DEF AllShrink
    <2> QED
      BY <2>6, <2>7 DEF AllShrink
  <1> QED
    BY <1>1, <1>2

\* What closing the receiver's end leaves of them.
LEMMA RCloseLeaves ==
    ASSUME NEW cn \in [Conns -> Connections], NEW c \in Conns, NEW cn2 \in RClose(cn, c)
    PROVE  /\ cn2 \in [Conns -> Connections] /\ cn2[c].rclosed
           /\ cn2[c].fwd = cn[c].fwd /\ cn2[c].broken = cn[c].broken
           /\ \E k \in 0..Len(cn[c].back) : cn2[c].back = Cut(cn[c].back, k)
           /\ \A d \in Conns \ {c} : cn2[d] = cn[d]
  <1> DEFINE h == cn[c]
  <1>1. h \in Connections /\ h.fwd \in Seq(Frames) /\ h.back \in Seq(Answers)
    BY DEF Connections
  <1>2. PICK k \in 0..Len(h.back) : cn2 = [cn EXCEPT ![c].rclosed = TRUE, ![c].back = Cut(@, k)]
    <2>1. PICK k \in IF cn[c].fwd = <<>> THEN {Len(cn[c].back)} ELSE 0..Len(cn[c].back) :
             cn2 = [cn EXCEPT ![c].rclosed = TRUE, ![c].back = Cut(@, k)]
      BY DEF RClose
    <2>2. Len(h.back) \in Nat /\ k \in 0..Len(h.back)
      BY <1>1
    <2> QED
      BY <2>1, <2>2
  <1> DEFINE l == [h EXCEPT !.rclosed = TRUE, !.back = Cut(@, k)]
  <1>3. k \in Nat /\ k <= Len(h.back) /\ Cut(h.back, k) \in Seq(Answers)
    BY <1>1, CutType
  <1>4. /\ l \in Connections /\ l.fwd = h.fwd /\ l.back = Cut(h.back, k)
        /\ l.broken = h.broken /\ l.rclosed
    BY <1>1, <1>3 DEF Connections
  <1>5. cn2[c] = l /\ (\A d \in Conns \ {c} : cn2[d] = cn[d]) /\ cn2 \in [Conns -> Connections]
    BY <1>2, <1>4
  <1> HIDE DEF l
  <1> QED
    BY <1>4, <1>5

LEMMA BreakShrinks ==
    ASSUME conn \in [Conns -> Connections], NEW cs, Break(cs)
    PROVE  /\ AllShrink(conn, conn')
           /\ \A d \in Conns : conn'[d] = conn[d] \/ conn'[d].broken
  <1>1. PICK i, j \in 0..Buffer :
           conn' = [c \in Conns |->
                      IF c \notin cs \/ conn[c].broken THEN conn[c]
                      ELSE [conn[c] EXCEPT !.broken = TRUE,
                                           !.fwd = IF i < Len(@) THEN Cut(@, i) ELSE @,
                                           !.back = IF j < Len(@) THEN Cut(@, j) ELSE @]]
    BY DEF Break
  <1>2. i \in Nat /\ j \in Nat
    BY Sizes
  <1>3. ASSUME NEW d \in Conns
        PROVE  /\ conn'[d] \in Connections /\ Shrinks(conn[d], conn'[d])
               /\ conn'[d] = conn[d] \/ conn'[d].broken
    <2> DEFINE h == conn[d]
               l == conn'[d]
               fwd == IF i < Len(h.fwd) THEN Cut(h.fwd, i) ELSE h.fwd
               back == IF j < Len(h.back) THEN Cut(h.back, j) ELSE h.back
    <2>1. h \in Connections /\ h.fwd \in Seq(Frames) /\ h.back \in Seq(Answers)
      BY DEF Connections
    <2>2. CASE d \notin cs \/ conn[d].broken
      BY <1>1, <2>1, <2>2, ShrinksSelf
    <2>3. CASE ~(d \notin cs \/ conn[d].broken)
      <3>1. l = [h EXCEPT !.broken = TRUE, !.fwd = fwd, !.back = back]
        BY <1>1, <2>3
      <3>2. PICK x \in Nat : x <= Len(h.fwd) /\ fwd = Cut(h.fwd, x)
        BY <1>2, <2>1, CutWhole
      <3>3. PICK y \in Nat : y <= Len(h.back) /\ back = Cut(h.back, y)
        BY <1>2, <2>1, CutWhole
      <3>4. fwd \in Seq(Frames) /\ back \in Seq(Answers)
        BY <2>1, <3>2, <3>3, CutType
      <3> HIDE DEF fwd, back
      <3>5. /\ l \in Connections /\ l.fwd = fwd /\ l.back = back /\ l.broken
            /\ l.rclosed = h.rclosed
        BY <2>1, <3>1, <3>4 DEF Connections
      <3>6. l.fwd = Cut(h.fwd, x) /\ l.back = Cut(h.back, y)
        BY <3>2, <3>3, <3>5
      <3>7. (h.broken => l.broken) /\ l.rclosed = h.rclosed
        BY <3>5
      <3> HIDE DEF l, h
      <3>8. Shrinks(h, l)
        BY <2>1, <3>2, <3>3, <3>5, <3>6, <3>7, ShrinksTo
      <3> QED
        BY <3>5, <3>8 DEF h, l
    <2> QED
      BY <2>2, <2>3
  <1>4. conn' \in [Conns -> Connections]
    <2>1. conn' = [c \in Conns |-> conn'[c]]
      BY <1>1
    <2> QED
      BY <1>3, <2>1
  <1> QED
    BY <1>3, <1>4 DEF AllShrink

\* A frame is written to c, or to nobody.
Takes(c, f) ==
    /\ conn' \in [Conns -> Connections]
    /\ \/ conn' = conn
       \/ /\ ~Deaf(c)
          /\ conn'[c].fwd = Append(conn[c].fwd, f) /\ conn'[c].back = conn[c].back
          /\ conn'[c].broken = conn[c].broken /\ conn'[c].rclosed = conn[c].rclosed
          /\ \A d \in Conns \ {c} : conn'[d] = conn[d]

LEMMA WriteTakes ==
    ASSUME conn \in [Conns -> Connections], NEW c \in Conns, NEW f \in Frames,
           conn' = conn \/ (conn' = [conn EXCEPT ![c].fwd = Append(@, f)] /\ ~Deaf(c))
    PROVE  Takes(c, f)
  <1>1. CASE conn' = conn
    BY <1>1 DEF Takes
  <1>2. CASE conn' = [conn EXCEPT ![c].fwd = Append(@, f)] /\ ~Deaf(c)
    <2>1. Append(conn[c].fwd, f) \in Seq(Frames)
      BY DEF Connections
    <2>2. conn' = [conn EXCEPT ![c].fwd = Append(conn[c].fwd, f)]
      BY <1>2
    <2>3. /\ conn' \in [Conns -> Connections]
          /\ conn'[c].fwd = Append(conn[c].fwd, f) /\ conn'[c].back = conn[c].back
          /\ conn'[c].broken = conn[c].broken /\ conn'[c].rclosed = conn[c].rclosed
          /\ \A d \in Conns \ {c} : conn'[d] = conn[d]
      BY <2>1, <2>2 DEF Connections
    <2> QED
      BY <1>2, <2>3 DEF Takes
  <1> QED
    BY <1>1, <1>2

\* A reply is sent on c, or lost.
Answered(c, r) ==
    /\ conn' \in [Conns -> Connections]
    /\ \/ conn' = conn
       \/ /\ conn'[c].back = Append(conn[c].back, r) /\ conn'[c].fwd = conn[c].fwd
          /\ conn'[c].broken = conn[c].broken /\ conn'[c].rclosed = conn[c].rclosed
          /\ \A d \in Conns \ {c} : conn'[d] = conn[d]

LEMMA ReplyAnswers ==
    ASSUME conn \in [Conns -> Connections], NEW c \in Conns, NEW r \in Answers,
           conn' = conn \/ conn' = [conn EXCEPT ![c].back = Append(@, r)]
    PROVE  Answered(c, r)
  <1>1. CASE conn' = conn
    BY <1>1 DEF Answered
  <1>2. CASE conn' = [conn EXCEPT ![c].back = Append(@, r)]
    <2>1. Append(conn[c].back, r) \in Seq(Answers)
      BY DEF Connections
    <2>2. conn' = [conn EXCEPT ![c].back = Append(conn[c].back, r)]
      BY <1>2
    <2>3. /\ conn' \in [Conns -> Connections]
          /\ conn'[c].back = Append(conn[c].back, r) /\ conn'[c].fwd = conn[c].fwd
          /\ conn'[c].broken = conn[c].broken /\ conn'[c].rclosed = conn[c].rclosed
          /\ \A d \in Conns \ {c} : conn'[d] = conn[d]
      BY <2>1, <2>2 DEF Connections
    <2> QED
      BY <1>2, <2>3 DEF Answered
  <1> QED
    BY <1>1, <1>2

\* The sender takes the oldest answer from c.
Hears(c) ==
    /\ conn[c].back # <<>> /\ Head(conn[c].back) \in Answers
    /\ conn' \in [Conns -> Connections]
    /\ conn'[c].back = Tail(conn[c].back) /\ conn'[c].fwd = conn[c].fwd
    /\ conn'[c].broken = conn[c].broken /\ conn'[c].rclosed = conn[c].rclosed
    /\ \A d \in Conns \ {c} : conn'[d] = conn[d]

LEMMA TailHears ==
    ASSUME conn \in [Conns -> Connections], NEW c \in Conns, conn[c].back # <<>>,
           conn' = [conn EXCEPT ![c].back = Tail(@)]
    PROVE  Hears(c)
  <1>1. conn[c].back \in Seq(Answers)
    BY DEF Connections
  <1>2. Tail(conn[c].back) \in Seq(Answers) /\ Head(conn[c].back) \in Answers
    BY <1>1
  <1>3. conn' = [conn EXCEPT ![c].back = Tail(conn[c].back)]
    OBVIOUS
  <1>4. /\ conn' \in [Conns -> Connections]
        /\ conn'[c].back = Tail(conn[c].back) /\ conn'[c].fwd = conn[c].fwd
        /\ conn'[c].broken = conn[c].broken /\ conn'[c].rclosed = conn[c].rclosed
        /\ \A d \in Conns \ {c} : conn'[d] = conn[d]
    BY <1>2, <1>3 DEF Connections
  <1> QED
    BY <1>2, <1>4 DEF Hears

\* The receiver takes the oldest frame from its connection, and may answer r.
Reads(r) ==
    /\ conn[rsock].fwd # <<>> /\ Head(conn[rsock].fwd) \in Frames
    /\ conn' \in [Conns -> Connections]
    /\ conn'[rsock].fwd = Tail(conn[rsock].fwd)
    /\ conn'[rsock].back \in {conn[rsock].back, Append(conn[rsock].back, r)}
    /\ conn'[rsock].broken = conn[rsock].broken /\ conn'[rsock].rclosed = conn[rsock].rclosed
    /\ \A d \in Conns \ {rsock} : conn'[d] = conn[d]

\* The receiver gives its connection up, and may have said r.
Hangs(r) ==
    /\ conn' \in [Conns -> Connections]
    /\ conn'[rsock].rclosed
    /\ \/ conn'[rsock].fwd = conn[rsock].fwd
       \/ conn[rsock].fwd # <<>> /\ conn'[rsock].fwd = Tail(conn[rsock].fwd)
    /\ \/ \E k \in 0..Len(conn[rsock].back) : conn'[rsock].back = Cut(conn[rsock].back, k)
       \/ conn'[rsock].back = Append(conn[rsock].back, r)
    /\ conn[rsock].broken => conn'[rsock].broken
    /\ \A d \in Conns \ {rsock} : conn'[d] = conn[d]

\* What each step of the sender does to the connections.
LEMMA SenderConn ==
    ASSUME Typed
    PROVE  /\ Transmit => sock \in Conns /\ Takes(sock, frame)
           /\ Resend => sock \in Conns /\ Takes(sock, Head(resend))
           /\ Quit => conn' = conn \/ (sock \in Conns /\ Takes(sock, Torn))
           /\ SayGoodbye => sock \in Conns /\ Takes(sock, Error)
           /\ Farewell => made \in Conns /\ Takes(made, Error)
           /\ \A w : Reconnects(w) => AllShrink(conn, conn')
           /\ RetryConnect /\ spc = "welcome" => AllShrink(conn, conn')
           /\ Done \/ Leave \/ ConnectTimesOut \/ WaitTimesOut => AllShrink(conn, conn')
           /\ Welcomed => made \in Conns /\ Hears(made)
           /\ \A c \in Conns : ReadAck(c) \/ ReadError(c) => Hears(c)
  <1> USE DEF Typed, ControlTypes, SenderTypes, WireTypes, Places
  <1>0. /\ conn \in [Conns -> Connections] /\ frame \in Frames /\ resend \in Seq(Frames)
        /\ Torn \in Frames /\ Error \in Frames
        /\ sock \in Conns \cup {None} /\ made \in Conns \cup {None}
    BY FrameTypes, Sizes DEF Conns, None
  <1>1. ASSUME Transmit  PROVE sock \in Conns /\ Takes(sock, frame)
    <2>1. sock \in Conns
      BY <1>0, <1>1 DEF Transmit, Connected
    <2>2. conn' = conn \/ (conn' = [conn EXCEPT ![sock].fwd = Append(@, frame)] /\ ~Deaf(sock))
      BY <1>1 DEF Transmit, Writes
    <2> QED
      BY <1>0, <2>1, <2>2, WriteTakes
  <1>2. ASSUME Resend  PROVE sock \in Conns /\ Takes(sock, Head(resend))
    <2>1. sock \in Conns /\ Head(resend) \in Frames
      BY <1>0, <1>2 DEF Resend, Connected
    <2>2. conn' = conn \/ (conn' = [conn EXCEPT ![sock].fwd = Append(@, Head(resend))] /\ ~Deaf(sock))
      BY <1>2 DEF Resend, Writes
    <2> QED
      BY <1>0, <2>1, <2>2, WriteTakes
  <1>3. ASSUME Quit  PROVE conn' = conn \/ (sock \in Conns /\ Takes(sock, Torn))
    <2>1. CASE conn' = conn
      BY <2>1
    <2>2. CASE spc \in {"write", "resend"} /\ Writes(sock, Torn)
      <3>1. sock \in Conns
        BY <1>0, <2>2 DEF Connected
      <3>2. conn' = conn \/ (conn' = [conn EXCEPT ![sock].fwd = Append(@, Torn)] /\ ~Deaf(sock))
        BY <2>2 DEF Writes
      <3> QED
        BY <1>0, <3>1, <3>2, WriteTakes
    <2> QED
      BY <1>3, <2>1, <2>2 DEF Quit
  <1>4. ASSUME NEW c \in Conns, Goodbye(c)  PROVE Takes(c, Error)
    <2>1. conn' = conn \/ (conn' = [conn EXCEPT ![c].fwd = Append(@, Error)] /\ ~Deaf(c))
      BY <1>4 DEF Goodbye
    <2> QED
      BY <1>0, <2>1, WriteTakes
  <1>5. SayGoodbye => sock \in Conns /\ Takes(sock, Error)
    BY <1>0, <1>4 DEF SayGoodbye
  <1>6. Farewell => made \in Conns /\ Takes(made, Error)
    BY <1>0, <1>4 DEF Farewell, None
  <1>7. ASSUME NEW c \in Conns \cup {None}, conn' \in SClose(conn, c)  PROVE AllShrink(conn, conn')
    BY <1>0, <1>7, SCloseShrinks
  <1>8. \A w : Reconnects(w) => AllShrink(conn, conn')
    BY <1>0, <1>7 DEF Reconnects
  <1>9. RetryConnect /\ spc = "welcome" => AllShrink(conn, conn')
    BY <1>0, <1>7 DEF RetryConnect
  <1>10. Done \/ ConnectTimesOut \/ WaitTimesOut => AllShrink(conn, conn')
    BY <1>0, <1>7 DEF Done, ConnectTimesOut, WaitTimesOut
  <1>11. ASSUME Leave  PROVE AllShrink(conn, conn')
    <2> DEFINE c == IF sock = None THEN made ELSE sock
    <2>1. c \in Conns \cup {None} /\ conn' \in IF c = None THEN {conn} ELSE Intact(conn, c)
      BY <1>0, <1>11 DEF Leave
    <2>2. CASE c = None
      BY <1>0, <2>1, <2>2, ShrinksSelf DEF AllShrink
    <2>3. CASE c # None
      <3>1. c \in Conns /\ conn' \in Intact(conn, c)
        BY <2>1, <2>3
      <3> HIDE DEF c
      <3>2. /\ conn' \in [Conns -> Connections] /\ Shrinks(conn[c], conn'[c])
            /\ \A d \in Conns \ {c} : conn'[d] = conn[d]
        BY <1>0, <3>1, IntactShrinks
      <3>3. \A d \in Conns : Shrinks(conn[d], conn[d])
        BY <1>0, ShrinksSelf
      <3> QED
        BY <3>2, <3>3 DEF AllShrink
    <2> QED
      BY <2>2, <2>3
  <1>12. Welcomed => made \in Conns /\ Hears(made)
    BY <1>0, TailHears DEF Welcomed, None
  <1>13. ASSUME NEW c \in Conns, ReadAck(c) \/ ReadError(c)  PROVE Hears(c)
    BY <1>0, <1>13, TailHears DEF ReadAck, ReadError
  <1> QED
    BY <1>1, <1>2, <1>3, <1>5, <1>6, <1>8, <1>9, <1>10, <1>11, <1>12, <1>13

\* What each step of the receiver does to the connections.
LEMMA ReceiverConn ==
    ASSUME Typed
    PROVE  /\ Accept => /\ Head(inbound) \in Conns /\ Tail(inbound) \in Seq(1..made)
                        /\ Head(inbound) \in 1..made
                        /\ Answered(Head(inbound), Reply("WELCOME", expected))
           /\ AckFrame => rsock \in Conns /\ Answered(rsock, Reply("ACK", expected'))
           /\ Heartbeat => rsock \in Conns /\ Answered(rsock, Reply("ACK", expected))
           /\ ReceiveData \/ ReceiveEnd => rsock \in Conns /\ Reads(Reply("ACK", expected))
           /\ CloseSocket \/ ReceiveError => rsock \in Conns /\ Hangs(Reply("ERROR", 0))
           /\ QuitReceiver => conn' = conn \/ (rsock \in Conns /\ Hangs(Reply("ERROR", 0)))
  <1> USE DEF Typed, ReceiverTypes, WireTypes, Places
  <1>0. /\ conn \in [Conns -> Connections] /\ expected \in Nat /\ upto \in Nat
        /\ rsock \in Conns \cup {None} /\ 1..made \subseteq Conns
        /\ \A n \in Nat : \A k \in {"WELCOME", "ACK", "ERROR"} : Reply(k, n) \in Answers
    BY Sizes DEF Conns, None, Reply, Answers
  <1>1. ASSUME Accept
        PROVE  /\ Head(inbound) \in Conns /\ Tail(inbound) \in Seq(1..made)
               /\ Head(inbound) \in 1..made
               /\ Answered(Head(inbound), Reply("WELCOME", expected))
    <2> DEFINE c == Head(inbound)
    <2>1. c \in 1..made /\ Tail(inbound) \in Seq(1..made)
      BY <1>1 DEF Accept
    <2>2. c \in Conns
      BY <1>0, <2>1
    <2>3. conn' = conn \/ conn' = [conn EXCEPT ![c].back = Append(@, Reply("WELCOME", expected))]
      BY <1>1 DEF Accept
    <2> HIDE DEF c
    <2>4. Answered(c, Reply("WELCOME", expected))
      BY <1>0, <2>2, <2>3, ReplyAnswers
    <2> QED
      BY <2>1, <2>2, <2>4 DEF c
  <1>2. ASSUME NEW r \in Answers, Replies(r), rsock \in Conns  PROVE Answered(rsock, r)
    <2>1. conn' = conn \/ conn' = [conn EXCEPT ![rsock].back = Append(@, r)]
      BY <1>2 DEF Replies
    <2> QED
      BY <1>0, <1>2, <2>1, ReplyAnswers
  <1>3. ASSUME AckFrame  PROVE rsock \in Conns /\ Answered(rsock, Reply("ACK", expected'))
    <2>1. rsock \in Conns /\ expected' = Larger(expected, upto) /\ expected' \in Nat
      BY <1>0, <1>3 DEF AckFrame, Larger
    <2>2. Reply("ACK", expected') \in Answers
      BY <1>0, <2>1
    <2>3. Replies(Reply("ACK", expected')) \/ conn' = conn
      BY <1>3, <2>1 DEF AckFrame
    <2> QED
      BY <1>0, <1>2, <2>1, <2>2, <2>3 DEF Answered
  <1>4. ASSUME Heartbeat  PROVE rsock \in Conns /\ Answered(rsock, Reply("ACK", expected))
    BY <1>0, <1>2, <1>4 DEF Heartbeat, Reading
  <1>5. ASSUME ReceiveData \/ ReceiveEnd
        PROVE  rsock \in Conns /\ Reads(Reply("ACK", expected))
    <2> DEFINE k == conn[rsock]
               r == Reply("ACK", expected)
    <2>1. rsock \in Conns /\ k.fwd # <<>>
      BY <1>0, <1>5 DEF ReceiveData, ReceiveEnd, Incoming, Reading
    <2>2. k \in Connections /\ k.fwd \in Seq(Frames) /\ k.back \in Seq(Answers) /\ r \in Answers
      BY <1>0, <2>1 DEF Connections
    <2>3. Tail(k.fwd) \in Seq(Frames) /\ Head(k.fwd) \in Frames /\ Append(k.back, r) \in Seq(Answers)
      BY <2>1, <2>2
    <2>4. \/ conn' = [conn EXCEPT ![rsock].fwd = Tail(k.fwd)]
          \/ conn' = [conn EXCEPT ![rsock].fwd = Tail(k.fwd), ![rsock].back = Append(k.back, r)]
      BY <1>5 DEF ReceiveData, ReceiveEnd, Received
    <2>5. CASE conn' = [conn EXCEPT ![rsock].fwd = Tail(k.fwd)]
      BY <1>0, <2>1, <2>3, <2>5 DEF Reads, Connections
    <2>6. CASE conn' = [conn EXCEPT ![rsock].fwd = Tail(k.fwd), ![rsock].back = Append(k.back, r)]
      <3> HIDE DEF r
      <3> QED
        BY <1>0, <2>1, <2>3, <2>6 DEF Reads, Connections, r
    <2> QED
      BY <2>1, <2>4, <2>5, <2>6
  <1>6. ASSUME NEW cn2 \in RClose(conn, rsock), rsock \in Conns, conn' = cn2
        PROVE  Hangs(Reply("ERROR", 0))
    <2>1. /\ cn2 \in [Conns -> Connections] /\ cn2[rsock].rclosed
          /\ cn2[rsock].fwd = conn[rsock].fwd /\ cn2[rsock].broken = conn[rsock].broken
          /\ \E k \in 0..Len(conn[rsock].back) : cn2[rsock].back = Cut(conn[rsock].back, k)
          /\ \A d \in Conns \ {rsock} : cn2[d] = conn[d]
      BY <1>0, <1>6, RCloseLeaves
    <2> QED
      BY ONLY <1>6, <2>1 DEF Hangs
  <1>7. ASSUME CloseSocket  PROVE rsock \in Conns /\ Hangs(Reply("ERROR", 0))
    BY <1>0, <1>6, <1>7 DEF CloseSocket
  <1>8. ASSUME ReceiveError  PROVE rsock \in Conns /\ Hangs(Reply("ERROR", 0))
    <2> DEFINE k == conn[rsock]
               mid == [conn EXCEPT ![rsock].fwd = Tail(@)]
    <2>1. rsock \in Conns /\ k.fwd # <<>> /\ conn' \in RClose(mid, rsock)
      BY <1>0, <1>8 DEF ReceiveError, Incoming, Reading
    <2>2. k \in Connections /\ k.fwd \in Seq(Frames) /\ Tail(k.fwd) \in Seq(Frames)
      BY <1>0, <2>1 DEF Connections
    <2>3. /\ mid \in [Conns -> Connections] /\ mid[rsock].fwd = Tail(k.fwd)
          /\ mid[rsock].back = k.back /\ mid[rsock].broken = k.broken
          /\ \A d \in Conns \ {rsock} : mid[d] = conn[d]
      BY <1>0, <2>1, <2>2 DEF Connections
    <2> HIDE DEF mid
    <2>4. /\ conn' \in [Conns -> Connections] /\ conn'[rsock].rclosed
          /\ conn'[rsock].fwd = mid[rsock].fwd /\ conn'[rsock].broken = mid[rsock].broken
          /\ \E j \in 0..Len(mid[rsock].back) : conn'[rsock].back = Cut(mid[rsock].back, j)
          /\ \A d \in Conns \ {rsock} : conn'[d] = mid[d]
      BY <2>1, <2>3, RCloseLeaves
    <2>5. conn'[rsock].fwd = Tail(k.fwd) /\ \A d \in Conns \ {rsock} : conn'[d] = conn[d]
      BY <2>3, <2>4
    <2>6. \E j \in 0..Len(k.back) : conn'[rsock].back = Cut(k.back, j)
      BY <2>3, <2>4
    <2>7. k.broken => conn'[rsock].broken
      BY <2>3, <2>4
    <2> QED
      BY <2>1, <2>4, <2>5, <2>6, <2>7 DEF Hangs
  <1>9. ASSUME QuitReceiver  PROVE conn' = conn \/ (rsock \in Conns /\ Hangs(Reply("ERROR", 0)))
    <2> DEFINE k == conn[rsock]
               r == Reply("ERROR", 0)
    <2>1. CASE rsock = None
      BY <1>9, <2>1 DEF QuitReceiver
    <2>2. CASE rsock # None
      <3>1. rsock \in Conns
        BY <1>0, <2>2
      <3>2. k \in Connections /\ k.fwd \in Seq(Frames) /\ k.back \in Seq(Answers) /\ r \in Answers
        BY <1>0, <3>1 DEF Connections
      <3>3. Append(k.back, r) \in Seq(Answers) /\ k.back = Cut(k.back, Len(k.back)) /\ Len(k.back) \in 0..Len(k.back)
        BY <3>2, CutWhole
      <3>4. \/ conn' = [conn EXCEPT ![rsock].rclosed = TRUE]
            \/ conn' = [conn EXCEPT ![rsock].back = Append(k.back, r), ![rsock].rclosed = TRUE]
        BY <1>9, <2>2 DEF QuitReceiver
      <3> HIDE DEF r
      <3>5. CASE conn' = [conn EXCEPT ![rsock].rclosed = TRUE]
        <4>1. /\ conn' \in [Conns -> Connections] /\ conn'[rsock].rclosed
              /\ conn'[rsock].fwd = k.fwd /\ conn'[rsock].back = k.back
              /\ conn'[rsock].broken = k.broken
              /\ \A d \in Conns \ {rsock} : conn'[d] = conn[d]
          BY <1>0, <3>1, <3>2, <3>5 DEF Connections
        <4> QED
          BY <3>1, <3>3, <4>1 DEF Hangs, r
      <3>6. CASE conn' = [conn EXCEPT ![rsock].back = Append(k.back, r), ![rsock].rclosed = TRUE]
        <4>1. /\ conn' \in [Conns -> Connections] /\ conn'[rsock].rclosed
              /\ conn'[rsock].fwd = k.fwd /\ conn'[rsock].back = Append(k.back, r)
              /\ conn'[rsock].broken = k.broken
              /\ \A d \in Conns \ {rsock} : conn'[d] = conn[d]
          BY <1>0, <3>1, <3>2, <3>3, <3>6 DEF Connections
        <4> QED
          BY <3>1, <4>1 DEF Hangs, r
      <3> QED
        BY <3>4, <3>5, <3>6
    <2> QED
      BY <2>1, <2>2
  <1> QED
    BY <1>1, <1>3, <1>4, <1>5, <1>7, <1>8, <1>9
-----------------------------------------------------------------------------
(* Which steps change what.                                                *)

USE DEF Next, Producer, Sender, Reader, Receiver, Timeout, Over, vars, producerVars, inboxVars,
        controlVars, senderVars, wireVars, receiverVars, runVars, netVars, Finish, Transmit,
        TransmitFails, ResendFails, WaitReconnects, Reconnects, Done, Connect, Dials, ConnectFails,
        RetryConnect, Snapshot, Resend, Resent, Quit, SayGoodbye, Goodbye, CallBack, Farewell,
        FarewellFails, Leave, ReadError, ReadEnd, Accept, ReceiveData, AckFrame, Heartbeat, ReceiveEnd,
        Dropped, CloseSocket, ReceiveError, QuitReceiver, PassOn, Flush, ClosesOutput, ConnectTimesOut, WelcomeTimesOut,
        FarewellTimesOut, Silence, WaitTimesOut, AcceptTimesOut, Drop, Outage, Restore, Cancel,
        Produce, CloseOutput, Pop, MakeFrame, Welcomed, ReadAck

LEMMA ProducerTouched ==
    ASSUME [Next]_vars
    PROVE  \/ Produce \/ CloseOutput \/ Pop \/ Welcomed \/ \E c \in Conns : ReadAck(c)
           \/ UNCHANGED <<produced, credits, inq>>
  OBVIOUS

LEMMA StreamTouched ==
    ASSUME [Next]_vars
    PROVE  \/ Produce \/ CloseOutput \/ Pop \/ MakeFrame \/ Finish
           \/ UNCHANGED <<produced, closed, inq, hand, last, sent, ended>>
  OBVIOUS

LEMMA FramesTouched ==
    ASSUME [Next]_vars
    PROVE  MakeFrame \/ Finish \/ Snapshot \/ Resend \/ UNCHANGED <<frame, resend>>
  OBVIOUS

LEMMA AckedTouched ==
    ASSUME [Next]_vars
    PROVE  \/ MakeFrame \/ Welcomed \/ \E c \in Conns : ReadAck(c)
           \/ UNCHANGED <<sent, acked, unacked>>
  OBVIOUS

LEMMA DeliveryTouched ==
    ASSUME [Next]_vars
    PROVE  ReceiveData \/ PassOn \/ AckFrame \/ UNCHANGED <<todo, upto, expected, passed>>
  OBVIOUS

LEMMA FlushTouched ==
    ASSUME [Next]_vars
    PROVE  \/ UNCHANGED delivered
           \/ /\ Flush \/ QuitReceiver \/ AcceptTimesOut
              /\ delivered' \in {delivered, Len(passed)} /\ passed' = passed /\ rpc # "over"
              /\ rpc \in {"wait", "serve", "deliver"}
  BY DEF NobodyComes

LEMMA DialTouched ==
    ASSUME [Next]_vars
    PROVE  Connect \/ CallBack \/ Accept \/ UNCHANGED <<made, inbound>>
  OBVIOUS

LEMMA MadeStep ==
    ASSUME [Next]_vars
    PROVE  made' # made => made' = made + 1 /\ made < MaxConns
  OBVIOUS

LEMMA ControlTouched ==
    ASSUME [Next]_vars
    PROVE  Sender \/ Timeout \/ UNCHANGED <<spc, then, hand, last, frame, resend, sock, made>>
  OBVIOUS

LEMMA StageTouched ==
    ASSUME [Next]_vars
    PROVE  Receiver \/ AcceptTimesOut \/ UNCHANGED <<rpc, rsock>>
  OBVIOUS

LEMMA ConnTouched ==
    ASSUME [Next]_vars
    PROVE  \/ Transmit \/ Resend \/ Quit \/ SayGoodbye \/ Farewell
           \/ TransmitFails \/ ResendFails \/ WaitReconnects \/ ConnectFails \/ WelcomeTimesOut
           \/ Done \/ Leave \/ ConnectTimesOut \/ WaitTimesOut
           \/ Welcomed \/ \E c \in Conns : ReadAck(c) \/ ReadError(c)
           \/ Accept \/ AckFrame \/ Heartbeat \/ ReceiveData \/ ReceiveEnd
           \/ CloseSocket \/ ReceiveError \/ QuitReceiver
           \/ Drop \/ Outage \/ conn' = conn
  OBVIOUS

LEMMA VerdictStep ==
    ASSUME [Next]_vars, VerdictTypes
    PROVE  VerdictTypes'
  <1> DEFINE Good == verdict' = verdict \/ \E g \in Groups : \E w \in Verdicts : verdict' = [verdict EXCEPT ![g] = w]
  <1> USE DEF VerdictTypes, Verdicts, Groups, Ends, Fails
  <1>1. Sender \/ Timeout => Good
    OBVIOUS
  <1>2. Receiver \/ Flush \/ Producer \/ Over \/ Drop \/ Outage \/ Restore => Good
    OBVIOUS
  <1>3. (\E c \in Conns : Reader(c)) => Good
    OBVIOUS
  <1>4. (\E g \in Groups : Cancel(g)) => Good
    OBVIOUS
  <1>5. Good
    BY ONLY <1>1, <1>2, <1>3, <1>4, [Next]_vars DEF Next, vars, runVars
  <1> QED
    BY ONLY <1>5, VerdictTypes DEF VerdictTypes

\* Only these steps say done.
LEMMA DoneStep ==
    ASSUME [Next]_vars, VerdictTypes
    PROVE  /\ verdict'["in"] = "done" => verdict["in"] = "done" \/ (CloseSocket /\ rpc = "close" /\ rpc' = "over")
           /\ verdict'["out"] = "done" => verdict["out"] = "done" \/ Done
  <1> DEFINE In == verdict'["in"] = "done" => verdict["in"] = "done" \/ (CloseSocket /\ rpc = "close" /\ rpc' = "over")
             Out == verdict'["out"] = "done" => verdict["out"] = "done" \/ Done
  <1> USE DEF VerdictTypes, Verdicts, Groups, Ends, Fails
  <1>1. CloseSocket => In /\ Out
    OBVIOUS
  <1>2. Receiver /\ ~CloseSocket => In /\ Out
    OBVIOUS
  <1>3. Done => In /\ Out
    OBVIOUS
  <1>4. (Sender /\ ~Done) \/ Timeout => In /\ Out
    OBVIOUS
  <1>5. Flush \/ Producer \/ Over \/ Drop \/ Outage \/ Restore => In /\ Out
    OBVIOUS
  <1>6. (\E c \in Conns : Reader(c)) => In /\ Out
    OBVIOUS
  <1>7. (\E g \in Groups : Cancel(g)) => In /\ Out
    OBVIOUS
  <1>8. UNCHANGED vars => In /\ Out
    OBVIOUS
  <1> HIDE DEF In, Out, CloseSocket, Done, Flush, Drop, Outage, Restore, Cancel, Receiver, Sender,
               Timeout, Producer, Over, Reader, vars, Next
  <1>9. In /\ Out
    BY ONLY <1>1, <1>2, <1>3, <1>4, <1>5, <1>6, <1>7, <1>8, [Next]_vars DEF Next
  <1> QED
    BY <1>9 DEF In, Out, CloseSocket, Done

\* A receiver that is over says nothing else any more.
LEMMA DoneStays ==
    ASSUME [Next]_vars, VerdictTypes, rpc = "over"
    PROVE  verdict'["in"] = verdict["in"] \/ (verdict["in"] # "done" /\ verdict'["in"] # "done")
  <1> DEFINE Good == verdict'["in"] = verdict["in"] \/ (verdict["in"] # "done" /\ verdict'["in"] # "done")
  <1> USE DEF VerdictTypes, Verdicts, Groups, Ends, Fails
  <1>1. Receiver => Good
    BY DEF Incoming, Reading
  <1>2. Sender \/ Timeout => Good
    OBVIOUS
  <1>3. Flush \/ Producer \/ Over \/ Drop \/ Outage \/ Restore => Good
    OBVIOUS
  <1>4. (\E c \in Conns : Reader(c)) => Good
    OBVIOUS
  <1>5. (\E g \in Groups : Cancel(g)) => Good
    OBVIOUS
  <1>6. UNCHANGED vars => Good
    OBVIOUS
  <1> HIDE DEF Good, Flush, Drop, Outage, Restore, Cancel, Receiver, Sender,
               Timeout, Producer, Over, Reader, vars, Next
  <1>7. Good
    BY ONLY <1>1, <1>2, <1>3, <1>4, <1>5, <1>6, [Next]_vars DEF Next
  <1> QED
    BY <1>7 DEF Good

\* Where each end is, and with which connection, after any step.
LEMMA SpcStep ==
    ASSUME [Next]_vars, spc \in States, then \in {"pop", "room", "write", "drain"}
    PROVE  spc' \in States /\ then' \in {"pop", "room", "write", "drain"}
  BY DEF States, AfterSend, AfterLast

LEMMA SockStep ==
    ASSUME [Next]_vars, Places
    PROVE  /\ sock' \in {None, sock, made}
           /\ \/ readers' \subseteq readers
              \/ spc = "welcome" /\ readers' = readers \cup {made}
  BY DEF Places, None

LEMMA RpcStep ==
    ASSUME [Next]_vars, rpc \in Stages
    PROVE  /\ rpc' \in Stages
           /\ rsock' \in {None, rsock} \/ (inbound # <<>> /\ rsock' = Head(inbound))
  BY DEF Stages, None

LEMMA RsockStep ==
    ASSUME [Next]_vars
    PROVE  Accept \/ rsock' \in {None, rsock}
  OBVIOUS

LEMMA StageStep ==
    ASSUME [Next]_vars
    PROVE  \/ ReceiveData \/ AckFrame \/ ReceiveEnd \/ rpc' = rpc \/ rpc' = "over"
           \/ rpc = "wait" /\ rpc' = "serve"
           \/ rpc = "serve" /\ rpc' = "drop"
           \/ rpc = "drop" /\ rpc' = "wait"
  <1> DEFINE Good == \/ ReceiveData \/ AckFrame \/ ReceiveEnd \/ rpc' = rpc \/ rpc' = "over"
                     \/ rpc = "wait" /\ rpc' = "serve"
                     \/ rpc = "serve" /\ rpc' = "drop"
                     \/ rpc = "drop" /\ rpc' = "wait"
  <1> USE DEF Incoming, Reading
  <1>1. CASE Receiver
    <2>1. Accept \/ Heartbeat \/ Dropped => Good
      OBVIOUS
    <2>2. ReceiveData \/ AckFrame \/ ReceiveEnd => Good
      OBVIOUS
    <2>3. CloseSocket \/ ReceiveError \/ QuitReceiver => Good
      OBVIOUS
    <2> HIDE DEF Good
    <2> QED
      BY <1>1, <2>1, <2>2, <2>3 DEF Good
  <1>2. CASE AcceptTimesOut
    BY ONLY <1>2 DEF AcceptTimesOut
  <1>3. CASE UNCHANGED <<rpc, rsock>>
    BY ONLY <1>3
  <1>4. Good
    BY <1>1, <1>2, <1>3, StageTouched
  <1> QED
    BY <1>4

LEMMA SenderPlaceStep ==
    ASSUME [Next]_vars, Places, made \in Nat, spc \in States, then \in {"pop", "room", "write", "drain"}
    PROVE  /\ (Connected \/ spc = "goodbye" => sock # None)'
           /\ (spc \in {"welcome", "farewell"} => made # 0)'
  <1> DEFINE Good == /\ Connected' \/ spc' = "goodbye" => sock' # None
                     /\ spc' \in {"welcome", "farewell"} => made' # 0
  <1> USE DEF Places, Connected, States, AfterSend, AfterLast, None
  <1>1. CASE Sender
    <2>1. Welcomed \/ Resent \/ Done \/ Leave => Good
      OBVIOUS
    <2>5. ASSUME Connect \/ CallBack  PROVE Good
      <3>1. made' = made + 1
        BY ONLY <2>5 DEF Connect, CallBack, Dials
      <3>2. spc' \in {"welcome", "farewell"}
        BY <2>5
      <3>3. made' # 0 /\ spc' # "goodbye" /\ ~Connected'
        BY ONLY <3>1, <3>2, made \in Nat DEF Connected
      <3> QED
        BY ONLY <3>3
    <2>2. TransmitFails \/ ResendFails \/ WaitReconnects \/ ConnectFails => Good
      OBVIOUS
    <2>3. Pop \/ MakeFrame \/ Finish \/ Transmit \/ Snapshot \/ Resend => Good
      OBVIOUS
    <2>4. Quit \/ SayGoodbye \/ Farewell \/ FarewellFails => Good
      OBVIOUS
    <2> QED
      BY <1>1, <2>1, <2>2, <2>3, <2>4, <2>5
  <1>2. CASE Timeout
    BY <1>2
  <1>3. CASE UNCHANGED <<spc, then, hand, last, frame, resend, sock, made>>
    BY <1>3
  <1>4. Good
    BY <1>1, <1>2, <1>3, ControlTouched
  <1> QED
    BY <1>4

LEMMA ReceiverPlaceStep ==
    ASSUME [Next]_vars, Places, inbound # <<>> => Head(inbound) # None
    PROVE  /\ (rpc = "wait" => rsock = None)'
           /\ (rpc \in {"serve", "deliver", "drop", "close"} => rsock # None)'
  <1> DEFINE Good == /\ rpc' = "wait" => rsock' = None
                     /\ rpc' \in {"serve", "deliver", "drop", "close"} => rsock' # None
  <1> USE DEF Places, Incoming, Reading, None
  <1>1. CASE Receiver
    <2>1. Accept \/ AckFrame \/ Heartbeat \/ Dropped => Good
      OBVIOUS
    <2>2. ReceiveData \/ ReceiveEnd => Good
      OBVIOUS
    <2>3. CloseSocket \/ ReceiveError \/ QuitReceiver => Good
      OBVIOUS
    <2> QED
      BY <1>1, <2>1, <2>2, <2>3
  <1>2. CASE AcceptTimesOut
    BY <1>2
  <1>3. CASE UNCHANGED <<rpc, rsock>>
    BY <1>3
  <1>4. Good
    BY <1>1, <1>2, <1>3, StageTouched
  <1> QED
    BY <1>4

\* Where run() goes: on, back to connect, or away for good.
Away == {"goodbye", "callback", "farewell", "leave", "over"}
LEMMA ControlCases ==
    ASSUME [Next]_vars
    PROVE  \/ Pop \/ MakeFrame \/ Finish \/ Transmit \/ Snapshot \/ Resend \/ Resent \/ Welcomed
           \/ Connect \/ ConnectFails \/ WelcomeTimesOut
           \/ TransmitFails \/ ResendFails \/ WaitReconnects
           \/ spc' \in Away
           \/ UNCHANGED <<spc, then, frame, resend, sock>>
  <1> DEFINE Good == \/ Pop \/ MakeFrame \/ Finish \/ Transmit \/ Snapshot \/ Resend \/ Resent \/ Welcomed
                     \/ Connect \/ ConnectFails \/ WelcomeTimesOut
                     \/ TransmitFails \/ ResendFails \/ WaitReconnects
                     \/ spc' \in Away
                     \/ UNCHANGED <<spc, then, frame, resend, sock>>
  <1>1. Done \/ Quit \/ SayGoodbye \/ CallBack \/ Farewell \/ FarewellFails \/ Leave => spc' \in Away
    BY DEF Away
  <1>2. ConnectTimesOut \/ FarewellTimesOut \/ WaitTimesOut => spc' \in Away
    BY DEF Away
  <1>3. Silence \/ AcceptTimesOut => UNCHANGED <<spc, then, frame, resend, sock>>
    OBVIOUS
  <1>4. Sender => Good
    BY ONLY <1>1 DEF Sender
  <1>5. Timeout => Good
    BY ONLY <1>2, <1>3 DEF Timeout
  <1>6. Good
    BY ONLY <1>4, <1>5, ControlTouched, [Next]_vars
  <1> QED
    BY <1>6

\* While the receiver's node is handed a frame.
LEMMA HandingStep ==
    ASSUME [Next]_vars, rpc = "deliver"
    PROVE  AckFrame \/ QuitReceiver \/ UNCHANGED <<rpc, rsock, upto, expected>>
  <1>1. Receiver => AckFrame \/ QuitReceiver \/ UNCHANGED <<rpc, rsock, upto, expected>>
    BY DEF Incoming, Reading
  <1>2. Receiver \/ UNCHANGED <<rpc, rsock>>
    BY StageTouched DEF NobodyComes
  <1>3. ReceiveData \/ Receiver \/ UNCHANGED <<upto, expected>>
    BY DeliveryTouched
  <1> QED
    BY ONLY <1>1, <1>2, <1>3 DEF Receiver

HIDE DEF Next, Producer, Sender, Reader, Receiver, Timeout, Over, vars, producerVars, inboxVars,
         controlVars, senderVars, wireVars, receiverVars, runVars, netVars, Finish, Transmit,
         TransmitFails, ResendFails, WaitReconnects, Reconnects, Done, Connect, Dials, ConnectFails,
         RetryConnect, Snapshot, Resend, Resent, Quit, SayGoodbye, Goodbye, CallBack, Farewell,
         FarewellFails, Leave, ReadError, ReadEnd, Accept, ReceiveData, AckFrame, Heartbeat, ReceiveEnd,
         Dropped, CloseSocket, ReceiveError, QuitReceiver, PassOn, Flush, ClosesOutput, ConnectTimesOut, WelcomeTimesOut,
         FarewellTimesOut, Silence, WaitTimesOut, AcceptTimesOut, Drop, Outage, Restore, Cancel,
         Produce, CloseOutput, Pop, MakeFrame, Welcomed, ReadAck
-----------------------------------------------------------------------------
\* Every step loses tails of the streams, writes one frame, or moves one end of
\* one stream on.
Losing == AllShrink(conn, conn')
Writing ==
    \/ Transmit /\ sock \in Conns /\ Takes(sock, frame)
    \/ Resend /\ sock \in Conns /\ Takes(sock, Head(resend))
    \/ Quit /\ sock \in Conns /\ Takes(sock, Torn)
    \/ SayGoodbye /\ sock \in Conns /\ Takes(sock, Error)
    \/ Farewell /\ made \in Conns /\ Takes(made, Error)
Hearing ==
    \/ Welcomed /\ made \in Conns /\ Hears(made)
    \/ \E c \in Conns : (ReadAck(c) \/ ReadError(c)) /\ Hears(c)
Answering ==
    \/ Accept /\ Head(inbound) \in Conns /\ Answered(Head(inbound), Reply("WELCOME", expected))
    \/ AckFrame /\ rsock \in Conns /\ Answered(rsock, Reply("ACK", expected'))
    \/ Heartbeat /\ rsock \in Conns /\ Answered(rsock, Reply("ACK", expected))
Taking == (ReceiveData \/ ReceiveEnd) /\ rsock \in Conns /\ Reads(Reply("ACK", expected))
Hanging == (CloseSocket \/ ReceiveError \/ QuitReceiver) /\ rsock \in Conns /\ Hangs(Reply("ERROR", 0))

LEMMA ConnStep ==
    ASSUME Typed, [Next]_vars
    PROVE  Losing \/ Writing \/ Hearing \/ Answering \/ Taking \/ Hanging
  <1>0. conn \in [Conns -> Connections]
    BY DEF Typed, WireTypes
  <1>1. conn' = conn => Losing
    BY <1>0, ShrinksSelf DEF Losing, AllShrink
  <1>2. Transmit \/ Resend \/ Quit \/ SayGoodbye \/ Farewell => Losing \/ Writing
    BY <1>1, SenderConn DEF Writing
  <1>3. TransmitFails \/ ResendFails \/ WaitReconnects \/ ConnectFails \/ WelcomeTimesOut => Losing
    <2>1. TransmitFails \/ ResendFails \/ WaitReconnects => \E w : Reconnects(w)
      BY DEF TransmitFails, ResendFails, WaitReconnects
    <2>2. ConnectFails \/ WelcomeTimesOut => RetryConnect /\ spc = "welcome"
      BY DEF ConnectFails, WelcomeTimesOut
    <2> QED
      BY <2>1, <2>2, SenderConn DEF Losing
  <1>4. Done \/ Leave \/ ConnectTimesOut \/ WaitTimesOut => Losing
    BY SenderConn DEF Losing
  <1>5. Welcomed \/ (\E c \in Conns : ReadAck(c) \/ ReadError(c)) => Hearing
    BY SenderConn DEF Hearing
  <1>6. Accept \/ AckFrame \/ Heartbeat => Answering
    BY ReceiverConn DEF Answering
  <1>7. ReceiveData \/ ReceiveEnd => Taking
    BY ReceiverConn DEF Taking
  <1>8. CloseSocket \/ ReceiveError \/ QuitReceiver => Losing \/ Hanging
    BY <1>1, ReceiverConn DEF Hanging
  <1>9. ASSUME Drop \/ Outage  PROVE Losing
    <2>1. PICK cs : Break(cs)
      BY <1>9 DEF Drop, Outage
    <2> QED
      BY <1>0, <2>1, BreakShrinks DEF Losing
  <1> QED
    BY <1>1, <1>2, <1>3, <1>4, <1>5, <1>6, <1>7, <1>8, <1>9, ConnTouched

LEMMA ConnTypeStep ==
    ASSUME Typed, [Next]_vars
    PROVE  conn' \in [Conns -> Connections]
  <1>1. Losing \/ Writing => conn' \in [Conns -> Connections]
    BY DEF Losing, AllShrink, Writing, Takes
  <1>2. Hearing \/ Answering \/ Taking \/ Hanging => conn' \in [Conns -> Connections]
    BY DEF Hearing, Hears, Answering, Answered, Taking, Reads, Hanging, Hangs
  <1> QED
    BY <1>1, <1>2, ConnStep
-----------------------------------------------------------------------------
(* Every step keeps the types.                                             *)

\* An acknowledgement that is heard says a number; what is forgotten is a head.
LEMMA HeardStep ==
    ASSUME Typed, Welcomed \/ \E c \in Conns : ReadAck(c)
    PROVE  \E c \in Conns : /\ conn[c].back # <<>> /\ Head(conn[c].back) \in Answers
                            /\ Acknowledge(Head(conn[c].back).upto)
  <1>1. CASE Welcomed
    <2>1. made \in Conns /\ Hears(made)
      BY <1>1, SenderConn
    <2> QED
      BY <1>1, <2>1 DEF Welcomed, Hears
  <1>2. CASE \E c \in Conns : ReadAck(c)
    <2>1. PICK c \in Conns : ReadAck(c)
      BY <1>2
    <2>2. Hears(c)
      BY <2>1, SenderConn
    <2> QED
      BY <2>1, <2>2 DEF ReadAck, Hears
  <1> QED
    BY <1>1, <1>2

LEMMA AckedStep ==
    ASSUME Typed, NEW n \in Nat, Acknowledge(n)
    PROVE  /\ acked' \in Nat /\ credits' \in Int /\ unacked' \in Seq(Frames)
           /\ \E d \in Nat : acked' = acked + d /\ credits' = credits + d
           /\ \/ acked' = acked /\ unacked' = unacked
              \/ acked' = n /\ n > acked /\ Forget(n)
  <1>0. acked \in Nat /\ credits \in Int /\ unacked \in Seq(Frames)
    BY DEF Typed, ProducerTypes, SenderTypes
  <1>1. CASE n <= acked
    <2>1. acked' = acked /\ credits' = credits /\ unacked' = unacked
      BY <1>1 DEF Acknowledge
    <2>2. acked' = acked + 0 /\ credits' = credits + 0 /\ 0 \in Nat
      BY <1>0, <2>1
    <2> QED
      BY <1>0, <2>1, <2>2
  <1>2. CASE ~(n <= acked)
    <2>1. acked' = n /\ credits' = credits + (n - acked) /\ Forget(n)
      BY <1>2 DEF Acknowledge
    <2>2. unacked' \in Seq(Frames)
      <3>1. PICK k \in 0..Len(unacked) : unacked' = SubSeq(unacked, k + 1, Len(unacked))
        BY <2>1 DEF Forget
      <3>2. k \in Nat /\ Len(unacked) \in Nat
        BY <1>0
      <3> QED
        BY ONLY <1>0, <3>1, <3>2
    <2>3. /\ n > acked /\ acked' \in Nat /\ credits' \in Int
          /\ n - acked \in Nat /\ acked' = acked + (n - acked) /\ credits' = credits + (n - acked)
      BY <1>0, <1>2, <2>1
    <2> QED
      BY ONLY <1>0, <2>1, <2>2, <2>3
  <1> QED
    BY <1>1, <1>2

LEMMA ProducerTypeStep ==
    ASSUME Typed, [Next]_vars
    PROVE  ProducerTypes'
  <1> USE DEF Typed, ProducerTypes
  <1>1. CASE Produce
    <2>1. PICK k \in 1..BatchSize :
             /\ produced' = produced + k /\ credits' = credits - k
             /\ inq' = Append(inq, [i \in 1..k |-> produced + i])
      BY <1>1 DEF Produce
    <2>2. k \in Nat /\ [i \in 1..k |-> produced + i] \in Seq(Nat)
      BY Sizes
    <2> QED
      BY <2>1, <2>2
  <1>2. CASE CloseOutput
    BY <1>2 DEF CloseOutput, EOS
  <1>3. CASE Pop
    <2>1. inq' \in Seq(Seq(Nat))
      BY <1>3 DEF Pop
    <2> QED
      BY <1>3, <2>1 DEF Pop, producerVars
  <1>4. CASE Welcomed \/ \E c \in Conns : ReadAck(c)
    <2>1. credits' \in Int
      <3>1. PICK c \in Conns : Head(conn[c].back) \in Answers /\ Acknowledge(Head(conn[c].back).upto)
        BY <1>4, HeardStep
      <3>2. Head(conn[c].back).upto \in Nat
        BY <3>1 DEF Answers
      <3> QED
        BY <3>1, <3>2, AckedStep
    <2>2. UNCHANGED <<produced, inq>>
      BY <1>4 DEF Welcomed, ReadAck, producerVars
    <2> QED
      BY <2>1, <2>2
  <1>5. CASE UNCHANGED <<produced, credits, inq>>
    BY <1>5
  <1> QED
    BY <1>1, <1>2, <1>3, <1>4, <1>5, ProducerTouched

\* What the sender holds after MakeFrame.
LEMMA MakeFrameStep ==
    ASSUME Typed, MakeFrame
    PROVE  \E k \in 0..Len(hand) :
              /\ frame' = Data(sent, Cut(hand, k)) /\ frame' \in Frames
              /\ unacked' = Append(unacked, frame')
              /\ sent' = sent + k /\ hand' = SubSeq(hand, k + 1, Len(hand))
              /\ hand' \in Seq(Nat) /\ (hand # <<>> => k > 0)
  <1>0. hand \in Seq(Nat) /\ sent \in Nat /\ acked \in Nat
    BY DEF Typed, ControlTypes, SenderTypes
  <1> DEFINE n == Capacity - Outstanding
             k == IF n < Len(hand) THEN n ELSE Len(hand)
  <1>1. /\ frame' = Data(sent, Cut(hand, k)) /\ unacked' = Append(unacked, frame')
        /\ sent' = sent + k /\ hand' = SubSeq(hand, k + 1, Len(hand)) /\ Outstanding < Capacity
    BY DEF MakeFrame
  <1>2. Len(hand) \in Nat /\ n \in Int /\ n > 0 /\ (hand # <<>> => Len(hand) > 0)
    BY <1>0, <1>1, Sizes DEF Outstanding
  <1> HIDE DEF n
  <1>3. k \in 0..Len(hand) /\ (hand # <<>> => k > 0)
    BY <1>2
  <1> HIDE DEF k
  <1>4. Cut(hand, k) \in Seq(Nat) /\ SubSeq(hand, k + 1, Len(hand)) \in Seq(Nat)
    <2>1. k \in Nat /\ k <= Len(hand)
      BY <1>2, <1>3
    <2>2. Cut(hand, k) \in Seq(Nat)
      BY <1>0, <2>1, CutType
    <2>3. SubSeq(hand, k + 1, Len(hand)) \in Seq(Nat)
      BY ONLY <1>0, <1>2, <2>1
    <2> QED
      BY <2>2, <2>3
  <1>5. frame' \in Frames
    BY <1>0, <1>1, <1>4, FrameTypes
  <1> QED
    BY <1>1, <1>3, <1>4, <1>5

LEMMA ControlTypeStep ==
    ASSUME Typed, [Next]_vars
    PROVE  ControlTypes'
  <1> USE DEF Typed, ControlTypes, SenderTypes
  <1>1. spc' \in States /\ then' \in {"pop", "room", "write", "drain"}
    BY SpcStep
  <1>2. hand' \in Seq(Nat)
    <2>1. CASE MakeFrame
      BY <2>1, MakeFrameStep
    <2>2. CASE Pop
      <3>1. hand' = hand \/ (hand' = hand \o Head(inq) /\ inq # <<>>)
        BY <2>2 DEF Pop
      <3>2. inq \in Seq(Seq(Nat)) /\ hand \in Seq(Nat)
        BY DEF ProducerTypes
      <3>3. CASE inq # <<>>
        <4>1. Head(inq) \in Seq(Nat)
          BY ONLY <3>2, <3>3
        <4>2. hand \o Head(inq) \in Seq(Nat)
          BY ONLY <3>2, <4>1, ConcatProperties
        <4> QED
          BY ONLY <3>1, <3>2, <4>2
      <3> QED
        BY ONLY <3>1, <3>2, <3>3
    <2>3. CASE Produce \/ CloseOutput \/ Finish \/ UNCHANGED <<produced, closed, inq, hand, last, sent, ended>>
      <3>1. hand' = hand
        BY ONLY <2>3 DEF Produce, CloseOutput, Finish, controlVars
      <3> QED
        BY ONLY <3>1, ControlTypes DEF ControlTypes
    <2> QED
      BY <2>1, <2>2, <2>3, StreamTouched
  <1>3. frame' \in Frames /\ resend' \in Seq(Frames)
    <2>1. CASE MakeFrame
      BY <2>1, MakeFrameStep DEF MakeFrame
    <2>2. CASE Finish
      BY <2>2, FrameTypes DEF Finish
    <2>3. CASE Snapshot
      <3>1. FramesAgain \in Seq(Frames)
        BY FrameTypes DEF FramesAgain
      <3> QED
        BY <2>3, <3>1 DEF Snapshot
    <2>4. CASE Resend
      BY <2>4 DEF Resend
    <2>5. CASE UNCHANGED <<frame, resend>>
      BY <2>5
    <2> QED
      BY <2>1, <2>2, <2>3, <2>4, <2>5, FramesTouched
  <1> QED
    BY <1>1, <1>2, <1>3
LEMMA SenderTypeStep ==
    ASSUME Typed, [Next]_vars
    PROVE  SenderTypes'
  <1>0. /\ sent \in Nat /\ acked \in Nat /\ unacked \in Seq(Frames)
        /\ sock \in 0..made /\ readers \subseteq Conns /\ made \in 0..MaxConns /\ Places
    BY DEF Typed, SenderTypes, WireTypes
  <1>1. sent' \in Nat /\ acked' \in Nat /\ unacked' \in Seq(Frames)
    <2>1. CASE MakeFrame
      <3>1. PICK k \in 0..Len(hand) : frame' \in Frames /\ unacked' = Append(unacked, frame') /\ sent' = sent + k
        BY <2>1, MakeFrameStep
      <3>2. hand \in Seq(Nat) /\ acked' = acked
        BY <2>1 DEF Typed, ControlTypes, MakeFrame
      <3> QED
        BY <1>0, <3>1, <3>2
    <2>2. CASE Welcomed \/ \E c \in Conns : ReadAck(c)
      <3>1. PICK c \in Conns : Head(conn[c].back) \in Answers /\ Acknowledge(Head(conn[c].back).upto)
        BY <2>2, HeardStep
      <3>2. Head(conn[c].back).upto \in Nat
        BY <3>1 DEF Answers
      <3>3. sent' = sent
        BY <2>2 DEF Welcomed, ReadAck
      <3> QED
        BY <1>0, <3>1, <3>2, <3>3, AckedStep
    <2>3. CASE UNCHANGED <<sent, acked, unacked>>
      BY <1>0, <2>3
    <2> QED
      BY <2>1, <2>2, <2>3, AckedTouched
  <1>2. made' \in Nat /\ made <= made' /\ made \in Nat /\ MaxConns \in Nat
    BY <1>0, MadeStep, Sizes
  <1>3. sock' \in 0..made'
    <2>1. sock' \in {None, sock, made}
      BY <1>0, SockStep
    <2> QED
      BY <1>0, <1>2, <2>1 DEF None
  <1>4. readers' \subseteq Conns
    <2>1. readers' \subseteq readers \/ (spc = "welcome" /\ readers' = readers \cup {made})
      BY <1>0, SockStep
    <2>2. spc = "welcome" => made \in Conns
      BY <1>0, <1>2 DEF Places, Conns
    <2> QED
      BY <1>0, <2>1, <2>2
  <1> QED
    BY <1>1, <1>3, <1>4 DEF SenderTypes

LEMMA WireTypeStep ==
    ASSUME Typed, [Next]_vars
    PROVE  WireTypes'
  <1>0. made \in 0..MaxConns /\ inbound \in Seq(1..made) /\ MaxConns \in Nat /\ made \in Nat
    BY Sizes DEF Typed, WireTypes
  <1>1. made' \in 0..MaxConns
    BY <1>0, MadeStep
  <1>2. inbound' \in Seq(1..made')
    <2>1. CASE Connect \/ CallBack
      <3>1. made' = made + 1 /\ inbound' = Append(inbound, made + 1)
        BY <2>1 DEF Connect, CallBack, Dials
      <3>2. \A i \in 1..Len(inbound') : inbound'[i] \in 1..made'
        BY <1>0, <3>1
      <3>3. inbound' \in Seq(Nat)
        BY <1>0, <3>1
      <3>4. inbound' = [i \in 1..Len(inbound') |-> inbound'[i]] /\ Len(inbound') \in Nat
        BY <3>3
      <3>5. inbound' \in [1..Len(inbound') -> 1..made']
        BY <3>2, <3>4
      <3> QED
        BY ONLY <3>4, <3>5, SeqDef
    <2>2. CASE Accept
      <3>1. inbound' = Tail(inbound) /\ made' = made
        BY <2>2 DEF Accept
      <3>2. Tail(inbound) \in Seq(1..made)
        BY <2>2, ReceiverConn
      <3> QED
        BY <3>1, <3>2
    <2>3. CASE UNCHANGED <<made, inbound>>
      BY <1>0, <2>3
    <2> QED
      BY <2>1, <2>2, <2>3, DialTouched
  <1> QED
    BY <1>1, <1>2, ConnTypeStep DEF WireTypes

LEMMA LargerType == ASSUME NEW a \in Nat, NEW b \in Nat
                    PROVE  /\ Larger(a, b) \in Nat /\ a <= Larger(a, b) /\ b <= Larger(a, b)
                           /\ Larger(a, b) \in {a, b}
  BY DEF Larger

\* What is left to deliver of a frame.
LEMMA ReceiveDataStep ==
    ASSUME Typed, ReceiveData
    PROVE  LET f == Head(conn[rsock].fwd) IN
           /\ f \in Frames /\ f.kind = "DATA" /\ f.first <= expected
           /\ rsock \in Conns /\ conn[rsock].fwd # <<>>
           /\ upto' = f.first + Len(f.items) /\ upto' \in Nat
           /\ todo' = SubSeq(f.items, expected - f.first + 1, Len(f.items)) /\ todo' \in Seq(Nat)
  <1> DEFINE f == Head(conn[rsock].fwd)
  <1>1. rsock \in Conns /\ conn[rsock].fwd # <<>> /\ f \in Frames
    BY ReceiverConn DEF Reads
  <1>2. f.kind = "DATA" /\ f.first <= expected /\ upto' = f.first + Len(f.items)
        /\ todo' = SubSeq(f.items, expected - f.first + 1, Len(f.items))
    BY DEF ReceiveData, Incoming, First, Skip
  <1> HIDE DEF f
  <1>3. f.first \in Nat /\ f.items \in Seq(Nat) /\ expected \in Nat
    BY <1>1 DEF Frames, Typed, ReceiverTypes
  <1>4. upto' \in Nat
    BY <1>2, <1>3
  <1>5. expected - f.first + 1 \in Nat \ {0} /\ Len(f.items) \in Nat
    BY <1>2, <1>3
  <1>6. todo' \in Seq(Nat)
    <2>1. PICK s, a, b : s = f.items /\ a = expected - f.first + 1 /\ b = Len(s)
      OBVIOUS
    <2>2. s \in Seq(Nat) /\ a \in Nat \ {0} /\ b \in Nat /\ b = Len(s)
      BY <1>3, <1>5, <2>1
    <2>3. SubSeq(s, a, b) \in Seq(Nat)
      BY ONLY <2>2
    <2> QED
      BY <1>2, <2>1, <2>3
  <1> QED
    BY <1>1, <1>2, <1>4, <1>6 DEF f

LEMMA ReceiverTypeStep ==
    ASSUME Typed, [Next]_vars
    PROVE  ReceiverTypes'
  <1>0. /\ rpc \in Stages /\ rsock \in 0..made /\ todo \in Seq(Nat) /\ upto \in Nat
        /\ expected \in Nat /\ passed \in Seq(Nat) /\ made \in Nat /\ inbound \in Seq(1..made)
    BY Sizes DEF Typed, ReceiverTypes, WireTypes
  <1>1. rpc' \in Stages
    BY <1>0, RpcStep
  <1>2. rsock' \in 0..made'
    <2>1. rsock' \in {None, rsock} \/ (inbound # <<>> /\ rsock' = Head(inbound))
      BY <1>0, RpcStep
    <2>2. made' \in Nat /\ made <= made'
      BY <1>0, MadeStep
    <2>3. inbound # <<>> => Head(inbound) \in 1..made
      BY <1>0, TailType
    <2> QED
      BY <1>0, <2>1, <2>2, <2>3 DEF None
  <1>3. todo' \in Seq(Nat) /\ upto' \in Nat /\ expected' \in Nat /\ passed' \in Seq(Nat)
    <2>1. CASE ReceiveData
      BY <1>0, <2>1, ReceiveDataStep DEF ReceiveData
    <2>2. CASE PassOn
      BY <1>0, <2>2 DEF PassOn
    <2>3. CASE AckFrame
      BY <1>0, <2>3, LargerType DEF AckFrame
    <2>4. CASE UNCHANGED <<todo, upto, expected, passed>>
      BY <1>0, <2>4
    <2> QED
      BY <2>1, <2>2, <2>3, <2>4, DeliveryTouched
  <1>4. delivered' \in Nat
    <2>1. delivered \in Nat /\ Len(passed) \in Nat
      BY <1>0 DEF Typed, ReceiverTypes
    <2> QED
      BY <2>1, FlushTouched
  <1> QED
    BY <1>1, <1>2, <1>3, <1>4 DEF ReceiverTypes

LEMMA TypedStep == ASSUME Typed, [Next]_vars  PROVE Typed'
  <1>1. Places'
    <2>1. /\ Places /\ made \in Nat /\ spc \in States
          /\ then \in {"pop", "room", "write", "drain"} /\ inbound \in Seq(1..made)
      BY Sizes DEF Typed, WireTypes, ControlTypes
    <2>2. inbound # <<>> => Head(inbound) # None
      BY <2>1 DEF None
    <2> QED
      BY <2>1, <2>2, SenderPlaceStep, ReceiverPlaceStep DEF Places
  <1>2. VerdictTypes'
    BY VerdictStep DEF Typed
  <1> QED
    BY <1>1, <1>2, ProducerTypeStep, ControlTypeStep, SenderTypeStep, WireTypeStep, ReceiverTypeStep DEF Typed
-----------------------------------------------------------------------------
(* The credits.                                                            *)

\* What each step of the producer and of Pop does to the inbox.
LEMMA ProduceStep ==
    ASSUME Typed, Produce
    PROVE  \E k \in 1..BatchSize :
              LET b == [i \in 1..k |-> produced + i] IN
              /\ k \in Nat /\ b \in Seq(Nat) /\ Len(b) = k
              /\ k <= credits /\ produced' = produced + k /\ credits' = credits - k
              /\ inq' = Append(inq, b) /\ inq \in Seq(Seq(Nat))
              /\ ~closed /\ UNCHANGED <<closed, hand, last, sent, acked, ended>>
  <1>1. PICK k \in 1..BatchSize :
           /\ k <= credits /\ produced' = produced + k /\ credits' = credits - k
           /\ inq' = Append(inq, [i \in 1..k |-> produced + i])
    BY DEF Produce
  <1>2. k \in Nat /\ produced \in Nat /\ inq \in Seq(Seq(Nat))
    BY Sizes DEF Typed, ProducerTypes
  <1>3. [i \in 1..k |-> produced + i] \in Seq(Nat) /\ Len([i \in 1..k |-> produced + i]) = k
    BY <1>2
  <1>4. ~closed /\ UNCHANGED <<closed, hand, last, sent, acked, ended>>
    BY DEF Produce, controlVars, senderVars
  <1> QED
    BY <1>1, <1>2, <1>3, <1>4

LEMMA CreditsStep ==
    ASSUME Typed, CreditsAcrossWire, [Next]_vars
    PROVE  CreditsAcrossWire'
  <1>0. /\ credits \in Int /\ inq \in Seq(Seq(Nat)) /\ hand \in Seq(Nat)
        /\ sent \in Nat /\ acked \in Nat /\ Len(hand) \in Nat /\ Capacity \in Nat
        /\ InInbox \in Nat /\ credits >= 0
        /\ credits + InInbox + Len(hand) + (sent - acked) = Capacity
    BY Sizes, SizeType DEF Typed, ProducerTypes, ControlTypes, SenderTypes, CreditsAcrossWire,
       InInbox, Outstanding
  <1>n. /\ credits \in Int /\ Len(hand) \in Nat /\ sent \in Nat /\ acked \in Nat /\ InInbox \in Nat
        /\ Capacity \in Nat /\ credits >= 0
        /\ credits + InInbox + Len(hand) + (sent - acked) = Capacity
    BY <1>0
  <1> DEFINE Good == credits' >= 0 /\ credits' + InInbox' + Len(hand') + (sent' - acked') = Capacity
  <1>1. ASSUME Produce  PROVE Good
    <2>1. PICK k \in 1..BatchSize :
             LET b == [i \in 1..k |-> produced + i] IN
             /\ k \in Nat /\ b \in Seq(Nat) /\ Len(b) = k /\ k <= credits /\ credits' = credits - k
             /\ inq' = Append(inq, b) /\ UNCHANGED <<hand, sent, acked>>
      BY <1>1, ProduceStep
    <2>2. InInbox' = InInbox + k
      BY <1>0, <2>1, SizeAppend DEF InInbox
    <2>3. /\ k \in Nat /\ k <= credits /\ credits' = credits - k
          /\ Len(hand') = Len(hand) /\ sent' = sent /\ acked' = acked
      BY <2>1
    <2> QED
      BY ONLY <1>n, <2>2, <2>3
  <1>2. ASSUME CloseOutput  PROVE Good
    <2>1. /\ credits > 0 /\ credits' = credits - 1 /\ inq' = Append(inq, <<EOS>>)
          /\ UNCHANGED <<hand, sent, acked>>
      BY <1>2 DEF CloseOutput, controlVars, senderVars
    <2>2. <<EOS>> \in Seq(Nat) /\ Len(<<EOS>>) = 1
      BY DEF EOS
    <2>3. InInbox' = InInbox + 1
      BY <1>0, <2>1, <2>2, SizeAppend DEF InInbox
    <2>4. credits > 0 /\ credits' = credits - 1 /\ Len(hand') = Len(hand) /\ sent' = sent /\ acked' = acked
      BY <2>1
    <2> QED
      BY ONLY <1>n, <2>3, <2>4
  <1>3. ASSUME Pop  PROVE Good
    <2>1. inq # <<>> /\ inq' = Tail(inq) /\ UNCHANGED <<sent, acked>>
      BY <1>3 DEF Pop, senderVars
    <2>2. Head(inq) \in Seq(Nat)
      BY <1>0, <2>1
    <2>3. PICK n \in Nat : n = Len(Head(inq)) /\ InInbox' = InInbox - n
      <3>1. PICK n \in Nat : n = Len(Head(inq)) /\ Size(Tail(inq)) = Size(inq) - n
        BY <1>0, <2>1, SizeTail
      <3>2. InInbox' = Size(Tail(inq))
        BY <2>1 DEF InInbox
      <3> QED
        BY <3>1, <3>2 DEF InInbox
    <2>4. CASE Head(inq) = <<EOS>>
      <3>1. credits' = credits + 1 /\ hand' = hand /\ Len(Head(inq)) = 1
        BY <1>3, <2>4 DEF Pop
      <3>2. Len(hand') = Len(hand) /\ sent' = sent /\ acked' = acked /\ n = 1
        BY <2>1, <2>3, <3>1
      <3>3. InInbox' = InInbox - 1
        BY <2>3, <3>2
      <3> QED
        BY ONLY <1>n, <3>1, <3>2, <3>3
    <2>5. CASE Head(inq) # <<EOS>>
      <3>1. credits' = credits /\ hand' = hand \o Head(inq)
        BY <1>3, <2>5 DEF Pop
      <3>2. Len(hand') = Len(hand) + n
        BY <1>0, <2>2, <2>3, <3>1
      <3>3. sent' = sent /\ acked' = acked /\ credits' = credits
        BY <2>1, <3>1
      <3>4. n \in Nat /\ InInbox' = InInbox - n
        BY <2>3
      <3> QED
        BY ONLY <1>n, <3>2, <3>3, <3>4
    <2> QED
      BY <2>4, <2>5
  <1>4. ASSUME MakeFrame  PROVE Good
    <2>1. PICK k \in 0..Len(hand) : sent' = sent + k /\ hand' = SubSeq(hand, k + 1, Len(hand))
      BY <1>4, MakeFrameStep
    <2>2. UNCHANGED <<credits, inq, acked>>
      BY <1>4 DEF MakeFrame, inboxVars
    <2>3. Len(hand') = Len(hand) - k
      BY <1>0, <2>1
    <2>4. InInbox' = InInbox
      BY <2>2 DEF InInbox
    <2>5. k \in Int /\ credits' = credits /\ acked' = acked /\ sent' = sent + k
      BY <1>0, <2>1, <2>2
    <2> QED
      BY ONLY <1>n, <2>3, <2>4, <2>5
  <1>5. ASSUME Welcomed \/ \E c \in Conns : ReadAck(c)  PROVE Good
    <2>1. UNCHANGED <<inq, hand, sent>>
      BY <1>5 DEF Welcomed, ReadAck, controlVars
    <2>2. PICK d \in Nat : acked' = acked + d /\ credits' = credits + d
      <3>1. PICK c \in Conns : Head(conn[c].back) \in Answers /\ Acknowledge(Head(conn[c].back).upto)
        BY <1>5, HeardStep
      <3>2. Head(conn[c].back).upto \in Nat
        BY <3>1 DEF Answers
      <3> QED
        BY <3>1, <3>2, AckedStep
    <2>3. InInbox' = InInbox
      BY <2>1 DEF InInbox
    <2>4. Len(hand') = Len(hand) /\ sent' = sent
      BY <2>1
    <2> QED
      BY ONLY <1>n, <2>2, <2>3, <2>4
  <1>6. ASSUME UNCHANGED <<produced, credits, inq>> /\ UNCHANGED <<sent, acked, hand>>  PROVE Good
    <2>1. InInbox' = InInbox
      BY <1>6 DEF InInbox
    <2>2. Len(hand') = Len(hand) /\ sent' = sent /\ acked' = acked /\ credits' = credits
      BY <1>6
    <2> QED
      BY ONLY <1>n, <2>1, <2>2
  <1> HIDE DEF Good
  <1>7. Good
    <2>1. \/ Produce \/ CloseOutput \/ Pop \/ MakeFrame \/ Welcomed \/ (\E c \in Conns : ReadAck(c))
          \/ UNCHANGED <<produced, credits, inq>> /\ UNCHANGED <<sent, acked, hand>>
      BY ProducerTouched, AckedTouched, StreamTouched DEF Finish
    <2> QED
      BY <2>1, <1>1, <1>2, <1>3, <1>4, <1>5, <1>6
  <1> QED
    BY <1>7 DEF Good, CreditsAcrossWire, Outstanding

LEMMA CreditsInit == ASSUME Init  PROVE CreditsAcrossWire
  <1>1. credits = Capacity /\ inq = <<>> /\ hand = <<>> /\ sent = 0 /\ acked = 0 /\ Len(<<>>) = 0
    BY DEF Init
  <1> QED
    BY <1>1, SizeEmpty, Sizes DEF CreditsAcrossWire, Outstanding, InInbox

\* Credits survive the wire (_acknowledge, Inbox): whatever drops, is sent again or
\* is acknowledged twice, the producer's credits are never negative and are the
\* capacity less what is in the inbox, in hand, or out and not acknowledged.
THEOREM CreditsKept == Spec => []CreditsAcrossWire
  <1>1. Init => Typed /\ CreditsAcrossWire
    BY InitTyped, CreditsInit
  <1>2. Typed /\ CreditsAcrossWire /\ [Next]_vars => Typed' /\ CreditsAcrossWire'
    BY TypedStep, CreditsStep
  <1> QED
    BY <1>1, <1>2, PTL DEF Spec
-----------------------------------------------------------------------------
(* The stream of items on the producer's side.                             *)

\* EOS waits in the inbox; what waits before it.
Queued == closed /\ ~last
Batches == IF Queued THEN Len(inq) - 1 ELSE Len(inq)
Run(b) == Len(b) > 0 /\ b[1] > 0 /\ \A i \in 1..Len(b) : b[i] = b[1] + i - 1

\* The items go on where those sent end: first those in hand, then the inbox batch
\* by batch, then EOS.
Closing ==
    /\ Queued => inq # <<>> /\ inq[Len(inq)] = <<EOS>>
    /\ last => closed /\ inq = <<>>
    /\ ended => last /\ hand = <<>>
Following ==
    /\ \A k \in 1..Batches : Run(inq[k])
    /\ \A k \in 1..(Batches - 1) : inq[k + 1][1] = inq[k][1] + Len(inq[k])
Meeting ==
    /\ Batches > 0 => /\ inq[1][1] = sent + Len(hand) + 1
                      /\ inq[Batches][1] + Len(inq[Batches]) = produced + 1
    /\ Batches = 0 => produced = sent + Len(hand)
InHand == \A i \in 1..Len(hand) : hand[i] = sent + i
Inbox == Closing /\ Following /\ Meeting /\ InHand

\* Every item produced and not sent is in hand or waits in a batch.
Count == InInbox = produced - sent - Len(hand) + (IF Queued THEN 1 ELSE 0)

LEMMA InboxTypes ==
    ASSUME Typed
    PROVE  /\ produced \in Nat /\ inq \in Seq(Seq(Nat)) /\ Len(inq) \in Nat
           /\ hand \in Seq(Nat) /\ Len(hand) \in Nat /\ sent \in Nat
           /\ \A k \in 1..Len(inq) : inq[k] \in Seq(Nat) /\ Len(inq[k]) \in Nat
  BY DEF Typed, ProducerTypes, ControlTypes, SenderTypes

LEMMA InboxProduce ==
    ASSUME Typed, Inbox, Produce
    PROVE  Inbox'
  <1>0. /\ produced \in Nat /\ inq \in Seq(Seq(Nat)) /\ Len(inq) \in Nat
        /\ hand \in Seq(Nat) /\ Len(hand) \in Nat /\ sent \in Nat
        /\ \A k \in 1..Len(inq) : inq[k] \in Seq(Nat) /\ Len(inq[k]) \in Nat
    BY InboxTypes
  <1>1. PICK n \in 1..BatchSize :
           LET b == [i \in 1..n |-> produced + i] IN
           /\ n \in Nat /\ b \in Seq(Nat) /\ Len(b) = n /\ produced' = produced + n
           /\ inq' = Append(inq, b) /\ ~closed /\ UNCHANGED <<closed, hand, last, sent, ended>>
    BY ProduceStep
  <1> DEFINE b == [i \in 1..n |-> produced + i]
             m == Len(inq)
  <1>2. /\ n \in Nat /\ n > 0 /\ b \in Seq(Nat) /\ Len(b) = n /\ b[1] = produced + 1
        /\ \A i \in 1..n : b[i] = produced + i
    BY <1>1, Sizes
  <1>3. inq' = Append(inq, b) /\ produced' = produced + n
    BY <1>1
  <1> HIDE DEF b
  <1>4. /\ Len(inq') = m + 1 /\ inq'[m + 1] = b
        /\ \A k \in 1..m : inq'[k] = inq[k]
    BY <1>0, <1>2, <1>3
  <1>5. ~Queued /\ ~Queued' /\ ~last /\ ~ended /\ Batches = m /\ Batches' = m + 1
    BY <1>1, <1>4 DEF Queued, Batches, Inbox, Closing
  <1>6. UNCHANGED <<closed, hand, last, sent, ended>>
    BY <1>1
  <1>7. Closing'
    BY <1>1, <1>5 DEF Closing
  <1>8. Following'
    <2>1. \A k \in 1..(m + 1) : Run(inq'[k])
      <3>1. Run(b)
        BY <1>0, <1>2 DEF Run
      <3>2. \A k \in 1..m : Run(inq'[k])
        BY <1>4, <1>5 DEF Inbox, Following
      <3>3. \A k \in 1..(m + 1) : k = m + 1 \/ k \in 1..m
        BY <1>0
      <3>4. Run(inq'[m + 1])
        BY <1>4, <3>1
      <3> QED
        BY <3>2, <3>3, <3>4
    <2>2. ASSUME NEW k \in 1..m  PROVE inq'[k + 1][1] = inq'[k][1] + Len(inq'[k])
      <3>1. CASE k = m
        <4>1. inq[m][1] + Len(inq[m]) = produced + 1
          BY <1>0, <1>5, <3>1 DEF Inbox, Meeting
        <4> QED
          BY <1>0, <1>2, <1>4, <3>1, <4>1
      <3>2. CASE k # m
        <4>1. k \in 1..(m - 1) /\ k \in 1..m /\ k + 1 \in 1..m
          BY <1>0, <3>2
        <4>2. inq[k + 1][1] = inq[k][1] + Len(inq[k])
          BY <1>5, <4>1 DEF Inbox, Following
        <4> QED
          BY <1>4, <4>1, <4>2
      <3> QED
        BY <3>1, <3>2
    <2>3. Batches' - 1 = m
      BY <1>0, <1>5
    <2> QED
      BY <1>5, <2>1, <2>2, <2>3 DEF Following
  <1>9. Meeting'
    <2>1. b[1] + Len(b) = produced' + 1
      BY <1>0, <1>2, <1>3
    <2>2. inq'[1][1] = sent + Len(hand) + 1
      <3>1. CASE m = 0
        BY <1>0, <1>2, <1>4, <1>5, <3>1 DEF Inbox, Meeting
      <3>2. CASE m # 0
        <4>1. 1 \in 1..m /\ m > 0
          BY <1>0, <3>2
        <4> QED
          BY <1>4, <1>5, <4>1 DEF Inbox, Meeting
      <3> QED
        BY <3>1, <3>2
    <2>3. Batches' > 0 /\ Batches' # 0
      BY <1>0, <1>5
    <2> QED
      BY <1>4, <1>5, <1>6, <2>1, <2>2, <2>3 DEF Meeting
  <1>10. InHand'
    BY <1>6 DEF Inbox, InHand
  <1> QED
    BY <1>7, <1>8, <1>9, <1>10 DEF Inbox

LEMMA InboxClose ==
    ASSUME Typed, Inbox, CloseOutput
    PROVE  Inbox' /\ ~Queued /\ Queued'
  <1>0. /\ produced \in Nat /\ inq \in Seq(Seq(Nat)) /\ Len(inq) \in Nat
        /\ hand \in Seq(Nat) /\ Len(hand) \in Nat /\ sent \in Nat
        /\ \A k \in 1..Len(inq) : inq[k] \in Seq(Nat) /\ Len(inq[k]) \in Nat
    BY InboxTypes
  <1> DEFINE m == Len(inq)
  <1>1. /\ ~closed /\ closed' = TRUE /\ inq' = Append(inq, <<EOS>>) /\ <<EOS>> \in Seq(Nat)
        /\ UNCHANGED <<produced, hand, last, sent, ended>>
    BY DEF CloseOutput, controlVars, senderVars, EOS
  <1>2. Len(inq') = m + 1 /\ inq'[m + 1] = <<EOS>> /\ \A k \in 1..m : inq'[k] = inq[k]
    BY <1>0, <1>1
  <1>3. ~last /\ ~ended
    BY <1>1 DEF Inbox, Closing
  <1>4. ~Queued /\ Queued'
    BY <1>1, <1>3 DEF Queued
  <1>5. Batches = m /\ Batches' = m
    BY <1>0, <1>2, <1>4 DEF Batches
  <1>6. Closing'
    <2>1. Len(inq') # 0
      BY ONLY <1>0, <1>2
    <2>2. inq' # <<>>
      BY ONLY <2>1
    <2> QED
      BY <1>1, <1>2, <1>3, <1>4, <2>2 DEF Closing
  <1>7. Following'
    <2>1. \A k \in 1..(m - 1) : k \in 1..m /\ k + 1 \in 1..m
      BY <1>0
    <2> QED
      BY <1>2, <1>5, <2>1 DEF Inbox, Following
  <1>8. Meeting'
    <2>1. m > 0 => 1 \in 1..m /\ m \in 1..m
      BY <1>0
    <2> QED
      BY <1>1, <1>2, <1>5, <2>1 DEF Inbox, Meeting
  <1>9. InHand'
    BY <1>1 DEF Inbox, InHand
  <1> QED
    BY <1>4, <1>6, <1>7, <1>8, <1>9 DEF Inbox

\* What Pop takes: EOS, once nothing waits before it, or the first batch.
LEMMA PopStep ==
    ASSUME Typed, Inbox, Pop
    PROVE  /\ inq # <<>> /\ inq' = Tail(inq) /\ ~last
           /\ UNCHANGED <<produced, closed, sent, ended>>
           /\ \/ /\ Head(inq) = <<EOS>> /\ Queued /\ Len(inq) = 1 /\ Batches = 0
                 /\ last' = TRUE /\ hand' = hand
              \/ /\ Head(inq) # <<EOS>> /\ Batches > 0
                 /\ last' = last /\ hand' = hand \o Head(inq)
  <1>0. /\ inq \in Seq(Seq(Nat)) /\ Len(inq) \in Nat
        /\ \A k \in 1..Len(inq) : inq[k] \in Seq(Nat) /\ Len(inq[k]) \in Nat
    BY InboxTypes
  <1>1. inq # <<>> /\ inq' = Tail(inq) /\ UNCHANGED <<produced, closed, sent, ended>>
    BY DEF Pop, producerVars, senderVars
  <1>2. ~last
    BY <1>1 DEF Inbox, Closing
  <1>3. Len(inq) > 0 /\ Head(inq) = inq[1]
    BY <1>0, <1>1
  <1>4. CASE Head(inq) = <<EOS>>
    <2>1. ~Run(inq[1])
      <3>1. <<EOS>>[1] = 0
        BY DEF EOS
      <3> QED
        BY <1>3, <1>4, <3>1 DEF Run
    <2>2. ~(1 \in 1..Batches)
      BY <2>1 DEF Inbox, Following
    <2>3. Batches \in Int /\ (Batches = Len(inq) \/ (Batches = Len(inq) - 1 /\ Queued))
      BY <1>0 DEF Batches
    <2>4. Batches <= 0
      BY <2>2, <2>3
    <2>5. Batches = 0 /\ Len(inq) = 1 /\ Queued
      <3>1. Batches = Len(inq) - 1 /\ Queued
        BY <1>0, <1>3, <2>3, <2>4
      <3> QED
        BY <1>0, <1>3, <2>4, <3>1
    <2>6. last' = TRUE /\ hand' = hand
      BY <1>4 DEF Pop
    <2> QED
      BY <1>1, <1>2, <1>4, <2>5, <2>6
  <1>5. CASE Head(inq) # <<EOS>>
    <2>1. Queued => Len(inq) > 1
      <3>1. Queued => inq[Len(inq)] = <<EOS>>
        BY DEF Inbox, Closing
      <3> QED
        BY <1>0, <1>3, <1>5, <3>1
    <2>2. Batches > 0
      BY <1>0, <1>3, <2>1 DEF Batches
    <2>3. last' = last /\ hand' = hand \o Head(inq)
      BY <1>5 DEF Pop
    <2> QED
      BY <1>1, <1>2, <1>5, <2>2, <2>3
  <1> QED
    BY <1>4, <1>5

LEMMA InboxPop ==
    ASSUME Typed, Inbox, Pop
    PROVE  Inbox'
  <1>0. /\ produced \in Nat /\ inq \in Seq(Seq(Nat)) /\ Len(inq) \in Nat
        /\ hand \in Seq(Nat) /\ Len(hand) \in Nat /\ sent \in Nat
        /\ \A k \in 1..Len(inq) : inq[k] \in Seq(Nat) /\ Len(inq[k]) \in Nat
    BY InboxTypes
  <1>1. inq # <<>> /\ inq' = Tail(inq) /\ ~last /\ UNCHANGED <<produced, closed, sent, ended>>
    BY PopStep
  <1>2. ~ended
    BY <1>1 DEF Inbox, Closing
  <1> DEFINE m == Len(inq)
  <1>3. m > 0 /\ Head(inq) = inq[1] /\ Len(inq') = m - 1 /\ \A k \in 1..(m - 1) : inq'[k] = inq[k + 1]
    BY <1>0, <1>1
  <1>4. CASE Head(inq) = <<EOS>>
    <2>1. Queued /\ m = 1 /\ Batches = 0 /\ last' = TRUE /\ hand' = hand
      BY <1>4, PopStep
    <2>2. Len(inq') = 0 /\ inq' = <<>>
      <3>1. Len(inq') = 0
        BY <1>3, <2>1
      <3>2. inq' \in Seq(Seq(Nat))
        BY <1>0, <1>1
      <3> QED
        BY <3>1, <3>2
    <2>3. ~Queued' /\ Batches' = 0
      BY <2>1, <2>2 DEF Queued, Batches
    <2>4. closed'
      BY <1>1, <2>1 DEF Queued
    <2>5. Closing'
      BY <1>1, <1>2, <2>2, <2>3, <2>4 DEF Closing
    <2>6. Following'
      BY <2>3 DEF Following
    <2>7. Meeting' /\ InHand'
      BY <1>1, <2>1, <2>3 DEF Inbox, Meeting, InHand
    <2> QED
      BY <2>5, <2>6, <2>7 DEF Inbox
  <1>5. CASE Head(inq) # <<EOS>>
    <2>1. Batches > 0 /\ last' = last /\ hand' = hand \o inq[1]
      BY <1>3, <1>5, PopStep
    <2>2. (Queued' <=> Queued) /\ Batches' = Batches - 1 /\ Batches \in Nat
      BY <1>0, <1>1, <1>3, <2>1 DEF Queued, Batches
    <2>3. /\ Run(inq[1]) /\ inq[1] \in Seq(Nat) /\ Len(inq[1]) \in Nat
          /\ inq[1][1] = sent + Len(hand) + 1
      <3>1. 1 \in 1..Batches /\ 1 \in 1..m
        BY <1>0, <1>3, <2>1, <2>2
      <3> QED
        BY <1>0, <2>1, <3>1 DEF Inbox, Following, Meeting
    <2>4. /\ hand' \in Seq(Nat) /\ Len(hand') = Len(hand) + Len(inq[1])
          /\ \A i \in 1..Len(hand) : hand'[i] = hand[i]
          /\ \A i \in 1..Len(inq[1]) : hand'[Len(hand) + i] = inq[1][i]
      BY <1>0, <2>1, <2>3
    <2>5. Closing'
      <3>1. Queued => m > 1
        BY <1>0, <1>3, <2>1 DEF Batches
      <3>2. Queued => Len(inq') > 0 /\ inq'[Len(inq')] = <<EOS>>
        <4>1. Queued => inq[m] = <<EOS>>
          BY DEF Inbox, Closing
        <4>2. Queued => m - 1 \in 1..(m - 1) /\ (m - 1) + 1 = m
          BY <1>0, <3>1
        <4>3. Len(inq') = m - 1 /\ (Queued => inq'[m - 1] = inq[m])
          BY <1>3, <4>2
        <4>4. Queued => m - 1 > 0
          BY <1>0, <3>1
        <4> QED
          BY <4>1, <4>3, <4>4
      <3>3. Queued => inq' # <<>>
        BY <3>2
      <3> QED
        BY <1>1, <1>2, <2>1, <2>2, <3>2, <3>3 DEF Closing
    <2>6. \A k \in 1..(Batches - 1) : k \in 1..(m - 1) /\ k + 1 \in 1..Batches
      BY <1>0, <2>2 DEF Batches
    <2>7. Following'
      <3>1. \A k \in 1..(Batches - 1) : Run(inq'[k])
        BY <1>3, <2>6 DEF Inbox, Following
      <3>2. ASSUME NEW k \in 1..((Batches - 1) - 1)  PROVE inq'[k + 1][1] = inq'[k][1] + Len(inq'[k])
        <4>1. k \in 1..(Batches - 1) /\ k + 1 \in 1..(Batches - 1) /\ k + 1 \in Int
          BY <2>2
        <4>2. inq'[k] = inq[k + 1] /\ inq'[k + 1] = inq[(k + 1) + 1]
          BY <1>3, <2>6, <4>1
        <4>3. inq[(k + 1) + 1][1] = inq[k + 1][1] + Len(inq[k + 1])
          BY <4>1 DEF Inbox, Following
        <4> QED
          BY <4>2, <4>3
      <3> QED
        BY <2>2, <3>1, <3>2 DEF Following
    <2>8. Meeting'
      <3>1. inq[Batches][1] + Len(inq[Batches]) = produced + 1
        BY <2>1 DEF Inbox, Meeting
      <3>2. CASE Batches = 1
        <4>1. produced = sent + Len(hand')
          <5>1. inq[1][1] + Len(inq[1]) = produced + 1
            BY <3>1, <3>2
          <5>2. (sent + Len(hand) + 1) + Len(inq[1]) = produced + 1
            BY <2>3, <5>1
          <5>3. PICK n \in Nat : n = Len(inq[1])
            BY <2>3
          <5>4. produced = sent + (Len(hand) + n)
            <6>1. (sent + Len(hand) + 1) + n = produced + 1
              BY <5>2, <5>3
            <6>2. produced \in Nat /\ sent \in Nat /\ Len(hand) \in Nat /\ n \in Nat
              BY <1>0
            <6> QED
              BY ONLY <6>1, <6>2
          <5> QED
            BY <2>4, <5>3, <5>4
        <4> QED
          BY <1>1, <2>2, <3>2, <4>1 DEF Meeting
      <3>3. CASE Batches # 1
        <4>1. Batches - 1 > 0 /\ 1 \in 1..(Batches - 1) /\ Batches - 1 \in 1..(Batches - 1) /\ (Batches - 1) + 1 = Batches /\ 1 + 1 = 2
          BY <2>1, <2>2, <3>3
        <4>2. inq'[1] = inq[2] /\ inq'[Batches - 1] = inq[Batches]
          BY <1>3, <2>6, <4>1
        <4>3. inq[2][1] = inq[1][1] + Len(inq[1])
          BY <4>1 DEF Inbox, Following
        <4>4. inq'[1][1] = sent + Len(hand') + 1
          <5>1. inq'[1][1] = (sent + Len(hand) + 1) + Len(inq[1])
            BY <2>3, <4>2, <4>3
          <5>2. PICK n \in Nat : n = Len(inq[1])
            BY <2>3
          <5>3. Len(hand') = Len(hand) + n /\ inq'[1][1] = (sent + Len(hand) + 1) + n
            BY <2>4, <5>1, <5>2
          <5> QED
            BY <1>0, <5>3
        <4>5. inq'[Batches'][1] + Len(inq'[Batches']) = produced' + 1
          BY <1>1, <2>2, <3>1, <4>2
        <4>6. Batches' # 0
          BY <2>2, <4>1
        <4> QED
          BY <1>1, <4>4, <4>5, <4>6 DEF Meeting
      <3> QED
        BY <3>2, <3>3
    <2>9. InHand'
      <3>1. ASSUME NEW i \in 1..Len(hand')  PROVE hand'[i] = sent + i
        <4>1. CASE i \in 1..Len(hand)
          BY <2>4, <4>1 DEF Inbox, InHand
        <4>2. CASE i \notin 1..Len(hand)
          <5>1. i - Len(hand) \in 1..Len(inq[1]) /\ Len(hand) + (i - Len(hand)) = i
            BY <1>0, <2>3, <2>4, <4>2
          <5>2. hand'[i] = inq[1][i - Len(hand)]
            BY <2>4, <5>1
          <5>3. inq[1][i - Len(hand)] = inq[1][1] + (i - Len(hand)) - 1
            BY <2>3, <5>1 DEF Run
          <5> QED
            BY <1>0, <2>3, <5>1, <5>2, <5>3
        <4> QED
          BY <4>1, <4>2
      <3> QED
        BY <1>1, <3>1 DEF InHand
    <2> QED
      BY <2>5, <2>7, <2>8, <2>9 DEF Inbox
  <1> QED
    BY <1>4, <1>5

LEMMA InboxStep ==
    ASSUME Typed, Inbox, spc = "finish" => last /\ hand = <<>>, [Next]_vars
    PROVE  Inbox'
  <1>0. /\ produced \in Nat /\ hand \in Seq(Nat) /\ Len(hand) \in Nat /\ sent \in Nat
    BY InboxTypes
  <1>1. ASSUME MakeFrame  PROVE Inbox'
    <2>1. PICK k \in 0..Len(hand) : sent' = sent + k /\ hand' = SubSeq(hand, k + 1, Len(hand))
      BY <1>1, MakeFrameStep
    <2>2. UNCHANGED <<produced, closed, inq, last, ended>>
      BY <1>1 DEF MakeFrame, producerVars, inboxVars
    <2>3. k \in Nat /\ Len(hand') = Len(hand) - k /\ \A i \in 1..Len(hand') : hand'[i] = hand[k + i]
      BY <1>0, <2>1
    <2>4. (Queued' <=> Queued) /\ Batches' = Batches
      BY <2>2 DEF Queued, Batches
    <2>a. sent' + Len(hand') = sent + Len(hand)
      <3>1. sent' = sent + k /\ Len(hand') = Len(hand) - k /\ k \in Nat /\ sent \in Nat /\ Len(hand) \in Nat
        BY <1>0, <2>1, <2>3
      <3> QED
        BY ONLY <3>1
    <2>5. Closing'
      <3>1. ended => hand' = <<>>
        BY <1>0, <2>1 DEF Inbox, Closing
      <3> QED
        BY <2>2, <2>4, <3>1 DEF Inbox, Closing
    <2>6. Following' /\ Meeting'
      BY <2>2, <2>4, <2>a DEF Inbox, Following, Meeting
    <2>7. InHand'
      <3>1. ASSUME NEW i \in 1..Len(hand')  PROVE hand'[i] = sent' + i
        <4>1. k + i \in 1..Len(hand)
          BY <1>0, <2>1, <2>3
        <4>2. hand'[i] = hand[k + i] /\ hand[k + i] = sent + (k + i)
          BY <2>3, <4>1 DEF Inbox, InHand
        <4> QED
          BY <1>0, <2>1, <2>3, <4>2
      <3> QED
        BY <3>1 DEF InHand
    <2> QED
      BY <2>5, <2>6, <2>7 DEF Inbox
  <1>2. ASSUME Finish  PROVE Inbox'
    <2>1. ended' = TRUE /\ last /\ hand = <<>> /\ UNCHANGED <<produced, closed, inq, hand, last, sent>>
      BY <1>2 DEF Finish, producerVars, inboxVars
    <2>2. (Queued' <=> Queued) /\ Batches' = Batches
      BY <2>1 DEF Queued, Batches
    <2> QED
      BY <2>1, <2>2 DEF Inbox, Closing, Following, Meeting, InHand
  <1>3. ASSUME UNCHANGED <<produced, closed, inq, hand, last, sent, ended>>  PROVE Inbox'
    <2>1. (Queued' <=> Queued) /\ Batches' = Batches
      BY <1>3 DEF Queued, Batches
    <2> QED
      BY <1>3, <2>1 DEF Inbox, Closing, Following, Meeting, InHand
  <1> QED
    BY <1>1, <1>2, <1>3, InboxProduce, InboxClose, InboxPop, StreamTouched

LEMMA CountStep ==
    ASSUME Typed, Inbox, Count, spc = "finish" => last /\ hand = <<>>, [Next]_vars
    PROVE  Count'
  <1>0. /\ produced \in Nat /\ inq \in Seq(Seq(Nat))
        /\ hand \in Seq(Nat) /\ Len(hand) \in Nat /\ sent \in Nat
    BY InboxTypes
  <1>n. /\ produced \in Nat /\ Len(hand) \in Nat /\ sent \in Nat /\ InInbox \in Nat
        /\ InInbox = produced - sent - Len(hand) + (IF Queued THEN 1 ELSE 0)
    BY <1>0, SizeType DEF Count, InInbox
  <1> DEFINE Good == InInbox' = produced' - sent' - Len(hand') + (IF Queued' THEN 1 ELSE 0)
  <1>1. ASSUME Produce  PROVE Good
    <2>1. PICK k \in 1..BatchSize :
             LET b == [i \in 1..k |-> produced + i] IN
             /\ k \in Nat /\ b \in Seq(Nat) /\ Len(b) = k /\ produced' = produced + k
             /\ inq' = Append(inq, b) /\ ~closed /\ UNCHANGED <<closed, hand, sent>>
      BY <1>1, ProduceStep
    <2>2. InInbox' = InInbox + k
      BY <1>0, <2>1, SizeAppend DEF InInbox
    <2>3. /\ k \in Nat /\ produced' = produced + k /\ Len(hand') = Len(hand) /\ sent' = sent
          /\ ~Queued /\ ~Queued'
      BY <2>1 DEF Queued
    <2> QED
      BY ONLY <1>n, <2>2, <2>3
  <1>2. ASSUME CloseOutput  PROVE Good
    <2>1. inq' = Append(inq, <<EOS>>) /\ UNCHANGED <<produced, hand, sent>>
      BY <1>2 DEF CloseOutput, controlVars, senderVars
    <2>2. <<EOS>> \in Seq(Nat) /\ Len(<<EOS>>) = 1
      BY DEF EOS
    <2>3. InInbox' = InInbox + 1
      BY <1>0, <2>1, <2>2, SizeAppend DEF InInbox
    <2>4. ~Queued /\ Queued'
      BY <1>2, InboxClose
    <2>5. produced' = produced /\ Len(hand') = Len(hand) /\ sent' = sent
      BY <2>1
    <2> QED
      BY ONLY <1>n, <2>3, <2>4, <2>5
  <1>3. ASSUME Pop  PROVE Good
    <2>1. inq # <<>> /\ inq' = Tail(inq) /\ ~last /\ UNCHANGED <<produced, closed, sent>>
      BY <1>3, PopStep
    <2>2. PICK n \in Nat : n = Len(Head(inq)) /\ InInbox' = InInbox - n
      <3>1. PICK n \in Nat : n = Len(Head(inq)) /\ Size(Tail(inq)) = Size(inq) - n
        BY <1>0, <2>1, SizeTail
      <3>2. InInbox' = Size(Tail(inq))
        BY <2>1 DEF InInbox
      <3> QED
        BY <3>1, <3>2 DEF InInbox
    <2>3. CASE Head(inq) = <<EOS>>
      <3>1. Queued /\ last' = TRUE /\ hand' = hand
        BY <1>3, <2>3, PopStep
      <3>2. n = 1
        BY <2>2, <2>3
      <3>3. InInbox' = InInbox - 1 /\ Len(hand') = Len(hand) /\ sent' = sent /\ produced' = produced
        BY <2>1, <2>2, <3>1, <3>2
      <3>4. ~Queued'
        BY <3>1 DEF Queued
      <3> QED
        BY ONLY <1>n, <3>1, <3>3, <3>4
    <2>4. CASE Head(inq) # <<EOS>>
      <3>1. last' = last /\ hand' = hand \o Head(inq)
        BY <1>3, <2>4, PopStep
      <3>2. Head(inq) \in Seq(Nat)
        BY <1>0, <2>1
      <3>3. /\ Len(hand') = Len(hand) + n /\ sent' = sent /\ produced' = produced
            /\ n \in Nat /\ InInbox' = InInbox - n
        BY <1>0, <2>1, <2>2, <3>1, <3>2
      <3>4. Queued' <=> Queued
        BY <2>1, <3>1 DEF Queued
      <3> QED
        BY ONLY <1>n, <3>3, <3>4
    <2> QED
      BY <2>3, <2>4
  <1>4. ASSUME MakeFrame  PROVE Good
    <2>1. PICK k \in 0..Len(hand) : sent' = sent + k /\ hand' = SubSeq(hand, k + 1, Len(hand))
      BY <1>4, MakeFrameStep
    <2>2. UNCHANGED <<produced, closed, inq, last>>
      BY <1>4 DEF MakeFrame, producerVars, inboxVars
    <2>3. Len(hand') = Len(hand) - k /\ k \in Int /\ sent' = sent + k
      BY <1>0, <2>1
    <2>4. InInbox' = InInbox /\ (Queued' <=> Queued) /\ produced' = produced
      BY <2>2 DEF InInbox, Queued
    <2> QED
      BY ONLY <1>n, <2>3, <2>4
  <1>5. ASSUME Finish \/ UNCHANGED <<produced, closed, inq, hand, last, sent, ended>>  PROVE Good
    <2>1. UNCHANGED <<produced, closed, inq, hand, last, sent>>
      BY <1>5 DEF Finish, producerVars, inboxVars
    <2>2. /\ InInbox' = InInbox /\ (Queued' <=> Queued) /\ produced' = produced
          /\ Len(hand') = Len(hand) /\ sent' = sent
      BY <2>1 DEF InInbox, Queued
    <2> QED
      BY ONLY <1>n, <2>2
  <1> HIDE DEF Good
  <1>6. Good
    BY <1>1, <1>2, <1>3, <1>4, <1>5, StreamTouched
  <1> QED
    BY <1>6 DEF Good, Count

LEMMA InboxInit == ASSUME Init  PROVE Inbox /\ Count
  <1>1. /\ produced = 0 /\ ~closed /\ inq = <<>> /\ hand = <<>> /\ ~last /\ sent = 0 /\ ~ended
        /\ Len(<<>>) = 0
    BY DEF Init
  <1>2. ~Queued /\ Batches = 0
    BY <1>1 DEF Queued, Batches
  <1>3. Closing /\ InHand
    BY <1>1, <1>2 DEF Closing, InHand
  <1>4. Following /\ Meeting
    BY <1>1, <1>2 DEF Following, Meeting
  <1>5. Count
    BY <1>1, <1>2, SizeEmpty DEF Count, InInbox
  <1> QED
    BY <1>3, <1>4, <1>5 DEF Inbox
-----------------------------------------------------------------------------
(* Connections are accepted in the order they were made, and closed by the  *)
(* receiver only when it lets go of them.                                  *)

LEMMA RclosedStep ==
    ASSUME Typed, [Next]_vars, NEW c \in Conns
    PROVE  conn'[c].rclosed = conn[c].rclosed \/ (Hanging /\ c = rsock /\ conn'[c].rclosed)
  <1>1. CASE Losing
    BY <1>1 DEF Losing, AllShrink, Shrinks
  <1>2. CASE Writing
    <2>1. \A d, f : d \in Conns /\ Takes(d, f) => conn'[c].rclosed = conn[c].rclosed
      BY DEF Takes
    <2> QED
      BY <1>2, <2>1 DEF Writing
  <1>3. CASE Hearing
    BY <1>3 DEF Hearing, Hears
  <1>4. CASE Answering
    <2>1. \A d, r : d \in Conns /\ Answered(d, r) => conn'[c].rclosed = conn[c].rclosed
      BY DEF Answered
    <2> QED
      BY <1>4, <2>1 DEF Answering
  <1>5. CASE Taking
    BY <1>5 DEF Taking, Reads
  <1>6. CASE Hanging
    BY <1>6 DEF Hanging, Hangs
  <1> QED
    BY <1>1, <1>2, <1>3, <1>4, <1>5, <1>6, ConnStep

Accepted == made - Len(inbound)
Queue ==
    /\ \A i \in 1..Len(inbound) : inbound[i] = Accepted + i
    /\ rsock <= Accepted
    /\ rsock # None => ~conn[rsock].rclosed
    /\ \A c \in Conns : c > Accepted => ~conn[c].rclosed

LEMMA QueueStep ==
    ASSUME Typed, Queue, [Next]_vars
    PROVE  Queue'
  <1>0. /\ made \in Nat /\ inbound \in Seq(Nat) /\ Len(inbound) \in Nat /\ rsock \in 0..made
        /\ made' \in Nat /\ rsock' \in 0..made' /\ inbound' \in Seq(Nat)
        /\ 1..made \subseteq Conns /\ 1..made' \subseteq Conns
    <2>1. Typed'
      BY TypedStep
    <2>2. made \in 0..MaxConns /\ inbound \in Seq(1..made) /\ rsock \in 0..made
      BY DEF Typed, WireTypes, ReceiverTypes
    <2>3. made' \in 0..MaxConns /\ inbound' \in Seq(1..made') /\ rsock' \in 0..made'
      BY <2>1 DEF Typed, WireTypes, ReceiverTypes
    <2>4. Seq(1..made) \subseteq Seq(Nat) /\ Seq(1..made') \subseteq Seq(Nat)
      BY <2>2, <2>3, Sizes, SeqMonotonic
    <2> QED
      BY <2>2, <2>3, <2>4, Sizes DEF Conns
  <1>1. Hanging => rsock' = None
    BY DEF Hanging, CloseSocket, ReceiveError, QuitReceiver
  <1>2. Accept \/ rsock' \in {None, rsock}
    BY RsockStep
  <1>3. /\ Accepted \in Int /\ Accepted <= Accepted'
        /\ \A i \in 1..Len(inbound') : inbound'[i] = Accepted' + i
        /\ Accept => /\ rsock' = Accepted + 1 /\ Accepted' = Accepted + 1 /\ rsock = None
                     /\ rsock' \in Conns
        /\ ~Accept => Accepted' = Accepted
    <2>1. CASE Connect \/ CallBack
      <3>1. made' = made + 1 /\ inbound' = Append(inbound, made + 1)
        BY <2>1 DEF Connect, CallBack, Dials
      <3>2. /\ Len(inbound') = Len(inbound) + 1 /\ inbound'[Len(inbound) + 1] = made + 1
            /\ \A i \in 1..Len(inbound) : inbound'[i] = inbound[i]
        BY <1>0, <3>1
      <3>3. Accepted \in Int /\ Accepted' = Accepted /\ made + 1 = Accepted + (Len(inbound) + 1)
        BY <1>0, <3>1, <3>2 DEF Accepted
      <3>4. ~Accept
        BY <2>1 DEF Accept, Connect, CallBack, Dials, receiverVars
      <3>5. \A i \in 1..Len(inbound') : i \in 1..Len(inbound) \/ i = Len(inbound) + 1
        BY <1>0, <3>2
      <3>6. \A i \in 1..Len(inbound') : inbound'[i] = Accepted + i
        BY <3>2, <3>3, <3>5 DEF Queue
      <3> QED
        BY <3>3, <3>4, <3>6
    <2>2. CASE Accept
      <3>1. /\ inbound' = Tail(inbound) /\ made' = made /\ inbound # <<>>
            /\ rsock' = Head(inbound) /\ rpc = "wait"
        BY <2>2 DEF Accept
      <3>2. /\ Len(inbound) > 0 /\ Head(inbound) = inbound[1] /\ Len(inbound') = Len(inbound) - 1
            /\ \A i \in 1..Len(inbound') : inbound'[i] = inbound[i + 1]
        BY <1>0, <3>1
      <3>3. Accepted \in Int /\ Accepted' = Accepted + 1
        BY <1>0, <3>1, <3>2 DEF Accepted
      <3>4. rsock = None
        BY <3>1 DEF Typed, Places
      <3>5. 1 \in 1..Len(inbound) /\ \A i \in 1..Len(inbound') : i + 1 \in 1..Len(inbound)
        BY <1>0, <3>2
      <3>6. rsock' = Accepted + 1
        BY <3>1, <3>2, <3>5 DEF Queue
      <3>7. \A i \in 1..Len(inbound') : inbound'[i] = Accepted + (i + 1)
        BY <3>2, <3>5 DEF Queue
      <3>8. \A i \in 1..Len(inbound') : inbound'[i] = Accepted' + i
        BY <1>0, <3>3, <3>7
      <3>9. rsock' \in Conns
        BY <2>2, <3>1, ReceiverConn
      <3> QED
        BY <2>2, <3>3, <3>4, <3>6, <3>8, <3>9
    <2>3. CASE ~Accept /\ UNCHANGED <<made, inbound>>
      BY <1>0, <2>3 DEF Accepted, Queue
    <2> QED
      BY <2>1, <2>2, <2>3, DialTouched
  <1>4. rsock' <= Accepted'
    <2>1. CASE Accept
      BY <1>0, <1>3, <2>1
    <2>2. CASE ~Accept
      <3>1. rsock' = None \/ rsock' = rsock
        BY <1>2, <2>2
      <3>2. rsock <= Accepted /\ Accepted' = Accepted /\ rsock \in Nat /\ 0 <= rsock
        BY <1>0, <1>3, <2>2 DEF Queue
      <3> QED
        BY <1>3, <3>1, <3>2 DEF None
    <2> QED
      BY <2>1, <2>2
  <1>5. rsock' # None => ~conn'[rsock'].rclosed
    <2>1. CASE Accept
      <3>1. ~conn[rsock'].rclosed
        BY <1>0, <1>3, <2>1 DEF Queue
      <3>2. rsock' # rsock /\ rsock' \in Conns
        BY <1>3, <2>1 DEF Conns, None
      <3> QED
        BY <3>1, <3>2, RclosedStep
    <2>2. ASSUME rsock' = rsock, rsock # None  PROVE ~conn'[rsock].rclosed
      <3>1. rsock \in Conns /\ ~Hanging /\ ~conn[rsock].rclosed
        BY <1>0, <1>1, <2>2 DEF None, Queue
      <3> QED
        BY <3>1, RclosedStep
    <2> QED
      BY <1>2, <2>1, <2>2
  <1>6. ASSUME NEW c \in Conns, c > Accepted'  PROVE ~conn'[c].rclosed
    <2>1. c > Accepted /\ c # rsock
      BY <1>0, <1>3, <1>6 DEF Conns, Queue
    <2> QED
      BY <2>1, RclosedStep DEF Queue
  <1> QED
    BY <1>3, <1>4, <1>5, <1>6 DEF Queue

LEMMA QueueInit == ASSUME Init  PROVE Queue
  <1>1. /\ made = 0 /\ inbound = <<>> /\ rsock = 0 /\ \A c \in Conns : conn[c].rclosed = FALSE
    BY DEF Init, NewConn, None
  <1>2. Len(<<>>) = 0
    OBVIOUS
  <1> QED
    BY <1>1, <1>2 DEF Queue, Accepted, None
-----------------------------------------------------------------------------
(* What is on the wire.                                                    *)

\* Who writes what: f goes into c, whose receiver still reads as far as is known.
Puts(c, f) ==
    /\ f \in Frames /\ ~Deaf(c)
    /\ \/ Transmit /\ c = sock /\ f = frame
       \/ Resend /\ c = sock /\ f = Head(resend)
       \/ (Quit \/ SayGoodbye \/ Farewell) /\ c \in {sock, made} /\ f \in {Torn, Error}

LEMMA FwdStep ==
    ASSUME Typed, [Next]_vars, NEW c \in Conns
    PROVE  \/ \E i \in 0..Len(conn[c].fwd) : conn'[c].fwd = Cut(conn[c].fwd, i)
           \/ \E f : Puts(c, f) /\ conn'[c].fwd = Append(conn[c].fwd, f)
           \/ /\ c = rsock /\ conn[c].fwd # <<>> /\ conn'[c].fwd = Tail(conn[c].fwd)
              /\ Taking \/ Hanging
  <1>0. conn[c].fwd \in Seq(Frames) /\ conn[c].fwd = Cut(conn[c].fwd, Len(conn[c].fwd))
        /\ Len(conn[c].fwd) \in 0..Len(conn[c].fwd)
    <2>1. conn[c].fwd \in Seq(Frames)
      BY DEF Typed, WireTypes, Connections
    <2> QED
      BY <2>1, CutWhole
  <1> DEFINE Good == \/ \E i \in 0..Len(conn[c].fwd) : conn'[c].fwd = Cut(conn[c].fwd, i)
                     \/ \E f : Puts(c, f) /\ conn'[c].fwd = Append(conn[c].fwd, f)
                     \/ /\ c = rsock /\ conn[c].fwd # <<>> /\ conn'[c].fwd = Tail(conn[c].fwd)
                        /\ Taking \/ Hanging
  <1>1. conn'[c].fwd = conn[c].fwd => Good
    BY <1>0
  <1>2. ASSUME Losing  PROVE Good
    BY <1>2 DEF Losing, AllShrink, Shrinks
  <1>3. ASSUME NEW d \in Conns, NEW f \in Frames, Takes(d, f), d = c => (~Deaf(c) => Puts(c, f))
        PROVE  Good
    <2>1. CASE d = c /\ ~Deaf(c)
      <3>1. conn'[c].fwd = conn[c].fwd \/ conn'[c].fwd = Append(conn[c].fwd, f)
        BY <1>3, <2>1 DEF Takes
      <3> QED
        BY <1>1, <1>3, <2>1, <3>1
    <2>2. CASE ~(d = c /\ ~Deaf(c))
      <3>1. conn'[c] = conn[c]
        BY <1>3, <2>2 DEF Takes
      <3> QED
        BY <1>1, <3>1
    <2> QED
      BY <2>1, <2>2
  <1>4. ASSUME Writing  PROVE Good
    <2>1. /\ frame \in Frames /\ Torn \in Frames /\ Error \in Frames
          /\ Resend => Head(resend) \in Frames
      BY FrameTypes, TailType DEF Typed, ControlTypes, Resend
    <2> HIDE DEF Good
    <2>2. ASSUME Transmit, sock \in Conns, Takes(sock, frame)  PROVE Good
      BY <1>3, <2>1, <2>2 DEF Puts
    <2>3. ASSUME Resend, sock \in Conns, Takes(sock, Head(resend))  PROVE Good
      BY <1>3, <2>1, <2>3 DEF Puts
    <2>4. ASSUME Quit, sock \in Conns, Takes(sock, Torn)  PROVE Good
      BY <1>3, <2>1, <2>4 DEF Puts
    <2>5. ASSUME SayGoodbye, sock \in Conns, Takes(sock, Error)  PROVE Good
      BY <1>3, <2>1, <2>5 DEF Puts
    <2>6. ASSUME Farewell, made \in Conns, Takes(made, Error)  PROVE Good
      BY <1>3, <2>1, <2>6 DEF Puts
    <2> QED
      BY <1>4, <2>2, <2>3, <2>4, <2>5, <2>6 DEF Writing
  <1>5. ASSUME Hearing  PROVE Good
    <2>1. conn'[c].fwd = conn[c].fwd
      BY <1>5 DEF Hearing, Hears
    <2> QED
      BY <1>1, <2>1
  <1>6. ASSUME Answering  PROVE Good
    <2>1. \A d, r : d \in Conns /\ Answered(d, r) => conn'[c].fwd = conn[c].fwd
      BY DEF Answered
    <2>2. conn'[c].fwd = conn[c].fwd
      BY <1>6, <2>1 DEF Answering
    <2> QED
      BY <1>1, <2>2
  <1>7. ASSUME Taking  PROVE Good
    <2>1. conn'[c].fwd = conn[c].fwd \/ (c = rsock /\ conn[c].fwd # <<>> /\ conn'[c].fwd = Tail(conn[c].fwd))
      BY <1>7 DEF Taking, Reads
    <2> QED
      BY <1>1, <1>7, <2>1
  <1>8. ASSUME Hanging  PROVE Good
    <2>1. conn'[c].fwd = conn[c].fwd \/ (c = rsock /\ conn[c].fwd # <<>> /\ conn'[c].fwd = Tail(conn[c].fwd))
      BY <1>8 DEF Hanging, Hangs
    <2> QED
      BY <1>1, <1>8, <2>1
  <1> HIDE DEF Good
  <1>9. Good
    BY <1>2, <1>4, <1>5, <1>6, <1>7, <1>8, ConnStep
  <1> QED
    BY <1>9 DEF Good

\* What an entry of the other stream says: something old, or where the receiver is.
LEMMA BackStep ==
    ASSUME Typed, [Next]_vars, NEW c \in Conns, NEW k \in 1..Len(conn'[c].back)
    PROVE  \/ \E j \in 1..Len(conn[c].back) : conn'[c].back[k] = conn[c].back[j]
           \/ conn'[c].back[k].upto \in {0, expected, expected'}
  <1> DEFINE b == conn[c].back
             b2 == conn'[c].back
             Good == (\E j \in 1..Len(b) : b2[k] = b[j]) \/ b2[k].upto \in {0, expected, expected'}
  <1>0. b \in Seq(Answers) /\ Len(b) \in Nat /\ b2 \in Seq(Answers) /\ Len(b2) \in Nat
    <2>1. conn \in [Conns -> Connections] /\ conn' \in [Conns -> Connections]
      BY ConnTypeStep DEF Typed, WireTypes
    <2> QED
      BY <2>1 DEF Connections
  <1> HIDE DEF b, b2
  <1>k. k \in 1..Len(b2)
    BY DEF b2
  <1>1. b2 = b => Good
    BY <1>k
  <1>2. (\E i \in 0..Len(b) : b2 = Cut(b, i)) => Good
    <2> SUFFICES ASSUME NEW i \in 0..Len(b), b2 = Cut(b, i)  PROVE Good
      OBVIOUS
    <2>1. i \in Nat /\ i <= Len(b)
      BY <1>0
    <2>2. Len(b2) = i /\ \A j \in 1..i : b2[j] = b[j]
      BY <1>0, <2>1, CutType
    <2> QED
      BY <1>0, <1>k, <2>1, <2>2
  <1>3. ASSUME NEW r \in Answers, b2 = Append(b, r), r.upto \in {0, expected, expected'}  PROVE Good
    <2>1. Len(b2) = Len(b) + 1 /\ b2[Len(b) + 1] = r /\ \A j \in 1..Len(b) : b2[j] = b[j]
      BY <1>0, <1>3
    <2>2. k \in 1..Len(b) \/ k = Len(b) + 1
      BY <1>0, <1>k, <2>1
    <2> QED
      BY <1>3, <2>1, <2>2
  <1>4. b # <<>> /\ b2 = Tail(b) => Good
    <2> SUFFICES ASSUME b # <<>>, b2 = Tail(b)  PROVE Good
      OBVIOUS
    <2>1. Len(b2) = Len(b) - 1 /\ \A j \in 1..Len(b2) : b2[j] = b[j + 1]
      BY <1>0
    <2>2. k + 1 \in 1..Len(b) /\ b2[k] = b[k + 1]
      BY <1>0, <1>k, <2>1
    <2> QED
      BY <2>2
  <1>r. /\ \A n \in Nat : \A w \in {"WELCOME", "ACK", "ERROR"} : Reply(w, n) \in Answers /\ Reply(w, n).upto = n
        /\ expected \in Nat /\ expected' \in Nat
    BY TypedStep DEF Reply, Answers, Typed, ReceiverTypes
  <1> HIDE DEF Good
  <1>5. ASSUME Losing  PROVE Good
    <2>1. \E i \in 0..Len(b) : b2 = Cut(b, i)
      BY <1>5 DEF Losing, AllShrink, Shrinks, b, b2
    <2> QED
      BY <1>2, <2>1
  <1>6. ASSUME Writing  PROVE Good
    <2>1. \A d, f : d \in Conns /\ Takes(d, f) => b2 = b
      BY DEF Takes, b, b2
    <2> QED
      BY <1>1, <1>6, <2>1 DEF Writing
  <1>7. ASSUME Hearing  PROVE Good
    <2>1. \A d : d \in Conns /\ Hears(d) => b2 = b \/ (b # <<>> /\ b2 = Tail(b))
      BY DEF Hears, b, b2
    <2> QED
      BY <1>1, <1>4, <1>7, <2>1 DEF Hearing
  <1>8. ASSUME Answering  PROVE Good
    <2>1. \A d, r : d \in Conns /\ Answered(d, r) => b2 = b \/ b2 = Append(b, r)
      BY DEF Answered, b, b2
    <2>2. \E r \in Answers : r.upto \in {expected, expected'} /\ (b2 = b \/ b2 = Append(b, r))
      BY <1>8, <1>r, <2>1 DEF Answering
    <2> QED
      BY <1>1, <1>3, <2>2
  <1>9. ASSUME Taking  PROVE Good
    <2>1. b2 = b \/ b2 = Append(b, Reply("ACK", expected))
      BY <1>9 DEF Taking, Reads, b, b2
    <2> QED
      BY <1>1, <1>3, <1>r, <2>1
  <1>10. ASSUME Hanging  PROVE Good
    <2>1. b2 = b \/ (\E i \in 0..Len(b) : b2 = Cut(b, i)) \/ b2 = Append(b, Reply("ERROR", 0))
      BY <1>10 DEF Hanging, Hangs, b, b2
    <2> QED
      BY <1>1, <1>2, <1>3, <1>r, <2>1
  <1>11. Good
    BY <1>5, <1>6, <1>7, <1>8, <1>9, <1>10, ConnStep
  <1> QED
    BY <1>11 DEF Good, b, b2

\* A frame of the stream tells the truth: the items it holds are those it says, and
\* have been sent; END comes after the last of them.
EndOf(f) == f.first + Len(f.items)
Stream(f) == f.kind \in {"DATA", "END"}
Sound(f, n, end) ==
    /\ f \in Frames
    /\ f.kind = "DATA" => EndOf(f) <= n /\ \A i \in 1..Len(f.items) : f.items[i] = f.first + i
    /\ f.kind = "END" => end /\ f.first = n /\ f.items = <<>>

LEMMA EndOfType == ASSUME NEW f \in Frames
                   PROVE  EndOf(f) \in Nat /\ f.first \in Nat /\ f.items \in Seq(Nat) /\ f.first <= EndOf(f)
  <1>1. f.first \in Nat /\ f.items \in Seq(Nat)
    BY DEF Frames
  <1>2. PICK n \in Nat : n = Len(f.items)
    BY <1>1
  <1> QED
    BY <1>1, <1>2 DEF EndOf

LEMMA SentStep ==
    ASSUME Typed, Inbox, [Next]_vars
    PROVE  /\ sent \in Nat /\ sent' \in Nat /\ sent <= sent'
           /\ ended => ended' /\ sent' = sent
           /\ sent' # sent => MakeFrame
  <1>0. sent \in Nat /\ hand \in Seq(Nat)
    BY InboxTypes
  <1>1. CASE MakeFrame
    <2>1. PICK k \in 0..Len(hand) : sent' = sent + k
      BY <1>1, MakeFrameStep
    <2>2. ended' = ended /\ (ended => hand = <<>>)
      BY <1>1 DEF MakeFrame, Inbox, Closing
    <2>3. k \in Nat /\ (hand = <<>> => k = 0)
      BY <1>0
    <2> QED
      BY <1>0, <1>1, <2>1, <2>2, <2>3
  <1>2. CASE Finish
    BY <1>0, <1>2 DEF Finish
  <1>3. CASE Produce \/ CloseOutput \/ Pop \/ UNCHANGED <<produced, closed, inq, hand, last, sent, ended>>
    <2>1. UNCHANGED <<sent, ended>>
      BY <1>3 DEF Produce, CloseOutput, Pop, senderVars
    <2> QED
      BY <1>0, <2>1
  <1> QED
    BY <1>1, <1>2, <1>3, StreamTouched

LEMMA SoundStep ==
    ASSUME Typed, Inbox, [Next]_vars
    PROVE  \A f : Sound(f, sent, ended) => Sound(f, sent', ended')
  <1> SUFFICES ASSUME NEW f, Sound(f, sent, ended)  PROVE Sound(f, sent', ended')
    OBVIOUS
  <1>1. /\ sent \in Nat /\ sent' \in Nat /\ sent <= sent' /\ (ended => ended' /\ sent' = sent)
    BY SentStep
  <1>2. f \in Frames /\ EndOf(f) \in Nat
    BY EndOfType DEF Sound
  <1>3. f.kind = "DATA" => EndOf(f) <= sent'
    BY <1>1, <1>2 DEF Sound
  <1> QED
    BY <1>1, <1>2, <1>3 DEF Sound

LEMMA ExpectedStep ==
    ASSUME Typed, [Next]_vars
    PROVE  /\ expected \in Nat /\ expected' \in Nat /\ expected <= expected'
           /\ expected' # expected => AckFrame
  <1>0. expected \in Nat /\ upto \in Nat
    BY DEF Typed, ReceiverTypes
  <1>1. CASE AckFrame
    BY <1>0, <1>1, LargerType DEF AckFrame
  <1>2. CASE ReceiveData \/ PassOn \/ UNCHANGED <<todo, upto, expected, passed>>
    <2>1. expected' = expected
      BY <1>2 DEF ReceiveData, PassOn
    <2> QED
      BY <1>0, <2>1
  <1> QED
    BY <1>1, <1>2, DeliveryTouched

\* The receiver never says more than it has, and the sender believes no more.
Told == /\ acked <= expected
        /\ \A c \in Conns : \A k \in 1..Len(conn[c].back) : conn[c].back[k].upto <= expected

LEMMA ToldStep ==
    ASSUME Typed, Told, [Next]_vars
    PROVE  Told'
  <1>0. /\ expected \in Nat /\ expected' \in Nat /\ expected <= expected' /\ acked \in Nat
    BY ExpectedStep DEF Typed, SenderTypes
  <1>1. acked' <= expected'
    <2>1. CASE Welcomed \/ \E c \in Conns : ReadAck(c)
      <3>1. PICK c \in Conns : /\ conn[c].back # <<>> /\ Head(conn[c].back) \in Answers
                               /\ Acknowledge(Head(conn[c].back).upto)
        BY <2>1, HeardStep
      <3> DEFINE n == Head(conn[c].back).upto
      <3>2. n \in Nat
        BY <3>1 DEF Answers
      <3>3. n <= expected
        <4>1. conn[c].back \in Seq(Answers)
          BY DEF Typed, WireTypes, Connections
        <4>2. Head(conn[c].back) = conn[c].back[1] /\ 1 \in 1..Len(conn[c].back)
          BY <3>1, <4>1
        <4> QED
          BY <4>2 DEF Told
      <3>4. acked' \in {acked, n}
        BY <3>1, <3>2, AckedStep
      <3> HIDE DEF n
      <3> QED
        BY <1>0, <3>2, <3>3, <3>4 DEF Told
    <2>2. CASE MakeFrame \/ UNCHANGED <<sent, acked, unacked>>
      <3>1. acked' = acked
        BY <2>2 DEF MakeFrame
      <3> QED
        BY <1>0, <3>1 DEF Told
    <2> QED
      BY <2>1, <2>2, AckedTouched
  <1>2. ASSUME NEW c \in Conns, NEW k \in 1..Len(conn'[c].back)
        PROVE  conn'[c].back[k].upto <= expected'
    <2>1. CASE conn'[c].back[k].upto \in {0, expected, expected'}
      BY <1>0, <2>1
    <2>2. CASE \E j \in 1..Len(conn[c].back) : conn'[c].back[k] = conn[c].back[j]
      <3>1. PICK j \in 1..Len(conn[c].back) : conn'[c].back[k] = conn[c].back[j]
        BY <2>2
      <3>2. conn[c].back \in Seq(Answers)
        BY DEF Typed, WireTypes, Connections
      <3>3. conn[c].back[j] \in Answers
        BY <3>2
      <3>4. conn[c].back[j].upto \in Nat /\ conn[c].back[j].upto <= expected
        BY <3>3 DEF Answers, Told
      <3> QED
        BY <1>0, <3>1, <3>4
    <2> QED
      BY <2>1, <2>2, BackStep
  <1> QED
    BY <1>1, <1>2 DEF Told

\* What the sender keeps: frames of items, one after the other, from the last
\* acknowledgement to the last item sent.
Kept ==
    /\ \A k \in 1..Len(unacked) : Sound(unacked[k], sent, ended) /\ unacked[k].kind = "DATA"
    /\ \A k \in 1..(Len(unacked) - 1) : unacked[k + 1].first = EndOf(unacked[k])
    /\ unacked = <<>> => acked >= sent
    /\ unacked # <<>> => unacked[1].first <= acked /\ EndOf(unacked[Len(unacked)]) = sent

LEMMA ForgetKeeps ==
    ASSUME Typed, Kept, NEW n \in Nat, n > acked, Forget(n), acked' = n, sent' = sent, ended' = ended
    PROVE  Kept'
  <1>0. unacked \in Seq(Frames) /\ sent \in Nat /\ acked \in Nat /\ Len(unacked) \in Nat
    BY DEF Typed, SenderTypes
  <1> DEFINE m == Len(unacked)
  <1>1. PICK k \in 0..m :
           /\ \A i \in 1..k : ~Beyond(unacked[i], n)
           /\ k < m => Beyond(unacked[k + 1], n)
           /\ unacked' = SubSeq(unacked, k + 1, m)
    BY DEF Forget
  <1>2. k \in Nat /\ k <= m
    BY <1>0
  <1>3. /\ Len(unacked') = m - k /\ unacked' \in Seq(Frames)
        /\ \A i \in 1..(m - k) : unacked'[i] = unacked[k + i] /\ k + i \in 1..m
    BY <1>0, <1>1, <1>2
  <1>5. \A i \in 1..Len(unacked') : Sound(unacked'[i], sent', ended') /\ unacked'[i].kind = "DATA"
    BY <1>3 DEF Kept
  <1>6. ASSUME NEW i \in 1..(Len(unacked') - 1)  PROVE unacked'[i + 1].first = EndOf(unacked'[i])
    <2>1. i \in 1..(m - k) /\ i + 1 \in 1..(m - k) /\ k + i \in 1..(m - 1) /\ (k + i) + 1 = k + (i + 1)
      BY <1>0, <1>2, <1>3
    <2>2. unacked[(k + i) + 1].first = EndOf(unacked[k + i])
      BY <2>1 DEF Kept
    <2> QED
      BY <1>3, <2>1, <2>2
  <1>7. unacked' = <<>> => acked' >= sent'
    <2> SUFFICES ASSUME unacked' = <<>>  PROVE n >= sent
      OBVIOUS
    <2>1. k = m
      BY <1>0, <1>2, <1>3
    <2>2. CASE unacked = <<>>
      BY <1>0, <2>2 DEF Kept
    <2>3. CASE unacked # <<>>
      <3>1. m > 0 /\ m \in 1..k
        BY <1>0, <2>1, <2>3
      <3>2. ~(EndOf(unacked[m]) > n) /\ EndOf(unacked[m]) = sent
        BY <1>1, <2>3, <3>1 DEF Kept, Beyond, EndOf
      <3> QED
        BY <1>0, <3>2
    <2> QED
      BY <2>2, <2>3
  <1>8. ASSUME unacked' # <<>>
        PROVE  unacked'[1].first <= acked' /\ EndOf(unacked'[Len(unacked')]) = sent'
    <2>1. m - k > 0 /\ m > 0 /\ unacked # <<>>
      BY <1>0, <1>2, <1>3, <1>8
    <2>2. EndOf(unacked'[Len(unacked')]) = sent
      <3>1. m - k \in 1..(m - k) /\ k + (m - k) = m
        BY <1>0, <1>2, <2>1
      <3>2. unacked'[Len(unacked')] = unacked[m]
        BY <1>3, <3>1
      <3> QED
        BY <2>1, <3>2 DEF Kept
    <2>3. unacked'[1].first <= n
      <3>1. unacked'[1] = unacked[k + 1]
        BY <1>0, <1>2, <1>3, <2>1
      <3>2. CASE k = 0
        <4>1. unacked[1].first <= acked /\ unacked[1] \in Frames
          BY <1>0, <2>1 DEF Kept
        <4>2. unacked[1].first \in Nat
          BY <4>1, EndOfType
        <4> QED
          BY <1>0, <3>1, <3>2, <4>1, <4>2
      <3>3. CASE k # 0
        <4>1. k \in 1..k /\ k \in 1..(m - 1) /\ k \in 1..m
          BY <1>0, <1>2, <2>1, <3>3
        <4>2. unacked[k + 1].first = EndOf(unacked[k]) /\ ~(EndOf(unacked[k]) > n)
          BY <1>1, <4>1 DEF Kept, Beyond, EndOf
        <4>3. unacked[k] \in Frames
          BY <1>0, <4>1
        <4>4. EndOf(unacked[k]) \in Nat
          BY <4>3, EndOfType
        <4> QED
          BY <3>1, <4>2, <4>4
      <3> QED
        BY <3>2, <3>3
    <2> QED
      BY <2>2, <2>3
  <1> QED
    BY <1>5, <1>6, <1>7, <1>8 DEF Kept

\* The frame MakeFrame makes.
LEMMA FrameMade ==
    ASSUME Typed, InHand, MakeFrame
    PROVE  /\ frame' \in Frames /\ frame'.kind = "DATA" /\ frame'.first = sent
           /\ EndOf(frame') = sent' /\ Sound(frame', sent', ended')
           /\ unacked' = Append(unacked, frame')
           /\ UNCHANGED <<acked, ended>>
  <1>0. hand \in Seq(Nat) /\ sent \in Nat
    BY InboxTypes
  <1>1. PICK k \in 0..Len(hand) :
           /\ frame' = Data(sent, Cut(hand, k)) /\ frame' \in Frames
           /\ unacked' = Append(unacked, frame') /\ sent' = sent + k
    BY MakeFrameStep
  <1>2. k \in Nat /\ k <= Len(hand)
    BY <1>0
  <1>3. Cut(hand, k) \in Seq(Nat) /\ Len(Cut(hand, k)) = k /\ \A i \in 1..k : Cut(hand, k)[i] = hand[i]
    BY <1>0, <1>2, CutType
  <1>4. frame'.kind = "DATA" /\ frame'.first = sent /\ frame'.items = Cut(hand, k)
    BY <1>1 DEF Data
  <1>5. EndOf(frame') = sent'
    BY <1>1, <1>3, <1>4 DEF EndOf
  <1>6. \A i \in 1..Len(frame'.items) : frame'.items[i] = frame'.first + i
    <2>1. \A i \in 1..k : i \in 1..Len(hand)
      BY <1>0, <1>2
    <2> QED
      BY <1>3, <1>4, <2>1 DEF InHand
  <1>7. sent' <= sent'
    BY <1>0, <1>1, <1>2
  <1>8. Sound(frame', sent', ended')
    BY <1>1, <1>4, <1>5, <1>6, <1>7 DEF Sound
  <1> QED
    BY <1>1, <1>4, <1>5, <1>8 DEF MakeFrame

LEMMA KeptStep ==
    ASSUME Typed, Inbox, Kept, [Next]_vars
    PROVE  Kept'
  <1>0. /\ unacked \in Seq(Frames) /\ sent \in Nat /\ acked \in Nat /\ Len(unacked) \in Nat
        /\ \A f : Sound(f, sent, ended) => Sound(f, sent', ended')
    BY SoundStep DEF Typed, SenderTypes
  <1>1. ASSUME UNCHANGED <<sent, acked, unacked>>  PROVE Kept'
    BY <1>0, <1>1 DEF Kept
  <1>2. ASSUME Welcomed \/ \E c \in Conns : ReadAck(c)  PROVE Kept'
    <2>1. PICK c \in Conns : /\ Head(conn[c].back) \in Answers
                             /\ Acknowledge(Head(conn[c].back).upto)
      BY <1>2, HeardStep
    <2> DEFINE n == Head(conn[c].back).upto
    <2>2. n \in Nat
      BY <2>1 DEF Answers
    <2>3. sent' = sent /\ ended' = ended
      BY <1>2 DEF Welcomed, ReadAck
    <2> HIDE DEF n
    <2>4. (acked' = acked /\ unacked' = unacked) \/ (acked' = n /\ n > acked /\ Forget(n))
      BY <2>1, <2>2, AckedStep DEF n
    <2> QED
      BY <1>1, <2>2, <2>3, <2>4, ForgetKeeps
  <1>3. ASSUME MakeFrame  PROVE Kept'
    <2> DEFINE m == Len(unacked)
    <2>1. /\ frame' \in Frames /\ frame'.kind = "DATA" /\ frame'.first = sent
          /\ EndOf(frame') = sent' /\ Sound(frame', sent', ended')
          /\ unacked' = Append(unacked, frame') /\ acked' = acked
      BY <1>3, FrameMade DEF Inbox
    <2>2. /\ Len(unacked') = m + 1 /\ unacked'[m + 1] = frame'
          /\ \A i \in 1..m : unacked'[i] = unacked[i]
      BY <1>0, <2>1
    <2>3. \A i \in 1..(m + 1) : i \in 1..m \/ i = m + 1
      BY <1>0
    <2>4. \A i \in 1..Len(unacked') : Sound(unacked'[i], sent', ended') /\ unacked'[i].kind = "DATA"
      BY <1>0, <2>1, <2>2, <2>3 DEF Kept
    <2>5. ASSUME NEW i \in 1..(Len(unacked') - 1)  PROVE unacked'[i + 1].first = EndOf(unacked'[i])
      <3>1. CASE i = m
        <4>1. m \in 1..m /\ unacked # <<>>
          BY <1>0, <2>2, <3>1
        <4> QED
          BY <2>1, <2>2, <3>1, <4>1 DEF Kept
      <3>2. CASE i # m
        <4>1. i \in 1..(m - 1) /\ i \in 1..m /\ i + 1 \in 1..m
          BY <1>0, <2>2, <3>2
        <4> QED
          BY <2>2, <4>1 DEF Kept
      <3> QED
        BY <3>1, <3>2
    <2>6. unacked' # <<>>
      <3>1. Len(unacked') # 0
        BY ONLY <1>0, <2>2
      <3> QED
        BY ONLY <3>1
    <2>7. unacked'[1].first <= acked'
      <3>1. CASE m = 0
        BY <1>0, <2>1, <2>2, <3>1 DEF Kept
      <3>2. CASE m # 0
        <4>1. 1 \in 1..m /\ unacked # <<>>
          BY <1>0, <3>2
        <4> QED
          BY <2>1, <2>2, <4>1 DEF Kept
      <3> QED
        BY <3>1, <3>2
    <2>8. EndOf(unacked'[Len(unacked')]) = sent'
      BY <2>1, <2>2
    <2> QED
      BY <2>4, <2>5, <2>6, <2>7, <2>8 DEF Kept
  <1> QED
    BY <1>1, <1>2, <1>3, AckedTouched

\* Every item that is out and not acknowledged is in a frame that is kept.
Covered ==
    \A i \in (acked + 1)..sent : \E k \in 1..Len(unacked) :
        unacked[k].first < i /\ i <= EndOf(unacked[k])

LEMMA CoveredStep ==
    ASSUME Typed, Inbox, Covered, [Next]_vars
    PROVE  Covered'
  <1>0. unacked \in Seq(Frames) /\ sent \in Nat /\ acked \in Nat /\ Len(unacked) \in Nat
    BY DEF Typed, SenderTypes
  <1>1. ASSUME UNCHANGED <<sent, acked, unacked>>  PROVE Covered'
    BY <1>1 DEF Covered
  <1>2. ASSUME Welcomed \/ \E c \in Conns : ReadAck(c)  PROVE Covered'
    <2>1. PICK c \in Conns : /\ Head(conn[c].back) \in Answers
                             /\ Acknowledge(Head(conn[c].back).upto)
      BY <1>2, HeardStep
    <2> DEFINE n == Head(conn[c].back).upto
    <2>2. n \in Nat
      BY <2>1 DEF Answers
    <2>3. sent' = sent
      BY <1>2 DEF Welcomed, ReadAck
    <2> HIDE DEF n
    <2>4. (acked' = acked /\ unacked' = unacked) \/ (acked' = n /\ n > acked /\ Forget(n))
      BY <2>1, <2>2, AckedStep DEF n
    <2>5. ASSUME acked' = n, n > acked, Forget(n)  PROVE Covered'
      <3>1. PICK k \in 0..Len(unacked) :
               /\ \A i \in 1..k : ~Beyond(unacked[i], n)
               /\ unacked' = SubSeq(unacked, k + 1, Len(unacked))
        BY <2>5 DEF Forget
      <3>2. /\ k \in Nat /\ k <= Len(unacked) /\ Len(unacked') = Len(unacked) - k
            /\ \A i \in 1..(Len(unacked) - k) : unacked'[i] = unacked[k + i]
        BY <1>0, <3>1
      <3>3. ASSUME NEW i \in (n + 1)..sent
            PROVE  \E j \in 1..Len(unacked') : unacked'[j].first < i /\ i <= EndOf(unacked'[j])
        <4>1. i \in (acked + 1)..sent
          BY <1>0, <2>2, <2>5
        <4>2. PICK j \in 1..Len(unacked) : unacked[j].first < i /\ i <= EndOf(unacked[j])
          BY <4>1 DEF Covered
        <4>3. unacked[j] \in Frames
          BY <1>0
        <4>4. EndOf(unacked[j]) \in Nat
          BY <4>3, EndOfType
        <4>5. EndOf(unacked[j]) > n
          BY <2>2, <4>2, <4>4
        <4>6. j \notin 1..k
          BY <3>1, <4>5 DEF Beyond, EndOf
        <4>7. j - k \in 1..(Len(unacked) - k) /\ k + (j - k) = j
          BY <1>0, <3>2, <4>6
        <4> QED
          BY <3>2, <4>2, <4>7
      <3> QED
        BY <2>3, <2>5, <3>3 DEF Covered
    <2> QED
      BY <1>1, <2>3, <2>4, <2>5
  <1>3. ASSUME MakeFrame  PROVE Covered'
    <2>1. /\ frame' \in Frames /\ frame'.first = sent /\ EndOf(frame') = sent'
          /\ unacked' = Append(unacked, frame') /\ acked' = acked
      BY <1>3, FrameMade DEF Inbox
    <2>2. /\ Len(unacked') = Len(unacked) + 1 /\ unacked'[Len(unacked) + 1] = frame'
          /\ \A i \in 1..Len(unacked) : unacked'[i] = unacked[i]
      BY <1>0, <2>1
    <2>3. sent' \in Nat
      BY <2>1, EndOfType
    <2>4. ASSUME NEW i \in (acked + 1)..sent'
          PROVE  \E j \in 1..Len(unacked') : unacked'[j].first < i /\ i <= EndOf(unacked'[j])
      <3>1. CASE i <= sent
        <4>1. i \in (acked + 1)..sent
          BY <1>0, <2>3, <3>1
        <4>2. PICK j \in 1..Len(unacked) : unacked[j].first < i /\ i <= EndOf(unacked[j])
          BY <4>1 DEF Covered
        <4>3. j \in 1..Len(unacked') /\ unacked'[j] = unacked[j]
          BY <1>0, <2>2
        <4> QED
          BY <4>2, <4>3
      <3>2. CASE ~(i <= sent)
        <4>1. sent < i /\ i <= sent' /\ Len(unacked) + 1 \in 1..Len(unacked')
          BY <1>0, <2>2, <2>3, <3>2
        <4> QED
          BY <2>1, <2>2, <4>1
      <3> QED
        BY <3>1, <3>2
    <2> QED
      BY <2>1, <2>4 DEF Covered
  <1> QED
    BY <1>1, <1>2, <1>3, AckedTouched
-----------------------------------------------------------------------------
(* What the receiver hands over.                                           *)

\* Frames on the wire are sound.
OnWire == \A c \in Conns : \A k \in 1..Len(conn[c].fwd) : Sound(conn[c].fwd[k], sent, ended)

\* What was sent on are the first items, in order, up to where the receiver is, or part
\* of the frame that goes on from there; END came after all of them.
Handing ==
    /\ upto <= sent
    /\ Len(passed) + Len(todo) = Larger(expected, upto)
    /\ \A i \in 1..Len(todo) : todo[i] = Len(passed) + i
Served ==
    /\ \A i \in 1..Len(passed) : passed[i] = i
    /\ expected <= Len(passed) /\ Len(passed) <= sent
    /\ rpc \in {"wait", "serve", "drop", "close"} => Len(passed) = expected
    /\ rpc = "deliver" => Handing
    /\ rpc = "close" => ended /\ expected = sent

LEMMA ServedTypes ==
    ASSUME Typed
    PROVE  /\ todo \in Seq(Nat) /\ passed \in Seq(Nat) /\ upto \in Nat /\ expected \in Nat
           /\ sent \in Nat /\ Len(todo) \in Nat /\ Len(passed) \in Nat /\ rpc \in Stages
           /\ \A c \in Conns : conn[c].fwd \in Seq(Frames)
  BY DEF Typed, ReceiverTypes, SenderTypes, WireTypes, Connections

LEMMA HeadSound ==
    ASSUME Typed, OnWire, NEW c \in Conns, conn[c].fwd # <<>>
    PROVE  Sound(Head(conn[c].fwd), sent, ended) /\ Head(conn[c].fwd) = conn[c].fwd[1]
  <1>1. conn[c].fwd \in Seq(Frames)
    BY ServedTypes
  <1>2. Head(conn[c].fwd) = conn[c].fwd[1] /\ 1 \in 1..Len(conn[c].fwd)
    BY <1>1
  <1> QED
    BY <1>2 DEF OnWire

LEMMA ServedReceive ==
    ASSUME Typed, OnWire, Served, ReceiveData
    PROVE  Handing'
  <1>0. /\ todo \in Seq(Nat) /\ upto \in Nat /\ expected \in Nat /\ sent \in Nat
        /\ Len(passed) \in Nat
    BY ServedTypes
  <1> DEFINE f == Head(conn[rsock].fwd)
  <1>1. /\ f \in Frames /\ f.kind = "DATA" /\ f.first <= expected
        /\ rsock \in Conns /\ conn[rsock].fwd # <<>>
        /\ upto' = f.first + Len(f.items) /\ upto' \in Nat
        /\ todo' = SubSeq(f.items, expected - f.first + 1, Len(f.items)) /\ todo' \in Seq(Nat)
    BY ReceiveDataStep
  <1>2. Sound(f, sent, ended)
    BY <1>1, HeadSound
  <1> HIDE DEF f
  <1>3. f.items \in Seq(Nat) /\ f.first \in Nat /\ upto' = EndOf(f)
    BY <1>1, EndOfType DEF EndOf
  <1>4. upto' <= sent /\ \A i \in 1..Len(f.items) : f.items[i] = f.first + i
    BY <1>1, <1>2, <1>3 DEF Sound
  <1>5. rpc = "serve" /\ UNCHANGED <<expected, passed, sent>>
    BY DEF ReceiveData, Incoming, Reading, senderVars
  <1>6. Len(passed) = expected
    BY <1>5 DEF Served
  <1>7. PICK m \in Nat : m = Len(f.items)
    BY <1>3
  <1> DEFINE d == expected - f.first
  <1>8. d \in Nat /\ upto' = f.first + m
    BY <1>0, <1>1, <1>3, <1>7
  <1>9. CASE d < m
    <2>1. Len(todo') = m - d /\ \A i \in 1..(m - d) : todo'[i] = f.items[d + i] /\ d + i \in 1..m
      <3>1. todo' = SubSeq(f.items, d + 1, m)
        BY <1>1, <1>7
      <3> HIDE DEF d
      <3>2. m \in Nat /\ d \in Nat
        BY <1>7, <1>8
      <3>3. Len(SubSeq(f.items, d + 1, m)) = m - d
        BY ONLY <1>3, <1>7, <1>9, <3>2
      <3>4. ASSUME NEW i \in 1..(m - d)
            PROVE  SubSeq(f.items, d + 1, m)[i] = f.items[d + i] /\ d + i \in 1..m
        BY ONLY <1>3, <1>7, <1>9, <3>2, <3>4
      <3> QED
        BY ONLY <3>1, <3>3, <3>4
    <2>2. ASSUME NEW i \in 1..Len(todo')  PROVE todo'[i] = expected + i
      <3>1. todo'[i] = f.first + (d + i)
        BY <1>4, <1>7, <2>1
      <3>2. i \in Nat /\ expected = f.first + d /\ d \in Nat
        <4>1. m \in Nat /\ Len(todo') = m - d
          BY <1>7, <2>1
        <4> QED
          BY ONLY <1>0, <1>3, <1>8, <4>1, i \in 1..Len(todo')
      <3> HIDE DEF d
      <3> QED
        BY ONLY <1>3, <3>1, <3>2
    <2>3. Larger(expected, upto') = upto'
      BY <1>0, <1>3, <1>8, <1>9 DEF Larger
    <2>4. expected + Len(todo') = upto'
      BY <1>0, <1>3, <1>8, <2>1
    <2> QED
      BY <1>4, <1>5, <1>6, <2>2, <2>3, <2>4 DEF Handing
  <1>10. CASE ~(d < m)
    <2>1. Len(todo') = 0
      BY <1>1, <1>3, <1>7, <1>8, <1>10
    <2>2. Larger(expected, upto') = expected
      BY <1>0, <1>3, <1>8, <1>10 DEF Larger
    <2> QED
      BY <1>0, <1>4, <1>5, <1>6, <2>1, <2>2 DEF Handing
  <1> QED
    BY <1>9, <1>10

LEMMA ServedStep ==
    ASSUME Typed, Inbox, OnWire, Served, [Next]_vars
    PROVE  Served'
  <1>0. /\ todo \in Seq(Nat) /\ passed \in Seq(Nat) /\ upto \in Nat /\ expected \in Nat
        /\ sent \in Nat /\ Len(todo) \in Nat /\ Len(passed) \in Nat /\ rpc \in Stages
    BY ServedTypes
  <1>s. sent' \in Nat /\ sent <= sent' /\ (ended => ended' /\ sent' = sent)
    BY SentStep
  <1>1. ASSUME ReceiveData  PROVE Served'
    <2>1. /\ rpc' = "deliver" /\ rpc = "serve" /\ UNCHANGED <<expected, passed, sent>>
      BY <1>1 DEF ReceiveData, Incoming, Reading, senderVars
    <2> QED
      BY <1>1, <2>1, ServedReceive DEF Served
  <1>2. ASSUME PassOn  PROVE Served'
    <2>1. /\ rpc = "deliver" /\ rpc' = rpc /\ todo # <<>> /\ UNCHANGED <<upto, expected, sent>>
          /\ passed' = Append(passed, Head(todo)) /\ todo' = Tail(todo)
      BY <1>2 DEF PassOn, senderVars
    <2>2. Handing /\ \A i \in 1..Len(passed) : passed[i] = i
      BY <2>1 DEF Served
    <2>3. /\ Len(todo) > 0 /\ Len(todo') = Len(todo) - 1 /\ Head(todo) = todo[1]
          /\ \A i \in 1..Len(todo') : todo'[i] = todo[i + 1] /\ i + 1 \in 1..Len(todo)
      BY <1>0, <2>1
    <2>4. Head(todo) = Len(passed) + 1
      BY <1>0, <2>2, <2>3 DEF Handing
    <2>5. /\ Len(passed') = Len(passed) + 1 /\ passed'[Len(passed) + 1] = Len(passed) + 1
          /\ \A i \in 1..Len(passed) : passed'[i] = passed[i]
      BY <1>0, <2>1, <2>4
    <2>6. \A i \in 1..Len(passed') : passed'[i] = i
      <3>1. \A i \in 1..Len(passed') : i \in 1..Len(passed) \/ i = Len(passed) + 1
        BY <1>0, <2>5
      <3> QED
        BY <2>2, <2>5, <3>1
    <2>7. Larger(expected, upto) <= sent
      BY <1>0, <2>2 DEF Larger, Handing, Served
    <2>8. Len(passed') + Len(todo') = Larger(expected, upto)
      BY <1>0, <2>2, <2>3, <2>5 DEF Handing
    <2>9. Handing'
      <3>1. \A i \in 1..Len(todo') : todo'[i] = Len(passed) + (i + 1)
        BY <2>2, <2>3 DEF Handing
      <3>2. \A i \in 1..Len(todo') : todo'[i] = Len(passed') + i
        BY <1>0, <2>5, <3>1
      <3> QED
        BY <2>1, <2>2, <2>8, <3>2 DEF Handing
    <2>10. expected <= Len(passed') /\ Len(passed') <= sent
      <3>1. PICK n \in Nat : n = Len(passed)
        BY <1>0
      <3>2. PICK k \in Nat : k = Len(todo')
        <4>1. todo' \in Seq(Nat)
          BY <1>0, <2>1
        <4> QED
          BY <4>1
      <3>3. Larger(expected, upto) \in Nat
        BY <1>0, LargerType
      <3>4. expected <= n
        BY <2>1, <3>1 DEF Served
      <3>5. Len(passed') = n + 1 /\ n + 1 + k = Larger(expected, upto)
        BY <2>5, <2>8, <3>1, <3>2
      <3> QED
        BY ONLY <1>0, <2>7, <3>1, <3>2, <3>3, <3>4, <3>5
    <2> QED
      BY <2>1, <2>6, <2>9, <2>10 DEF Served
  <1>3. ASSUME AckFrame  PROVE Served'
    <2>1. /\ rpc = "deliver" /\ todo = <<>> /\ expected' = Larger(expected, upto) /\ rpc' \in {"serve", "drop"}
          /\ UNCHANGED <<passed, sent>>
      BY <1>3 DEF AckFrame, senderVars
    <2>2. Len(passed) = expected'
      BY <1>0, <2>1 DEF Served, Handing
    <2> QED
      BY <1>0, <2>1, <2>2 DEF Served
  <1>4. ASSUME ReceiveEnd  PROVE Served'
    <2>1. /\ rpc = "serve" /\ rpc' \in {"close", "drop"} /\ UNCHANGED <<expected, passed, sent, ended>>
          /\ conn[rsock].fwd # <<>> /\ Head(conn[rsock].fwd).kind = "END" /\ First <= expected
      BY <1>4 DEF ReceiveEnd, Incoming, Reading, senderVars
    <2>2. rsock \in Conns
      BY <1>4, ReceiverConn
    <2>3. Sound(Head(conn[rsock].fwd), sent, ended)
      BY <2>1, <2>2, HeadSound
    <2>4. ended /\ sent <= expected
      BY <2>1, <2>3 DEF Sound, First
    <2>5. expected = sent
      BY <1>0, <2>1, <2>4 DEF Served
    <2> QED
      BY <2>1, <2>4, <2>5 DEF Served
  <1>5. ASSUME UNCHANGED <<todo, upto, expected, passed>>, ~ReceiveData, ~AckFrame, ~ReceiveEnd
        PROVE  Served'
    <2>1. Len(passed) <= sent'
      BY <1>0, <1>s DEF Served
    <2>2. Handing => Handing'
      BY <1>0, <1>s, <1>5 DEF Handing
    <2>3. \/ rpc' = rpc \/ rpc' = "over"
          \/ rpc = "wait" /\ rpc' = "serve"
          \/ rpc = "serve" /\ rpc' = "drop"
          \/ rpc = "drop" /\ rpc' = "wait"
      BY <1>5, StageStep
    <2>4. rpc' = "close" => ended' /\ expected = sent'
      BY <1>s, <2>3 DEF Served
    <2> QED
      BY <1>5, <2>1, <2>2, <2>3, <2>4 DEF Served
  <1> QED
    BY <1>1, <1>2, <1>3, <1>4, <1>5, DeliveryTouched
-----------------------------------------------------------------------------
(* The frames of the stream follow one another on every connection, from    *)
(* where the receiver is.                                                  *)

\* Where the receiver is, the frame it hands over included.
Pos(c) == IF rsock = c /\ rpc = "deliver" THEN Larger(expected, upto) ELSE expected
\* The stream s goes on from p: no frame of it starts after the end of the one before.
Follows(s, p) ==
    /\ s # <<>> => (Stream(s[1]) => s[1].first <= p)
    /\ \A k \in 1..(Len(s) - 1) : Stream(s[k + 1]) => Stream(s[k]) /\ s[k + 1].first <= EndOf(s[k])
\* A frame that starts at n may follow the stream s.
Reaches(s, p, n) == IF s = <<>> THEN n <= p ELSE Stream(s[Len(s)]) /\ n <= EndOf(s[Len(s)])

InTurn == \A c \in Conns : ~conn[c].rclosed => Follows(conn[c].fwd, Pos(c))
Unmade == \A c \in Conns : c > made => conn[c].fwd = <<>>

LEMMA PosType == ASSUME Typed, NEW c  PROVE Pos(c) \in Nat /\ expected \in Nat /\ expected <= Pos(c)
  <1>1. expected \in Nat /\ upto \in Nat
    BY DEF Typed, ReceiverTypes
  <1> QED
    BY <1>1, LargerType DEF Pos

LEMMA PosStep ==
    ASSUME Typed, Queue, [Next]_vars, NEW c \in Conns
    PROVE  conn'[c].rclosed \/ Pos(c) <= Pos(c)'
  <1>0. /\ Pos(c) \in Nat /\ Pos(c)' \in Nat /\ expected \in Nat /\ expected' \in Nat /\ upto \in Nat
        /\ expected <= expected' /\ expected' <= Pos(c)'
    <2>1. Typed'
      BY TypedStep
    <2>2. Pos(c)' \in Nat /\ expected' <= Pos(c)'
      <3>1. expected' \in Nat /\ upto' \in Nat
        BY <2>1 DEF Typed, ReceiverTypes
      <3> QED
        BY <3>1, LargerType DEF Pos
    <2> QED
      BY <2>2, PosType, ExpectedStep DEF Typed, ReceiverTypes
  <1>1. CASE rsock = c /\ rpc = "deliver"
    <2>1. CASE AckFrame
      <3>1. expected' = Pos(c)
        BY <1>1, <2>1 DEF AckFrame, Pos
      <3> QED
        BY <1>0, <3>1
    <2>2. CASE QuitReceiver
      <3>1. rsock # None
        BY <1>1 DEF Typed, Places
      <3>2. Hanging \/ conn' = conn
        BY <2>2, ReceiverConn DEF Hanging
      <3>3. conn'[c].rclosed
        BY <1>1, <2>2, <3>1 DEF QuitReceiver, Typed, WireTypes, Connections
      <3> QED
        BY <3>3
    <2>3. CASE UNCHANGED <<rpc, rsock, upto, expected>>
      BY <1>0, <2>3 DEF Pos
    <2> QED
      BY <1>1, <2>1, <2>2, <2>3, HandingStep
  <1>2. CASE ~(rsock = c /\ rpc = "deliver")
    BY <1>0, <1>2 DEF Pos
  <1> QED
    BY <1>1, <1>2

\* What keeps a stream whole.
LEMMA FollowsCut ==
    ASSUME NEW s \in Seq(Frames), NEW p \in Nat, NEW q \in Nat, p <= q, Follows(s, p),
           NEW i \in 0..Len(s)
    PROVE  Follows(Cut(s, i), q)
  <1>1. i \in Nat /\ i <= Len(s) /\ Len(s) \in Nat
    OBVIOUS
  <1>2. Len(Cut(s, i)) = i /\ \A j \in 1..i : Cut(s, i)[j] = s[j]
    BY <1>1, CutType
  <1>3. Cut(s, i) # <<>> => i # 0
    BY <1>1, <1>2, CutWhole
  <1>4. ASSUME Cut(s, i) # <<>>, Stream(Cut(s, i)[1])  PROVE Cut(s, i)[1].first <= q
    <2>1. 1 \in 1..i /\ s # <<>>
      BY <1>1, <1>3, <1>4
    <2>2. s[1].first <= p
      BY <1>2, <1>4, <2>1 DEF Follows
    <2>3. s[1] \in Frames
      BY <2>1
    <2>4. s[1].first \in Nat
      BY <2>3, EndOfType
    <2> QED
      BY <1>2, <2>1, <2>2, <2>4
  <1>5. ASSUME NEW k \in 1..(i - 1), Stream(Cut(s, i)[k + 1])
        PROVE  Stream(Cut(s, i)[k]) /\ Cut(s, i)[k + 1].first <= EndOf(Cut(s, i)[k])
    <2>1. k \in 1..i /\ k + 1 \in 1..i /\ k \in 1..(Len(s) - 1)
      BY <1>1
    <2> QED
      BY <1>2, <1>5, <2>1 DEF Follows
  <1> QED
    BY <1>2, <1>4, <1>5 DEF Follows

LEMMA FollowsAppend ==
    ASSUME NEW s \in Seq(Frames), NEW p \in Nat, NEW q \in Nat, p <= q, Follows(s, p),
           NEW f \in Frames, Stream(f) => Reaches(s, p, f.first)
    PROVE  Follows(Append(s, f), q)
  <1> DEFINE t == Append(s, f)
  <1>1. /\ Len(s) \in Nat /\ Len(t) = Len(s) + 1 /\ t[Len(s) + 1] = f
        /\ \A j \in 1..Len(s) : t[j] = s[j]
    OBVIOUS
  <1>2. s = <<>> <=> Len(s) = 0
    OBVIOUS
  <1>f. f.first \in Nat
    BY EndOfType
  <1> HIDE DEF t
  <1>3. ASSUME Stream(t[1])  PROVE t[1].first <= q
    <2>1. CASE s = <<>>
      <3>1. t[1] = f
        BY <1>1, <1>2, <2>1
      <3> QED
        BY <1>3, <1>f, <2>1, <3>1 DEF Reaches
    <2>2. CASE s # <<>>
      <3>1. 1 \in 1..Len(s)
        BY <1>1, <1>2, <2>2
      <3>2. t[1] = s[1] /\ s[1] \in Frames
        BY <1>1, <3>1
      <3>3. s[1].first \in Nat /\ s[1].first <= p
        BY <1>3, <2>2, <3>2, EndOfType DEF Follows
      <3> QED
        BY <3>2, <3>3
    <2> QED
      BY <2>1, <2>2
  <1>4. ASSUME NEW k \in 1..(Len(t) - 1), Stream(t[k + 1])
        PROVE  Stream(t[k]) /\ t[k + 1].first <= EndOf(t[k])
    <2>1. k \in 1..Len(s) /\ t[k] = s[k] /\ s # <<>>
      BY <1>1, <1>2
    <2>2. CASE k = Len(s)
      BY <1>1, <1>4, <2>1, <2>2 DEF Reaches
    <2>3. CASE k # Len(s)
      <3>1. k \in 1..(Len(s) - 1) /\ k + 1 \in 1..Len(s)
        BY <1>1, <2>1, <2>3
      <3> QED
        BY <1>1, <1>4, <2>1, <3>1 DEF Follows
    <2> QED
      BY <2>2, <2>3
  <1> QED
    BY <1>3, <1>4 DEF Follows, t

LEMMA FollowsTail ==
    ASSUME NEW s \in Seq(Frames), NEW p \in Nat, NEW q \in Nat, Follows(s, p), s # <<>>,
           Stream(s[1]) => EndOf(s[1]) <= q
    PROVE  Follows(Tail(s), q)
  <1>1. /\ Len(s) \in Nat /\ Len(s) > 0 /\ Len(Tail(s)) = Len(s) - 1
        /\ \A j \in 1..(Len(s) - 1) : Tail(s)[j] = s[j + 1]
    OBVIOUS
  <1>2. Tail(s) # <<>> => Len(s) - 1 # 0
    <2>1. Tail(s) \in Seq(Frames)
      OBVIOUS
    <2> QED
      BY <1>1, <2>1
  <1>3. ASSUME Tail(s) # <<>>, Stream(Tail(s)[1])  PROVE Tail(s)[1].first <= q
    <2>1. 1 \in 1..(Len(s) - 1) /\ 1 \in 1..Len(s) /\ 1 + 1 \in 1..Len(s)
      BY <1>1, <1>2, <1>3
    <2>2. Tail(s)[1] = s[1 + 1]
      BY <1>1, <2>1
    <2>3. Stream(s[1]) /\ s[1 + 1].first <= EndOf(s[1])
      BY <1>3, <2>1, <2>2 DEF Follows
    <2>4. s[1] \in Frames /\ s[1 + 1] \in Frames
      BY <2>1
    <2>5. s[1 + 1].first \in Nat /\ EndOf(s[1]) \in Nat
      BY <2>4, EndOfType
    <2>6. EndOf(s[1]) <= q
      BY <2>3
    <2>7. s[1 + 1].first <= q
      BY ONLY q \in Nat, <2>3, <2>5, <2>6
    <2> QED
      BY ONLY <2>2, <2>7
  <1>4. ASSUME NEW k \in 1..(Len(s) - 2), Stream(Tail(s)[k + 1])
        PROVE  Stream(Tail(s)[k]) /\ Tail(s)[k + 1].first <= EndOf(Tail(s)[k])
    <2>1. k \in 1..(Len(s) - 1) /\ k + 1 \in 1..(Len(s) - 1)
      BY <1>1
    <2> QED
      BY <1>1, <1>4, <2>1 DEF Follows
  <1>5. Len(Tail(s)) - 1 = Len(s) - 2
    BY <1>1
  <1> QED
    BY <1>3, <1>4, <1>5 DEF Follows

\* The sender goes on to w, at once or when it is connected again.
Goes(w) == spc = w \/ (spc \in {"connect", "welcome", "snapshot", "resend"} /\ then = w)
\* What goes again ends with the last item sent.
Resending ==
    /\ \A k \in 1..Len(resend) : Sound(resend[k], sent, ended) /\ Stream(resend[k])
    /\ \A k \in 1..(Len(resend) - 1) : resend[k + 1].first <= EndOf(resend[k])
    /\ resend # <<>> => EndOf(resend[Len(resend)]) = sent
\* What the sender holds at each place of run().
Ready ==
    /\ spc = "finish" => last /\ hand = <<>>
    /\ Goes("drain") => ended
    /\ Goes("write") => Sound(frame, sent, ended) /\ Stream(frame) /\ EndOf(frame) = sent
    /\ spc = "resend" => Resending

LEMMA SnapshotResends ==
    ASSUME Typed, Kept, Snapshot
    PROVE  /\ Resending'
           /\ resend' = <<>> => acked >= sent
           /\ resend' # <<>> => resend'[1].first <= acked
  <1>0. unacked \in Seq(Frames) /\ sent \in Nat /\ Len(unacked) \in Nat /\ acked \in Nat
    BY DEF Typed, SenderTypes
  <1>1. UNCHANGED <<sent, acked, unacked, ended>> /\ resend' = FramesAgain
    BY DEF Snapshot, senderVars
  <1> DEFINE m == Len(unacked)
  <1>2. CASE ~ended
    <2>1. resend' = unacked
      <3>1. FramesAgain = unacked \o <<>>
        BY <1>2 DEF FramesAgain
      <3> QED
        BY <1>0, <1>1, <3>1
    <2>2. ASSUME NEW k \in 1..(m - 1)  PROVE unacked[k + 1].first <= EndOf(unacked[k])
      <3>1. k + 1 \in 1..m
        BY <1>0
      <3>2. unacked[k + 1] \in Frames
        BY <1>0, <3>1
      <3>3. unacked[k + 1].first \in Nat
        BY <3>2, EndOfType
      <3>4. unacked[k + 1].first = EndOf(unacked[k])
        BY DEF Kept
      <3> QED
        BY ONLY <3>3, <3>4
    <2> QED
      BY <1>1, <2>1, <2>2 DEF Resending, Kept, Stream
  <1>3. CASE ended
    <2> DEFINE e == End(sent)
    <2>1. e \in Frames /\ e.kind = "END" /\ e.first = sent /\ e.items = <<>> /\ EndOf(e) = sent
      BY <1>0, FrameTypes DEF End, EndOf
    <2>2. resend' = Append(unacked, e)
      BY <1>0, <1>1, <1>3, <2>1 DEF FramesAgain
    <2> HIDE DEF e
    <2>3. /\ Len(resend') = m + 1 /\ resend'[m + 1] = e
          /\ \A i \in 1..m : resend'[i] = unacked[i]
      BY <1>0, <2>1, <2>2
    <2>4. Sound(e, sent, ended) /\ Stream(e)
      BY <1>3, <2>1 DEF Sound, Stream
    <2>5. ASSUME NEW k \in 1..Len(resend')  PROVE Sound(resend'[k], sent, ended) /\ Stream(resend'[k])
      <3>1. k \in 1..m \/ k = m + 1
        BY <1>0, <2>3
      <3> QED
        BY <2>3, <2>4, <3>1 DEF Kept, Stream
    <2>6. ASSUME NEW k \in 1..(Len(resend') - 1)  PROVE resend'[k + 1].first <= EndOf(resend'[k])
      <3>1. CASE k = m
        <4>1. unacked # <<>>
          BY <1>0, <3>1
        <4>2. EndOf(unacked[m]) = sent
          BY <4>1 DEF Kept
        <4>3. resend'[k + 1].first = sent /\ EndOf(resend'[k]) = sent
          BY <2>1, <2>3, <3>1, <4>2
        <4> QED
          BY <1>0, <4>3
      <3>2. CASE k # m
        <4>1. k \in 1..(m - 1) /\ k \in 1..m /\ k + 1 \in 1..m
          BY <1>0, <2>3, <3>2
        <4>2. unacked[k + 1].first = EndOf(unacked[k])
          BY <4>1 DEF Kept
        <4>3. unacked[k + 1] \in Frames
          BY <1>0, <4>1
        <4>4. unacked[k + 1].first \in Nat
          BY <4>3, EndOfType
        <4> QED
          BY <2>3, <4>1, <4>2, <4>4
      <3> QED
        BY <3>1, <3>2
    <2>7. resend'[1].first <= acked
      <3>1. CASE unacked = <<>>
        <4>1. resend'[1] = e
          BY <2>3, <3>1
        <4> QED
          BY <1>0, <2>1, <3>1, <4>1 DEF Kept
      <3>2. CASE unacked # <<>>
        <4>1. 1 \in 1..m
          BY <1>0, <3>2
        <4> QED
          BY <2>3, <3>2, <4>1 DEF Kept
      <3> QED
        BY <3>1, <3>2
    <2>8. EndOf(resend'[Len(resend')]) = sent /\ resend' # <<>>
      BY <1>0, <2>1, <2>2, <2>3
    <2> QED
      BY <1>1, <2>5, <2>6, <2>7, <2>8 DEF Resending
  <1> QED
    BY <1>2, <1>3

LEMMA ResendHead ==
    ASSUME Typed, Ready, Resend
    PROVE  /\ Head(resend) = resend[1] /\ resend[1] \in Frames /\ Sound(resend[1], sent, ended)
           /\ Stream(resend[1])
           /\ Resending' /\ resend' = Tail(resend)
           /\ resend' = <<>> => EndOf(resend[1]) = sent
           /\ resend' # <<>> => resend'[1].first <= EndOf(resend[1])
           /\ UNCHANGED <<sent, ended, spc, then, frame, sock, hand, last>>
  <1>0. resend \in Seq(Frames) /\ Len(resend) \in Nat
    BY DEF Typed, ControlTypes
  <1>1. /\ spc = "resend" /\ resend # <<>> /\ resend' = Tail(resend)
        /\ UNCHANGED <<sent, ended, spc, then, frame, sock, hand, last>>
    BY DEF Resend, senderVars
  <1>2. Resending
    BY <1>1 DEF Ready
  <1>3. /\ Len(resend) > 0 /\ Len(resend') = Len(resend) - 1 /\ Head(resend) = resend[1]
        /\ \A j \in 1..(Len(resend) - 1) : resend'[j] = resend[j + 1]
    BY <1>0, <1>1
  <1>4. 1 \in 1..Len(resend) /\ resend[1] \in Frames
    BY <1>0, <1>3
  <1>5. Sound(resend[1], sent, ended) /\ Stream(resend[1])
    BY <1>2, <1>4 DEF Resending
  <1>6. resend' \in Seq(Frames) /\ (resend' = <<>> <=> Len(resend) = 1)
    <2>1. resend' \in Seq(Frames)
      BY <1>0, <1>1
    <2>2. resend' = <<>> <=> Len(resend') = 0
      BY <2>1
    <2> QED
      BY <1>0, <1>3, <2>1, <2>2
  <1>7. resend' = <<>> => EndOf(resend[1]) = sent
    BY <1>1, <1>2, <1>6 DEF Resending
  <1>8. resend' # <<>> => /\ resend'[1].first <= EndOf(resend[1])
                          /\ EndOf(resend'[Len(resend')]) = sent
    <2> SUFFICES ASSUME resend' # <<>>  PROVE /\ resend'[1].first <= EndOf(resend[1])
                                              /\ EndOf(resend'[Len(resend')]) = sent
      OBVIOUS
    <2>1. 1 \in 1..(Len(resend) - 1) /\ Len(resend') \in 1..(Len(resend) - 1) /\ Len(resend') + 1 = Len(resend)
      BY <1>0, <1>3, <1>6
    <2>2. resend'[1] = resend[1 + 1] /\ resend'[Len(resend')] = resend[Len(resend)]
      BY <1>3, <2>1
    <2> QED
      BY <1>1, <1>2, <2>1, <2>2 DEF Resending
  <1>9. ASSUME NEW k \in 1..Len(resend')  PROVE Sound(resend'[k], sent, ended) /\ Stream(resend'[k])
    <2>1. k \in 1..(Len(resend) - 1) /\ k + 1 \in 1..Len(resend)
      BY <1>0, <1>3
    <2> QED
      BY <1>2, <1>3, <2>1 DEF Resending
  <1>10. ASSUME NEW k \in 1..(Len(resend') - 1)  PROVE resend'[k + 1].first <= EndOf(resend'[k])
    <2>1. k \in 1..(Len(resend) - 1) /\ k + 1 \in 1..(Len(resend) - 1)
      BY <1>0, <1>3
    <2> QED
      BY <1>2, <1>3, <2>1 DEF Resending
  <1>11. Resending'
    BY <1>1, <1>8, <1>9, <1>10 DEF Resending
  <1> QED
    BY <1>1, <1>3, <1>4, <1>5, <1>7, <1>8, <1>11

LEMMA ReadyStep ==
    ASSUME Typed, Inbox, Kept, Ready, [Next]_vars
    PROVE  Ready'
  <1>0. /\ sent \in Nat /\ sent' \in Nat /\ then \in {"pop", "room", "write", "drain"}
        /\ \A f : Sound(f, sent, ended) => Sound(f, sent', ended')
    BY SentStep, SoundStep DEF Typed, ControlTypes
  <1>1. ASSUME spc' \in Away  PROVE Ready'
    BY <1>1 DEF Ready, Goes, Away
  <1>2. ASSUME UNCHANGED <<spc, then, frame, resend, sock>>  PROVE Ready'
    <2>1. CASE Pop \/ MakeFrame \/ Finish
      <3>1. Pop /\ spc = "pop"
        BY <1>2, <2>1 DEF Pop, MakeFrame, Finish
      <3> QED
        BY <1>2, <3>1 DEF Ready, Goes
    <2>2. CASE Produce \/ CloseOutput \/ UNCHANGED <<produced, closed, inq, hand, last, sent, ended>>
      <3>1. UNCHANGED <<hand, last, sent, ended>>
        BY <2>2 DEF Produce, CloseOutput, controlVars, senderVars
      <3>2. Resending => Resending'
        BY <1>2, <3>1 DEF Resending
      <3> QED
        BY <1>2, <3>1, <3>2 DEF Ready, Goes
    <2> QED
      BY <2>1, <2>2, StreamTouched
  <1>3. ASSUME Pop  PROVE Ready'
    <2>1. spc' \in {"pop", "room", "finish"} /\ (spc' = "finish" => last' /\ hand' = <<>>)
      BY <1>3 DEF Pop, AfterLast
    <2> QED
      BY <2>1 DEF Ready, Goes
  <1>4. ASSUME MakeFrame  PROVE Ready'
    <2>1. spc' = "write"
      BY <1>4 DEF MakeFrame
    <2>2. Sound(frame', sent', ended') /\ frame'.kind = "DATA" /\ EndOf(frame') = sent'
      BY <1>4, FrameMade DEF Inbox
    <2>3. Stream(frame')
      BY <2>2 DEF Stream
    <2> QED
      BY <2>1, <2>2, <2>3 DEF Ready, Goes
  <1>5. ASSUME Finish  PROVE Ready'
    <2>1. spc' = "write" /\ frame' = End(sent) /\ ended' /\ sent' = sent
      BY <1>5 DEF Finish
    <2> DEFINE e == End(sent)
    <2>2. e \in Frames /\ e.kind = "END" /\ e.first = sent /\ e.items = <<>> /\ EndOf(e) = sent
      BY <1>0, FrameTypes DEF End, EndOf
    <2> HIDE DEF e
    <2>3. Sound(frame', sent', ended') /\ Stream(frame') /\ EndOf(frame') = sent'
      BY <2>1, <2>2 DEF Sound, Stream, e
    <2> QED
      BY <2>1, <2>3 DEF Ready, Goes
  <1>6. ASSUME Transmit  PROVE Ready'
    <2>1. /\ spc = "write" /\ UNCHANGED <<last, hand, ended>>
          /\ spc' = IF frame.kind = "END" THEN "drain" ELSE IF hand # <<>> THEN "room" ELSE AfterSend
      BY <1>6 DEF Transmit
    <2>2. Sound(frame, sent, ended)
      BY <2>1 DEF Ready, Goes
    <2>3. /\ spc' \in {"drain", "room", "pop", "finish"}
          /\ spc' = "drain" => ended'
          /\ spc' = "finish" => last' /\ hand' = <<>>
      BY <2>1, <2>2 DEF AfterSend, Sound
    <2> QED
      BY <2>3 DEF Ready, Goes
  <1>7. ASSUME Snapshot  PROVE Ready'
    <2>1. spc = "snapshot" /\ spc' = "resend" /\ UNCHANGED <<then, frame, sent, ended, last, hand>>
      BY <1>7 DEF Snapshot, senderVars
    <2>2. Resending'
      BY <1>7, SnapshotResends
    <2> QED
      BY <2>1, <2>2 DEF Ready, Goes
  <1>8. ASSUME Resend  PROVE Ready'
    <2>1. Resending' /\ UNCHANGED <<sent, ended, spc, then, frame, sock, hand, last>>
      BY <1>8, ResendHead
    <2> QED
      BY <2>1 DEF Ready, Goes
  <1>9. ASSUME Resent  PROVE Ready'
    <2>1. spc = "resend" /\ spc' = then /\ UNCHANGED <<frame, sent, ended>>
      BY <1>9 DEF Resent
    <2> QED
      BY <1>0, <2>1 DEF Ready, Goes
  <1>10. ASSUME Welcomed \/ Connect \/ ConnectFails \/ WelcomeTimesOut  PROVE Ready'
    <2>1. /\ spc \in {"connect", "welcome"} /\ spc' \in {"connect", "welcome", "snapshot"}
          /\ UNCHANGED <<then, frame, sent, ended>>
      BY <1>10 DEF Welcomed, Connect, Dials, ConnectFails, WelcomeTimesOut, RetryConnect, senderVars
    <2> QED
      BY <2>1 DEF Ready, Goes
  <1>11. ASSUME TransmitFails \/ ResendFails \/ WaitReconnects  PROVE Ready'
    <2>1. /\ spc' = "connect" /\ Goes(then') /\ UNCHANGED <<frame, sent, ended>>
      BY <1>11 DEF TransmitFails, ResendFails, WaitReconnects, Reconnects, Goes
    <2> QED
      BY <2>1 DEF Ready, Goes
  <1> QED
    BY <1>1, <1>2, <1>3, <1>4, <1>5, <1>6, <1>7, <1>8, <1>9, <1>10, <1>11, ControlCases

\* What is put on the wire is sound.
LEMMA PutsSound ==
    ASSUME Typed, Ready, NEW c, NEW f, Puts(c, f)
    PROVE  f \in Frames /\ Sound(f, sent, ended) /\ c \in {sock, made}
  <1>1. CASE Transmit /\ c = sock /\ f = frame
    BY <1>1 DEF Transmit, Ready, Goes, Puts
  <1>2. CASE Resend /\ c = sock /\ f = Head(resend)
    BY <1>2, ResendHead
  <1>3. CASE f \in {Torn, Error} /\ c \in {sock, made}
    <2>1. Torn \in Frames /\ Torn.kind = "TORN" /\ Error \in Frames /\ Error.kind = "ERROR"
      BY FrameTypes DEF Torn, Error
    <2> QED
      BY <1>3, <2>1 DEF Sound
  <1> QED
    BY <1>1, <1>2, <1>3 DEF Puts

LEMMA OnWireStep ==
    ASSUME Typed, Inbox, Ready, OnWire, Unmade, [Next]_vars
    PROVE  OnWire' /\ Unmade'
  <1>0. /\ \A f : Sound(f, sent, ended) => Sound(f, sent', ended')
        /\ made \in Nat /\ made' \in Nat /\ made <= made' /\ sock \in Nat /\ sock <= made
    BY SoundStep, MadeStep DEF Typed, WireTypes, SenderTypes
  <1>1. ASSUME NEW c \in Conns
        PROVE  /\ \A k \in 1..Len(conn'[c].fwd) : Sound(conn'[c].fwd[k], sent', ended')
               /\ c > made' => conn'[c].fwd = <<>>
    <2> DEFINE s == conn[c].fwd
               t == conn'[c].fwd
               Good == /\ \A k \in 1..Len(t) : Sound(t[k], sent', ended')
                       /\ c > made' => t = <<>>
    <2>1. s \in Seq(Frames) /\ Len(s) \in Nat /\ c \in Nat
      BY ServedTypes DEF Conns
    <2>2. (\A k \in 1..Len(s) : Sound(s[k], sent', ended')) /\ (c > made' => s = <<>>)
      BY <1>0, <2>1 DEF OnWire, Unmade
    <2> HIDE DEF s, t
    <2>3. ASSUME NEW i \in 0..Len(s), t = Cut(s, i)  PROVE Good
      <3>1. i \in Nat /\ i <= Len(s) /\ 1..i \subseteq 1..Len(s)
        BY <2>1
      <3>2. Len(t) = i /\ \A j \in 1..i : t[j] = s[j]
        BY <2>1, <2>3, <3>1, CutType
      <3>3. s = <<>> => t = <<>>
        <4>1. s = <<>> => i = 0
          BY <3>1
        <4>2. Cut(s, 0) = <<>>
          BY <2>1, CutWhole
        <4> QED
          BY <2>3, <4>1, <4>2
      <3> QED
        BY <2>2, <3>1, <3>2, <3>3
    <2>4. ASSUME NEW f, Puts(c, f), t = Append(s, f)  PROVE Good
      <3>1. f \in Frames /\ Sound(f, sent, ended) /\ c \in {sock, made}
        BY <2>4, PutsSound
      <3>2. ~(c > made')
        BY <1>0, <3>1
      <3>3. /\ Len(t) = Len(s) + 1 /\ t[Len(s) + 1] = f /\ \A j \in 1..Len(s) : t[j] = s[j]
            /\ \A j \in 1..Len(t) : j \in 1..Len(s) \/ j = Len(s) + 1
        BY <2>1, <2>4, <3>1
      <3> QED
        BY <1>0, <2>2, <3>1, <3>2, <3>3
    <2>5. ASSUME s # <<>>, t = Tail(s)  PROVE Good
      <3>1. Len(t) = Len(s) - 1 /\ \A j \in 1..Len(t) : t[j] = s[j + 1] /\ j + 1 \in 1..Len(s)
        BY <2>1, <2>5
      <3> QED
        BY <2>2, <2>5, <3>1
    <2> HIDE DEF Good
    <2>6. Good
      BY <2>3, <2>4, <2>5, FwdStep DEF s, t
    <2> QED
      BY <2>6 DEF Good, s, t
  <1> QED
    BY <1>1 DEF OnWire, Unmade

\* A connection that was just made has nothing on it.
Fresh == spc = "welcome" => conn[made].fwd = <<>>

LEMMA FreshStep ==
    ASSUME Typed, Unmade, Fresh, [Next]_vars
    PROVE  Fresh'
  <1> SUFFICES ASSUME spc' = "welcome"  PROVE conn'[made'].fwd = <<>>
    BY DEF Fresh
  <1>0. made \in Nat /\ made \in 0..MaxConns /\ \A c \in 1..MaxConns : c \in Conns
    BY Sizes DEF Conns, Typed, WireTypes
  <1>1. Connect \/ UNCHANGED spc
    BY ControlCases DEF Away, Pop, AfterLast, MakeFrame, Finish, Transmit, AfterSend, Snapshot, Resend,
       Resent, Welcomed, ConnectFails, WelcomeTimesOut, RetryConnect, TransmitFails, ResendFails,
       WaitReconnects, Reconnects, Typed, ControlTypes
  <1>2. CASE Connect
    <2>1. made' = made + 1 /\ made + 1 <= MaxConns /\ conn' = conn
      BY <1>0, <1>2, Sizes DEF Connect, Dials
    <2>2. made' \in Conns /\ made' > made
      BY <1>0, <2>1, Sizes
    <2> QED
      BY <2>1, <2>2 DEF Unmade
  <1>3. CASE UNCHANGED spc
    <2>1. spc = "welcome" /\ made # 0
      BY <1>3 DEF Typed, Places
    <2>2. made \in Conns /\ conn[made].fwd = <<>>
      BY <1>0, <2>1, Sizes DEF Fresh
    <2>3. made' = made
      BY <1>3, <2>1, DialTouched DEF Connect, CallBack, Dials, Accept
    <2>4. \A f : ~Puts(made, f)
      BY <1>3, <2>1 DEF Puts, Transmit, Resend, Quit, SayGoodbye, Farewell
    <2>5. PICK i \in 0..Len(conn[made].fwd) : conn'[made].fwd = Cut(conn[made].fwd, i)
      BY <2>2, <2>4, FwdStep
    <2>6. i = 0 /\ <<>> \in Seq(Frames)
      BY <2>2, <2>5
    <2> QED
      BY <2>2, <2>3, <2>5, <2>6, CutWhole
  <1> QED
    BY <1>1, <1>2, <1>3

LEMMA BrokenStep ==
    ASSUME Typed, [Next]_vars, NEW c \in Conns
    PROVE  conn[c].broken => conn'[c].broken
  <1>1. CASE Losing
    BY <1>1 DEF Losing, AllShrink, Shrinks
  <1>2. CASE Writing
    <2>1. \A d, f : d \in Conns /\ Takes(d, f) => conn'[c].broken = conn[c].broken
      BY DEF Takes
    <2> QED
      BY <1>2, <2>1 DEF Writing
  <1>3. CASE Hearing
    BY <1>3 DEF Hearing, Hears
  <1>4. CASE Answering
    <2>1. \A d, r : d \in Conns /\ Answered(d, r) => conn'[c].broken = conn[c].broken
      BY DEF Answered
    <2> QED
      BY <1>4, <2>1 DEF Answering
  <1>5. CASE Taking
    BY <1>5 DEF Taking, Reads
  <1>6. CASE Hanging
    BY <1>6 DEF Hanging, Hangs
  <1> QED
    BY <1>1, <1>2, <1>3, <1>4, <1>5, <1>6, ConnStep

\* The connection of a sender that stays connected with nothing to do with it.
LEMMA SockFwdStep ==
    ASSUME Typed, [Next]_vars, NEW c \in Conns, ~Transmit, ~Resend,
           UNCHANGED <<spc, sock>>, Connected
    PROVE  \/ conn'[c].broken \/ conn'[c].rclosed
           \/ conn'[c].fwd = conn[c].fwd
           \/ Taking /\ c = rsock /\ conn[c].fwd # <<>> /\ conn'[c].fwd = Tail(conn[c].fwd)
  <1> DEFINE Good == \/ conn'[c].broken \/ conn'[c].rclosed
                     \/ conn'[c].fwd = conn[c].fwd
                     \/ Taking /\ c = rsock /\ conn[c].fwd # <<>> /\ conn'[c].fwd = Tail(conn[c].fwd)
  <1>1. ~Quit /\ ~SayGoodbye /\ ~Farewell /\ ~ConnectFails /\ ~WelcomeTimesOut /\ ~Leave /\ ~ConnectTimesOut
    BY DEF Quit, SayGoodbye, Farewell, ConnectFails, WelcomeTimesOut, Leave, ConnectTimesOut, Connected
  <1>2. ~TransmitFails /\ ~ResendFails /\ ~WaitReconnects /\ ~Done /\ ~WaitTimesOut /\ ~Welcomed
    BY DEF TransmitFails, ResendFails, WaitReconnects, Reconnects, Done, WaitTimesOut, Welcomed, Connected
  <1>3. ASSUME \E d \in Conns : ReadAck(d) \/ ReadError(d)  PROVE Good
    <2>1. \A d : d \in Conns /\ Hears(d) => conn'[c].fwd = conn[c].fwd
      BY DEF Hears
    <2> QED
      BY <1>3, <2>1, SenderConn
  <1>4. ASSUME Accept \/ AckFrame \/ Heartbeat  PROVE Good
    <2>1. \A d, r : d \in Conns /\ Answered(d, r) => conn'[c].fwd = conn[c].fwd
      BY DEF Answered
    <2> QED
      BY <1>4, <2>1, ReceiverConn
  <1>5. ASSUME ReceiveData \/ ReceiveEnd  PROVE Good
    <2>1. Taking
      BY <1>5, ReceiverConn DEF Taking
    <2> QED
      BY <2>1 DEF Taking, Reads
  <1>6. ASSUME CloseSocket \/ ReceiveError \/ QuitReceiver  PROVE Good
    <2>1. conn' = conn \/ Hanging
      BY <1>6, ReceiverConn DEF Hanging
    <2> QED
      BY <2>1 DEF Hanging, Hangs
  <1>7. ASSUME Drop \/ Outage  PROVE Good
    <2>1. PICK cs : Break(cs)
      BY <1>7 DEF Drop, Outage
    <2>2. conn'[c] = conn[c] \/ conn'[c].broken
      BY <2>1, BreakShrinks DEF Typed, WireTypes
    <2> QED
      BY <2>2
  <1>8. conn' = conn => Good
    OBVIOUS
  <1> HIDE DEF Good
  <1>9. Good
    BY <1>1, <1>2, <1>3, <1>4, <1>5, <1>6, <1>7, <1>8, ConnTouched
  <1> QED
    BY <1>9 DEF Good

LEMMA ReachesMore ==
    ASSUME NEW s \in Seq(Frames), NEW p \in Nat, NEW q \in Nat, p <= q,
           NEW n \in Nat, NEW m \in Nat, m <= n, Reaches(s, p, n)
    PROVE  Reaches(s, q, m)
  <1>1. CASE s = <<>>
    BY <1>1 DEF Reaches
  <1>2. CASE s # <<>>
    <2>1. s[Len(s)] \in Frames
      BY <1>2
    <2>2. EndOf(s[Len(s)]) \in Nat
      BY <2>1, EndOfType
    <2>3. Stream(s[Len(s)]) /\ n <= EndOf(s[Len(s)])
      BY <1>2 DEF Reaches
    <2>4. m <= EndOf(s[Len(s)])
      BY ONLY <2>2, <2>3, n \in Nat, m \in Nat, m <= n
    <2> QED
      BY <1>2, <2>3, <2>4 DEF Reaches
  <1> QED
    BY <1>1, <1>2

LEMMA ReachesAppend ==
    ASSUME NEW s \in Seq(Frames), NEW f \in Frames, Stream(f), NEW q, NEW m, m <= EndOf(f)
    PROVE  Reaches(Append(s, f), q, m)
  <1>1. Append(s, f) # <<>> /\ Append(s, f)[Len(Append(s, f))] = f
    OBVIOUS
  <1> QED
    BY <1>1 DEF Reaches

LEMMA ReachesTail ==
    ASSUME NEW s \in Seq(Frames), s # <<>>, NEW p \in Nat, NEW q \in Nat, NEW n \in Nat,
           Reaches(s, p, n), EndOf(s[1]) <= q
    PROVE  Reaches(Tail(s), q, n)
  <1>1. /\ Len(s) \in Nat /\ Len(s) > 0 /\ Tail(s) \in Seq(Frames) /\ Len(Tail(s)) = Len(s) - 1
        /\ \A j \in 1..(Len(s) - 1) : Tail(s)[j] = s[j + 1]
    OBVIOUS
  <1>2. Stream(s[Len(s)]) /\ n <= EndOf(s[Len(s)])
    BY DEF Reaches
  <1>3. CASE Tail(s) = <<>>
    <2>1. Len(s) = 1
      <3>1. PICK t \in Seq(Frames) : t = Tail(s)
        BY <1>1
      <3>2. t = <<>> => Len(t) = 0
        OBVIOUS
      <3>3. Len(t) = 0
        BY <1>3, <3>1, <3>2
      <3>4. Len(t) = Len(s) - 1 /\ Len(s) \in Nat
        BY <1>1, <3>1
      <3> QED
        BY ONLY <3>3, <3>4
    <2>2. s[1] \in Frames
      BY <1>1, <2>1
    <2>3. EndOf(s[1]) \in Nat
      BY <2>2, EndOfType
    <2>4. n <= EndOf(s[1])
      BY <1>2, <2>1
    <2>5. n <= q
      BY ONLY <2>3, <2>4, EndOf(s[1]) <= q, n \in Nat, q \in Nat
    <2> QED
      BY <1>3, <2>5 DEF Reaches
  <1>4. CASE Tail(s) # <<>>
    <2>1. Len(Tail(s)) # 0
      BY <1>1, <1>4
    <2>2. Len(s) - 1 \in 1..(Len(s) - 1) /\ Len(s) - 1 + 1 = Len(s)
      BY <1>1, <2>1
    <2>3. Tail(s)[Len(Tail(s))] = s[Len(s)]
      BY <1>1, <2>2
    <2> QED
      BY <1>2, <1>4, <2>3 DEF Reaches
  <1> QED
    BY <1>3, <1>4

\* What is read goes as far as the receiver gets with it.
LEMMA TakenEnd ==
    ASSUME Typed, OnWire, [Next]_vars, Taking, NEW c, c = rsock
    PROVE  EndOf(conn[c].fwd[1]) <= Pos(c)'
  <1>0. Typed'
    BY TypedStep
  <1>1. expected' \in Nat /\ upto' \in Nat /\ c \in Conns /\ conn[c].fwd # <<>>
    BY <1>0 DEF Typed, ReceiverTypes, Taking, Reads
  <1> DEFINE f == conn[c].fwd[1]
  <1>2. Sound(f, sent, ended) /\ Head(conn[c].fwd) = f
    BY <1>1, HeadSound
  <1>3. f \in Frames
    BY <1>2 DEF Sound
  <1> HIDE DEF f
  <1>4. CASE ReceiveData
    <2>1. rsock' = c /\ rpc' = "deliver" /\ upto' = EndOf(f)
      BY <1>2, <1>4 DEF ReceiveData, First, EndOf
    <2>2. Pos(c)' = Larger(expected', upto')
      BY <2>1 DEF Pos
    <2> QED
      BY <1>1, <2>1, <2>2, LargerType DEF f
  <1>5. CASE ReceiveEnd
    <2>1. f.kind = "END" /\ f.first <= expected /\ expected' = expected
      BY <1>2, <1>5 DEF ReceiveEnd, Incoming, First
    <2>2. f.items = <<>> /\ f.first \in Nat
      BY <1>2, <1>3, <2>1, EndOfType DEF Sound
    <2>3. EndOf(f) = f.first
      BY <2>2 DEF EndOf
    <2>4. expected' <= Pos(c)' /\ Pos(c)' \in Nat
      BY <1>1, LargerType DEF Pos
    <2> QED
      BY <1>1, <2>1, <2>2, <2>3, <2>4 DEF f
  <1> QED
    BY <1>4, <1>5 DEF Taking

\* Where the next frame that run() writes will start, at the latest.
NextFirst ==
    CASE spc = "resend" /\ resend # <<>> -> resend[1].first
      [] spc = "write" -> frame.first
      [] OTHER -> sent
\* The open connection holds no stream yet, or one that the next frame may follow.
Flowing ==
    Connected /\ ~Deaf(sock) =>
        IF spc = "snapshot" THEN conn[sock].fwd = <<>>
        ELSE Reaches(conn[sock].fwd, Pos(sock), NextFirst)

LEMMA InTurnStep ==
    ASSUME Typed, Queue, OnWire, Ready, Flowing, InTurn, [Next]_vars
    PROVE  InTurn'
  <1> SUFFICES ASSUME NEW c \in Conns, ~conn'[c].rclosed  PROVE Follows(conn'[c].fwd, Pos(c)')
    BY DEF InTurn
  <1>1. ~conn[c].rclosed
    BY RclosedStep DEF Typed, WireTypes, Connections
  <1>2. Follows(conn[c].fwd, Pos(c)) /\ conn[c].fwd \in Seq(Frames)
    BY <1>1, ServedTypes DEF InTurn
  <1>3. Pos(c) \in Nat /\ Pos(c)' \in Nat /\ Pos(c) <= Pos(c)'
    <2>1. expected' \in Nat /\ upto' \in Nat
      BY TypedStep DEF Typed, ReceiverTypes
    <2>2. Pos(c)' \in Nat
      BY <2>1, LargerType DEF Pos
    <2> QED
      BY <2>2, PosType, PosStep
  <1>4. PICK q \in Nat : q = Pos(c)'
    BY <1>3
  <1>5. ASSUME NEW i \in 0..Len(conn[c].fwd), conn'[c].fwd = Cut(conn[c].fwd, i)
        PROVE  Follows(conn'[c].fwd, q)
    BY <1>2, <1>3, <1>4, <1>5, FollowsCut
  <1>6. ASSUME NEW f, Puts(c, f), conn'[c].fwd = Append(conn[c].fwd, f)
        PROVE  Follows(conn'[c].fwd, q)
    <2>1. f \in Frames /\ ~Deaf(c)
      BY <1>6 DEF Puts
    <2>2. Stream(f) => Reaches(conn[c].fwd, Pos(c), f.first)
      <3>1. CASE Transmit /\ c = sock /\ f = frame
        <4>1. Connected /\ spc = "write" /\ NextFirst = frame.first
          BY <3>1 DEF Transmit, Connected, NextFirst
        <4> QED
          BY <2>1, <3>1, <4>1 DEF Flowing
      <3>2. CASE Resend /\ c = sock /\ f = Head(resend)
        <4>1. Connected /\ spc = "resend" /\ NextFirst = resend[1].first
          BY <3>2 DEF Resend, Connected, NextFirst
        <4>2. Head(resend) = resend[1]
          BY <3>2, ResendHead
        <4> QED
          BY <2>1, <3>2, <4>1, <4>2 DEF Flowing
      <3>3. CASE f \in {Torn, Error}
        BY <3>3 DEF Torn, Error, Stream
      <3> QED
        BY <1>6, <3>1, <3>2, <3>3 DEF Puts
    <2> QED
      BY <1>2, <1>3, <1>4, <1>6, <2>1, <2>2, FollowsAppend
  <1>7. ASSUME c = rsock, conn[c].fwd # <<>>, conn'[c].fwd = Tail(conn[c].fwd), Taking \/ Hanging
        PROVE  Follows(conn'[c].fwd, q)
    <2>1. Taking
      BY <1>7 DEF Hanging, Hangs
    <2>2. EndOf(conn[c].fwd[1]) <= q
      BY <1>4, <1>7, <2>1, TakenEnd
    <2> QED
      BY <1>2, <1>3, <1>7, <2>2, FollowsTail
  <1>8. Follows(conn'[c].fwd, q)
    BY <1>5, <1>6, <1>7, FwdStep
  <1> QED
    BY <1>4, <1>8

LEMMA NextFirstType ==
    ASSUME Typed
    PROVE  NextFirst \in Nat
  <1>1. /\ sent \in Nat /\ frame \in Frames /\ resend \in Seq(Frames)
    BY DEF Typed, SenderTypes, ControlTypes
  <1>2. frame.first \in Nat /\ (resend # <<>> => resend[1].first \in Nat)
    <2>1. resend # <<>> => resend[1] \in Frames
      BY <1>1
    <2> QED
      BY <1>1, <2>1, EndOfType
  <1> QED
    BY <1>1, <1>2 DEF NextFirst

\* The steps that keep the sender connected and write nothing.
LEMMA NextFirstStep ==
    ASSUME Typed, Inbox, Ready, Connected, Connected', [Next]_vars, ~Transmit, ~Resend, ~Snapshot
    PROVE  NextFirst' <= NextFirst /\ sock' = sock /\ (spc' = "snapshot" <=> spc = "snapshot")
  <1>0. sent \in Nat /\ NextFirst \in Nat /\ then \in {"pop", "room", "write", "drain"}
    BY NextFirstType DEF Typed, SenderTypes, ControlTypes
  <1>1. ASSUME Pop
        PROVE  NextFirst' <= NextFirst /\ sock' = sock /\ (spc' = "snapshot" <=> spc = "snapshot")
    <2>1. /\ spc = "pop" /\ spc' \in {"pop", "room", "finish"} /\ sock' = sock /\ sent' = sent
      BY <1>1 DEF Pop, AfterLast, senderVars
    <2> QED
      BY <1>0, <2>1 DEF NextFirst
  <1>2. ASSUME MakeFrame
        PROVE  NextFirst' <= NextFirst /\ sock' = sock /\ (spc' = "snapshot" <=> spc = "snapshot")
    <2>1. spc = "room" /\ spc' = "write" /\ sock' = sock
      BY <1>2 DEF MakeFrame
    <2>2. frame'.first = sent
      BY <1>2, FrameMade DEF Inbox
    <2> QED
      BY <1>0, <2>1, <2>2 DEF NextFirst
  <1>3. ASSUME Finish
        PROVE  NextFirst' <= NextFirst /\ sock' = sock /\ (spc' = "snapshot" <=> spc = "snapshot")
    <2>1. spc = "finish" /\ spc' = "write" /\ sock' = sock /\ frame'.first = sent
      BY <1>3 DEF Finish, End
    <2> QED
      BY <1>0, <2>1 DEF NextFirst
  <1>4. ASSUME Resent
        PROVE  NextFirst' <= NextFirst /\ sock' = sock /\ (spc' = "snapshot" <=> spc = "snapshot")
    <2>1. /\ spc = "resend" /\ resend = <<>> /\ spc' = then /\ UNCHANGED <<frame, sent, sock>>
      BY <1>4 DEF Resent
    <2>2. CASE then = "write"
      <3>1. EndOf(frame) = sent /\ frame \in Frames
        BY <2>1, <2>2 DEF Ready, Goes, Sound
      <3>2. frame.first <= sent
        BY <3>1, EndOfType
      <3> QED
        BY <2>1, <2>2, <3>2 DEF NextFirst
    <2>3. CASE then # "write"
      BY <1>0, <2>1, <2>3 DEF NextFirst
    <2> QED
      BY <2>2, <2>3
  <1>5. ASSUME UNCHANGED <<spc, then, frame, resend, sock>>
        PROVE  NextFirst' <= NextFirst /\ sock' = sock /\ (spc' = "snapshot" <=> spc = "snapshot")
    <2>1. sent' = sent
      BY <1>5, SentStep DEF MakeFrame
    <2>2. NextFirst' = NextFirst
      BY <1>5, <2>1 DEF NextFirst
    <2> QED
      BY <1>0, <1>5, <2>2
  <1>6. ~Welcomed /\ ~Connect /\ ~ConnectFails /\ ~WelcomeTimesOut
    BY DEF Welcomed, Connect, ConnectFails, WelcomeTimesOut, Connected
  <1>7. ~TransmitFails /\ ~ResendFails /\ ~WaitReconnects /\ ~(spc' \in Away)
    BY DEF TransmitFails, ResendFails, WaitReconnects, Reconnects, Connected, Away
  <1> QED
    BY <1>1, <1>2, <1>3, <1>4, <1>5, <1>6, <1>7, ControlCases

\* A frame that is written to a receiver that reads is on the connection.
LEMMA WriteAppends ==
    ASSUME Typed, Transmit \/ Resend, ~Deaf(sock)
    PROVE  conn'[sock].fwd = Append(conn[sock].fwd, IF Transmit THEN frame ELSE Head(resend))
  <1>1. sock \in Conns
    BY SenderConn
  <1>2. CASE Transmit
    BY <1>1, <1>2 DEF Transmit, Writes, Typed, WireTypes, Connections
  <1>3. CASE Resend /\ ~Transmit
    BY <1>1, <1>3 DEF Resend, Writes, Typed, WireTypes, Connections
  <1> QED
    BY <1>2, <1>3

LEMMA FlowingStep ==
    ASSUME Typed, Inbox, Queue, Told, Kept, OnWire, Ready, Fresh, Flowing, InTurn, Served, [Next]_vars
    PROVE  Flowing'
  <1> SUFFICES ASSUME Connected', ~conn'[sock'].broken, ~conn'[sock'].rclosed
               PROVE  IF spc' = "snapshot" THEN conn'[sock'].fwd = <<>>
                      ELSE Reaches(conn'[sock'].fwd, Pos(sock)', NextFirst')
    BY DEF Flowing, Deaf
  <1>1. CASE Welcomed
    <2>1. sock' = made /\ spc' = "snapshot" /\ spc = "welcome"
      BY <1>1 DEF Welcomed
    <2>2. conn'[made].fwd = conn[made].fwd
      BY <1>1, SenderConn DEF Hears
    <2> QED
      BY <2>1, <2>2 DEF Fresh
  <1>2. CASE ~Welcomed
    <2>1. Connected /\ sock' = sock
      <3>1. Pop \/ MakeFrame \/ Finish \/ Transmit \/ Snapshot \/ Resend \/ Resent => Connected /\ sock' = sock
        BY DEF Pop, MakeFrame, Finish, Transmit, Snapshot, Resend, Resent, Connected, senderVars
      <3>2. ~Connect /\ ~ConnectFails /\ ~WelcomeTimesOut
        BY DEF Connect, Dials, ConnectFails, WelcomeTimesOut, RetryConnect, Connected
      <3>3. ~TransmitFails /\ ~ResendFails /\ ~WaitReconnects /\ ~(spc' \in Away)
        BY DEF TransmitFails, ResendFails, WaitReconnects, Reconnects, Connected, Away
      <3>4. UNCHANGED <<spc, then, frame, resend, sock>> => Connected /\ sock' = sock
        BY DEF Connected
      <3> QED
        BY <1>2, <3>1, <3>2, <3>3, <3>4, ControlCases
    <2>2. PICK c \in Conns : c = sock
      BY <2>1, Sizes DEF Typed, Places, SenderTypes, WireTypes, Conns, None
    <2>3. ~conn'[c].broken /\ ~conn'[c].rclosed /\ ~Deaf(c)
      <3>1. ~conn[c].broken
        BY <2>1, <2>2, BrokenStep
      <3>2. ~conn[c].rclosed
        BY <2>1, <2>2, RclosedStep DEF Typed, WireTypes, Connections
      <3> QED
        BY <2>1, <2>2, <3>1, <3>2 DEF Deaf
    <2> DEFINE s == conn[c].fwd
               t == conn'[c].fwd
    <2>4. IF spc = "snapshot" THEN s = <<>> ELSE Reaches(s, Pos(c), NextFirst)
      BY <2>1, <2>2, <2>3 DEF Flowing
    <2>5. PICK p \in Nat, q \in Nat : p = Pos(c) /\ q = Pos(c)' /\ p <= q
      <3>1. expected' \in Nat /\ upto' \in Nat
        BY TypedStep DEF Typed, ReceiverTypes
      <3>2. Pos(c)' \in Nat
        BY <3>1, LargerType DEF Pos
      <3>3. Pos(c) <= Pos(c)'
        BY <2>3, PosStep
      <3> QED
        BY <3>2, <3>3, PosType
    <2>6. s \in Seq(Frames) /\ NextFirst \in Nat /\ NextFirst' \in Nat /\ sent \in Nat
      <3>1. Typed'
        BY TypedStep
      <3>2. /\ sent' \in Nat /\ frame' \in Frames /\ resend' \in Seq(Frames)
        BY <3>1 DEF Typed, SenderTypes, ControlTypes
      <3>3. frame'.first \in Nat /\ (resend' # <<>> => resend'[1].first \in Nat)
        <4>1. resend' # <<>> => resend'[1] \in Frames
          BY <3>2
        <4> QED
          BY <3>2, <4>1, EndOfType
      <3>4. NextFirst' \in Nat
        BY <3>2, <3>3 DEF NextFirst
      <3> QED
        BY <3>4, ServedTypes, NextFirstType
    <2> HIDE DEF s, t
    <2>7. CASE Transmit
      <3>1. spc = "write" /\ spc' \notin {"snapshot", "resend", "write"} /\ sent' = sent
        BY <2>7 DEF Transmit, AfterSend
      <3>2. frame \in Frames /\ Stream(frame) /\ EndOf(frame) = sent
        BY <3>1 DEF Ready, Goes, Sound
      <3>3. t = Append(s, frame)
        BY <2>2, <2>3, <2>7, WriteAppends DEF s, t
      <3>4. NextFirst' = sent
        BY <3>1 DEF NextFirst
      <3>5. NextFirst' <= EndOf(frame)
        BY <2>6, <3>2, <3>4
      <3>6. Reaches(t, q, NextFirst')
        BY <2>6, <3>2, <3>3, <3>5, ReachesAppend
      <3> QED
        BY <2>1, <2>2, <2>5, <3>1, <3>6 DEF t
    <2>8. CASE Resend
      <3>1. spc = "resend" /\ spc' = spc /\ sent' = sent /\ ~Transmit
        BY <2>8 DEF Resend, Transmit, senderVars
      <3> DEFINE f == resend[1]
      <3>2. /\ f \in Frames /\ Stream(f) /\ Head(resend) = f
            /\ resend' = <<>> => EndOf(f) = sent
            /\ resend' # <<>> => resend'[1].first <= EndOf(f)
        BY <2>8, ResendHead
      <3> HIDE DEF f
      <3>3. t = Append(s, f)
        BY <2>2, <2>3, <2>8, <3>1, <3>2, WriteAppends DEF s, t
      <3>4. NextFirst' <= EndOf(f)
        BY <2>6, <3>1, <3>2 DEF NextFirst
      <3>5. Reaches(t, q, NextFirst')
        BY <2>6, <3>2, <3>3, <3>4, ReachesAppend
      <3> QED
        BY <2>1, <2>2, <2>5, <3>1, <3>5 DEF t
    <2>9. CASE Snapshot
      <3>1. /\ spc = "snapshot" /\ spc' = "resend" /\ conn' = conn /\ UNCHANGED <<sent, acked>>
        BY <2>9 DEF Snapshot, wireVars, senderVars
      <3>2. NextFirst' <= acked
        BY <2>6, <2>9, <3>1, SnapshotResends DEF NextFirst, Typed, SenderTypes
      <3>3. acked <= q
        <4>1. acked <= expected /\ expected <= p /\ expected \in Nat /\ acked \in Nat
          BY <2>5, PosType DEF Told, Typed, SenderTypes
        <4> QED
          BY <2>5, <4>1
      <3>4. t = <<>> /\ NextFirst' <= q
        <4>1. t = s
          BY <3>1 DEF s, t
        <4>2. acked \in Nat
          BY DEF Typed, SenderTypes
        <4> QED
          BY <2>4, <2>6, <3>1, <3>2, <3>3, <4>1, <4>2
      <3> QED
        BY <2>1, <2>2, <2>5, <3>1, <3>4 DEF t, Reaches
    <2>10. CASE ~Transmit /\ ~Resend /\ ~Snapshot
      <3>1. NextFirst' <= NextFirst /\ (spc' = "snapshot" <=> spc = "snapshot")
        BY <2>1, <2>10, NextFirstStep
      <3>2. t = s \/ (Taking /\ c = rsock /\ s # <<>> /\ t = Tail(s))
        <4>1. CASE spc' = spc
          BY <2>1, <2>2, <2>3, <2>10, <4>1, SockFwdStep DEF s, t
        <4>2. CASE spc' # spc
          <5>1. Pop \/ MakeFrame \/ Finish \/ Resent => conn' = conn
            BY DEF Pop, MakeFrame, Finish, Resent, wireVars
          <5>2. ~Connect /\ ~ConnectFails /\ ~WelcomeTimesOut
            BY <2>1 DEF Connect, ConnectFails, WelcomeTimesOut, Connected
          <5>3. ~TransmitFails /\ ~ResendFails /\ ~WaitReconnects /\ ~(spc' \in Away)
            BY DEF TransmitFails, ResendFails, WaitReconnects, Reconnects, Connected, Away
          <5>4. conn' = conn
            BY <1>2, <2>10, <4>2, <5>1, <5>2, <5>3, ControlCases
          <5> QED
            BY <5>4 DEF s, t
        <4> QED
          BY <4>1, <4>2
      <3>3. CASE spc = "snapshot"
        <4>1. t = <<>>
          BY <2>4, <3>2, <3>3
        <4> QED
          BY <2>1, <2>2, <3>1, <3>3, <4>1 DEF t
      <3>4. CASE spc # "snapshot" /\ t = s
        <4>1. Reaches(t, q, NextFirst')
          BY <2>4, <2>5, <2>6, <3>1, <3>4, ReachesMore
        <4> QED
          BY <2>1, <2>2, <2>5, <3>1, <3>4, <4>1 DEF t
      <3>5. CASE spc # "snapshot" /\ Taking /\ c = rsock /\ s # <<>> /\ t = Tail(s)
        <4>1. EndOf(s[1]) <= q
          BY <2>5, <3>5, TakenEnd DEF s
        <4>2. Reaches(t, q, NextFirst)
          BY <2>4, <2>5, <2>6, <3>5, <4>1, ReachesTail
        <4>3. t \in Seq(Frames)
          BY <2>6, <3>5
        <4>4. q <= q
          BY <2>5
        <4>5. Reaches(t, q, NextFirst')
          BY <2>5, <2>6, <3>1, <4>2, <4>3, <4>4, ReachesMore
        <4> QED
          BY <2>1, <2>2, <2>5, <3>1, <3>5, <4>5 DEF t
      <3> QED
        BY <3>2, <3>3, <3>4, <3>5
    <2> QED
      BY <2>7, <2>8, <2>9, <2>10
  <1> QED
    BY <1>1, <1>2
-----------------------------------------------------------------------------
(* Where the stream is over.                                               *)

\* An end is done only when the local node has every item that was sent.
Complete == ended /\ Len(passed) = sent
Finished ==
    /\ verdict["in"] = "done" => rpc = "over"
    /\ verdict["in"] = "done" \/ verdict["out"] = "done" => Complete

LEMMA OverStays ==
    ASSUME [Next]_vars
    PROVE  rpc = "over" => rpc' = "over"
  BY StageStep DEF ReceiveData, Incoming, Reading, AckFrame, ReceiveEnd

LEMMA FinishedStep ==
    ASSUME Typed, Inbox, Told, Ready, Served, Served', Finished, [Next]_vars
    PROVE  Finished'
  <1>0. /\ sent \in Nat /\ sent' \in Nat /\ (ended => ended' /\ sent' = sent)
        /\ expected \in Nat /\ acked \in Nat /\ Len(passed) \in Nat /\ Len(passed') \in Nat
    <2>1. passed' \in Seq(Nat)
      BY TypedStep DEF Typed, ReceiverTypes
    <2> QED
      BY <2>1, SentStep, ServedTypes DEF Typed, SenderTypes
  <1>1. Len(passed) <= Len(passed')
    <2>1. CASE PassOn
      <3>1. todo \in Seq(Nat) /\ passed \in Seq(Nat) /\ todo # <<>>
        BY <2>1, ServedTypes DEF PassOn
      <3>2. Head(todo) \in Nat
        BY <3>1
      <3>3. Len(passed') = Len(passed) + 1
        BY <2>1, <3>1, <3>2 DEF PassOn
      <3> QED
        BY <1>0, <3>3
    <2>2. CASE ReceiveData \/ AckFrame \/ UNCHANGED <<todo, upto, expected, passed>>
      <3>1. passed' = passed
        BY <2>2 DEF ReceiveData, AckFrame
      <3> QED
        BY <1>0, <3>1
    <2> QED
      BY <2>1, <2>2, DeliveryTouched
  <1>2. Complete => Complete'
    <2>1. Len(passed') <= sent'
      BY DEF Served
    <2> QED
      BY <1>0, <1>1, <2>1 DEF Complete
  <1>3. rpc = "over" => rpc' = "over"
    BY OverStays
  <1>4. CloseSocket /\ rpc = "close" => Complete'
    <2> SUFFICES ASSUME CloseSocket, rpc = "close"  PROVE Complete'
      OBVIOUS
    <2>1. ended /\ expected = sent /\ Len(passed) = expected
      BY DEF Served
    <2> QED
      BY <1>2, <2>1 DEF Complete
  <1>5. Done => Complete'
    <2> SUFFICES ASSUME Done  PROVE Complete'
      OBVIOUS
    <2>1. ended /\ acked >= sent
      BY DEF Done, Ready, Goes
    <2>2. acked <= expected /\ expected <= Len(passed) /\ Len(passed) <= sent
      BY DEF Told, Served
    <2>3. Len(passed) = sent
      BY ONLY <1>0, <2>1, <2>2
    <2> QED
      BY <1>2, <2>1, <2>3 DEF Complete
  <1>6. VerdictTypes
    BY DEF Typed
  <1> QED
    BY <1>2, <1>3, <1>4, <1>5, <1>6, DoneStep DEF Finished
-----------------------------------------------------------------------------
(* What is pending between NetIn and its local node.                       *)

\* Never more than a batch; where the receiver is has been reached by all but a part of
\* one, and the end by all.
Held ==
    /\ delivered <= Len(passed) /\ Len(passed) <= delivered + BatchSize
    /\ expected < delivered + BatchSize
    /\ rpc = "close" \/ verdict["in"] = "done" => delivered = Len(passed)

LEMMA HeldStep ==
    ASSUME Typed, Served, Finished, Held, [Next]_vars
    PROVE  Held'
  <1>0. /\ delivered \in Nat /\ Len(passed) \in Nat /\ expected \in Nat /\ BatchSize \in Nat
        /\ passed \in Seq(Nat) /\ rpc \in Stages /\ VerdictTypes
    BY Sizes, ServedTypes DEF Typed, ReceiverTypes
  <1>1. verdict'["in"] = "done" => verdict["in"] = "done" \/ (CloseSocket /\ rpc = "close")
    BY <1>0, DoneStep
  <1>2. CASE PassOn
    <2>1. /\ rpc = "deliver" /\ rpc' = rpc /\ todo # <<>> /\ passed' = Append(passed, Head(todo))
          /\ Len(passed) - delivered < BatchSize /\ UNCHANGED <<expected, delivered, verdict>>
      BY <1>2 DEF PassOn, Pending, runVars
    <2>2. Len(passed') = Len(passed) + 1
      BY <1>0, <2>1
    <2>3. verdict["in"] # "done"
      BY <2>1 DEF Finished
    <2>4. delivered' <= Len(passed') /\ Len(passed') <= delivered' + BatchSize
      BY ONLY <1>0, <2>1, <2>2, Held DEF Held
    <2> QED
      BY <2>1, <2>3, <2>4 DEF Held
  <1>3. CASE AckFrame
    <2>1. /\ rpc = "deliver" /\ todo = <<>> /\ rpc' \in {"serve", "drop"}
          /\ expected' = Larger(expected, upto)
          /\ Len(passed) - delivered < BatchSize /\ UNCHANGED <<passed, delivered, verdict>>
      BY <1>3 DEF AckFrame, Pending, runVars
    <2>2. Len(passed) = expected'
      BY <1>0, <2>1, ServedTypes DEF Served, Handing
    <2>3. expected' < delivered' + BatchSize
      BY ONLY <1>0, <2>1, <2>2
    <2>4. verdict["in"] # "done"
      BY <2>1 DEF Finished
    <2> QED
      BY <2>1, <2>3, <2>4 DEF Held
  <1>4. CASE ReceiveEnd
    <2>1. Len(passed) - delivered = 0 /\ UNCHANGED <<expected, passed, delivered>>
      BY <1>4 DEF ReceiveEnd, Incoming, Reading, Pending
    <2>2. delivered = Len(passed)
      BY ONLY <1>0, <2>1
    <2> QED
      BY <2>1, <2>2 DEF Held
  <1>5. CASE ~PassOn /\ ~AckFrame /\ ~ReceiveEnd
    <2>1. UNCHANGED <<expected, passed>>
      BY <1>5, DeliveryTouched DEF ReceiveData
    <2>2. delivered' = delivered \/ delivered' = Len(passed)
      BY FlushTouched
    <2>3. rpc' = "close" => rpc = "close"
      BY <1>5, StageStep DEF ReceiveData
    <2>4. delivered' <= Len(passed') /\ Len(passed') <= delivered' + BatchSize
          /\ expected' < delivered' + BatchSize
      BY ONLY <1>0, <2>1, <2>2, Held DEF Held
    <2> QED
      BY <1>1, <2>1, <2>2, <2>3, <2>4 DEF Held
  <1> QED
    BY <1>2, <1>3, <1>4, <1>5
-----------------------------------------------------------------------------
(* The inductive invariant, and what follows from it.                      *)

IInv == /\ Typed /\ Inbox /\ Count /\ CreditsAcrossWire /\ Queue
        /\ Told /\ Kept /\ Covered
        /\ Ready /\ OnWire /\ Unmade /\ Fresh /\ Flowing /\ InTurn
        /\ Served /\ Finished /\ Held

LEMMA InitInv == Init => IInv
  <1> SUFFICES ASSUME Init  PROVE IInv
    OBVIOUS
  <1>1. Typed /\ Inbox /\ Count /\ CreditsAcrossWire /\ Queue
    BY InitTyped, InboxInit, CreditsInit, QueueInit
  <1>2. \A c \in Conns : conn[c].fwd = <<>> /\ conn[c].back = <<>>
    BY DEF Init, NewConn
  <1>3. Len(<<>>) = 0
    OBVIOUS
  <1>4. Told
    BY <1>2, <1>3 DEF Init, Told
  <1>5. Kept /\ Covered
    BY <1>3 DEF Init, Kept, Covered
  <1>6. Ready
    BY DEF Init, Ready, Goes
  <1>7. OnWire /\ Unmade /\ InTurn
    BY <1>2, <1>3 DEF OnWire, Unmade, InTurn, Follows
  <1>8. Fresh /\ Flowing
    BY DEF Init, Fresh, Flowing, Connected
  <1>9. Served
    BY <1>3 DEF Init, Served
  <1>10. Finished
    BY DEF Init, Finished, Groups
  <1>11. Held
    <2>1. delivered = 0 /\ passed = <<>> /\ expected = 0 /\ Len(passed) = 0
      BY <1>3 DEF Init
    <2>2. BatchSize \in Nat \ {0}
      BY WireAssumption
    <2> QED
      BY <2>1, <2>2 DEF Held
  <1> QED
    BY <1>1, <1>4, <1>5, <1>6, <1>7, <1>8, <1>9, <1>10, <1>11 DEF IInv

LEMMA InvStep == IInv /\ [Next]_vars => IInv'
  <1> SUFFICES ASSUME IInv, [Next]_vars  PROVE IInv'
    OBVIOUS
  <1> USE DEF IInv
  <1>1. Typed' /\ Queue' /\ CreditsAcrossWire'
    BY TypedStep, QueueStep, CreditsStep
  <1>2. spc = "finish" => last /\ hand = <<>>
    BY DEF Ready
  <1>3. Inbox' /\ Count'
    BY <1>2, InboxStep, CountStep
  <1>4. Told' /\ Kept' /\ Covered'
    BY ToldStep, KeptStep, CoveredStep
  <1>5. Ready' /\ OnWire' /\ Unmade' /\ Fresh'
    BY ReadyStep, OnWireStep, FreshStep
  <1>6. Flowing' /\ InTurn'
    BY FlowingStep, InTurnStep
  <1>7. Served'
    BY ServedStep
  <1>8. Finished'
    BY <1>7, FinishedStep
  <1>9. Held'
    BY HeldStep
  <1> HIDE DEF IInv
  <1> QED
    BY <1>1, <1>3, <1>4, <1>5, <1>6, <1>7, <1>8, <1>9 DEF IInv

LEMMA Invariant == Spec => []IInv
  BY InitInv, InvStep, PTL DEF Spec

\* Nothing is acknowledged that NetIn does not have, and less than a batch of it is not
\* yet with the local node; what is not acknowledged is in a frame that is kept
\* (_serve, _reconnect), however often the connection drops.
THEOREM AckedArrived == Spec => []AckedHasArrived
  <1>1. IInv => AckedHasArrived
    <2> SUFFICES ASSUME IInv  PROVE AckedHasArrived
      OBVIOUS
    <2>1. Typed /\ Told /\ Served /\ Covered /\ Kept /\ Held
      BY DEF IInv
    <2>2. /\ acked \in Nat /\ expected \in Nat /\ Len(passed) \in Nat /\ sent \in Nat
          /\ delivered \in Nat /\ BatchSize \in Nat /\ unacked \in Seq(Frames)
      BY <2>1, Sizes, ServedTypes DEF Typed, SenderTypes, ReceiverTypes
    <2>3. acked <= Len(passed) /\ acked < delivered + BatchSize
      <3>1. acked <= expected /\ expected <= Len(passed) /\ expected < delivered + BatchSize
        BY <2>1 DEF Told, Served, Held
      <3> QED
        BY ONLY <2>2, <3>1
    <2>4. ASSUME NEW i \in (acked + 1)..sent
          PROVE  \E k \in DOMAIN unacked :
                    LET f == unacked[k] IN
                    i \in (f.first + 1)..(f.first + Len(f.items)) /\ f.items[i - f.first] = i
      <3>1. PICK k \in 1..Len(unacked) : unacked[k].first < i /\ i <= EndOf(unacked[k])
        BY <2>1 DEF Covered
      <3> DEFINE f == unacked[k]
      <3>2. f \in Frames /\ Sound(f, sent, ended) /\ f.kind = "DATA" /\ k \in DOMAIN unacked
        BY <2>1, <2>2 DEF Kept
      <3>3. f.first < i /\ i <= EndOf(f)
        BY <3>1
      <3> HIDE DEF f
      <3>4. PICK n \in Nat : n = Len(f.items)
        BY <3>2, EndOfType
      <3>5. PICK m \in Nat : m = f.first
        BY <3>2, EndOfType
      <3>6. i \in Int /\ m < i /\ i <= m + n
        BY <2>2, <3>3, <3>4, <3>5 DEF EndOf
      <3>7. i - m \in 1..n /\ m + (i - m) = i /\ i \in (m + 1)..(m + n)
        BY ONLY <3>6, m \in Nat, n \in Nat
      <3>8. f.items[i - m] = m + (i - m)
        BY <3>2, <3>4, <3>5, <3>7 DEF Sound
      <3> QED
        BY <3>2, <3>4, <3>5, <3>7, <3>8 DEF f
    <2> QED
      BY <2>3, <2>4 DEF AckedHasArrived
  <1> QED
    BY <1>1, Invariant, PTL

\* The branch of _serve that finds a gap is never taken: every connection holds the
\* stream from where the receiver is, whatever was lost with the one before.
THEOREM NoGap == Spec => []NothingMissing
  <1>1. IInv => NothingMissing
    <2> SUFFICES ASSUME IInv, Incoming("DATA") \/ Incoming("END")  PROVE First <= expected
      BY DEF NothingMissing
    <2>1. Typed /\ Queue /\ InTurn
      BY DEF IInv
    <2>2. /\ rpc = "serve" /\ conn[rsock].fwd # <<>>
          /\ Head(conn[rsock].fwd).kind \in {"DATA", "END"}
      BY DEF Incoming, Reading
    <2>3. rsock \in Conns /\ ~conn[rsock].rclosed
      BY <2>1, <2>2, Sizes DEF Typed, Places, ReceiverTypes, WireTypes, Conns, None, Queue
    <2>4. Follows(conn[rsock].fwd, expected)
      BY <2>1, <2>2, <2>3 DEF InTurn, Pos
    <2>5. Head(conn[rsock].fwd) = conn[rsock].fwd[1]
      BY <2>1, <2>2, <2>3, ServedTypes
    <2> QED
      BY <2>2, <2>4, <2>5 DEF Follows, Stream, First
  <1> QED
    BY <1>1, Invariant, PTL

\* What an end that is done knows: everything was sent, and is with NetIn.
LEMMA AllThere ==
    ASSUME Typed, Inbox, Served, Complete
    PROVE  /\ closed /\ produced = sent /\ Len(passed) = produced
           /\ passed = [i \in 1..produced |-> i]
  <1>1. ended /\ Len(passed) = sent /\ last /\ hand = <<>> /\ closed /\ inq = <<>>
    BY DEF Complete, Inbox, Closing
  <1>2. Batches = 0
    BY <1>1 DEF Batches, Queued
  <1>3. produced \in Nat /\ sent \in Nat /\ passed \in Seq(Nat)
    BY InboxTypes, ServedTypes
  <1>4. produced = sent + 0
    <2>1. produced = sent + Len(hand)
      BY <1>2 DEF Inbox, Meeting
    <2>2. Len(hand) = 0
      BY <1>1
    <2> QED
      BY <2>1, <2>2
  <1>5. produced = sent
    BY <1>3, <1>4
  <1>6. \A i \in 1..Len(passed) : passed[i] = i
    BY DEF Served
  <1>7. passed = [i \in 1..Len(passed) |-> passed[i]]
    BY <1>3
  <1> QED
    BY <1>1, <1>5, <1>6, <1>7

\* An end is done (_finish, _serve) only when the producer has closed its output and
\* NetIn has all of it, in order; the receiver's only when the local node has, too.
THEOREM EndComplete == Spec => []EndIsComplete
  <1>1. IInv => EndIsComplete
    <2> SUFFICES ASSUME IInv  PROVE EndIsComplete
      OBVIOUS
    <2>1. ASSUME verdict["in"] = "done" \/ verdict["out"] = "done"
          PROVE  closed /\ Len(passed) = produced /\ passed = [i \in 1..produced |-> i]
      BY <2>1, AllThere DEF IInv, Finished
    <2>2. verdict["in"] = "done" => delivered = Len(passed)
      BY DEF IInv, Held
    <2> QED
      BY <2>1, <2>2 DEF EndIsComplete
  <1> QED
    BY <1>1, Invariant, PTL
-----------------------------------------------------------------------------
(* The edge implements Channel: what its two nodes see of a step is a step *)
(* of the channel or nothing.                                              *)

EndTold == rpc = "over" /\ verdict["in"] = "done"

\* How far the two ends can be apart: no further than the credits that are out, and
\* what is pending though it is acknowledged.
LEMMA Apart ==
    ASSUME IInv
    PROVE  /\ produced \in Nat /\ Len(passed) \in Nat /\ credits \in Nat /\ delivered \in Nat
           /\ Len(passed) <= produced /\ delivered <= Len(passed)
           /\ ~closed => produced + credits <= delivered + (Capacity + BatchSize - 1)
           /\ verdict["in"] = "done" => closed /\ produced = Len(passed)
  <1>0. /\ Typed /\ Inbox /\ Count /\ CreditsAcrossWire /\ Told /\ Served /\ Finished /\ Held
    BY DEF IInv
  <1>1. /\ produced \in Nat /\ Len(passed) \in Nat /\ credits \in Nat /\ Len(hand) \in Nat
        /\ sent \in Nat /\ acked \in Nat /\ expected \in Nat /\ inq \in Seq(Seq(Nat)) /\ Capacity \in Nat
        /\ delivered \in Nat /\ BatchSize \in Nat
    BY <1>0, InboxTypes, ServedTypes, Sizes DEF Typed, ProducerTypes, SenderTypes, ReceiverTypes, CreditsAcrossWire
  <1>2. InInbox \in Nat /\ InInbox = produced - sent - Len(hand) + (IF Queued THEN 1 ELSE 0)
    BY <1>0, <1>1, SizeType DEF Count, InInbox
  <1>3. acked <= expected /\ expected <= Len(passed) /\ Len(passed) <= sent
        /\ expected < delivered + BatchSize /\ delivered <= Len(passed)
    BY <1>0 DEF Told, Served, Held
  <1>4. sent + Len(hand) <= produced
    <2>1. CASE ~Queued
      BY <1>1, <1>2, <2>1
    <2>2. CASE Queued /\ Batches = 0
      BY <1>0, <1>1, <2>2 DEF Inbox, Meeting
    <2>3. CASE Queued /\ Batches # 0
      <3>1. inq # <<>> /\ Len(inq) \in Nat /\ Len(inq) - 1 # 0
        BY <1>0, <1>1, <2>3 DEF Inbox, Closing, Batches
      <3>2. 1 \in 1..Batches /\ Head(inq) = inq[1]
        <4>1. Len(inq) # 0
          BY <1>1, <3>1
        <4>2. Batches = Len(inq) - 1
          BY <2>3 DEF Batches
        <4>3. 1 \in 1..Batches
          BY ONLY <3>1, <4>1, <4>2
        <4> QED
          BY <1>1, <3>1, <4>3
      <3>3. Run(inq[1])
        BY <1>0, <3>2 DEF Inbox, Following
      <3>4. Len(Head(inq)) > 0
        BY <3>2, <3>3 DEF Run
      <3>5. PICK n \in Nat : n = Len(Head(inq)) /\ Size(Tail(inq)) = Size(inq) - n
        BY <1>1, <3>1, SizeTail
      <3>6. Tail(inq) \in Seq(Seq(Nat))
        BY <1>1, <3>1
      <3>7. Size(Tail(inq)) \in Nat
        BY <3>6, SizeType
      <3>8. InInbox >= 1
        BY <1>2, <3>4, <3>5, <3>7 DEF InInbox
      <3> QED
        BY <1>1, <1>2, <2>3, <3>8
    <2> QED
      BY <2>1, <2>2, <2>3
  <1>5. Len(passed) <= produced
    BY ONLY <1>1, <1>3, <1>4
  <1>6. ASSUME ~closed  PROVE produced + credits <= delivered + (Capacity + BatchSize - 1)
    <2>1. InInbox = produced - sent - Len(hand)
      BY <1>1, <1>2, <1>6 DEF Queued
    <2>2. credits + InInbox + Len(hand) + (sent - acked) = Capacity
      BY <1>0 DEF CreditsAcrossWire, Outstanding
    <2> QED
      BY ONLY <1>1, <1>2, <1>3, <2>1, <2>2
  <1>7. ASSUME verdict["in"] = "done"  PROVE closed /\ produced = Len(passed)
    BY <1>0, <1>7, AllThere DEF Finished
  <1> QED
    BY <1>1, <1>3, <1>5, <1>6, <1>7

\* The producer's step is a Send.
LEMMA ProduceSends ==
    ASSUME IInv, Produce
    PROVE  Chan!Send
  <1>1. PICK k \in 1..BatchSize :
           /\ ~closed /\ k <= credits /\ produced' = produced + k
           /\ UNCHANGED <<delivered, rpc, verdict>>
    BY DEF Produce, receiverVars, runVars
  <1>2. /\ produced \in Nat /\ delivered \in Nat /\ credits \in Nat
        /\ produced + credits <= delivered + (Capacity + BatchSize - 1)
        /\ verdict["in"] # "done"
    BY <1>1, Apart
  <1>3. k \in Nat /\ k >= 1 /\ Capacity \in Nat /\ BatchSize \in Nat
    BY Sizes
  <1>4. produced' > produced /\ produced' - delivered <= Capacity + BatchSize - 1
    BY ONLY <1>1, <1>2, <1>3
  <1>5. ~EndTold /\ ~EndTold'
    BY <1>1, <1>2 DEF EndTold
  <1> QED
    BY <1>1, <1>4, <1>5 DEF Chan!Send, EndTold

\* What the local node is given are the next items.
LEMMA FlushReceives ==
    ASSUME IInv, [Next]_vars, delivered' # delivered, produced' = produced
    PROVE  Chan!Receive /\ HandedInOrder
  <1>1. delivered' = Len(passed) /\ passed' = passed /\ rpc # "over"
    BY FlushTouched
  <1>2. delivered \in Nat /\ Len(passed) \in Nat /\ delivered <= Len(passed) /\ Len(passed) <= produced
        /\ produced \in Nat
    BY Apart
  <1>3. delivered' \in (delivered + 1)..produced
    BY ONLY <1>1, <1>2, delivered' # delivered
  <1>4. VerdictTypes /\ verdict["in"] # "done"
    BY <1>1 DEF IInv, Typed, Finished
  <1>5. ~CloseSocket
    BY DEF CloseSocket
  <1>6. ~EndTold /\ ~EndTold'
    BY <1>4, <1>5, DoneStep DEF EndTold
  <1>7. HandedInOrder
    <2>1. \A i \in 1..Len(passed) : passed[i] = i
      BY DEF IInv, Served
    <2>2. ASSUME NEW i \in (delivered + 1)..delivered'  PROVE i \in 1..Len(passed)
      BY ONLY <1>1, <1>2, <2>2
    <2> QED
      BY <1>1, <2>1, <2>2 DEF HandedInOrder
  <1> QED
    BY <1>3, <1>6, <1>7 DEF Chan!Receive, EndTold

\* A stream that has ended has been handed over whole; so has that of the next state.
AllHanded == verdict["in"] = "done" => delivered = produced
LEMMA AllHandedInv == IInv => AllHanded
  BY Apart DEF IInv, Held, AllHanded
LEMMA AllHandedNext == IInv' => AllHanded'
  BY AllHandedInv, PTL

\* Every other step ends the stream, after its last item, or is out of their sight.
LEMMA OtherSteps ==
    ASSUME IInv, IInv', [Next]_vars, UNCHANGED <<produced, delivered>>
    PROVE  Chan!End \/ UNCHANGED Chan!vars
  <1>1. CASE EndTold
    <2>1. VerdictTypes /\ rpc = "over" /\ rpc' = "over"
      BY <1>1, OverStays DEF IInv, Typed, EndTold
    <2>2. EndTold'
      BY <1>1, <2>1, DoneStays DEF EndTold
    <2> QED
      BY <1>1, <2>2 DEF Chan!vars, EndTold
  <1>2. CASE ~EndTold /\ EndTold'
    <2>1. delivered' = produced'
      BY <1>2, AllHandedNext DEF AllHanded, EndTold
    <2> QED
      BY <1>2, <2>1 DEF Chan!End, Chan!MayEnd, EndTold
  <1>3. CASE ~EndTold /\ ~EndTold'
    BY <1>3 DEF Chan!vars, EndTold
  <1> QED
    BY <1>1, <1>2, <1>3

LEMMA ChanStep == IInv /\ IInv' /\ [Next]_vars => [Chan!Next]_(Chan!vars) /\ HandedInOrder
  <1> SUFFICES ASSUME IInv, IInv', [Next]_vars
               PROVE  (Chan!Next \/ UNCHANGED Chan!vars) /\ HandedInOrder
    OBVIOUS
  <1>1. CASE Produce
    BY <1>1, ProduceSends DEF Chan!Next, HandedInOrder, Produce, receiverVars
  <1>2. CASE ~Produce
    <2>1. produced' = produced
      BY <1>2, ProducerTouched DEF CloseOutput, Pop, Welcomed, ReadAck, producerVars
    <2>2. CASE delivered' # delivered
      BY <2>1, <2>2, FlushReceives DEF Chan!Next
    <2>3. CASE delivered' = delivered
      BY <2>1, <2>3, OtherSteps DEF Chan!Next, HandedInOrder
    <2> QED
      BY <2>2, <2>3
  <1> QED
    BY <1>1, <1>2

LEMMA ChanInit == Init => Chan!Init
  <1> SUFFICES ASSUME Init  PROVE Chan!Init
    OBVIOUS
  <1>1. produced = 0 /\ delivered = 0 /\ rpc = "wait"
    BY DEF Init
  <1>2. ~EndTold
    BY <1>1 DEF EndTold
  <1> QED
    BY <1>1, <1>2 DEF Chan!Init, EndTold

\* An edge across two groups implements the channel (NetOut, NetIn): at most Capacity
\* items and less than a batch more are on their way, they come out in the order they went in, each once, and
\* the end after the last of them, whatever drops, is lost, or is sent again.
THEOREM EdgeIsChannel == Spec => IsChannel
  <1>1. Init => Chan!Init
    BY ChanInit
  <1>2. IInv /\ IInv' /\ [Next]_vars => [Chan!Next]_(Chan!vars) /\ HandedInOrder
    BY ChanStep
  <1>3. [Chan!Next]_(Chan!vars) /\ HandedInOrder => [HandedInOrder]_vars
    OBVIOUS
  <1>4. Spec => []IInv
    BY Invariant
  <1> QED
    BY <1>1, <1>2, <1>3, <1>4, PTL DEF Spec, IsChannel, Chan!Spec
=============================================================================
