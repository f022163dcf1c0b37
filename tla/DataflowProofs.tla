--------------------------- MODULE DataflowProofs ---------------------------
(***************************************************************************)
(* Theorems about the threads runtime, for every graph, capacity, batch    *)
(* size, policy and supply: every variable keeps its type, no credit is    *)
(* lost or made, no queue outgrows its edge, and no wake-up is lost.       *)
(***************************************************************************)
EXTENDS Dataflow, SequenceTheorems, FiniteSetTheorems, TLAPS

\* The types of the constants, and where each edge starts and ends.
LEMMA GraphType ==
    /\ Src \in [Edges -> Nodes] /\ Dst \in [Edges -> Nodes]
    /\ Out \in [Nodes -> Seq(Edges)] /\ Back \in [Nodes -> Seq(Edges)]
    /\ In \in [Nodes -> Seq(Edges)]
    /\ Edges # {}
    /\ LoopNodes \subseteq Nodes /\ Order \in Seq(Nodes)
    /\ Heads \in Seq(Nodes)
  BY GraphAssumption, SeqMonotonic

LEMMA OutputStart == \A n \in Nodes : \A i \in DOMAIN All(n) : Src[All(n)[i]] = n
  BY GraphAssumption

LEMMA InputEnd == \A n \in Nodes : \A i \in DOMAIN In[n] : Dst[In[n][i]] = n
  BY GraphAssumption

LEMMA SizeType ==
    /\ Capacity \in [Edges -> Nat] /\ \A e \in Edges : Capacity[e] > 0
    /\ Supply \in [Nodes -> Nat] /\ Fanout \in [Nodes -> SUBSET Nat]
    /\ Policy \in [Nodes -> Policies] /\ StallLimit \in Nat
  BY SizeAssumption, CodeAssumption

LEMMA NoOutput == \A n \in Nodes : Out[n] = <<>> => Supply[n] = 0 /\ Fanout[n] \subseteq {0}
  BY CodeAssumption

\* A function on 1..k is a sequence.
LEMMA FunctionIsSeq ==
    ASSUME NEW S, NEW k \in Nat, NEW f \in [1..k -> S]
    PROVE  f \in Seq(S) /\ Len(f) = k
  BY SeqDef

LEMMA ModRange ==
    ASSUME NEW x \in Nat, NEW L \in Nat, L > 0
    PROVE  x % L \in 0..(L - 1)
  OBVIOUS

\* The commands node n may plan: each names an edge that leaves n, except a
\* send on demand, which names none yet.
CommandsOf(n) == {c \in Commands : c.op = "any" \/ Src[c.edge] = n}

LEMMA NoEntryIsEntry == NoEntry \in Entry /\ NoEntry.edge \in Edges /\ NoEntry.items = <<>>
  BY GraphType DEF NoEntry, Entry, Items

LEMMA CommandType ==
    ASSUME NEW n \in Nodes, NEW e \in Edges, Src[e] = n, NEW op \in Ops
    PROVE  Cmd(op, e) \in CommandsOf(n)
  BY DEF Cmd, CommandsOf, Commands

\* The elements of a concatenation are those of its parts.
LEMMA PartsOfConcat ==
    ASSUME NEW S, NEW T, NEW s \in Seq(S), NEW t \in Seq(S),
           \A i \in 1..Len(s \o t) : (s \o t)[i] \in T
    PROVE  (\A i \in 1..Len(s) : s[i] \in T) /\ (\A i \in 1..Len(t) : t[i] \in T)
  <1>1. /\ s \o t \in Seq(S)
        /\ Len(s \o t) = Len(s) + Len(t)
        /\ \A i \in 1..(Len(s) + Len(t)) :
              (s \o t)[i] = IF i <= Len(s) THEN s[i] ELSE t[i - Len(s)]
    BY ConcatProperties
  <1>2. Len(s) \in Nat /\ Len(t) \in Nat
    OBVIOUS
  <1>3. ASSUME NEW i \in 1..Len(s)  PROVE s[i] \in T
    <2>1. i \in 1..Len(s \o t) /\ (s \o t)[i] = s[i]
      BY <1>1, <1>2
    <2> QED
      BY <2>1
  <1>4. ASSUME NEW i \in 1..Len(t)  PROVE t[i] \in T
    <2>1. Len(s) + i \in 1..Len(s \o t) /\ (s \o t)[Len(s) + i] = t[i]
      BY <1>1, <1>2
    <2> QED
      BY <2>1
  <1> QED
    BY <1>3, <1>4

LEMMA AllType ==
    ASSUME NEW n \in Nodes
    PROVE  /\ All(n) \in Seq(Edges)
           /\ \A i \in 1..Len(All(n)) : All(n)[i] \in Edges /\ Src[All(n)[i]] = n
           /\ \A i \in 1..Len(Out[n]) : Out[n][i] \in Edges /\ Src[Out[n][i]] = n
           /\ \A i \in 1..Len(Back[n]) : Back[n][i] \in Edges /\ Src[Back[n][i]] = n
  <1> DEFINE T == {e \in Edges : Src[e] = n}
  <1>1. Out[n] \in Seq(Edges) /\ Back[n] \in Seq(Edges)
    BY GraphType
  <1>2. All(n) \in Seq(Edges)
    BY <1>1, ConcatProperties DEF All
  <1>3. \A i \in 1..Len(All(n)) : All(n)[i] \in T
    BY <1>2, OutputStart
  <1>4. /\ \A i \in 1..Len(Out[n]) : Out[n][i] \in T
        /\ \A i \in 1..Len(Back[n]) : Back[n][i] \in T
    BY <1>1, <1>3, PartsOfConcat DEF All
  <1> QED
    BY <1>2, <1>3, <1>4

\* Every way of routing k sends is a plan of n.
LEMMA SendsType ==
    ASSUME NEW n \in Nodes, NEW k \in Nat, NEW s \in Sends(n, k),
           rr[n] \in Nat, Out[n] = <<>> => k = 0
    PROVE  s \in Seq(CommandsOf(n))
  <1> DEFINE L == Len(Out[n])
             To(i) == Cmd("put", Out[n][i])
             Round(m) == [i \in 1..(k * m) |-> To(((i - 1) % m) + 1)]
  <1>1. L \in Nat /\ (L = 0 => k = 0)
    BY GraphType
  <1>2. \A i \in 1..L : To(i) \in CommandsOf(n)
    BY AllType, CommandType DEF Ops
  <1>3. ASSUME NEW m \in 0..L, m = 0 => k = 0  PROVE Round(m) \in Seq(CommandsOf(n))
    <2>1. m \in Nat /\ m <= L
      BY <1>1
    <2>2. k * m \in Nat /\ (m = 0 => k * m = 0)
      BY <2>1
    <2>3. ASSUME NEW i \in 1..(k * m)  PROVE ((i - 1) % m) + 1 \in 1..L
      <3>1. m > 0 /\ i - 1 \in Nat
        BY <2>1, <2>2
      <3>2. (i - 1) % m \in 0..(m - 1)
        BY <3>1, <2>1
      <3> QED
        BY <3>2, <2>1, <1>1
    <2>4. Round(m) \in [1..(k * m) -> CommandsOf(n)]
      BY <2>3, <1>2
    <2> QED
      BY <2>2, <2>4, FunctionIsSeq
  <1>4. CASE Policy[n] = "round_robin"
    <2>1. s = [i \in 1..k |-> To(((rr[n] + i - 1) % L) + 1)]
      BY <1>4 DEF Sends
    <2>2. ASSUME NEW i \in 1..k  PROVE ((rr[n] + i - 1) % L) + 1 \in 1..L
      <3>1. L > 0 /\ rr[n] + i - 1 \in Nat
        BY <1>1
      <3>2. (rr[n] + i - 1) % L \in 0..(L - 1)
        BY <3>1, <1>1
      <3> QED
        BY <3>2, <1>1
    <2>3. s \in [1..k -> CommandsOf(n)]
      BY <2>1, <2>2, <1>2
    <2> QED
      BY <2>3, FunctionIsSeq
  <1>5. CASE Policy[n] = "broadcast"
    <2>1. s = Round(L)
      BY <1>5 DEF Sends
    <2>2. L \in 0..L /\ (L = 0 => k = 0)
      BY <1>1
    <2> QED
      BY <2>1, <2>2, <1>3
  <1>6. CASE Policy[n] = "scatter"
    <2>1. PICK m \in 1..L : s = Round(m)
      BY <1>6 DEF Sends
    <2> QED
      BY <2>1, <1>3, <1>1
  <1>7. CASE Policy[n] = "key"
    <2>1. PICK f \in [1..k -> 1..L] : s = [i \in 1..k |-> To(f[i])]
      BY <1>7 DEF Sends
    <2>2. s \in [1..k -> CommandsOf(n)]
      BY <2>1, <1>2
    <2> QED
      BY <2>2, FunctionIsSeq
  <1>8. CASE Policy[n] = "on_demand"
    <2>1. s = [i \in 1..k |-> Cmd("any", NoEntry.edge)]
      BY <1>8 DEF Sends
    <2>2. Cmd("any", NoEntry.edge) \in CommandsOf(n)
      BY NoEntryIsEntry DEF Cmd, CommandsOf, Commands, Ops
    <2>3. s \in [1..k -> CommandsOf(n)]
      BY <2>1, <2>2
    <2> QED
      BY <2>3, FunctionIsSeq
  <1> QED
    BY <1>4, <1>5, <1>6, <1>7, <1>8, SizeType DEF Policies

\* The plans of flush and of close_all are plans of n.
LEMMA ClosePlanType ==
    ASSUME NEW n \in Nodes
    PROVE  FlushPlan(n) \in Seq(CommandsOf(n)) /\ ClosePlan(n) \in Seq(CommandsOf(n))
  <1>1. Len(All(n)) \in Nat /\ DOMAIN All(n) = 1..Len(All(n))
    BY AllType
  <1>2. FlushPlan(n) \in [1..Len(All(n)) -> CommandsOf(n)]
    BY <1>1, AllType, CommandType DEF FlushPlan, Ops
  <1>3. EosPlan(n) \in [1..Len(All(n)) -> CommandsOf(n)]
    BY <1>1, AllType, CommandType DEF EosPlan, Ops
  <1>4. FlushPlan(n) \in Seq(CommandsOf(n)) /\ EosPlan(n) \in Seq(CommandsOf(n))
    BY <1>1, <1>2, <1>3, FunctionIsSeq
  <1> QED
    BY <1>4, ConcatProperties DEF ClosePlan

\* What node code feeds back for one item is a plan of n.
LEMMA FeedsType ==
    ASSUME NEW n \in Nodes, NEW feed \in Feeds(n)
    PROVE  feed \in Seq(CommandsOf(n)) /\ Len(feed) \in Nat
  <1>1. CASE feed = <<>>
    BY <1>1
  <1>2. CASE feed # <<>>
    <2>1. PICK i \in 1..Len(Back[n]) : feed = <<Cmd("put", Back[n][i])>>
      BY <1>2 DEF Feeds
    <2>2. Cmd("put", Back[n][i]) \in CommandsOf(n)
      BY AllType, CommandType DEF Ops
    <2> QED
      BY <2>1, <2>2
  <1> QED
    BY <1>1, <1>2

-----------------------------------------------------------------------------
(* Every variable keeps its type.                                          *)

LEMMA PlanType ==
    ASSUME NEW n \in Nodes
    PROVE  Seq(CommandsOf(n)) \subseteq Seq(Commands)
  BY SeqMonotonic DEF CommandsOf

LEMMA AdvanceType ==
    ASSUME NEW n \in Nodes, NEW k \in Nat, rr[n] \in Nat, rr[n] = 0 \/ rr[n] < Len(Out[n])
    PROVE  Advance(n, k) \in Nat /\ (Advance(n, k) = 0 \/ Advance(n, k) < Len(Out[n]))
  <1>1. CASE Policy[n] = "round_robin" /\ Out[n] # <<>>
    <2>1. Len(Out[n]) \in Nat /\ Len(Out[n]) > 0 /\ rr[n] + k \in Nat
      <3>1. Out[n] \in Seq(Edges)
        BY GraphType
      <3>2. Len(Out[n]) \in Nat \ {0}
        BY <3>1, <1>1, EmptySeq
      <3> QED
        BY <3>2
    <2>2. (rr[n] + k) % Len(Out[n]) \in 0..(Len(Out[n]) - 1)
      BY <2>1
    <2> QED
      BY <1>1, <2>1, <2>2 DEF Advance
  <1>2. CASE ~(Policy[n] = "round_robin" /\ Out[n] # <<>>)
    BY <1>2 DEF Advance
  <1> QED
    BY <1>1, <1>2

LEMMA HeadType ==
    ASSUME TypeOK, NEW n \in Nodes, plan[n] # <<>>
    PROVE  HeadEdge(n) \in Edges /\ HeadOp(n) \in Ops /\ Tail(plan[n]) \in Seq(Commands)
  <1>1. plan[n] \in Seq(Commands)
    BY DEF TypeOK, ThreadsTyped
  <1>2. Head(plan[n]) \in Commands /\ Tail(plan[n]) \in Seq(Commands)
    BY <1>1, HeadTailProperties
  <1> QED
    BY <1>2 DEF HeadEdge, HeadOp, Commands

LEMMA NotifyType ==
    ASSUME TypeOK, NEW m, NEW cond
    PROVE  Notify(m, cond) \subseteq Nodes
  BY DEF Notify, TypeOK, ThreadsTyped

LEMMA CountSentType ==
    ASSUME TypeOK, NEW e, CountSent(e)
    PROVE  LoopTyped'
  BY DEF CountSent, TypeOK, LoopTyped

LEMMA MaybeCloseType ==
    ASSUME TypeOK, NEW n \in Nodes, NEW t \in Int, NEW x \in Int, MaybeClose(n, t, x)
    PROVE  /\ pc' \in [Nodes -> Threads]
           /\ \A m \in Nodes : pc'[m] = "push" => pc[m] = "push"
           /\ tokens' \in Int /\ external' \in Int /\ closed' \in BOOLEAN
           /\ telling' \in [Nodes -> Seq(Nodes)]
  <1>1. tokens' \in Int /\ external' \in Int
    BY DEF MaybeClose
  <1>2. closed' \in BOOLEAN
    BY DEF MaybeClose
  <1>3. pc' \in [Nodes -> Threads] /\ \A m \in Nodes : pc'[m] = "push" => pc[m] = "push"
    <2>1. /\ pc \in [Nodes -> Threads]
          /\ pc' = [pc EXCEPT ![n] = "tell"] \/ pc' = [pc EXCEPT ![n] = "run"]
      BY DEF MaybeClose, TypeOK, ThreadsTyped
    <2> QED
      BY <2>1 DEF Threads
  <1>4. telling' \in [Nodes -> Seq(Nodes)]
    <2>1. /\ telling \in [Nodes -> Seq(Nodes)]
          /\ telling' = [telling EXCEPT ![n] = Heads] \/ telling' = [telling EXCEPT ![n] = <<>>]
      BY DEF MaybeClose, TypeOK, LoopTyped
    <2>2. Heads \in Seq(Nodes) /\ <<>> \in Seq(Nodes)
      BY GraphType, EmptySeq
    <2> QED
      BY <2>1, <2>2
  <1> QED
    BY <1>1, <1>2, <1>3, <1>4

\* Unpacking a nonempty entry.
LEMMA UnpackType ==
    ASSUME TypeOK, NEW n \in Nodes, NEW b \in Entry, b.items # <<>>, Unpack(n, b),
           UNCHANGED ended
    PROVE  /\ pc' \in [Nodes -> Threads] /\ \A m \in Nodes : pc'[m] = "push" => pc[m] = "push"
           /\ ReceiversTyped' /\ LoopTyped' /\ got' \in [Edges -> Nat]
  <1>1. b.edge \in Edges /\ b.items \in Seq(Nat)
    BY DEF Entry, Items
  <1>2. Head(b.items) \in Nat /\ Tail(b.items) \in Seq(Nat)
    BY <1>1
  <1>3. batch' \in [Nodes -> Entry]
    BY <1>2, NoEntryIsEntry DEF Unpack, TypeOK, ReceiversTyped, Entry, Items
  <1>4. kept' \in [Edges -> Items]
    <2>1. /\ kept \in [Edges -> Seq(Nat)]
          /\ kept' = kept \/ kept' = [kept EXCEPT ![b.edge] = Append(@, Head(b.items))]
      BY DEF Unpack, TypeOK, ReceiversTyped, Items
    <2>2. Append(kept[b.edge], Head(b.items)) \in Seq(Nat)
      BY <2>1, <1>1, <1>2, AppendProperties
    <2> QED
      BY <2>1, <2>2, <1>1 DEF Items
  <1>5. taken' \in [Nodes -> Items]
    <2>1. /\ taken \in [Nodes -> Seq(Nat)]
          /\ taken' = taken \/ taken' = [taken EXCEPT ![n] = <<Head(b.items)>>]
      BY DEF Unpack, TypeOK, ReceiversTyped, Items
    <2>2. <<Head(b.items)>> \in Seq(Nat)
      BY <1>2
    <2> QED
      BY <2>1, <2>2 DEF Items
  <1>6. rel' \in [Nodes -> [edge : Edges, n : Nat]]
    BY <1>1 DEF Unpack, TypeOK, ReceiversTyped
  <1>7. pc' \in [Nodes -> Threads] /\ \A m \in Nodes : pc'[m] = "push" => pc[m] = "push"
    <2>1. /\ pc \in [Nodes -> Threads]
          /\ pc' = [pc EXCEPT ![n] = "release"] \/ pc' = [pc EXCEPT ![n] = "run"]
      BY DEF Unpack, TypeOK, ThreadsTyped
    <2> QED
      BY <2>1 DEF Threads
  <1>8. got' \in [Edges -> Nat]
    <2>1. /\ got \in [Edges -> Nat]
          /\ got' = got \/ got' = [got EXCEPT ![b.edge] = @ + 1]
      BY DEF Unpack, TypeOK, CodeTyped
    <2> QED
      BY <2>1, <1>1
  <1>9. LoopTyped'
    <2>1. /\ owes \in [Nodes -> BOOLEAN]
          /\ owes' = owes \/ owes' = [owes EXCEPT ![n] = n \in LoopNodes]
      BY DEF Unpack, TypeOK, LoopTyped
    <2>2. owes' \in [Nodes -> BOOLEAN]
      <3>1. CASE n \in LoopNodes
        BY <2>1, <3>1
      <3>2. CASE n \notin LoopNodes
        <4>1. (n \in LoopNodes) = FALSE
          BY <3>2
        <4>2. owes' = owes \/ owes' = [owes EXCEPT ![n] = FALSE]
          BY <2>1, <4>1
        <4> QED
          BY <2>1, <4>2
      <3> QED
        BY <3>1, <3>2
    <2>3. /\ tokens' \in Int /\ UNCHANGED <<external, closed, telling>>
      BY DEF Unpack, TypeOK, LoopTyped
    <2> QED
      BY <2>2, <2>3 DEF TypeOK, LoopTyped
  <1> QED
    BY <1>3, <1>4, <1>5, <1>6, <1>7, <1>8, <1>9 DEF TypeOK, ReceiversTyped

\* _put_any sends to some edge and moves its turn to an output.
LEMMA ClaimAnyPicks ==
    ASSUME NEW n \in Nodes, ClaimAny(n), rr[n] \in Nat
    PROVE  \E e \in Edges, r \in Nat :
             /\ Src[e] = n /\ OutReady(e, 1)
             /\ r = 0 \/ r < Len(Out[n])
             /\ rr' = [rr EXCEPT ![n] = r]
             /\ credits' = Charge(e, 1)
             /\ put' = [put EXCEPT ![e] = @ + 1]
             /\ hand' = [hand EXCEPT ![n] = [edge |-> e, items |-> <<put[e] + 1>>]]
             /\ CountSent(e)
  <1> DEFINE L == Len(Out[n])
             at(k) == ((rr[n] + k) % L) + 1
  <1>1. PICK k \in 0..(L - 1) :
             /\ OutReady(Out[n][at(k)], 1)
             /\ rr' = [rr EXCEPT ![n] = (rr[n] + k + 1) % L]
             /\ credits' = Charge(Out[n][at(k)], 1)
             /\ put' = [put EXCEPT ![Out[n][at(k)]] = @ + 1]
             /\ hand' = [hand EXCEPT ![n] = [edge |-> Out[n][at(k)],
                                             items |-> <<put[Out[n][at(k)]] + 1>>]]
             /\ CountSent(Out[n][at(k)])
    BY DEF ClaimAny
  <1>2. L \in Nat
    BY GraphType
  <1>3. k \in Nat /\ L > 0 /\ rr[n] + k \in Nat /\ rr[n] + k + 1 \in Nat
    BY <1>2
  <1>4. (rr[n] + k) % L \in 0..(L - 1) /\ (rr[n] + k + 1) % L \in 0..(L - 1)
    BY <1>2, <1>3, ModRange
  <1>5. at(k) \in 1..L
    BY <1>2, <1>4
  <1>6. Out[n][at(k)] \in Edges /\ Src[Out[n][at(k)]] = n
    BY <1>5, AllType
  <1>7. /\ (rr[n] + k + 1) % L \in Nat
        /\ (rr[n] + k + 1) % L = 0 \/ (rr[n] + k + 1) % L < L
    BY <1>2, <1>4
  <1> DEFINE e == Out[n][at(k)]
             r == (rr[n] + k + 1) % L
  <1>8. /\ e \in Edges /\ r \in Nat /\ Src[e] = n /\ OutReady(e, 1)
        /\ r = 0 \/ r < Len(Out[n])
        /\ rr' = [rr EXCEPT ![n] = r]
        /\ credits' = Charge(e, 1)
        /\ put' = [put EXCEPT ![e] = @ + 1]
        /\ hand' = [hand EXCEPT ![n] = [edge |-> e, items |-> <<put[e] + 1>>]]
        /\ CountSent(e)
    BY <1>1, <1>6, <1>7
  <1> HIDE DEF e, r
  <1> QED
    BY <1>8

\* A group of variables that does not change keeps its types.
LEMMA TypesKept ==
    ASSUME TypeOK
    PROVE  /\ UNCHANGED threadVars => ThreadsTyped'
           /\ UNCHANGED edgeVars => EdgesTyped'
           /\ UNCHANGED receiveVars => ReceiversTyped'
           /\ UNCHANGED loopVars => LoopTyped'
           /\ UNCHANGED codeVars => CodeTyped'
           /\ UNCHANGED runVars => RunTyped'
  BY DEF TypeOK, threadVars, edgeVars, receiveVars, loopVars, codeVars, runVars,
         ThreadsTyped, EdgesTyped, ReceiversTyped, LoopTyped, CodeTyped, RunTyped

\* What every step of a node keeps.
StepTyped == /\ ThreadsTyped' /\ EdgesTyped' /\ ReceiversTyped' /\ LoopTyped'
             /\ CodeTyped' /\ RunTyped'
             /\ UNCHANGED mainVars /\ quiet' \in BOOLEAN

LEMMA NodeTyped ==
    ASSUME TypeOK, NEW n \in Nodes, Emits(n) \/ Receives(n) \/ Runs(n)
    PROVE  StepTyped
  <1>1. ASSUME Start(n)  PROVE StepTyped
    <2>1. ThreadsTyped'
      BY <1>1 DEF Start, TypeOK, ThreadsTyped, Threads
    <2> QED
      BY <1>1, <2>1, TypesKept DEF Start, StepTyped, TypeOK, MainTyped
  <1>2. ASSUME Produce(n)  PROVE StepTyped
    <2>1. PICK s \in Sends(n, 1), stop \in MayStopNow(n) :
             plan' = [plan EXCEPT ![n] = s] /\ stopped' = [stopped EXCEPT ![n] = stop]
      BY <1>2 DEF Produce
    <2>2. rr[n] \in Nat /\ (Out[n] = <<>> => FALSE)
      BY <1>2, NoOutput, SizeType DEF Produce, Making, TypeOK, EdgesTyped, CodeTyped
    <2>3. s \in Seq(Commands)
      BY <2>2, SendsType, PlanType
    <2>4. stop \in BOOLEAN
      BY DEF MayStopNow
    <2>5. ThreadsTyped'
      BY <1>2, <2>1, <2>3 DEF Produce, TypeOK, ThreadsTyped
    <2>6. EdgesTyped'
      BY <1>2, AdvanceType DEF Produce, TypeOK, EdgesTyped
    <2>7. CodeTyped'
      BY <1>2, <2>1, <2>4 DEF Produce, TypeOK, CodeTyped
    <2> QED
      BY <1>2, <2>5, <2>6, <2>7, TypesKept DEF Produce, StepTyped, TypeOK, MainTyped
  <1>3. ASSUME Process(n)  PROVE StepTyped
    <2>1. PICK k \in Fanout[n], stop \in MayStopNow(n), feed \in Feeds(n) :
             /\ \E s \in Sends(n, k) : plan' = [plan EXCEPT ![n] = s \o feed]
             /\ recycled' = [recycled EXCEPT ![n] = @ + Len(feed)]
             /\ stopped' = [stopped EXCEPT ![n] = stop]
             /\ taken' = [taken EXCEPT ![n] = IF stop THEN <<>> ELSE Tail(@)]
             /\ rr' = [rr EXCEPT ![n] = Advance(n, k)]
      BY <1>3 DEF Process
    <2>2. PICK s \in Sends(n, k) : plan' = [plan EXCEPT ![n] = s \o feed]
      BY <2>1
    <2>3. k \in Nat /\ rr[n] \in Nat /\ (Out[n] = <<>> => k = 0)
      BY NoOutput, SizeType DEF TypeOK, EdgesTyped
    <2>4. s \in Seq(Commands) /\ feed \in Seq(Commands) /\ Len(feed) \in Nat
      BY <2>3, SendsType, FeedsType, PlanType
    <2>5. s \o feed \in Seq(Commands)
      BY <2>4, ConcatProperties
    <2>6. stop \in BOOLEAN
      BY DEF MayStopNow
    <2>7. Tail(taken[n]) \in Items
      BY <1>3 DEF Process, TypeOK, ReceiversTyped, Items
    <2>8. ThreadsTyped'
      BY <1>3, <2>2, <2>5 DEF Process, TypeOK, ThreadsTyped
    <2>9. EdgesTyped'
      BY <1>3, <2>1, <2>3, AdvanceType DEF Process, TypeOK, EdgesTyped
    <2>10. ReceiversTyped'
      BY <1>3, <2>1, <2>7 DEF Process, TypeOK, ReceiversTyped, Items
    <2>11. CodeTyped'
      BY <1>3, <2>1, <2>4, <2>6 DEF Process, TypeOK, CodeTyped
    <2> QED
      BY <1>3, <2>8, <2>9, <2>10, <2>11, TypesKept DEF Process, StepTyped, TypeOK, MainTyped
  <1>4. ASSUME Return(n)  PROVE StepTyped
    <2>1. ThreadsTyped'
      BY <1>4, ClosePlanType, PlanType DEF Return, TypeOK, ThreadsTyped
    <2> QED
      BY <1>4, <2>1, TypesKept DEF Return, StepTyped, TypeOK, MainTyped
  <1>5. ASSUME Fail(n)  PROVE StepTyped
    <2>1. ThreadsTyped'
      BY <1>5, ClosePlanType, PlanType DEF Fail, TypeOK, ThreadsTyped, Threads
    <2>2. RunTyped'
      BY <1>5 DEF Fail, TypeOK, RunTyped
    <2> QED
      BY <1>5, <2>1, <2>2, TypesKept DEF Fail, StepTyped, TypeOK, MainTyped
  <1>6. ASSUME Unwind(n)  PROVE StepTyped
    <2>1. ThreadsTyped'
      BY <1>6, ClosePlanType, PlanType, NoEntryIsEntry DEF Unwind, TypeOK, ThreadsTyped, Threads
    <2> QED
      BY <1>6, <2>1, TypesKept DEF Unwind, StepTyped, TypeOK, MainTyped
  <1>7. ASSUME Doze(n)  PROVE StepTyped
    <2>1. ThreadsTyped'
      BY <1>7 DEF Doze, TypeOK, ThreadsTyped
    <2> QED
      BY <1>7, <2>1, TypesKept DEF Doze, StepTyped, TypeOK, MainTyped
  <1>8. ASSUME Mark(n)  PROVE StepTyped
    <2>1. ThreadsTyped'
      BY <1>8 DEF Mark, TypeOK, ThreadsTyped, Threads
    <2>2. EdgesTyped'
      BY <1>8 DEF Mark, TypeOK, EdgesTyped
    <2>3. RunTyped'
      BY <1>8, GraphType DEF Mark, TypeOK, RunTyped
    <2> QED
      BY <1>8, <2>1, <2>2, <2>3, TypesKept DEF Mark, StepTyped, TypeOK, MainTyped
  <1>9. ASSUME WakeProducer(n)  PROVE StepTyped
    <2>1. ThreadsTyped'
      BY <1>9, NotifyType DEF WakeProducer, TypeOK, ThreadsTyped
    <2>2. RunTyped'
      BY <1>9 DEF WakeProducer, TypeOK, RunTyped
    <2> QED
      BY <1>9, <2>1, <2>2, TypesKept DEF WakeProducer, StepTyped, TypeOK, MainTyped
  <1>4x. ASSUME End(n)  PROVE StepTyped
    <2>1. ThreadsTyped'
      BY <1>4x DEF End, TypeOK, ThreadsTyped, Threads
    <2> QED
      BY <1>4x, <2>1, TypesKept DEF End, StepTyped, TypeOK, MainTyped
  <1>11. ASSUME Buffer(n)  PROVE StepTyped
    <2>1. HeadEdge(n) \in Edges /\ Tail(plan[n]) \in Seq(Commands)
      BY <1>11, HeadType DEF Buffer, Sending
    <2>2. put[HeadEdge(n)] + 1 \in Nat
      BY <2>1 DEF TypeOK, CodeTyped
    <2>3. ThreadsTyped'
      BY <1>11, <2>1 DEF Buffer, TypeOK, ThreadsTyped
    <2>4. EdgesTyped'
      BY <1>11, <2>1, <2>2 DEF Buffer, TypeOK, EdgesTyped, Items
    <2>5. LoopTyped'
      BY <1>11, CountSentType DEF Buffer, TypeOK, LoopTyped
    <2>6. CodeTyped'
      BY <1>11, <2>1, <2>2 DEF Buffer, TypeOK, CodeTyped
    <2> QED
      BY <1>11, <2>3, <2>4, <2>5, <2>6, TypesKept DEF Buffer, StepTyped, TypeOK, MainTyped
  <1>12. ASSUME Skip(n)  PROVE StepTyped
    <2>1. Tail(plan[n]) \in Seq(Commands)
      BY <1>12, HeadType DEF Skip, Sending
    <2>2. ThreadsTyped'
      BY <1>12, <2>1 DEF Skip, TypeOK, ThreadsTyped
    <2> QED
      BY <1>12, <2>2, TypesKept DEF Skip, StepTyped, TypeOK, MainTyped
  <1>13. ASSUME Prepare(n)  PROVE StepTyped
    <2>1. HeadEdge(n) \in Edges /\ HeadOp(n) \in Ops /\ Tail(plan[n]) \in Seq(Commands)
      BY <1>13, HeadType DEF Prepare, Sending
    <2>2. put[HeadEdge(n)] + 1 \in Nat /\ pending[HeadEdge(n)] \in Items
      BY <2>1 DEF TypeOK, CodeTyped, EdgesTyped
    <2>3. PICK b \in Entry : hand' = [hand EXCEPT ![n] = b]
      <3> DEFINE e == HeadEdge(n)
      <3>1. CASE HeadOp(n) = "put"
        <4>1. Append(pending[e], put[e] + 1) \in Items
          BY <2>2 DEF Items
        <4>2. [edge |-> e, items |-> Append(pending[e], put[e] + 1)] \in Entry
          BY <2>1, <4>1 DEF Entry
        <4> QED
          BY <1>13, <3>1, <4>2 DEF Prepare
      <3>2. CASE HeadOp(n) = "flush"
        <4>1. [edge |-> e, items |-> pending[e]] \in Entry
          BY <2>1, <2>2 DEF Entry
        <4> QED
          BY <1>13, <3>2, <4>1 DEF Prepare
      <3>3. CASE HeadOp(n) = "eos"
        <4>1. [edge |-> e, items |-> <<EOS>>] \in Entry
          BY <2>1 DEF Entry, Items, EOS
        <4> QED
          BY <1>13, <3>3, <4>1 DEF Prepare
      <3>4. CASE HeadOp(n) = "any"
        BY <1>13, <3>4, NoEntryIsEntry DEF Prepare
      <3> QED
        BY <2>1, <3>1, <3>2, <3>3, <3>4 DEF Ops
    <2>4. ThreadsTyped'
      BY <1>13, <2>1, <2>3 DEF Prepare, TypeOK, ThreadsTyped, Threads
    <2>5. EdgesTyped'
      BY <1>13, <2>1 DEF Prepare, TypeOK, EdgesTyped, Items
    <2>6. LoopTyped'
      BY <1>13, CountSentType DEF Prepare, TypeOK, LoopTyped, loopVars
    <2>7. CodeTyped'
      BY <1>13, <2>1, <2>2 DEF Prepare, TypeOK, CodeTyped
    <2> QED
      BY <1>13, <2>4, <2>5, <2>6, <2>7, TypesKept DEF Prepare, StepTyped, TypeOK, MainTyped
  <1>14. ASSUME Claim(n)  PROVE StepTyped
    <2>1. hand[n].edge \in Edges /\ Len(hand[n].items) \in Nat
      BY DEF TypeOK, ThreadsTyped, Entry, Items
    <2>2. ThreadsTyped'
      BY <1>14 DEF Claim, TypeOK, Claimed, ThreadsTyped, Threads
    <2>3. EdgesTyped'
      BY <1>14, <2>1 DEF Claim, TypeOK, Claimed, Charge, EdgesTyped
    <2>4. CodeTyped'
      BY <1>14 DEF Claim, TypeOK, Claimed, CodeTyped
    <2> QED
      BY <1>14, <2>2, <2>3, <2>4, TypesKept DEF Claim, Claimed, StepTyped, TypeOK, MainTyped
  <1>15. ASSUME ClaimAny(n)  PROVE StepTyped
    <2>1. PICK e \in Edges, r \in Nat :
             /\ r = 0 \/ r < Len(Out[n])
             /\ rr' = [rr EXCEPT ![n] = r]
             /\ credits' = Charge(e, 1)
             /\ put' = [put EXCEPT ![e] = @ + 1]
             /\ hand' = [hand EXCEPT ![n] = [edge |-> e, items |-> <<put[e] + 1>>]]
             /\ CountSent(e)
      BY <1>15, ClaimAnyPicks DEF TypeOK, EdgesTyped
    <2>2. put[e] + 1 \in Nat
      BY DEF TypeOK, CodeTyped
    <2>3. [edge |-> e, items |-> <<put[e] + 1>>] \in Entry
      BY <2>2 DEF Entry, Items
    <2>4. ThreadsTyped'
      BY <1>15, <2>1, <2>3 DEF ClaimAny, TypeOK, Claimed, ThreadsTyped, Threads
    <2>5. EdgesTyped'
      <3>1. credits' \in [Edges -> Int]
        BY <2>1 DEF Charge, TypeOK, EdgesTyped
      <3>2. rr' \in [Nodes -> Nat] /\ \A m \in Nodes : rr'[m] = 0 \/ rr'[m] < Len(Out[m])
        BY <2>1 DEF TypeOK, EdgesTyped
      <3> QED
        BY <1>15, <3>1, <3>2 DEF ClaimAny, Claimed, TypeOK, EdgesTyped
    <2>6. LoopTyped'
      BY <1>15, <2>1, CountSentType DEF ClaimAny, TypeOK, LoopTyped
    <2>7. CodeTyped'
      BY <1>15, <2>1, <2>2 DEF ClaimAny, TypeOK, Claimed, CodeTyped
    <2> QED
      BY <1>15, <2>4, <2>5, <2>6, <2>7, TypesKept DEF ClaimAny, Claimed, StepTyped, TypeOK, MainTyped
  <1>16. ASSUME Block(n)  PROVE StepTyped
    <2> DEFINE F == Flushable(n)
               P == {e \in F : ~done[Dst[e]]}
               New(m) == {e \in P : Dst[e] = m}
               b(m) == LET e == CHOOSE e \in New(m) : TRUE
                       IN  [edge |-> e, items |-> pending[e]]
    <2>1. ASSUME NEW m \in Nodes, New(m) # {}  PROVE b(m) \in Queued
      BY <2>1 DEF Flushable, Entry, Queued, TypeOK, EdgesTyped
    <2>2. q' = [m \in Nodes |-> IF New(m) = {} THEN q[m] ELSE Append(q[m], b(m))]
      BY <1>16 DEF Block
    <2>3. q' \in [Nodes -> Seq(Queued)]
      <3> HIDE DEF b, New
      <3> QED
        BY <2>1, <2>2 DEF TypeOK, EdgesTyped
    <2>4. \A e \in Edges : Len(pending[e]) \in Nat
      BY DEF TypeOK, EdgesTyped, Items
    <2>5. quiet' \in BOOLEAN
      <3>1. quiet' = (quiet /\ P = {})
        BY <1>16 DEF Block
      <3> HIDE DEF P
      <3> QED
        BY <3>1
    <2>6. credits' \in [Edges -> Int] /\ queued' \in [Edges -> Int]
      <3>1. /\ credits' = [e \in Edges |-> IF e \in P THEN credits[e] - Len(pending[e]) ELSE credits[e]]
            /\ queued' = [e \in Edges |-> IF e \in P THEN queued[e] + Len(pending[e]) ELSE queued[e]]
        BY <1>16 DEF Block
      <3> HIDE DEF P
      <3> QED
        BY <3>1, <2>4 DEF TypeOK, EdgesTyped
    <2>7. pending' \in [Edges -> Items]
      <3>1. pending' = [e \in Edges |-> IF e \in F THEN <<>> ELSE pending[e]]
        BY <1>16 DEF Block
      <3> HIDE DEF F
      <3> QED
        BY <3>1 DEF TypeOK, EdgesTyped, Items
    <2>8. ThreadsTyped'
      BY <1>16 DEF Block, TypeOK, ThreadsTyped, Threads, Parks
    <2>9. EdgesTyped'
      BY <1>16, <2>3, <2>6, <2>7 DEF Block, TypeOK, EdgesTyped
    <2> QED
      BY <1>16, <2>8, <2>9, <2>5, TypesKept DEF Block, StepTyped, TypeOK, MainTyped
  <1>17. ASSUME Push(n)  PROVE StepTyped
    <2>1. hand[n] \in Entry /\ hand[n].edge \in Edges /\ Len(hand[n].items) \in Nat
      BY DEF TypeOK, ThreadsTyped, Entry, Items
    <2>2. Dst[hand[n].edge] \in Nodes
      BY <2>1, GraphType
    <2>3. hand[n] \in Queued
      BY <1>17, <2>1 DEF Push, Queued, TypeOK, ThreadsTyped
    <2>4. q' \in [Nodes -> Seq(Queued)]
      <3>1. /\ q \in [Nodes -> Seq(Queued)]
            /\ q' = q \/ q' = [q EXCEPT ![Dst[hand[n].edge]] = Append(@, hand[n])]
        BY <1>17 DEF Push, TypeOK, EdgesTyped
      <3>2. Append(q[Dst[hand[n].edge]], hand[n]) \in Seq(Queued)
        BY <3>1, <2>2, <2>3, AppendProperties
      <3> QED
        BY <3>1, <3>2, <2>2
    <2>5. ThreadsTyped'
      BY <1>17, NoEntryIsEntry, NotifyType DEF Push, TypeOK, ThreadsTyped, Threads
    <2>6. EdgesTyped'
      BY <1>17, <2>1, <2>4 DEF Push, TypeOK, EdgesTyped
    <2> QED
      BY <1>17, <2>5, <2>6, TypesKept DEF Push, StepTyped, TypeOK, MainTyped
  <1>18. ASSUME TakeKept(n)  PROVE StepTyped
    <2>1. PICK e \in Edges :
             /\ kept[e] # <<>>
             /\ kept' = [kept EXCEPT ![e] = Tail(@)]
             /\ taken' = [taken EXCEPT ![n] = <<Head(kept[e])>>]
             /\ got' = [got EXCEPT ![e] = @ + 1]
             /\ rel' = [rel EXCEPT ![n] = [edge |-> e, n |-> 1]]
      BY <1>18 DEF TakeKept
    <2>2. Tail(kept[e]) \in Items /\ <<Head(kept[e])>> \in Items
      BY <2>1 DEF TypeOK, ReceiversTyped, Items
    <2>3. ThreadsTyped'
      BY <1>18 DEF TakeKept, TypeOK, ThreadsTyped, Threads
    <2>4. ReceiversTyped'
      BY <1>18, <2>1, <2>2 DEF TakeKept, TypeOK, ReceiversTyped
    <2>5. LoopTyped'
      BY <1>18 DEF TakeKept, TypeOK, LoopTyped
    <2>6. CodeTyped'
      BY <1>18, <2>1 DEF TakeKept, TypeOK, CodeTyped
    <2> QED
      BY <1>18, <2>3, <2>4, <2>5, <2>6, TypesKept DEF TakeKept, StepTyped, TypeOK, MainTyped
  <1>19. ASSUME Drain(n)  PROVE StepTyped
    <2>1. batch[n].edge \in Edges /\ batch[n].items \in Items /\ Len(batch[n].items) \in Nat
      BY DEF TypeOK, ReceiversTyped, Entry, Items
    <2>2. ThreadsTyped'
      BY <1>19 DEF Drain, TypeOK, ThreadsTyped, Threads
    <2>3. ReceiversTyped'
      BY <1>19, <2>1, NoEntryIsEntry DEF Drain, TypeOK, ReceiversTyped
    <2>4. CodeTyped'
      BY <1>19, <2>1 DEF Drain, TypeOK, CodeTyped
    <2> QED
      BY <1>19, <2>2, <2>3, <2>4, TypesKept DEF Drain, StepTyped, TypeOK, MainTyped
  <1>20. ASSUME NextOfBatch(n)  PROVE StepTyped
    <2>1. batch[n] \in Entry /\ batch[n].items # <<>>
      BY <1>20 DEF NextOfBatch, TypeOK, ReceiversTyped
    <2>2. /\ pc' \in [Nodes -> Threads] /\ \A m \in Nodes : pc'[m] = "push" => pc[m] = "push"
          /\ ReceiversTyped' /\ LoopTyped' /\ got' \in [Edges -> Nat]
      BY <1>20, <2>1, UnpackType DEF NextOfBatch
    <2>3. ThreadsTyped'
      BY <1>20, <2>2 DEF NextOfBatch, TypeOK, ThreadsTyped
    <2>4. CodeTyped'
      BY <1>20, <2>2 DEF NextOfBatch, TypeOK, CodeTyped
    <2> QED
      BY <1>20, <2>3, <2>4, <2>2, TypesKept DEF NextOfBatch, StepTyped, TypeOK, MainTyped
  <1>21. ASSUME Pop(n)  PROVE StepTyped
    <2> DEFINE b == Head(q[n])
    <2>1. b \in Queued /\ Tail(q[n]) \in Seq(Queued)
      BY <1>21 DEF Pop, TypeOK, EdgesTyped
    <2>2. b.edge \in Edges /\ Len(b.items) \in Int
      BY <2>1 DEF Queued, Entry, Control, Items
    <2>3. /\ pc' \in [Nodes -> Threads] /\ \A m \in Nodes : pc'[m] = "push" => pc[m] = "push"
          /\ ReceiversTyped' /\ LoopTyped' /\ got' \in [Edges -> Nat]
      <3>1. CASE b.items = <<EOS>>
        <4>1. /\ rel' = [rel EXCEPT ![n] = [edge |-> b.edge, n |-> 1]]
              /\ ended' = ended \cup {b.edge}
              /\ pc' = [pc EXCEPT ![n] = "release"]
              /\ UNCHANGED <<batch, kept, taken, got, loopVars>>
          BY <1>21, <3>1 DEF Pop
        <4> QED
          BY <4>1, <2>2 DEF TypeOK, ThreadsTyped, Threads, ReceiversTyped, LoopTyped,
                            loopVars, CodeTyped
      <3>2. CASE b.items # <<EOS>> /\ b.items = <<LOOP_DONE>>
        BY <1>21, <3>2 DEF Pop, TypeOK, ThreadsTyped, Threads, ReceiversTyped, LoopTyped,
                         loopVars, CodeTyped
      <3>3. CASE b.items # <<EOS>> /\ b.items # <<LOOP_DONE>>
        <4>1. b \in Entry /\ b.items # <<>>
          BY <2>1, <3>3 DEF Queued, Control
        <4>2. Unpack(n, b) /\ UNCHANGED ended
          BY <1>21, <3>3 DEF Pop
        <4> QED
          BY <4>1, <4>2, UnpackType
      <3> QED
        BY <3>1, <3>2, <3>3
    <2>4. ThreadsTyped'
      BY <1>21, <2>3 DEF Pop, TypeOK, ThreadsTyped
    <2>5. EdgesTyped'
      BY <1>21, <2>1, <2>2 DEF Pop, TypeOK, EdgesTyped
    <2>6. CodeTyped'
      BY <1>21, <2>3 DEF Pop, TypeOK, CodeTyped
    <2> QED
      BY <1>21, <2>4, <2>5, <2>6, <2>3, TypesKept DEF Pop, StepTyped, TypeOK, MainTyped
  <1>22. ASSUME FlushFirst(n)  PROVE StepTyped
    <2>1. ThreadsTyped'
      BY <1>22, ClosePlanType, PlanType DEF FlushFirst, TypeOK, ThreadsTyped
    <2> QED
      BY <1>22, <2>1, TypesKept DEF FlushFirst, StepTyped, TypeOK, MainTyped
  <1>23. ASSUME Await(n)  PROVE StepTyped
    <2>1. ThreadsTyped'
      BY <1>23 DEF Await, TypeOK, ThreadsTyped, Threads, Parks
    <2> QED
      BY <1>23, <2>1, TypesKept DEF Await, StepTyped, TypeOK, MainTyped
  <1>24. ASSUME Release(n)  PROVE StepTyped
    <2>1. rel[n].edge \in Edges /\ rel[n].n \in Nat
      BY DEF TypeOK, ReceiversTyped
    <2>2. ThreadsTyped'
      BY <1>24, NotifyType DEF Release, TypeOK, ThreadsTyped, Threads
    <2>3. EdgesTyped'
      BY <1>24, <2>1 DEF Release, TypeOK, EdgesTyped
    <2>4. ReceiversTyped'
      BY <1>24, NoEntryIsEntry DEF Release, TypeOK, ReceiversTyped, NoRelease
    <2> QED
      BY <1>24, <2>2, <2>3, <2>4, TypesKept DEF Release, StepTyped, TypeOK, MainTyped
  <1>25. ASSUME LoopDone(n)  PROVE StepTyped
    <2>1. MaybeClose(n, tokens - 1, external)
      BY <1>25 DEF LoopDone
    <2>2. tokens \in Int /\ external \in Int /\ tokens - 1 \in Int /\ external - 1 \in Int
      BY DEF TypeOK, LoopTyped
    <2>3. /\ pc' \in [Nodes -> Threads] /\ \A m \in Nodes : pc'[m] = "push" => pc[m] = "push"
          /\ tokens' \in Int /\ external' \in Int /\ closed' \in BOOLEAN
          /\ telling' \in [Nodes -> Seq(Nodes)]
      BY <2>1, <2>2, MaybeCloseType
    <2>4. ThreadsTyped'
      BY <1>25, <2>3 DEF LoopDone, TypeOK, ThreadsTyped
    <2>5. LoopTyped'
      BY <1>25, <2>3 DEF LoopDone, TypeOK, LoopTyped
    <2> QED
      BY <1>25, <2>4, <2>5, TypesKept DEF LoopDone, StepTyped, TypeOK, MainTyped
  <1>26. ASSUME ExternalEnded(n)  PROVE StepTyped
    <2>1. MaybeClose(n, tokens, external - 1)
      BY <1>26 DEF ExternalEnded
    <2>2. tokens \in Int /\ external \in Int /\ tokens - 1 \in Int /\ external - 1 \in Int
      BY DEF TypeOK, LoopTyped
    <2>3. /\ pc' \in [Nodes -> Threads] /\ \A m \in Nodes : pc'[m] = "push" => pc[m] = "push"
          /\ tokens' \in Int /\ external' \in Int /\ closed' \in BOOLEAN
          /\ telling' \in [Nodes -> Seq(Nodes)]
      BY <2>1, <2>2, MaybeCloseType
    <2>4. ThreadsTyped'
      BY <1>26, <2>3 DEF ExternalEnded, TypeOK, ThreadsTyped
    <2>5. LoopTyped'
      BY <1>26, <2>3 DEF ExternalEnded, TypeOK, LoopTyped
    <2> QED
      BY <1>26, <2>4, <2>5, TypesKept DEF ExternalEnded, StepTyped, TypeOK, MainTyped
  <1>27. ASSUME Tell(n)  PROVE StepTyped
    <2>1. Head(telling[n]) \in Nodes /\ Tail(telling[n]) \in Seq(Nodes)
      BY <1>27 DEF Tell, TypeOK, LoopTyped
    <2>2. [NoEntry EXCEPT !.items = <<LOOP_DONE>>] \in Control
      BY NoEntryIsEntry DEF Control, Entry
    <2>3. q' \in [Nodes -> Seq(Queued)]
      <3>1. /\ q \in [Nodes -> Seq(Queued)]
            /\ \/ q' = q
               \/ q' = [q EXCEPT ![Head(telling[n])] = Append(@, [NoEntry EXCEPT !.items = <<LOOP_DONE>>])]
        BY <1>27 DEF Tell, TypeOK, EdgesTyped
      <3>2. Append(q[Head(telling[n])], [NoEntry EXCEPT !.items = <<LOOP_DONE>>]) \in Seq(Queued)
        BY <3>1, <2>1, <2>2, AppendProperties DEF Queued
      <3> QED
        BY <3>1, <3>2, <2>1
    <2>4. ThreadsTyped'
      BY <1>27, NotifyType DEF Tell, TypeOK, ThreadsTyped, Threads
    <2>5. EdgesTyped'
      BY <1>27, <2>3 DEF Tell, TypeOK, EdgesTyped
    <2>6. LoopTyped'
      BY <1>27, <2>1 DEF Tell, TypeOK, LoopTyped
    <2> QED
      BY <1>27, <2>4, <2>5, <2>6, TypesKept DEF Tell, StepTyped, TypeOK, MainTyped
  <1>28. ASSUME CancelStep(n)  PROVE StepTyped
    <2>1. ThreadsTyped'
      BY <1>28, NotifyType DEF CancelStep, TypeOK, ThreadsTyped
    <2>2. RunTyped'
      BY <1>28 DEF CancelStep, TypeOK, RunTyped
    <2> QED
      BY <1>28, <2>1, <2>2, TypesKept DEF CancelStep, StepTyped, TypeOK, MainTyped
  <1>29. ASSUME CancelReturns(n)  PROVE StepTyped
    <2>1. ThreadsTyped'
      BY <1>29 DEF CancelReturns, TypeOK, ThreadsTyped, Threads
    <2> QED
      BY <1>29, <2>1, TypesKept DEF CancelReturns, StepTyped, TypeOK, MainTyped
  <1> QED
    BY <1>1, <1>2, <1>3, <1>4, <1>5, <1>6, <1>7, <1>8, <1>9, <1>4x, <1>11, <1>12, <1>13, <1>14, <1>15, <1>16, <1>17, <1>18, <1>19, <1>20, <1>21, <1>22, <1>23, <1>24, <1>25, <1>26, <1>27, <1>28, <1>29 DEF Emits, Receives, Runs

LEMMA MainThreadTyped ==
    ASSUME TypeOK, MainThread
    PROVE  TypeOK'
  <1>1. CASE Tick
    <2>1. /\ ThreadsTyped' /\ EdgesTyped' /\ ReceiversTyped' /\ LoopTyped' /\ CodeTyped'
          /\ UNCHANGED <<failures, nextCond, towake>>
      BY <1>1, TypesKept DEF Tick
    <2>2. Stalled \in Nat
      BY DEF Stalled, TypeOK, MainTyped
    <2>3. /\ cancelled' \in BOOLEAN /\ canceller' \subseteq Nodes \cup {Main}
          /\ main' \in {"watch", "cancel", "join", "over"} /\ deadlock' \in BOOLEAN
          /\ stall' \in Nat /\ quiet' \in BOOLEAN /\ slow' \subseteq Nodes
      <3>1. CASE cancelled \/ ~AnyLive
        BY <1>1, <3>1 DEF Tick, TypeOK, RunTyped, MainTyped
      <3>2. CASE ~(cancelled \/ ~AnyLive) /\ ~AllIdle
        <4>1. stall' = 0 /\ quiet' = FALSE /\ UNCHANGED <<main, slow, deadlock, cancelled, canceller>>
          BY <1>1, <3>2 DEF Tick
        <4> QED
          BY <4>1 DEF TypeOK, RunTyped, MainTyped
      <3>3. CASE ~(cancelled \/ ~AnyLive) /\ AllIdle /\ Stalled < StallLimit
        BY <1>1, <2>2, <3>3 DEF Tick, TypeOK, RunTyped, MainTyped
      <3>4. CASE ~(cancelled \/ ~AnyLive) /\ AllIdle /\ ~(Stalled < StallLimit)
        BY <1>1, <2>2, <3>4 DEF Tick, TypeOK, RunTyped, MainTyped
      <3> QED
        BY <3>1, <3>2, <3>3, <3>4
    <2>4. RunTyped' /\ MainTyped'
      BY <2>1, <2>3 DEF TypeOK, RunTyped, MainTyped
    <2> QED
      BY <2>1, <2>4 DEF TypeOK
  <1>2. CASE MainCancelReturns
    BY <1>2, TypesKept DEF MainCancelReturns, TypeOK, MainTyped
  <1>3. CASE Join
    BY <1>3, TypesKept DEF Join, TypeOK, MainTyped
  <1>4. CASE CancelStep(Main) /\ UNCHANGED slow
    <2>1. ThreadsTyped' /\ RunTyped'
      BY <1>4, NotifyType DEF CancelStep, TypeOK, ThreadsTyped, RunTyped
    <2> QED
      BY <1>4, <2>1, TypesKept DEF CancelStep, mainVars, TypeOK, MainTyped
  <1> QED
    BY <1>1, <1>2, <1>3, <1>4 DEF MainThread

LEMMA InitTyped == Init => TypeOK
  <1> SUFFICES ASSUME Init  PROVE TypeOK
    OBVIOUS
  <1>1. ThreadsTyped
    BY NoEntryIsEntry, EmptySeq DEF Init, ThreadsTyped, Threads
  <1>2. EdgesTyped
    BY SizeType, EmptySeq DEF Init, EdgesTyped, Items
  <1>3. ReceiversTyped
    BY NoEntryIsEntry, EmptySeq DEF Init, ReceiversTyped, NoRelease, Items
  <1>4. LoopTyped
    <2>1. IsFiniteSet({e \in Edges : EntersLoop(e)})
      BY GraphAssumption, FS_Subset
    <2>2. external \in Nat
      BY <2>1, FS_CardinalityType DEF Init
    <2>3. tokens = 0 /\ closed = FALSE /\ owes = [m \in Nodes |-> FALSE]
      BY DEF Init
    <2>4. telling \in [Nodes -> Seq(Nodes)]
      BY EmptySeq DEF Init
    <2>5. tokens \in Int /\ external \in Int
      BY <2>2, <2>3
    <2>6. closed \in BOOLEAN /\ owes \in [Nodes -> BOOLEAN]
      BY <2>3
    <2> QED
      BY <2>4, <2>5, <2>6 DEF LoopTyped
  <1>5. CodeTyped /\ RunTyped /\ MainTyped
    BY EmptySeq DEF Init, CodeTyped, RunTyped, MainTyped
  <1> QED
    BY <1>1, <1>2, <1>3, <1>4, <1>5 DEF TypeOK

LEMMA TypeStep == TypeOK /\ [Next]_vars => TypeOK'
  <1> SUFFICES ASSUME TypeOK, [Next]_vars  PROVE TypeOK'
    OBVIOUS
  <1>1. ASSUME NEW n \in Nodes, Node(n)  PROVE TypeOK'
    <2>1. StepTyped /\ slow' = slow \ {n}
      BY <1>1, NodeTyped DEF Node
    <2> QED
      BY <2>1 DEF StepTyped, mainVars, TypeOK, MainTyped
  <1>2. CASE MainThread
    BY <1>2, MainThreadTyped
  <1>3. CASE Over \/ UNCHANGED vars
    BY <1>3, TypesKept DEF Over, vars, mainVars, TypeOK, MainTyped
  <1> QED
    BY <1>1, <1>2, <1>3 DEF Next

\* Every variable of the runtime keeps its type, whatever the graph: in particular
\* no entry in a queue is empty, and a thread about to push has something in hand
\* (Outbox._push_entry, Inbox.push).
THEOREM TypeCorrect == Spec => []TypeOK
  <1>1. Init => TypeOK
    BY InitTyped
  <1>2. TypeOK /\ [Next]_vars => TypeOK'
    BY TypeStep
  <1> QED
    BY <1>1, <1>2, PTL DEF Spec

-----------------------------------------------------------------------------
(* No credit is lost or made.                                              *)
(*                                                                         *)
(* CreditConservation counts credits by edge, so it is inductive only      *)
(* beside the facts that tie what a thread holds to an edge of its own:    *)
(* what it sends leaves it, what it receives was sent to it, and it pops   *)
(* an entry only when it has used up the one before.                       *)

QueuedFor(n) == {b \in Queued : b \in Control \/ Dst[b.edge] = n}

PlanWired == \A n \in Nodes : plan[n] \in Seq(CommandsOf(n))
HandWired == \A n \in Nodes : hand[n].items # <<>> => Src[hand[n].edge] = n
QueueWired == \A n \in Nodes : q[n] \in Seq(QueuedFor(n))
BatchWired == \A n \in Nodes : /\ batch[n].items # <<>> => Dst[batch[n].edge] = n
                               /\ pc[n] = "park_in" => batch[n].items = <<>>
ReleaseWired == \A n \in Nodes : pc[n] = "release" => Dst[rel[n].edge] = n

CreditInv == /\ TypeOK
             /\ PlanWired /\ HandWired /\ QueueWired /\ BatchWired /\ ReleaseWired
             /\ CreditConservation

\* What every step of a node keeps.
StepWired == /\ PlanWired' /\ HandWired' /\ QueueWired' /\ BatchWired' /\ ReleaseWired'
             /\ CreditConservation'

LEMMA CountType ==
    ASSUME TypeOK, NEW e \in Edges
    PROVE  /\ Sent(e) \in Nat /\ Held(e) \in Nat
           /\ credits[e] \in Int /\ queued[e] \in Int /\ Capacity[e] \in Nat
           /\ Src[e] \in Nodes /\ Dst[e] \in Nodes
  <1>1. Src[e] \in Nodes /\ Dst[e] \in Nodes
    BY GraphType
  <1>2. Sent(e) \in Nat
    BY <1>1 DEF Sent, TypeOK, ThreadsTyped, Entry, Items
  <1>3. /\ Len(kept[e]) \in Nat /\ Len(batch[Dst[e]].items) \in Nat /\ rel[Dst[e]].n \in Nat
    BY <1>1 DEF TypeOK, ReceiversTyped, Entry, Items
  <1>4. Held(e) \in Nat
    <2> DEFINE X == IF batch[Dst[e]].edge = e THEN Len(batch[Dst[e]].items) ELSE 0
               Y == IF pc[Dst[e]] = "release" /\ rel[Dst[e]].edge = e THEN rel[Dst[e]].n ELSE 0
    <2>1. X \in Nat /\ Y \in Nat
      BY <1>3
    <2>2. Held(e) = Len(kept[e]) + X + Y
      BY DEF Held
    <2> HIDE DEF X, Y
    <2> QED
      BY <1>3, <2>1, <2>2
  <1> QED
    BY <1>1, <1>2, <1>4, SizeType DEF TypeOK, EdgesTyped

\* A step of n that neither starts nor ends a push keeps what is being sent.
LEMMA SentKept ==
    ASSUME TypeOK, NEW n \in Nodes, pc[n] # "push", pc'[n] # "push",
           \A m \in Nodes \ {n} : pc'[m] = pc[m] /\ hand'[m] = hand[m],
           NEW e \in Edges
    PROVE  Sent(e)' = Sent(e)
  BY GraphType DEF Sent

\* A step of n that gives no credit back and unpacks nothing keeps what is held.
LEMMA HeldKept ==
    ASSUME TypeOK, NEW n \in Nodes, pc[n] # "release", pc'[n] # "release",
           UNCHANGED <<kept, batch>>,
           \A m \in Nodes \ {n} : pc'[m] = pc[m] /\ rel'[m] = rel[m],
           NEW e \in Edges
    PROVE  Held(e)' = Held(e)
  BY GraphType DEF Held

\* What is not touched stays wired, and an edge whose counts do not move stays balanced.
LEMMA WiredKept ==
    ASSUME CreditInv
    PROVE  /\ UNCHANGED plan => PlanWired'
           /\ UNCHANGED hand => HandWired'
           /\ UNCHANGED q => QueueWired'
           /\ UNCHANGED batch /\ (\A m \in Nodes : pc'[m] = "park_in" => pc[m] = "park_in")
                 => BatchWired'
           /\ UNCHANGED rel /\ (\A m \in Nodes : pc'[m] = "release" => pc[m] = "release")
                 => ReleaseWired'
  BY DEF CreditInv, PlanWired, HandWired, QueueWired, BatchWired, ReleaseWired

LEMMA BalanceKept ==
    ASSUME CreditInv, UNCHANGED <<credits, queued, done>>,
           \A e \in Edges : Sent(e)' = Sent(e) /\ Held(e)' = Held(e)
    PROVE  CreditConservation'
  BY DEF CreditInv, CreditConservation, Balanced

\* Unpacking an entry that has just left the queue adds its items to what is held;
\* taking the next item of the current batch only moves it.
LEMMA UnpackHeld ==
    ASSUME TypeOK, NEW n \in Nodes, NEW b \in Entry, b.items # <<>>, Dst[b.edge] = n,
           pc[n] # "release", batch[n] = b \/ batch[n].items = <<>>, Unpack(n, b),
           UNCHANGED ended, NEW e \in Edges
    PROVE  Held(e)' = Held(e) + (IF e = b.edge /\ batch[n].items = <<>>
                                 THEN Len(b.items) ELSE 0)
  <1>1. b.edge \in Edges /\ b.items \in Seq(Nat) /\ Len(b.items) \in Nat /\ Len(b.items) > 0
    BY EmptySeq DEF Entry, Items
  <1>2. Len(Tail(b.items)) = Len(b.items) - 1
    BY <1>1
  <1>3. /\ kept \in [Edges -> Seq(Nat)] /\ batch \in [Nodes -> Entry]
        /\ pc \in [Nodes -> Threads] /\ rel \in [Nodes -> [edge : Edges, n : Nat]]
        /\ Dst[e] \in Nodes
    BY GraphType DEF TypeOK, ThreadsTyped, ReceiversTyped, Items
  <1>4. Len(kept[e]) \in Nat /\ Len(batch[Dst[e]].items) \in Nat
    BY <1>3 DEF Entry, Items
  <1>5. CASE Dst[e] # n
    <2>1. e # b.edge
      BY <1>5
    <2>2. /\ batch'[Dst[e]] = batch[Dst[e]] /\ rel'[Dst[e]] = rel[Dst[e]]
          /\ pc'[Dst[e]] = pc[Dst[e]] /\ kept'[e] = kept[e]
      BY <1>1, <1>3, <1>5, <2>1 DEF Unpack
    <2> QED
      BY <2>1, <2>2, <1>3, CountType DEF Held
  <1>6. CASE Dst[e] = n
    <2> DEFINE InBatch == IF batch[n].edge = e THEN Len(batch[n].items) ELSE 0
               Left == IF e = b.edge THEN Len(b.items) - 1 ELSE 0
               Now == IF e = b.edge THEN 1 ELSE 0
    <2>1. Held(e) = Len(kept[e]) + InBatch
      BY <1>3, <1>6 DEF Held
    <2>2. (IF batch'[n].edge = e THEN Len(batch'[n].items) ELSE 0) = Left
      <3>1. CASE Len(b.items) = 1
        <4>1. batch'[n] = NoEntry
          BY <3>1, <1>3 DEF Unpack
        <4> QED
          BY <4>1, <3>1, NoEntryIsEntry, EmptySeq
      <3>2. CASE Len(b.items) # 1
        <4>1. batch'[n] = [b EXCEPT !.items = Tail(@)]
          BY <3>2, <1>3 DEF Unpack
        <4>2. batch'[n].edge = b.edge /\ batch'[n].items = Tail(b.items)
          BY <4>1 DEF Entry
        <4> QED
          BY <4>2, <1>2
      <3> QED
        BY <3>1, <3>2
    <2>3. Len(kept'[e]) + (IF pc'[n] = "release" /\ rel'[n].edge = e THEN rel'[n].n ELSE 0)
             = Len(kept[e]) + Now
      <3>1. CASE Watched(n) \subseteq {b.edge}
        <4>1. /\ rel'[n] = [edge |-> b.edge, n |-> 1] /\ pc'[n] = "release"
              /\ kept' = kept
          BY <3>1, <1>3 DEF Unpack
        <4> QED
          BY <4>1, <1>3
      <3>2. CASE ~(Watched(n) \subseteq {b.edge})
        <4>1. /\ pc'[n] = "run"
              /\ kept' = [kept EXCEPT ![b.edge] = Append(@, Head(b.items))]
          BY <3>2, <1>3 DEF Unpack
        <4>2. Len(Append(kept[b.edge], Head(b.items))) = Len(kept[b.edge]) + 1
          BY <1>1, <1>3
        <4> QED
          BY <4>1, <4>2, <1>1, <1>3
      <3> QED
        BY <3>1, <3>2
    <2>4. Held(e)' = Len(kept[e]) + Now + Left
      <3> DEFINE X == IF batch'[n].edge = e THEN Len(batch'[n].items) ELSE 0
                 Y == IF pc'[n] = "release" /\ rel'[n].edge = e THEN rel'[n].n ELSE 0
      <3>1. Held(e)' = Len(kept'[e]) + X + Y
        BY <1>6 DEF Held
      <3>2. kept' \in [Edges -> Seq(Nat)] /\ rel' \in [Nodes -> [edge : Edges, n : Nat]]
        BY UnpackType DEF ReceiversTyped, Items
      <3>3. Len(kept'[e]) \in Nat /\ Y \in Nat
        BY <3>2
      <3>4. X = Left /\ Len(kept'[e]) + Y = Len(kept[e]) + Now
        BY <2>2, <2>3
      <3>5. Left \in Nat /\ Now \in Nat /\ Len(kept[e]) \in Nat
        BY <1>1, <1>4
      <3> HIDE DEF X, Y, Left, Now
      <3> QED
        BY <3>1, <3>3, <3>4, <3>5
    <2> DEFINE Whole == IF e = b.edge THEN Len(b.items) ELSE 0
    <2>5. Now + Left = Whole /\ Whole \in Nat
      BY <1>1
    <2>6. CASE batch[n].items = <<>>
      <3>1. InBatch = 0
        BY <2>6, EmptySeq
      <3>2. Left \in Nat /\ Now \in Nat
        BY <1>1
      <3>3. (IF e = b.edge /\ batch[n].items = <<>> THEN Len(b.items) ELSE 0) = Whole
        BY <2>6
      <3> HIDE DEF InBatch, Left, Now, Whole
      <3>4. Held(e)' = Held(e) + Whole
        BY <2>1, <2>4, <2>5, <3>1, <3>2, <1>4
      <3> QED
        BY <3>3, <3>4
    <2>7. CASE batch[n].items # <<>>
      <3>1. InBatch = Whole
        BY <2>7
      <3>2. Left \in Nat /\ Now \in Nat
        BY <1>1
      <3>3. (IF e = b.edge /\ batch[n].items = <<>> THEN Len(b.items) ELSE 0) = 0
        BY <2>7
      <3> HIDE DEF InBatch, Left, Now, Whole
      <3>4. Held(e)' = Held(e) + 0
        BY <2>1, <2>4, <2>5, <3>1, <3>2, <1>4
      <3> QED
        BY <3>3, <3>4
    <2> QED
      BY <2>6, <2>7
  <1> QED
    BY <1>5, <1>6

\* A step of n that claims nothing, pushes nothing, receives nothing and gives
\* nothing back.
LEMMA NeutralStep ==
    ASSUME CreditInv, NEW n \in Nodes, UNCHANGED <<credits, queued, done, kept, batch>>,
           pc[n] \notin {"push", "release"}, pc'[n] \notin {"push", "release"},
           \A m \in Nodes \ {n} : pc'[m] = pc[m] /\ hand'[m] = hand[m] /\ rel'[m] = rel[m]
    PROVE  CreditConservation'
  <1>1. TypeOK
    BY DEF CreditInv
  <1>2. \A e \in Edges : Sent(e)' = Sent(e)
    BY <1>1, SentKept
  <1>3. \A e \in Edges : Held(e)' = Held(e)
    BY <1>1, HeldKept
  <1> QED
    BY <1>2, <1>3, BalanceKept

LEMMA PlanStep ==
    ASSUME CreditInv, NEW n \in Nodes, NEW v \in Seq(CommandsOf(n)), plan' = [plan EXCEPT ![n] = v]
    PROVE  PlanWired'
  BY DEF CreditInv, PlanWired, TypeOK, ThreadsTyped

LEMMA HandStep ==
    ASSUME CreditInv, NEW n \in Nodes, NEW v \in Entry, v.items # <<>> => Src[v.edge] = n,
           hand' = [hand EXCEPT ![n] = v]
    PROVE  HandWired'
  BY DEF CreditInv, HandWired, TypeOK, ThreadsTyped

LEMMA QueueStep ==
    ASSUME CreditInv, NEW n \in Nodes, NEW v \in Seq(QueuedFor(n)), q' = [q EXCEPT ![n] = v]
    PROVE  QueueWired'
  BY DEF CreditInv, QueueWired, TypeOK, EdgesTyped

\* The command n is about to carry out is one of its own.
LEMMA HeadWired ==
    ASSUME CreditInv, NEW n \in Nodes, plan[n] # <<>>
    PROVE  /\ HeadEdge(n) \in Edges /\ HeadOp(n) \in Ops
           /\ HeadOp(n) # "any" => Src[HeadEdge(n)] = n
           /\ Tail(plan[n]) \in Seq(CommandsOf(n))
  <1>1. plan[n] \in Seq(CommandsOf(n))
    BY DEF CreditInv, PlanWired
  <1>2. Head(plan[n]) \in CommandsOf(n) /\ Tail(plan[n]) \in Seq(CommandsOf(n))
    BY <1>1, HeadTailProperties
  <1> QED
    BY <1>2 DEF HeadEdge, HeadOp, CommandsOf, Commands

\* The entry n is about to pop was sent to it, unless it comes from no edge.
LEMMA HeadQueued ==
    ASSUME CreditInv, NEW n \in Nodes, q[n] # <<>>
    PROVE  Head(q[n]) \in QueuedFor(n) /\ Tail(q[n]) \in Seq(QueuedFor(n))
  BY HeadTailProperties DEF CreditInv, QueueWired

\* Taking credits moves them to the entry that is about to be pushed.
LEMMA ClaimStep ==
    ASSUME CreditInv, NEW n \in Nodes, NEW e \in Edges, NEW k \in Nat,
           Src[e] = n, OutReady(e, k), credits' = Charge(e, k),
           pc[n] \notin {"push", "release"}, pc'[n] = "push",
           hand'[n].edge = e, Len(hand'[n].items) = k,
           UNCHANGED <<queued, done, kept, batch>>,
           \A m \in Nodes \ {n} : pc'[m] = pc[m] /\ hand'[m] = hand[m] /\ rel'[m] = rel[m]
    PROVE  CreditConservation'
  <1>1. TypeOK /\ \A d \in Edges : Balanced(d)
    BY DEF CreditInv, CreditConservation
  <1>2. \A d \in Edges : Held(d)' = Held(d)
    BY <1>1, HeldKept
  <1>3. Sent(e) = 0 /\ Sent(e)' = k
    BY DEF Sent
  <1>4. \A d \in Edges \ {e} : Sent(d)' = Sent(d)
    BY GraphType DEF Sent
  <1>5. /\ credits'[e] = IF done[Dst[e]] THEN credits[e] ELSE credits[e] - k
        /\ \A d \in Edges \ {e} : credits'[d] = credits[d]
    BY <1>1 DEF Charge, TypeOK, EdgesTyped
  <1>6. Balanced(e)'
    BY <1>1, <1>2, <1>3, <1>5, CountType DEF Balanced, OutReady
  <1>7. \A d \in Edges \ {e} : Balanced(d)'
    BY <1>1, <1>2, <1>4, <1>5 DEF Balanced
  <1> QED
    BY <1>6, <1>7 DEF CreditConservation

\* A step of n that only moves credits it holds on edge e from one place to another.
LEMMA MoveStep ==
    ASSUME CreditInv, NEW n \in Nodes, NEW e \in Edges, Dst[e] = n,
           UNCHANGED <<credits, queued, done>>,
           pc[n] \notin {"push", "release"}, pc'[n] # "push",
           \A m \in Nodes \ {n} : /\ pc'[m] = pc[m] /\ hand'[m] = hand[m]
                                   /\ rel'[m] = rel[m] /\ batch'[m] = batch[m],
           \A d \in Edges \ {e} : kept'[d] = kept[d],
           Held(e)' = Held(e),
           \A d \in Edges \ {e} : Dst[d] = n => Held(d)' = Held(d)
    PROVE  CreditConservation'
  <1>1. TypeOK
    BY DEF CreditInv
  <1>2. \A d \in Edges : Sent(d)' = Sent(d)
    BY <1>1, SentKept
  <1>3. ASSUME NEW d \in Edges, Dst[d] # n  PROVE Held(d)' = Held(d)
    <2>1. d # e /\ Dst[d] \in Nodes \ {n}
      BY <1>3, GraphType
    <2>2. /\ kept'[d] = kept[d] /\ batch'[Dst[d]] = batch[Dst[d]]
          /\ pc'[Dst[d]] = pc[Dst[d]] /\ rel'[Dst[d]] = rel[Dst[d]]
      BY <2>1
    <2> QED
      BY <2>2 DEF Held
  <1>4. \A d \in Edges : Held(d)' = Held(d)
    BY <1>3
  <1> QED
    BY <1>2, <1>4, BalanceKept

\* What unpacking leaves in the thread's hands came to it from its own edge.
LEMMA UnpackWired ==
    ASSUME CreditInv, NEW n \in Nodes, NEW b \in Entry, Dst[b.edge] = n, Unpack(n, b)
    PROVE  BatchWired' /\ ReleaseWired'
  <1>1. /\ pc \in [Nodes -> Threads] /\ batch \in [Nodes -> Entry]
        /\ rel \in [Nodes -> [edge : Edges, n : Nat]]
    BY DEF CreditInv, TypeOK, ThreadsTyped, ReceiversTyped
  <1>2. BatchWired'
    <2>1. pc'[n] # "park_in" /\ \A m \in Nodes \ {n} : pc'[m] = pc[m] /\ batch'[m] = batch[m]
      BY <1>1 DEF Unpack
    <2>2. batch'[n].items # <<>> => Dst[batch'[n].edge] = n
      BY <1>1, NoEntryIsEntry DEF Unpack, Entry
    <2> QED
      BY <2>1, <2>2 DEF CreditInv, BatchWired
  <1>3. ReleaseWired'
    <2>1. \A m \in Nodes \ {n} : pc'[m] = pc[m] /\ rel'[m] = rel[m]
      BY <1>1 DEF Unpack
    <2>2. pc'[n] = "release" => Dst[rel'[n].edge] = n
      BY <1>1 DEF Unpack
    <2> QED
      BY <2>1, <2>2 DEF CreditInv, ReleaseWired
  <1> QED
    BY <1>2, <1>3

LEMMA LoopDoneIsNotEos == <<LOOP_DONE>> # <<EOS>>
  BY DEF LOOP_DONE, EOS

LEMMA NodeWired ==
    ASSUME CreditInv, NEW n \in Nodes, Emits(n) \/ Receives(n) \/ Runs(n)
    PROVE  StepWired
  <1>t. /\ TypeOK
        /\ pc \in [Nodes -> Threads] /\ hand \in [Nodes -> Entry] /\ plan \in [Nodes -> Seq(Commands)]
        /\ credits \in [Edges -> Int] /\ queued \in [Edges -> Int] /\ pending \in [Edges -> Items]
        /\ q \in [Nodes -> Seq(Queued)] /\ done \in [Nodes -> BOOLEAN]
        /\ batch \in [Nodes -> Entry] /\ kept \in [Edges -> Items]
        /\ rel \in [Nodes -> [edge : Edges, n : Nat]] /\ taken \in [Nodes -> Items]
    BY DEF CreditInv, TypeOK, ThreadsTyped, EdgesTyped, ReceiversTyped
  <1>1. ASSUME Start(n)  PROVE StepWired
    <2>1. CreditConservation'
      BY <1>1, <1>t, NeutralStep DEF Start, threadVars, edgeVars, receiveVars
    <2> QED
      BY <1>1, <1>t, <2>1, WiredKept
      DEF Start, StepWired, threadVars, edgeVars, receiveVars
  <1>2. ASSUME Produce(n)  PROVE StepWired
    <2>1. PICK s \in Sends(n, 1) : plan' = [plan EXCEPT ![n] = s]
      BY <1>2 DEF Produce
    <2>2. rr[n] \in Nat /\ Out[n] # <<>>
      BY <1>2, <1>t, NoOutput, SizeType DEF Produce, Making, TypeOK, EdgesTyped, CodeTyped
    <2>3. s \in Seq(CommandsOf(n))
      BY <2>2, SendsType
    <2>4. PlanWired'
      BY <2>1, <2>3, PlanStep
    <2>5. CreditConservation'
      BY <1>2, <1>t, NeutralStep DEF Produce, Making, Free, Coding, threadVars, edgeVars, receiveVars
    <2> QED
      BY <1>2, <1>t, <2>4, <2>5, WiredKept
      DEF Produce, Making, Free, Coding, StepWired, threadVars, edgeVars, receiveVars
  <1>3. ASSUME Process(n)  PROVE StepWired
    <2>0. PICK k \in Fanout[n], feed \in Feeds(n) :
             \E s \in Sends(n, k) : plan' = [plan EXCEPT ![n] = s \o feed]
      BY <1>3 DEF Process
    <2>1. PICK s \in Sends(n, k) : plan' = [plan EXCEPT ![n] = s \o feed]
      BY <2>0
    <2>2. k \in Nat /\ rr[n] \in Nat /\ (Out[n] = <<>> => k = 0)
      BY <1>t, NoOutput, SizeType DEF TypeOK, EdgesTyped
    <2>3. s \in Seq(CommandsOf(n)) /\ feed \in Seq(CommandsOf(n))
      BY <2>2, SendsType, FeedsType
    <2>4. s \o feed \in Seq(CommandsOf(n))
      BY <2>3, ConcatProperties
    <2>5. PlanWired'
      BY <2>1, <2>4, PlanStep
    <2>6. CreditConservation'
      BY <1>3, <1>t, NeutralStep DEF Process, Coding, threadVars, edgeVars, receiveVars
    <2> QED
      BY <1>3, <1>t, <2>5, <2>6, WiredKept
      DEF Process, Coding, StepWired, threadVars, edgeVars, receiveVars
  <1>4. ASSUME Return(n)  PROVE StepWired
    <2>1. PlanWired'
      BY <1>4, ClosePlanType, PlanStep DEF Return
    <2>2. CreditConservation'
      BY <1>4, <1>t, NeutralStep DEF Return, Free, Coding, threadVars, edgeVars, receiveVars
    <2> QED
      BY <1>4, <1>t, <2>1, <2>2, WiredKept
      DEF Return, Free, Coding, StepWired, threadVars, edgeVars, receiveVars
  <1>5. ASSUME Fail(n)  PROVE StepWired
    <2>1. PlanWired'
      BY <1>5, ClosePlanType, PlanStep DEF Fail
    <2>2. CreditConservation'
      BY <1>5, <1>t, NeutralStep DEF Fail, Making, Free, Coding, threadVars, edgeVars, receiveVars
    <2> QED
      BY <1>5, <1>t, <2>1, <2>2, WiredKept
      DEF Fail, Making, Free, Coding, StepWired, threadVars, edgeVars, receiveVars
  <1>6. ASSUME Unwind(n)  PROVE StepWired
    <2>1. (IF mode[n] = "body" THEN ClosePlan(n) ELSE <<>>) \in Seq(CommandsOf(n))
      BY ClosePlanType, EmptySeq
    <2>2. PlanWired'
      BY <1>6, <2>1, PlanStep DEF Unwind
    <2>3. HandWired'
      BY <1>6, NoEntryIsEntry, HandStep DEF Unwind
    <2>4. CreditConservation'
      BY <1>6, <1>t, NeutralStep DEF Unwind, threadVars, edgeVars, receiveVars
    <2> QED
      BY <1>6, <1>t, <2>2, <2>3, <2>4, WiredKept
      DEF Unwind, StepWired, threadVars, edgeVars, receiveVars
  <1>7. ASSUME Doze(n)  PROVE StepWired
    <2>1. CreditConservation'
      BY <1>7, <1>t, NeutralStep DEF Doze, threadVars, edgeVars, receiveVars
    <2> QED
      BY <1>7, <1>t, <2>1, WiredKept
      DEF Doze, StepWired, threadVars, edgeVars, receiveVars
  <1>8. ASSUME WakeProducer(n)  PROVE StepWired
    <2>1. CreditConservation'
      BY <1>8, <1>t, NeutralStep DEF WakeProducer, threadVars, edgeVars, receiveVars
    <2> QED
      BY <1>8, <1>t, <2>1, WiredKept
      DEF WakeProducer, StepWired, threadVars, edgeVars, receiveVars
  <1>9. ASSUME End(n)  PROVE StepWired
    <2>1. CreditConservation'
      BY <1>9, <1>t, NeutralStep DEF End, threadVars, edgeVars, receiveVars
    <2> QED
      BY <1>9, <1>t, <2>1, WiredKept
      DEF End, StepWired, threadVars, edgeVars, receiveVars
  <1>10. ASSUME Buffer(n)  PROVE StepWired
    <2>1. Tail(plan[n]) \in Seq(CommandsOf(n))
      BY <1>10, HeadWired DEF Buffer, Sending
    <2>2. PlanWired'
      BY <1>10, <2>1, PlanStep DEF Buffer
    <2>3. CreditConservation'
      BY <1>10, <1>t, NeutralStep DEF Buffer, Sending, threadVars, edgeVars, receiveVars
    <2> QED
      BY <1>10, <1>t, <2>2, <2>3, WiredKept
      DEF Buffer, Sending, StepWired, threadVars, edgeVars, receiveVars
  <1>11. ASSUME Skip(n)  PROVE StepWired
    <2>1. Tail(plan[n]) \in Seq(CommandsOf(n))
      BY <1>11, HeadWired DEF Skip, Sending
    <2>2. PlanWired'
      BY <1>11, <2>1, PlanStep DEF Skip
    <2>3. CreditConservation'
      BY <1>11, <1>t, NeutralStep DEF Skip, Sending, threadVars, edgeVars, receiveVars
    <2> QED
      BY <1>11, <1>t, <2>2, <2>3, WiredKept
      DEF Skip, Sending, StepWired, threadVars, edgeVars, receiveVars
  <1>12. ASSUME Prepare(n)  PROVE StepWired
    <2>1. /\ HeadEdge(n) \in Edges /\ HeadOp(n) \in Ops
          /\ HeadOp(n) # "any" => Src[HeadEdge(n)] = n
          /\ Tail(plan[n]) \in Seq(CommandsOf(n))
      BY <1>12, HeadWired DEF Prepare, Sending
    <2>2. hand' \in [Nodes -> Entry] /\ \A m \in Nodes \ {n} : hand'[m] = hand[m]
      BY <1>12, <1>t, NodeTyped DEF Emits, StepTyped, ThreadsTyped, Prepare
    <2>3. hand'[n].items # <<>> => Src[hand'[n].edge] = n
      <3>1. CASE HeadOp(n) = "any"
        BY <1>12, <1>t, <3>1, NoEntryIsEntry DEF Prepare
      <3>2. CASE HeadOp(n) \in {"put", "flush", "eos"}
        <4>1. hand'[n].edge = HeadEdge(n)
          BY <1>12, <1>t, <3>2 DEF Prepare
        <4> QED
          BY <2>1, <3>2, <4>1
      <3> QED
        BY <2>1, <3>1, <3>2 DEF Ops
    <2>4. PlanWired'
      BY <1>12, <2>1, PlanStep DEF Prepare
    <2>5. HandWired'
      BY <2>2, <2>3 DEF CreditInv, HandWired
    <2>6. CreditConservation'
      BY <1>12, <1>t, NeutralStep DEF Prepare, Sending, threadVars, edgeVars, receiveVars
    <2> QED
      BY <1>12, <1>t, <2>4, <2>5, <2>6, WiredKept
      DEF Prepare, Sending, StepWired, threadVars, edgeVars, receiveVars
  <1>13. ASSUME FlushFirst(n)  PROVE StepWired
    <2>1. PlanWired'
      BY <1>13, ClosePlanType, PlanStep DEF FlushFirst
    <2>2. CreditConservation'
      BY <1>13, <1>t, NeutralStep DEF FlushFirst, Popping, Asking, Free, Coding, threadVars, edgeVars, receiveVars
    <2> QED
      BY <1>13, <1>t, <2>1, <2>2, WiredKept
      DEF FlushFirst, Popping, Asking, Free, Coding, StepWired, threadVars, edgeVars, receiveVars
  <1>14. ASSUME Await(n)  PROVE StepWired
    <2>1. BatchWired'
      BY <1>14, <1>t DEF Await, Popping, CreditInv, BatchWired, receiveVars
    <2>2. CreditConservation'
      BY <1>14, <1>t, NeutralStep DEF Await, Popping, Asking, Free, Coding, threadVars, edgeVars, receiveVars
    <2> QED
      BY <1>14, <1>t, <2>1, <2>2, WiredKept
      DEF Await, Popping, Asking, Free, Coding, StepWired, threadVars, edgeVars, receiveVars
  <1>15. ASSUME LoopDone(n)  PROVE StepWired
    <2>1. CreditConservation'
      BY <1>15, <1>t, NeutralStep DEF LoopDone, MaybeClose, threadVars, edgeVars, receiveVars
    <2> QED
      BY <1>15, <1>t, <2>1, WiredKept
      DEF LoopDone, MaybeClose, StepWired, threadVars, edgeVars, receiveVars
  <1>16. ASSUME ExternalEnded(n)  PROVE StepWired
    <2>1. CreditConservation'
      BY <1>16, <1>t, NeutralStep DEF ExternalEnded, MaybeClose, threadVars, edgeVars, receiveVars
    <2> QED
      BY <1>16, <1>t, <2>1, WiredKept
      DEF ExternalEnded, MaybeClose, StepWired, threadVars, edgeVars, receiveVars
  <1>17. ASSUME Tell(n)  PROVE StepWired
    <2>1. Head(telling[n]) \in Nodes
      BY <1>17, <1>t DEF Tell, TypeOK, LoopTyped
    <2>2. [NoEntry EXCEPT !.items = <<LOOP_DONE>>] \in QueuedFor(Head(telling[n]))
      BY NoEntryIsEntry DEF Control, Entry, Queued, QueuedFor
    <2>5. QueueWired'
      <3>1. CASE done[Head(telling[n])]
        BY <1>17, <3>1, WiredKept DEF Tell
      <3>2. CASE ~done[Head(telling[n])]
        <4>1. Append(q[Head(telling[n])], [NoEntry EXCEPT !.items = <<LOOP_DONE>>])
                 \in Seq(QueuedFor(Head(telling[n])))
          BY <2>1, <2>2, AppendProperties DEF CreditInv, QueueWired
        <4>2. q' = [q EXCEPT ![Head(telling[n])] =
                       Append(q[Head(telling[n])], [NoEntry EXCEPT !.items = <<LOOP_DONE>>])]
          BY <1>17, <3>2 DEF Tell
        <4> QED
          BY <2>1, <4>1, <4>2, QueueStep
      <3> QED
        BY <3>1, <3>2
    <2>6. CreditConservation'
      BY <1>17, <1>t, NeutralStep DEF Tell, threadVars, edgeVars, receiveVars
    <2> QED
      BY <1>17, <1>t, <2>5, <2>6, WiredKept
      DEF Tell, StepWired, threadVars, edgeVars, receiveVars
  <1>18. ASSUME CancelReturns(n)  PROVE StepWired
    <2>1. CreditConservation'
      BY <1>18, <1>t, NeutralStep DEF CancelReturns, threadVars, edgeVars, receiveVars
    <2> QED
      BY <1>18, <1>t, <2>1, WiredKept
      DEF CancelReturns, StepWired, threadVars, edgeVars, receiveVars
  <1>19. ASSUME CancelStep(n)  PROVE StepWired
    <2>1. /\ UNCHANGED <<pc, plan, hand, q, batch, rel>>
          /\ UNCHANGED <<credits, queued, done, kept>>
      BY <1>19 DEF CancelStep, edgeVars, receiveVars
    <2>2. \A e \in Edges : Sent(e)' = Sent(e) /\ Held(e)' = Held(e)
      BY <2>1 DEF Sent, Held
    <2> QED
      BY <2>1, <2>2, WiredKept, BalanceKept DEF StepWired
  <1>20. ASSUME Mark(n)  PROVE StepWired
    <2>1. \A e \in Edges : Sent(e)' = Sent(e)
      BY <1>20, <1>t, SentKept DEF Mark
    <2>2. \A e \in Edges : Held(e)' = Held(e)
      BY <1>20, <1>t, HeldKept DEF Mark, receiveVars
    <2>3. CreditConservation'
      <3>1. UNCHANGED <<credits, queued>> /\ \A m \in Nodes : ~done'[m] => ~done[m]
        BY <1>20, <1>t DEF Mark
      <3> QED
        BY <2>1, <2>2, <3>1, GraphType DEF CreditInv, CreditConservation, Balanced
    <2>4. QueueWired'
      <3>1. q' = [q EXCEPT ![n] = <<>>] /\ <<>> \in Seq(QueuedFor(n))
        BY <1>20, EmptySeq DEF Mark
      <3> QED
        BY <3>1, QueueStep
    <2> QED
      BY <1>20, <1>t, <2>3, <2>4, WiredKept DEF Mark, StepWired, receiveVars
  <1>21. ASSUME Claim(n)  PROVE StepWired
    <2>1. /\ hand[n] \in Entry /\ hand[n].edge \in Edges /\ Len(hand[n].items) \in Nat
          /\ Src[hand[n].edge] = n
      BY <1>21, <1>t DEF Claim, CreditInv, HandWired, Entry, Items
    <2>2. OutReady(hand[n].edge, Len(hand[n].items))
      BY <1>21 DEF Claim, HandReady
    <2>3. /\ credits' = Charge(hand[n].edge, Len(hand[n].items)) /\ hand' = hand
          /\ pc[n] \notin {"push", "release"} /\ pc' = [pc EXCEPT ![n] = "push"]
          /\ UNCHANGED <<queued, done, kept, batch, rel>>
      BY <1>21 DEF Claim, Claimed, Claiming, receiveVars
    <2>4. /\ pc'[n] = "push" /\ hand'[n].edge = hand[n].edge /\ Len(hand'[n].items) = Len(hand[n].items)
          /\ \A m \in Nodes \ {n} : pc'[m] = pc[m] /\ hand'[m] = hand[m] /\ rel'[m] = rel[m]
      BY <1>t, <2>3
    <2>5. CreditConservation'
      BY <2>1, <2>2, <2>3, <2>4, ClaimStep
    <2> QED
      BY <1>21, <1>t, <2>5, WiredKept DEF Claim, Claimed, StepWired, receiveVars
  <1>22. ASSUME ClaimAny(n)  PROVE StepWired
    <2>1. rr[n] \in Nat
      BY <1>t DEF TypeOK, EdgesTyped
    <2>2. PICK e \in Edges : /\ Src[e] = n /\ OutReady(e, 1) /\ credits' = Charge(e, 1)
                             /\ hand' = [hand EXCEPT ![n] = [edge |-> e, items |-> <<put[e] + 1>>]]
      BY <1>22, <2>1, ClaimAnyPicks
    <2>3. [edge |-> e, items |-> <<put[e] + 1>>] \in Entry /\ Len(<<put[e] + 1>>) = 1
      <3>1. put[e] + 1 \in Nat
        BY <1>t DEF TypeOK, CodeTyped
      <3>2. <<put[e] + 1>> \in Seq(Nat)
        BY <3>1
      <3> QED
        BY <3>2 DEF Entry, Items
    <2>4. HandWired'
      BY <2>2, <2>3, HandStep
    <2>5. hand'[n].edge = e /\ Len(hand'[n].items) = 1
      BY <1>t, <2>2, <2>3
    <2>6. CreditConservation'
      BY <1>22, <1>t, <2>2, <2>5, ClaimStep DEF ClaimAny, Claimed, Claiming, receiveVars
    <2> QED
      BY <1>22, <1>t, <2>4, <2>6, WiredKept DEF ClaimAny, Claimed, StepWired, receiveVars
  <1>23. ASSUME Push(n)  PROVE StepWired
    <2>0. PICK e, m, k : e = hand[n].edge /\ m = Dst[e] /\ k = Len(hand[n].items)
      OBVIOUS
    <2>1. hand[n].items # <<>>
      BY <1>23, <1>t DEF Push, TypeOK, ThreadsTyped
    <2>2. hand[n] \in Entry /\ e \in Edges /\ k \in Nat /\ m \in Nodes /\ Src[e] = n
      <3>1. hand[n] \in Entry /\ e \in Edges /\ k \in Nat
        BY <1>t, <2>0 DEF Entry, Items
      <3>2. Src[e] = n
        BY <2>0, <2>1 DEF CreditInv, HandWired
      <3> QED
        BY <2>0, <3>1, <3>2, GraphType
    <2>3. Sent(e) = k /\ Sent(e)' = 0 /\ \A d \in Edges \ {e} : Sent(d)' = Sent(d)
      <3>1. /\ pc[n] = "push" /\ pc'[n] = "run"
            /\ \A x \in Nodes \ {n} : pc'[x] = pc[x] /\ hand'[x] = hand[x]
        BY <1>23, <1>t DEF Push
      <3>2. Sent(e) = k /\ Sent(e)' = 0
        BY <2>0, <2>2, <3>1 DEF Sent
      <3>3. ASSUME NEW d \in Edges \ {e}  PROVE Sent(d)' = Sent(d)
        <4>1. CASE Src[d] = n
          BY <2>0, <3>1, <3>3, <4>1 DEF Sent
        <4>2. CASE Src[d] # n
          BY <3>1, <3>3, <4>2, GraphType DEF Sent
        <4> QED
          BY <4>1, <4>2
      <3> QED
        BY <3>2, <3>3
    <2>4. \A d \in Edges : Held(d)' = Held(d)
      BY <1>23, <1>t, HeldKept DEF Push, receiveVars
    <2>5. CreditConservation'
      <3>1. /\ UNCHANGED <<credits, done>>
            /\ ~done[m] => queued'[e] = queued[e] + k
            /\ \A d \in Edges \ {e} : queued'[d] = queued[d]
        BY <1>23, <1>t, <2>0, <2>2 DEF Push
      <3>2. ASSUME Balanced(e)  PROVE Balanced(e)'
        <4>1. /\ Sent(e) \in Nat /\ Held(e) \in Nat /\ credits[e] \in Int
              /\ queued[e] \in Int /\ Capacity[e] \in Nat
          BY <1>t, <2>2, CountType
        <4>2. credits'[e] = credits[e] /\ done'[m] = done[m] /\ Held(e)' = Held(e)
          BY <2>2, <2>4, <3>1
        <4>3. ~done'[m] => credits'[e] >= 0
                           /\ credits'[e] + Sent(e)' + queued'[e] + Held(e)' = Capacity[e]
          BY <2>0, <2>2, <2>3, <3>1, <3>2, <4>1, <4>2 DEF Balanced
        <4> QED
          BY <2>0, <4>3 DEF Balanced
      <3>3. \A d \in Edges \ {e} : Balanced(d) => Balanced(d)'
        BY <2>3, <2>4, <3>1 DEF Balanced
      <3>4. \A d \in Edges : Balanced(d)
        BY DEF CreditInv, CreditConservation
      <3>5. \A d \in Edges : Balanced(d)'
        BY <2>2, <3>2, <3>3, <3>4
      <3> QED
        BY <3>5 DEF CreditConservation
    <2>6. QueueWired'
      <3>1. CASE done[m]
        BY <1>23, <2>0, <3>1, WiredKept DEF Push
      <3>2. CASE ~done[m]
        <4>1. hand[n] \in QueuedFor(m)
          BY <2>0, <2>1, <2>2 DEF QueuedFor, Queued
        <4>2. Append(q[m], hand[n]) \in Seq(QueuedFor(m))
          BY <2>2, <4>1, AppendProperties DEF CreditInv, QueueWired
        <4>3. q' = [q EXCEPT ![m] = Append(q[m], hand[n])]
          BY <1>23, <2>0, <3>2 DEF Push
        <4> QED
          BY <2>2, <4>2, <4>3, QueueStep
      <3> QED
        BY <3>1, <3>2
    <2>7. HandWired'
      BY <1>23, NoEntryIsEntry, HandStep DEF Push
    <2> QED
      BY <1>23, <1>t, <2>5, <2>6, <2>7, WiredKept DEF Push, StepWired, receiveVars
  <1>24. ASSUME Block(n)  PROVE StepWired
    <2> DEFINE P == {e \in Flushable(n) : ~done[Dst[e]]}
               New(m) == {e \in P : Dst[e] = m}
    <2>1. \A e \in Edges : Sent(e)' = Sent(e)
      BY <1>24, <1>t, SentKept DEF Block
    <2>2. \A e \in Edges : Held(e)' = Held(e)
      BY <1>24, <1>t, HeldKept DEF Block, receiveVars
    <2>3. CreditConservation'
      <3>1. /\ credits' = [e \in Edges |-> IF e \in P THEN credits[e] - Len(pending[e])
                                            ELSE credits[e]]
            /\ queued' = [e \in Edges |-> IF e \in P THEN queued[e] + Len(pending[e])
                                           ELSE queued[e]]
            /\ done' = done
        BY <1>24 DEF Block
      <3>2. \A e \in P : e \in Edges /\ credits[e] >= Len(pending[e]) /\ Len(pending[e]) \in Nat
        BY <1>t DEF Flushable, OutReady, Items
      <3>3. ASSUME NEW e \in Edges, Balanced(e)  PROVE Balanced(e)'
        <4>1. CASE e \in P
          <5>1. /\ credits'[e] = credits[e] - Len(pending[e])
                /\ queued'[e] = queued[e] + Len(pending[e])
            BY <3>1, <4>1
          <5>2. Sent(e)' = Sent(e) /\ Held(e)' = Held(e) /\ done'[Dst[e]] = done[Dst[e]]
            BY <2>1, <2>2, <3>1, <3>3
          <5>3. credits[e] >= Len(pending[e]) /\ Len(pending[e]) \in Nat
            BY <3>2, <4>1
          <5>4. /\ Sent(e) \in Nat /\ Held(e) \in Nat /\ credits[e] \in Int
                /\ queued[e] \in Int /\ Capacity[e] \in Nat
            BY <1>t, <3>3, CountType
          <5>5. ~done[Dst[e]] => credits[e] + Sent(e) + queued[e] + Held(e) = Capacity[e]
            BY <3>3 DEF Balanced
          <5> HIDE DEF P
          <5>6. ~done'[Dst[e]] => credits'[e] >= 0
                                  /\ credits'[e] + Sent(e)' + queued'[e] + Held(e)' = Capacity[e]
            BY <5>1, <5>2, <5>3, <5>4, <5>5
          <5> QED
            BY <5>6 DEF Balanced
        <4>2. CASE e \notin P
          BY <2>1, <2>2, <3>1, <3>3, <4>2 DEF Balanced
        <4> QED
          BY <4>1, <4>2
      <3> QED
        BY <3>3 DEF CreditInv, CreditConservation
    <2>4. QueueWired'
      <3> SUFFICES ASSUME NEW m \in Nodes  PROVE q'[m] \in Seq(QueuedFor(m))
        BY DEF QueueWired
      <3>1. q[m] \in Seq(QueuedFor(m))
        BY DEF CreditInv, QueueWired
      <3>2. CASE New(m) = {}
        BY <1>24, <3>1, <3>2 DEF Block
      <3>3. CASE New(m) # {}
        <4>1. PICK e \in New(m) : q'[m] = Append(q[m], [edge |-> e, items |-> pending[e]])
          BY <1>24, <3>3 DEF Block
        <4>2. [edge |-> e, items |-> pending[e]] \in QueuedFor(m)
          BY <1>t, <4>1 DEF Flushable, QueuedFor, Queued, Entry
        <4> QED
          BY <3>1, <4>1, <4>2, AppendProperties
      <3> QED
        BY <3>2, <3>3
    <2> QED
      BY <1>24, <1>t, <2>3, <2>4, WiredKept DEF Block, StepWired, receiveVars
  <1>25. ASSUME TakeKept(n)  PROVE StepWired
    <2>1. PICK e \in Edges :
             /\ Dst[e] = n /\ kept[e] # <<>>
             /\ kept' = [kept EXCEPT ![e] = Tail(@)]
             /\ rel' = [rel EXCEPT ![n] = [edge |-> e, n |-> 1]]
      BY <1>25 DEF TakeKept
    <2>2. /\ pc[n] = "run" /\ pc' = [pc EXCEPT ![n] = "release"]
          /\ UNCHANGED <<plan, hand, batch>> /\ UNCHANGED edgeVars
      BY <1>25 DEF TakeKept, Asking, Free, Coding
    <2>3. kept[e] \in Seq(Nat) /\ Len(kept'[e]) = Len(kept[e]) - 1 /\ Len(kept[e]) \in Nat
      <3>1. kept[e] \in Seq(Nat) /\ kept'[e] = Tail(kept[e])
        BY <1>t, <2>1 DEF Items
      <3>2. Len(kept[e]) \in Nat /\ Len(kept[e]) > 0
        BY <2>1, <3>1, EmptySeq
      <3> QED
        BY <3>1, <3>2
    <2>4. /\ rel'[n].edge = e /\ rel'[n].n = 1 /\ pc'[n] = "release"
      BY <1>t, <2>1, <2>2
    <2>5. Held(e)' = Held(e)
      <3> DEFINE X == IF batch[n].edge = e THEN Len(batch[n].items) ELSE 0
      <3>1. Held(e) = Len(kept[e]) + X + 0 /\ Held(e)' = Len(kept'[e]) + X + 1
        BY <2>1, <2>2, <2>4 DEF Held
      <3>2. X \in Nat
        BY <1>t DEF Entry, Items
      <3> HIDE DEF X
      <3> QED
        BY <2>3, <3>1, <3>2
    <2>6. \A d \in Edges \ {e} : Dst[d] = n => Held(d)' = Held(d)
      BY <1>t, <2>1, <2>2, <2>4 DEF Held
    <2>7. CreditConservation'
      BY <1>t, <2>1, <2>2, <2>5, <2>6, MoveStep DEF edgeVars
    <2>8. BatchWired' /\ ReleaseWired'
      BY <1>t, <2>1, <2>2 DEF CreditInv, BatchWired, ReleaseWired
    <2> QED
      BY <2>2, <2>7, <2>8, WiredKept DEF StepWired, edgeVars
  <1>26. ASSUME Drain(n)  PROVE StepWired
    <2>1. PICK e, k : e = batch[n].edge /\ k = Len(batch[n].items)
      OBVIOUS
    <2>2. /\ rel' = [rel EXCEPT ![n] = [edge |-> e, n |-> k]]
          /\ batch' = [batch EXCEPT ![n] = NoEntry]
          /\ pc[n] = "run" /\ pc' = [pc EXCEPT ![n] = "release"]
          /\ UNCHANGED <<plan, hand, kept>> /\ UNCHANGED edgeVars
      BY <1>26, <2>1 DEF Drain, Asking, Free, Coding
    <2>3. e \in Edges /\ k \in Nat /\ Dst[e] = n
      <3>1. batch[n] \in Entry /\ batch[n].items # <<>>
        BY <1>26, <1>t DEF Drain
      <3>2. Dst[e] = n
        BY <2>1, <3>1 DEF CreditInv, BatchWired
      <3> QED
        BY <2>1, <3>1, <3>2 DEF Entry, Items
    <2>4. /\ rel'[n].edge = e /\ rel'[n].n = k /\ pc'[n] = "release"
          /\ batch'[n] = NoEntry /\ Len(batch'[n].items) = 0
      BY <1>t, <2>2, NoEntryIsEntry
    <2>5. Held(e)' = Held(e)
      <3>1. Held(e) = Len(kept[e]) + k + 0 /\ Held(e)' = Len(kept[e]) + 0 + k
        BY <2>1, <2>2, <2>3, <2>4 DEF Held
      <3>2. Len(kept[e]) \in Nat
        BY <1>t, <2>3 DEF Items
      <3> QED
        BY <2>3, <3>1, <3>2
    <2>6. ASSUME NEW d \in Edges \ {e}, Dst[d] = n  PROVE Held(d)' = Held(d)
      <3>1. (IF batch[n].edge = d THEN Len(batch[n].items) ELSE 0) = 0
        BY <2>1, <2>6
      <3>2. (IF batch'[n].edge = d THEN Len(batch'[n].items) ELSE 0) = 0
        BY <2>4
      <3>3. kept'[d] = kept[d] /\ pc[n] # "release" /\ rel'[n].edge # d
        BY <2>2, <2>4, <2>6
      <3> QED
        BY <2>6, <3>1, <3>2, <3>3 DEF Held
    <2>7. CreditConservation'
      BY <1>t, <2>2, <2>3, <2>5, <2>6, MoveStep DEF edgeVars
    <2>8. BatchWired' /\ ReleaseWired'
      BY <1>t, <2>2, <2>3, NoEntryIsEntry DEF CreditInv, BatchWired, ReleaseWired
    <2> QED
      BY <2>2, <2>7, <2>8, WiredKept DEF StepWired, edgeVars
  <1>27. ASSUME NextOfBatch(n)  PROVE StepWired
    <2>1. /\ batch[n].items # <<>> /\ Unpack(n, batch[n])
          /\ pc[n] = "run" /\ UNCHANGED <<plan, hand, ended>> /\ UNCHANGED edgeVars
      BY <1>27 DEF NextOfBatch, Asking, Free, Coding
    <2>2. batch[n] \in Entry /\ Dst[batch[n].edge] = n
      BY <1>t, <2>1 DEF CreditInv, BatchWired
    <2>3. ASSUME NEW d \in Edges  PROVE Held(d)' = Held(d)
      <3>1. Held(d)' = Held(d) + (IF d = batch[n].edge /\ batch[n].items = <<>>
                                  THEN Len(batch[n].items) ELSE 0)
        BY <1>t, <2>1, <2>2, UnpackHeld
      <3>2. Held(d) \in Nat
        BY <1>t, CountType
      <3> QED
        BY <2>1, <3>1, <3>2
    <2>4. pc'[n] # "push" /\ \A m \in Nodes \ {n} : pc'[m] = pc[m]
      BY <1>t, <2>1 DEF Unpack
    <2>5. \A d \in Edges : Sent(d)' = Sent(d)
      BY <1>t, <2>1, <2>4, SentKept
    <2>6. CreditConservation'
      BY <2>1, <2>3, <2>5, BalanceKept DEF edgeVars
    <2>7. BatchWired' /\ ReleaseWired'
      BY <1>t, <2>1, <2>2, UnpackWired
    <2> QED
      BY <2>1, <2>6, <2>7, WiredKept DEF StepWired, edgeVars
  <1>28. ASSUME Pop(n)  PROVE StepWired
    <2>1. PICK b : b = Head(q[n])
      OBVIOUS
    <2>2. /\ q[n] # <<>> /\ q' = [q EXCEPT ![n] = Tail(@)]
          /\ UNCHANGED <<plan, hand, credits, done>>
      BY <1>28 DEF Pop
    <2>3. pc[n] \in {"run", "park_in"} /\ batch[n].items = <<>>
      BY <1>28 DEF Pop, Popping, Asking, Free, Coding, CreditInv, BatchWired
    <2>4. b \in QueuedFor(n) /\ Tail(q[n]) \in Seq(QueuedFor(n))
      BY <2>1, <2>2, HeadQueued
    <2>5. QueueWired'
      BY <2>2, <2>4, QueueStep
    <2>6. CASE b.items = <<LOOP_DONE>>
      <3>1. /\ UNCHANGED <<credits, queued, done, kept, batch, rel>>
            /\ pc' = [pc EXCEPT ![n] = "run"]
        BY <1>28, <1>t, <2>1, <2>6, LoopDoneIsNotEos DEF Pop
      <3>2. CreditConservation'
        BY <1>t, <2>2, <2>3, <3>1, NeutralStep
      <3> QED
        BY <1>t, <2>2, <2>5, <3>1, <3>2, WiredKept DEF StepWired
    <2>7. CASE b.items # <<LOOP_DONE>>
      <3>1. b \in Entry /\ b.items # <<>> /\ b.edge \in Edges /\ Dst[b.edge] = n /\ Len(b.items) \in Nat
        BY <2>4, <2>7 DEF QueuedFor, Queued, Control, Entry, Items
      <3>2. queued' = [queued EXCEPT ![b.edge] = @ - Len(b.items)]
        BY <1>28, <2>1, <2>7 DEF Pop
      <3>3. /\ BatchWired' /\ ReleaseWired'
            /\ pc'[n] # "push" /\ \A m \in Nodes \ {n} : pc'[m] = pc[m]
            /\ \A d \in Edges : Held(d)' = Held(d) + (IF d = b.edge THEN Len(b.items) ELSE 0)
        <4>1. CASE b.items = <<EOS>>
          <5>1. /\ rel' = [rel EXCEPT ![n] = [edge |-> b.edge, n |-> 1]]
                /\ pc' = [pc EXCEPT ![n] = "release"] /\ UNCHANGED <<batch, kept>>
            BY <1>28, <2>1, <4>1 DEF Pop
          <5>2. Len(b.items) = 1
            BY <4>1
          <5>3. rel'[n].edge = b.edge /\ rel'[n].n = 1 /\ pc'[n] = "release"
            BY <1>t, <5>1
          <5>4. ASSUME NEW d \in Edges
                PROVE  Held(d)' = Held(d) + (IF d = b.edge THEN Len(b.items) ELSE 0)
            <6>1. Held(d) \in Nat /\ Len(kept[d]) \in Nat
              BY <1>t, <5>4, CountType DEF Items
            <6>2. CASE Dst[d] = n
              <7>1. (IF batch[n].edge = d THEN Len(batch[n].items) ELSE 0) = 0
                BY <2>3, EmptySeq
              <7> DEFINE X == IF batch[n].edge = d THEN Len(batch[n].items) ELSE 0
                         Y == IF d = b.edge THEN 1 ELSE 0
              <7>2. Held(d) = Len(kept[d]) + X + 0
                BY <2>3, <6>2 DEF Held
              <7>3. Held(d)' = Len(kept[d]) + X + Y
                <8>1. batch'[n] = batch[n] /\ kept'[d] = kept[d]
                  BY <5>1
                <8> QED
                  BY <5>3, <6>2, <8>1 DEF Held
              <7>4. X = 0 /\ Y \in Nat /\ Y = (IF d = b.edge THEN Len(b.items) ELSE 0)
                BY <5>2, <7>1
              <7> HIDE DEF X, Y
              <7> QED
                BY <6>1, <7>2, <7>3, <7>4
            <6>3. CASE Dst[d] # n
              <7>1. /\ d # b.edge /\ pc'[Dst[d]] = pc[Dst[d]] /\ rel'[Dst[d]] = rel[Dst[d]]
                BY <1>t, <3>1, <5>1, <6>3
              <7>2. batch'[Dst[d]] = batch[Dst[d]] /\ kept'[d] = kept[d]
                BY <5>1
              <7>3. Held(d)' = Held(d)
                BY <7>1, <7>2 DEF Held
              <7> QED
                BY <6>1, <7>1, <7>3
            <6> QED
              BY <6>2, <6>3
          <5>5. BatchWired' /\ ReleaseWired'
            BY <1>t, <3>1, <5>1 DEF CreditInv, BatchWired, ReleaseWired
          <5> QED
            BY <1>t, <5>1, <5>4, <5>5
        <4>2. CASE b.items # <<EOS>>
          <5>1. Unpack(n, b) /\ UNCHANGED ended
            BY <1>28, <2>1, <2>7, <4>2 DEF Pop
          <5>2. BatchWired' /\ ReleaseWired'
            BY <1>t, <2>3, <3>1, <5>1, UnpackWired
          <5>3. pc'[n] # "push" /\ \A m \in Nodes \ {n} : pc'[m] = pc[m]
            BY <1>t, <5>1 DEF Unpack
          <5>4. \A d \in Edges : Held(d)' = Held(d) + (IF d = b.edge THEN Len(b.items) ELSE 0)
            BY <1>t, <2>3, <3>1, <5>1, UnpackHeld
          <5> QED
            BY <5>2, <5>3, <5>4
        <4> QED
          BY <4>1, <4>2
      <3>4. \A d \in Edges : Sent(d)' = Sent(d)
        BY <1>t, <2>2, <2>3, <3>3, SentKept
      <3>5. ASSUME NEW d \in Edges  PROVE Balanced(d)'
        <4>1. /\ Sent(d) \in Nat /\ Held(d) \in Nat /\ credits[d] \in Int
              /\ queued[d] \in Int /\ Capacity[d] \in Nat
          BY <1>t, <3>5, CountType
        <4>2. ~done[Dst[d]] => /\ credits[d] >= 0
                               /\ credits[d] + Sent(d) + queued[d] + Held(d) = Capacity[d]
          BY DEF CreditInv, CreditConservation, Balanced
        <4>3. /\ queued'[d] = queued[d] - (IF d = b.edge THEN Len(b.items) ELSE 0)
              /\ Held(d)' = Held(d) + (IF d = b.edge THEN Len(b.items) ELSE 0)
              /\ credits'[d] = credits[d] /\ Sent(d)' = Sent(d) /\ done'[Dst[d]] = done[Dst[d]]
          BY <1>t, <2>2, <3>2, <3>3, <3>4, <4>1
        <4>4. ~done'[Dst[d]] => /\ credits'[d] >= 0
                                /\ credits'[d] + Sent(d)' + queued'[d] + Held(d)' = Capacity[d]
          BY <3>1, <4>1, <4>2, <4>3
        <4> QED
          BY <4>4 DEF Balanced
      <3> QED
        BY <2>2, <2>5, <3>3, <3>5, WiredKept DEF StepWired, CreditConservation
    <2> QED
      BY <2>6, <2>7
  <1>29. ASSUME Release(n)  PROVE StepWired
    <2>1. PICK e, k : e = rel[n].edge /\ k = rel[n].n
      OBVIOUS
    <2>2. /\ pc[n] = "release" /\ pc'[n] \in {"run", "external"}
          /\ \A m \in Nodes \ {n} : pc'[m] = pc[m] /\ rel'[m] = rel[m]
          /\ credits' = [credits EXCEPT ![e] = @ + k]
          /\ UNCHANGED <<plan, hand, queued, q, done, batch, kept>>
      BY <1>29, <1>t, <2>1 DEF Release
    <2>3. e \in Edges /\ k \in Nat /\ Dst[e] = n
      BY <1>t, <2>1, <2>2 DEF CreditInv, ReleaseWired
    <2>4. \A d \in Edges : Sent(d)' = Sent(d)
      BY <1>t, <2>2, SentKept
    <2>5. \A d \in Edges : Held(d)' \in Nat /\ Held(d) = Held(d)' + (IF d = e THEN k ELSE 0)
      <3> SUFFICES ASSUME NEW d \in Edges
                   PROVE  Held(d)' \in Nat /\ Held(d) = Held(d)' + (IF d = e THEN k ELSE 0)
        OBVIOUS
      <3> DEFINE X == IF batch[Dst[d]].edge = d THEN Len(batch[Dst[d]].items) ELSE 0
      <3>1. Len(kept[d]) \in Nat /\ X \in Nat /\ Dst[d] \in Nodes
        <4>1. Dst[d] \in Nodes /\ batch[Dst[d]] \in Entry /\ kept[d] \in Items
          BY <1>t, GraphType
        <4> QED
          BY <4>1 DEF Entry, Items
      <3>2. CASE d = e
        <4>1. Held(d) = Len(kept[d]) + X + k /\ Held(d)' = Len(kept[d]) + X + 0
          BY <2>1, <2>2, <2>3, <3>2 DEF Held
        <4> HIDE DEF X
        <4> QED
          BY <2>3, <3>1, <3>2, <4>1
      <3>3. CASE d # e
        <4>1. Held(d)' = Held(d)
          <5>1. CASE Dst[d] = n
            BY <2>1, <2>2, <3>3, <5>1 DEF Held
          <5>2. CASE Dst[d] # n
            BY <2>2, <3>1, <5>2 DEF Held
          <5> QED
            BY <5>1, <5>2
        <4> QED
          BY <1>t, <3>3, <4>1, CountType
      <3> QED
        BY <3>2, <3>3
    <2>6. ASSUME NEW d \in Edges  PROVE Balanced(d)'
      <3>1. /\ Sent(d) \in Nat /\ Held(d) \in Nat /\ credits[d] \in Int
            /\ queued[d] \in Int /\ Capacity[d] \in Nat
        BY <1>t, <2>6, CountType
      <3>2. ~done[Dst[d]] => /\ credits[d] >= 0
                             /\ credits[d] + Sent(d) + queued[d] + Held(d) = Capacity[d]
        BY DEF CreditInv, CreditConservation, Balanced
      <3>3. /\ credits'[d] = credits[d] + (IF d = e THEN k ELSE 0)
            /\ queued'[d] = queued[d] /\ Sent(d)' = Sent(d) /\ done'[Dst[d]] = done[Dst[d]]
        BY <1>t, <2>2, <2>4, <3>1
      <3>6. ~done'[Dst[d]] => /\ credits'[d] >= 0
                              /\ credits'[d] + Sent(d)' + queued'[d] + Held(d)' = Capacity[d]
        BY <2>3, <2>5, <3>1, <3>2, <3>3
      <3> QED
        BY <3>6 DEF Balanced
    <2>7. ReleaseWired'
      BY <2>2 DEF CreditInv, ReleaseWired
    <2>8. BatchWired'
      BY <2>2 DEF CreditInv, BatchWired
    <2> QED
      BY <2>2, <2>6, <2>7, <2>8, WiredKept DEF StepWired, CreditConservation
  <1> QED
    BY <1>1, <1>2, <1>3, <1>4, <1>5, <1>6, <1>7, <1>8, <1>9, <1>10, <1>11, <1>12, <1>13,
       <1>14, <1>15, <1>16, <1>17, <1>18, <1>19, <1>20, <1>21, <1>22, <1>23, <1>24, <1>25,
       <1>26, <1>27, <1>28, <1>29
    DEF Emits, Receives, Runs

LEMMA MainThreadWired ==
    ASSUME CreditInv, MainThread
    PROVE  StepWired
  <1>1. /\ UNCHANGED <<pc, plan, hand, q, batch, rel>>
        /\ UNCHANGED <<credits, queued, done, kept>>
    BY DEF MainThread, Tick, MainCancelReturns, Join, CancelStep, threadVars, edgeVars, receiveVars
  <1>2. \A e \in Edges : Sent(e)' = Sent(e) /\ Held(e)' = Held(e)
    BY <1>1 DEF Sent, Held
  <1> QED
    BY <1>1, <1>2, WiredKept, BalanceKept DEF StepWired

LEMMA InitWired == Init => CreditInv
  <1> SUFFICES ASSUME Init  PROVE CreditInv
    OBVIOUS
  <1>1. TypeOK
    BY InitTyped
  <1>2. PlanWired /\ QueueWired
    BY EmptySeq DEF Init, PlanWired, QueueWired
  <1>3. HandWired /\ BatchWired /\ ReleaseWired
    BY NoEntryIsEntry DEF Init, HandWired, BatchWired, ReleaseWired
  <1>4. ASSUME NEW e \in Edges  PROVE Balanced(e)
    <2>1. Dst[e] \in Nodes /\ Src[e] \in Nodes /\ Capacity[e] \in Nat
      BY GraphType, SizeType
    <2>2. Sent(e) = 0 /\ Held(e) = 0
      BY <2>1, NoEntryIsEntry, EmptySeq DEF Init, Sent, Held
    <2>3. credits[e] = Capacity[e] /\ queued[e] = 0
      BY DEF Init
    <2> QED
      BY <2>1, <2>2, <2>3 DEF Balanced
  <1> QED
    BY <1>1, <1>2, <1>3, <1>4 DEF CreditInv, CreditConservation

LEMMA CreditStep == CreditInv /\ [Next]_vars => CreditInv'
  <1> SUFFICES ASSUME CreditInv, [Next]_vars  PROVE CreditInv'
    OBVIOUS
  <1>1. TypeOK'
    BY TypeStep DEF CreditInv
  <1>2. CASE UNCHANGED vars
    <2>1. /\ UNCHANGED <<pc, plan, hand, q, batch, rel>>
          /\ UNCHANGED <<credits, queued, done, kept>>
      BY <1>2 DEF vars, threadVars, edgeVars, receiveVars
    <2>2. \A e \in Edges : Sent(e)' = Sent(e) /\ Held(e)' = Held(e)
      BY <2>1 DEF Sent, Held
    <2> QED
      BY <1>1, <2>1, <2>2, WiredKept, BalanceKept DEF CreditInv
  <1>3. CASE \E n \in Nodes : Node(n)
    BY <1>1, <1>3, NodeWired DEF Node, CreditInv, StepWired
  <1>4. CASE MainThread
    BY <1>1, <1>4, MainThreadWired DEF CreditInv, StepWired
  <1> QED
    BY <1>2, <1>3, <1>4 DEF Next, Over

\* No credit is lost or made in any run of any graph: an edge's credits are its
\* capacity less what is on its way, queued or held back (Edge.refill,
\* _acquire_credit and Inbox.push and pop keep the count between them).
THEOREM CreditsConserved == Spec => []CreditConservation
  <1>1. CreditInv => CreditConservation
    BY DEF CreditInv
  <1> QED
    BY <1>1, InitWired, CreditStep, PTL DEF Spec

\* Backpressure in any run of any graph: what is queued or held back of an edge
\* never exceeds its capacity.
THEOREM QueuesBounded == Spec => []BoundedQueue
  <1>1. CreditInv => BoundedQueue
    <2> SUFFICES ASSUME CreditInv, NEW e \in Edges, ~done[Dst[e]]
                 PROVE  queued[e] + Held(e) <= Capacity[e]
      BY DEF BoundedQueue
    <2>1. /\ Sent(e) \in Nat /\ Held(e) \in Nat /\ credits[e] \in Int
          /\ queued[e] \in Int /\ Capacity[e] \in Nat
      BY CountType DEF CreditInv
    <2>2. credits[e] >= 0 /\ credits[e] + Sent(e) + queued[e] + Held(e) = Capacity[e]
      BY DEF CreditInv, CreditConservation, Balanced
    <2> QED
      BY <2>1, <2>2
  <1> QED
    BY <1>1, InitWired, CreditStep, PTL DEF Spec
-----------------------------------------------------------------------------
(* Wake-ups.                                                               *)

\* What is true of a thread asleep in scheduler.wait.  A receiver's queue is empty;
\* a producer that could go on has a done receiver about to wake it; in a cancelled
\* run rc.cancel has yet to come to its condition.
Sleeper(s) ==
    /\ pc[s] \in {"park_in", "park_out"}
    /\ pc[s] = "park_in" => q[s] = <<>>
    /\ pc[s] = "park_out" /\ HandReady(s) => ReceiverWillNotify(s)
    /\ cancelled => CancelWillNotify(s)

\* rc.cancel walks the conditions once, after it has set its flag.
NoCancelYet == ~cancelled => canceller = {} /\ nextCond = 1

WakeInv == /\ CreditInv
           /\ \A s \in asleep : Sleeper(s)
           /\ NoCancelYet

Wakeful == (\A s \in asleep : Sleeper(s))' /\ NoCancelYet'

\* The edges a sender may be waiting for leave it.
LEMMA HandReadyKept ==
    ASSUME CreditInv, NEW s \in Nodes, hand'[s] = hand[s],
           \A e \in Edges : Src[e] = s =>
              /\ credits'[e] \in Int /\ credits'[e] <= credits[e]
              /\ done'[Dst[e]] = done[Dst[e]],
           HandReady(s)'
    PROVE  HandReady(s)
  <1>1. /\ \A e \in Edges : credits[e] \in Int
        /\ hand[s].edge \in Edges /\ Len(hand[s].items) \in Nat
        /\ \A i \in DOMAIN Out[s] : Out[s][i] \in Edges /\ Src[Out[s][i]] = s
    <2>1. hand[s] \in Entry
      BY DEF CreditInv, TypeOK, ThreadsTyped
    <2>2. hand[s].edge \in Edges /\ Len(hand[s].items) \in Nat
      BY <2>1 DEF Entry, Items
    <2>3. Out[s] \in Seq(Edges)
      BY GraphType
    <2>4. \A i \in DOMAIN Out[s] : Out[s][i] \in Edges /\ Src[Out[s][i]] = s
      BY <2>3, AllType
    <2> QED
      BY <2>2, <2>4 DEF CreditInv, TypeOK, EdgesTyped
  <1>2. ASSUME NEW e \in Edges, Src[e] = s, NEW k \in Int, OutReady(e, k)'
        PROVE  OutReady(e, k)
    BY <1>1, <1>2 DEF OutReady
  <1>3. CASE hand[s].items = <<>>
    <2>1. PICK i \in DOMAIN Out[s] : OutReady(Out[s][i], 1)'
      BY <1>3 DEF HandReady, AnyReady
    <2>2. OutReady(Out[s][i], 1)
      BY <1>1, <1>2, <2>1
    <2> QED
      BY <1>3, <2>2 DEF HandReady, AnyReady
  <1>4. CASE hand[s].items # <<>>
    <2>1. OutReady(hand[s].edge, Len(hand[s].items))'
      BY <1>4 DEF HandReady
    <2>2. Src[hand[s].edge] = s
      BY <1>4 DEF CreditInv, HandWired
    <2>3. OutReady(hand[s].edge, Len(hand[s].items))
      <3>1. \/ done[Dst[hand[s].edge]]
            \/ credits'[hand[s].edge] >= Len(hand[s].items)
        BY <1>1, <2>1, <2>2 DEF OutReady
      <3>2. credits'[hand[s].edge] <= credits[hand[s].edge]
            /\ credits'[hand[s].edge] \in Int /\ credits[hand[s].edge] \in Int
        BY <1>1, <2>2
      <3> QED
        BY <1>1, <3>1, <3>2 DEF OutReady
    <2> QED
      BY <1>4, <2>3 DEF HandReady
  <1> QED
    BY <1>3, <1>4

\* What a step has to leave alone for a thread that stays asleep.
LEMMA SleepsOn ==
    ASSUME CreditInv, NEW s \in Nodes, Sleeper(s),
           pc'[s] = pc[s], hand'[s] = hand[s],
           pc[s] = "park_in" => q'[s] = q[s],
           pc[s] = "park_out" =>
              \A e \in Edges : Src[e] = s =>
                 /\ credits'[e] \in Int /\ credits'[e] <= credits[e]
                 /\ done'[Dst[e]] = done[Dst[e]],
           \A m \in Nodes : pc[m] = "wake" /\ towake[m] # <<>> =>
                               pc'[m] = "wake" /\ towake'[m] = towake[m],
           \A m \in Nodes : pc[m] = "cancel" => pc'[m] = "cancel",
           UNCHANGED <<cancelled, nextCond>>, main = "cancel" => main' = "cancel"
    PROVE  Sleeper(s)'
  <1>1. (pc[s] = "park_out" /\ HandReady(s) => ReceiverWillNotify(s))'
    <2> SUFFICES ASSUME pc[s] = "park_out", HandReady(s)'  PROVE ReceiverWillNotify(s)'
      OBVIOUS
    <2>1. HandReady(s)
      BY HandReadyKept
    <2>2. PICK e \in Edges : /\ Src[e] = s /\ pc[Dst[e]] = "wake"
                             /\ \E i \in DOMAIN towake[Dst[e]] : towake[Dst[e]][i] = e
      BY <2>1 DEF Sleeper, ReceiverWillNotify
    <2>3. towake[Dst[e]] # <<>> /\ Dst[e] \in Nodes
      BY <2>2, GraphType
    <2> QED
      BY <2>2, <2>3 DEF ReceiverWillNotify
  <1>2. (cancelled => CancelWillNotify(s))'
    BY DEF Sleeper, CancelWillNotify
  <1> QED
    BY <1>1, <1>2 DEF Sleeper

\* The walk of rc.cancel comes to every condition.
LEMMA CancelReachesAll ==
    ASSUME NEW s \in Nodes, pc'[s] \in {"park_in", "park_out"}, nextCond' = 1,
           main' = "cancel" \/ \E m \in Nodes : pc'[m] = "cancel"
    PROVE  CancelWillNotify(s)'
  <1>1. PICK i \in DOMAIN Order : Order[i] = s
    BY GraphAssumption
  <1>2. i \in 1..Len(Order) /\ Len(Order) \in Nat
    <2>1. Order \in Seq(Nodes)
      BY GraphAssumption
    <2>2. Len(Order) \in Nat /\ DOMAIN Order = 1..Len(Order)
      BY <2>1, LenProperties
    <2> QED
      BY <2>2
  <1>3. CASE pc'[s] = "park_in"
    <2>1. 2 * i - 1 \in 1..(2 * Len(Order)) /\ ((2 * i - 1) + 1) \div 2 = i
          /\ (2 * i - 1) % 2 = 1
      BY <1>2
    <2> QED
      BY <1>1, <1>3, <2>1 DEF CancelWillNotify
  <1>4. CASE pc'[s] = "park_out"
    <2>1. 2 * i \in 1..(2 * Len(Order)) /\ (2 * i + 1) \div 2 = i /\ (2 * i) % 2 # 1
      BY <1>2
    <2> QED
      BY <1>1, <1>4, <2>1 DEF CancelWillNotify
  <1> QED
    BY <1>3, <1>4

\* A step of a thread that is awake, gives no credit and notifies nobody.
Calm(n) ==
    /\ n \notin asleep /\ UNCHANGED asleep
    /\ pc[n] \notin {"wake", "cancel"}
    /\ \A m \in Nodes \ {n} : pc'[m] = pc[m] /\ hand'[m] = hand[m] /\ q'[m] = q[m]
    /\ \A e \in Edges : credits'[e] \in Int /\ credits'[e] <= credits[e]
    /\ UNCHANGED <<done, towake, cancelled, canceller, nextCond, main>>

LEMMA CalmWakes ==
    ASSUME WakeInv, NEW n \in Nodes, Calm(n)
    PROVE  Wakeful
  <1>1. ASSUME NEW s \in asleep  PROVE Sleeper(s)'
    <2>1. s \in Nodes /\ s # n /\ Sleeper(s)
      BY DEF Calm, WakeInv, CreditInv, TypeOK, ThreadsTyped
    <2>2. \A m \in Nodes : pc[m] \in {"wake", "cancel"} => pc'[m] = pc[m]
      BY DEF Calm
    <2>3. \A e \in Edges : done'[Dst[e]] = done[Dst[e]]
      BY DEF Calm
    <2> QED
      BY <2>1, <2>2, <2>3, SleepsOn DEF Calm, WakeInv
  <1> QED
    BY <1>1 DEF Wakeful, Calm, WakeInv, NoCancelYet

LEMMA Shapes ==
    ASSUME TypeOK
    PROVE  /\ pc \in [Nodes -> Threads] /\ hand \in [Nodes -> Entry]
           /\ q \in [Nodes -> Seq(Queued)] /\ credits \in [Edges -> Int]
           /\ done \in [Nodes -> BOOLEAN] /\ towake \in [Nodes -> Seq(Edges)]
           /\ state \in [Nodes -> {"NEW", "RUNNING", "WAITING", "DONE", "FAILED"}]
           /\ asleep \subseteq Nodes /\ main \in {"watch", "cancel", "join", "over"}
           /\ \A n \in Nodes : Len(hand[n].items) \in Nat
  BY DEF TypeOK, ThreadsTyped, EdgesTyped, RunTyped, MainTyped, Entry, Items

LEMMA Awake ==
    ASSUME WakeInv, NEW n \in Nodes, pc[n] \notin {"park_in", "park_out"}
    PROVE  n \notin asleep
  BY DEF WakeInv, Sleeper

LEMMA CalmSteps ==
    ASSUME WakeInv, NEW n \in Nodes,
           \/ Start(n) \/ Produce(n) \/ Process(n) \/ Return(n) \/ Unwind(n)
           \/ Buffer(n) \/ Skip(n) \/ Prepare(n) \/ Claim(n) \/ ClaimAny(n)
           \/ TakeKept(n) \/ Drain(n) \/ NextOfBatch(n) \/ Pop(n) \/ FlushFirst(n)
           \/ LoopDone(n) \/ ExternalEnded(n)
    PROVE  Calm(n)
  <1>0. TypeOK
    BY DEF WakeInv, CreditInv
  <1>1. CASE Start(n) \/ Produce(n) \/ Process(n) \/ Return(n) \/ Skip(n) \/ FlushFirst(n)
    <2>1. pc[n] \in {"new", "run"} /\ UNCHANGED <<asleep, hand, q, credits, done, towake,
                                                  cancelled, canceller, nextCond, main>>
      BY <1>1 DEF Start, Produce, Process, Return, Skip, FlushFirst, Coding, Free, Making,
                  Asking, Popping, Sending, threadVars, edgeVars, runVars, mainVars
    <2>2. \A m \in Nodes \ {n} : pc'[m] = pc[m]
      BY <1>0, <1>1, Shapes DEF Start, Produce, Process, Return, Skip, FlushFirst
    <2>3. pc[n] \notin {"park_in", "park_out"}
      BY <2>1
    <2>4. n \notin asleep
      BY <2>3, Awake
    <2> QED
      BY <1>0, <2>1, <2>2, <2>4, Shapes DEF Calm
  <1>2. CASE Unwind(n) \/ Buffer(n) \/ Prepare(n) \/ LoopDone(n) \/ ExternalEnded(n)
    <2>1. /\ n \notin asleep /\ pc[n] \notin {"wake", "cancel"}
          /\ UNCHANGED <<asleep, q, credits, done, towake,
                         cancelled, canceller, nextCond, main>>
      BY <1>2, Awake DEF Unwind, Buffer, Prepare, LoopDone, ExternalEnded,
                         Sending, edgeVars, runVars, mainVars
    <2>2. \A m \in Nodes \ {n} : pc'[m] = pc[m] /\ hand'[m] = hand[m]
      BY <1>0, <1>2, Shapes DEF Unwind, Buffer, Prepare, LoopDone, ExternalEnded, MaybeClose
    <2> QED
      BY <1>0, <2>1, <2>2, Shapes DEF Calm
  <1>3. CASE Claim(n) \/ ClaimAny(n)
    <2>1. /\ n \notin asleep /\ pc[n] \notin {"wake", "cancel"}
          /\ UNCHANGED <<asleep, q, done, towake, cancelled, canceller, nextCond, main>>
      BY <1>3, Awake DEF Claim, ClaimAny, Claiming, Claimed, runVars, mainVars
    <2>2. \A m \in Nodes \ {n} : pc'[m] = pc[m] /\ hand'[m] = hand[m]
      BY <1>0, <1>3, Shapes DEF Claim, ClaimAny, Claimed
    <2>3. \E e \in Edges, k \in Nat : credits' = Charge(e, k)
      <3>1. CASE Claim(n)
        <4>1. hand[n].edge \in Edges
          BY <1>0, Shapes DEF Entry
        <4> QED
          BY <1>0, <3>1, <4>1, Shapes DEF Claim
      <3>2. CASE ClaimAny(n)
        <4>1. rr[n] \in Nat
          BY <1>0 DEF TypeOK, EdgesTyped
        <4>2. PICK e \in Edges : credits' = Charge(e, 1)
          BY <3>2, <4>1, ClaimAnyPicks
        <4> QED
          BY <4>2
      <3> QED
        BY <1>3, <3>1, <3>2
    <2>4. \A e \in Edges : credits'[e] \in Int /\ credits'[e] <= credits[e]
      BY <1>0, <2>3, Shapes DEF Charge
    <2> QED
      BY <2>1, <2>2, <2>4 DEF Calm
  <1>4. CASE TakeKept(n) \/ Drain(n) \/ NextOfBatch(n) \/ Pop(n)
    <2>1. /\ n \notin asleep /\ pc[n] \notin {"wake", "cancel"}
          /\ UNCHANGED <<asleep, hand, credits, done, towake,
                         cancelled, canceller, nextCond, main>>
      BY <1>4, Awake DEF TakeKept, Drain, NextOfBatch, Pop, Popping, Asking, Free, Coding,
                         edgeVars, runVars, mainVars
    <2>2. \A m \in Nodes \ {n} : pc'[m] = pc[m] /\ q'[m] = q[m]
      <3>1. CASE TakeKept(n) \/ Drain(n) \/ NextOfBatch(n)
        BY <1>0, <3>1, Shapes DEF TakeKept, Drain, NextOfBatch, Unpack, edgeVars
      <3>2. CASE Pop(n)
        BY <1>0, <3>2, Shapes DEF Pop, Unpack
      <3> QED
        BY <1>4, <3>1, <3>2
    <2> QED
      BY <1>0, <2>1, <2>2, Shapes DEF Calm
  <1> QED
    BY <1>1, <1>2, <1>3, <1>4

\* The sleepers of a step that leaves the cancellation and the waking alone.
LEMMA SleepersSleepOn ==
    ASSUME WakeInv, NEW s \in asleep, pc'[s] = pc[s], hand'[s] = hand[s],
           pc[s] = "park_in" => q'[s] = q[s],
           pc[s] = "park_out" =>
              \A e \in Edges : Src[e] = s =>
                 /\ credits'[e] \in Int /\ credits'[e] <= credits[e]
                 /\ done'[Dst[e]] = done[Dst[e]],
           \A m \in Nodes : pc[m] \in {"wake", "cancel"} => pc'[m] = pc[m],
           UNCHANGED <<towake, cancelled, nextCond, main>>
    PROVE  Sleeper(s)'
  <1>1. s \in Nodes /\ CreditInv /\ Sleeper(s)
    BY DEF WakeInv, CreditInv, TypeOK, ThreadsTyped
  <1> QED
    BY <1>1, SleepsOn

\* A thread that goes to sleep has just seen its predicate false, and no cancellation.
LEMMA DozeWakes ==
    ASSUME WakeInv, NEW n \in Nodes, Doze(n) \/ Await(n)
    PROVE  Wakeful
  <1>0. TypeOK
    BY DEF WakeInv, CreditInv
  <1>1. /\ UNCHANGED <<hand, q, credits, done, towake, cancelled, canceller, nextCond, main>>
        /\ n \notin asleep /\ pc[n] \notin {"wake", "cancel"}
        /\ \A m \in Nodes \ {n} : pc'[m] = pc[m]
        /\ asleep' \subseteq asleep \cup {n}
    <2>1. CASE Doze(n)
      BY <2>1 DEF Doze, edgeVars, runVars, mainVars
    <2>2. CASE Await(n)
      <3>1. pc[n] = "run"
        BY <2>2 DEF Await, Popping, Asking, Free, Coding
      <3>2. n \notin asleep
        BY <3>1, Awake
      <3> QED
        BY <1>0, <2>2, <3>1, <3>2, Shapes DEF Await, Parks, edgeVars, runVars, mainVars
    <2> QED
      BY <2>1, <2>2
  <1>2. ASSUME NEW s \in asleep  PROVE Sleeper(s)'
    <2>1. s \in Nodes /\ s # n
      BY <1>0, <1>1, Shapes
    <2>2. pc'[s] = pc[s] /\ hand'[s] = hand[s] /\ q'[s] = q[s]
      BY <1>1, <2>1
    <2>3. \A e \in Edges : /\ credits'[e] \in Int /\ credits'[e] <= credits[e]
                           /\ done'[Dst[e]] = done[Dst[e]]
      BY <1>0, <1>1, Shapes
    <2>4. \A m \in Nodes : pc[m] \in {"wake", "cancel"} => pc'[m] = pc[m]
      BY <1>1
    <2> QED
      BY <1>1, <2>2, <2>3, <2>4, SleepersSleepOn
  <1>3. ASSUME n \in asleep'  PROVE Sleeper(n)'
    <2>1. CASE Doze(n)
      <3>1. /\ pc'[n] \in {"park_in", "park_out"} /\ ~cancelled'
            /\ UNCHANGED <<pc, hand, q, credits, done>> /\ ~Ready(n)
        BY <2>1 DEF Doze, edgeVars, runVars
      <3>2. HandReady(n)' = HandReady(n)
        BY <3>1 DEF HandReady, AnyReady, OutReady
      <3> QED
        BY <3>1, <3>2 DEF Sleeper, Ready
    <2>2. CASE Await(n)
      <3>1. n \in Parks(n)
        BY <1>1, <1>3, <2>2 DEF Await
      <3>2. ~cancelled' /\ pc'[n] = "park_in" /\ q'[n] = <<>>
        BY <1>0, <2>2, <3>1, Shapes DEF Parks, Await, edgeVars, runVars
      <3> QED
        BY <3>2 DEF Sleeper
    <2> QED
      BY <2>1, <2>2
  <1> QED
    BY <1>1, <1>2, <1>3 DEF Wakeful, WakeInv, NoCancelYet

\* Block lets other batches out first, which only takes credits, and wakes whoever
\* waits for them.
LEMMA BlockWakes ==
    ASSUME WakeInv, NEW n \in Nodes, Block(n)
    PROVE  Wakeful
  <1>0. TypeOK
    BY DEF WakeInv, CreditInv
  <1> DEFINE P == {e \in Flushable(n) : ~done[Dst[e]]}
             New(m) == {e \in P : Dst[e] = m}
  <1>1. /\ UNCHANGED <<hand, done, towake, cancelled, canceller, nextCond, main>>
        /\ pc' = [pc EXCEPT ![n] = "park_out"]
        /\ pc[n] = "credit" /\ ~HandReady(n)
        /\ credits' = [e \in Edges |-> IF e \in P THEN credits[e] - Len(pending[e])
                                       ELSE credits[e]]
        /\ \A m \in Nodes : New(m) = {} => q'[m] = q[m]
        /\ asleep' = (asleep \ {m \in Nodes : pc[m] = "park_in" /\ New(m) # {}}) \cup Parks(n)
    BY DEF Block, runVars, mainVars
  <1>2. n \notin asleep
    BY <1>1, Awake
  <1>3. \A m \in Nodes : m # n => pc'[m] = pc[m]
    BY <1>0, <1>1, Shapes
  <1>4. \A e \in Edges : credits'[e] \in Int /\ credits'[e] <= credits[e]
    <2>1. \A e \in Edges : credits[e] \in Int /\ Len(pending[e]) \in Nat
      BY <1>0 DEF TypeOK, EdgesTyped, Items
    <2> HIDE DEF P
    <2>2. \A e \in Edges : credits'[e] = IF e \in P THEN credits[e] - Len(pending[e])
                                         ELSE credits[e]
      BY <1>1
    <2> QED
      BY <2>1, <2>2
  <1>5. ASSUME NEW s \in asleep, s \in asleep'  PROVE Sleeper(s)'
    <2>1. s \in Nodes /\ s # n /\ s \notin Parks(n)
      BY <1>0, <1>2, <1>5, Shapes DEF Parks
    <2>2. pc[s] = "park_in" => New(s) = {}
      BY <1>1, <1>5, <2>1
    <2>3. pc'[s] = pc[s] /\ hand'[s] = hand[s] /\ (pc[s] = "park_in" => q'[s] = q[s])
      BY <1>1, <1>3, <2>1, <2>2
    <2>4. \A m \in Nodes : pc[m] \in {"wake", "cancel"} => pc'[m] = pc[m]
      BY <1>1, <1>3
    <2>5. \A e \in Edges : done'[Dst[e]] = done[Dst[e]]
      BY <1>1
    <2> HIDE DEF P, New
    <2> QED
      BY <1>1, <1>4, <2>3, <2>4, <2>5, SleepersSleepOn
  <1>6. ASSUME n \in asleep'  PROVE Sleeper(n)'
    <2>1. n \in Parks(n)
      BY <1>1, <1>2, <1>6
    <2>2. ~cancelled' /\ pc'[n] = "park_out"
      BY <1>0, <1>1, <2>1, Shapes DEF Parks
    <2>3. ~HandReady(n)'
      <3>1. \A e \in Edges : done'[Dst[e]] = done[Dst[e]]
        BY <1>1
      <3> HIDE DEF P, New
      <3> QED
        BY <1>1, <1>4, <3>1, HandReadyKept DEF WakeInv
    <2> QED
      BY <2>2, <2>3 DEF Sleeper
  <1>7. asleep' \subseteq asleep \cup {n}
    BY <1>1 DEF Parks
  <1> QED
    BY <1>1, <1>5, <1>6, <1>7 DEF Wakeful, WakeInv, NoCancelYet

\* What is queued for a waiting receiver, by a sender or by the loop, wakes it; what
\* it gives back wakes a waiting sender.
LEMMA NotifyWakes ==
    ASSUME WakeInv, NEW n \in Nodes, Push(n) \/ Tell(n) \/ Release(n)
    PROVE  Wakeful
  <1>0. TypeOK
    BY DEF WakeInv, CreditInv
  <1>1. /\ UNCHANGED <<done, towake, cancelled, canceller, nextCond, main>>
        /\ \A m \in Nodes \ {n} : pc'[m] = pc[m] /\ hand'[m] = hand[m]
        /\ pc[n] \in {"push", "tell", "release"}
    BY <1>0, Shapes DEF Push, Tell, Release, edgeVars, runVars, mainVars
  <1>2. n \notin asleep
    BY <1>1, Awake
  <1>3. ASSUME NEW m \in Nodes, NEW cond, asleep' = Notify(m, cond) \/ asleep' = asleep
        PROVE  asleep' \subseteq asleep
    BY <1>3 DEF Notify
  <1>4. asleep' \subseteq asleep
    <2>1. CASE Push(n)
      BY <1>0, <1>3, <2>1, GraphType, Shapes DEF Push, Entry
    <2>2. CASE Tell(n)
      BY <2>2 DEF Tell, Notify
    <2>3. CASE Release(n)
      BY <2>3 DEF Release, Notify
    <2> QED
      BY <1>1, <2>1, <2>2, <2>3
  <1>5. ASSUME NEW s \in asleep'  PROVE Sleeper(s)'
    <2>1. s \in asleep /\ s \in Nodes /\ s # n
      BY <1>0, <1>2, <1>4, Shapes
    <2>2. pc'[s] = pc[s] /\ hand'[s] = hand[s]
      BY <1>1, <2>1
    <2>3. pc[s] = "park_in" => q'[s] = q[s]
      <3> SUFFICES ASSUME pc[s] = "park_in"  PROVE q'[s] = q[s]
        OBVIOUS
      <3>1. CASE Push(n)
        <4>1. CASE done[Dst[hand[n].edge]]
          BY <3>1, <4>1 DEF Push
        <4>2. CASE ~done[Dst[hand[n].edge]]
          <5>1. /\ asleep' = Notify(Dst[hand[n].edge], "park_in")
                /\ q' = [q EXCEPT ![Dst[hand[n].edge]] = Append(@, hand[n])]
            BY <3>1, <4>2 DEF Push
          <5>2. s # Dst[hand[n].edge]
            BY <5>1 DEF Notify
          <5> QED
            BY <1>0, <5>1, <5>2, <2>1, Shapes
        <4> QED
          BY <4>1, <4>2
      <3>2. CASE Tell(n)
        <4> DEFINE h == Head(telling[n])
        <4>1. CASE done[h]
          BY <3>2, <4>1 DEF Tell
        <4>2. CASE ~done[h]
          <5>1. /\ asleep' = Notify(h, "park_in")
                /\ q' = [q EXCEPT ![h] = Append(@, [NoEntry EXCEPT !.items = <<LOOP_DONE>>])]
            BY <3>2, <4>2 DEF Tell
          <5>2. s # h
            BY <5>1 DEF Notify
          <5> HIDE DEF h
          <5> QED
            BY <1>0, <5>1, <5>2, <2>1, Shapes
        <4> QED
          BY <4>1, <4>2
      <3>3. CASE Release(n)
        BY <3>3 DEF Release
      <3> QED
        BY <1>1, <3>1, <3>2, <3>3
    <2>4. ASSUME pc[s] = "park_out", NEW e \in Edges, Src[e] = s
          PROVE  credits'[e] \in Int /\ credits'[e] <= credits[e]
      <3>1. CASE Push(n) \/ Tell(n)
        <4>1. credits' = credits
          BY <3>1 DEF Push, Tell
        <4> QED
          BY <1>0, <4>1, Shapes
      <3>2. CASE Release(n)
        <4>1. /\ asleep' = Notify(Src[rel[n].edge], "park_out")
              /\ credits' = [credits EXCEPT ![rel[n].edge] = @ + rel[n].n]
          BY <3>2 DEF Release
        <4>2. e # rel[n].edge
          BY <2>4, <4>1 DEF Notify
        <4> QED
          BY <1>0, <4>1, <4>2, Shapes
      <3> QED
        BY <1>1, <3>1, <3>2
    <2>5. \A m \in Nodes : pc[m] \in {"wake", "cancel"} => pc'[m] = pc[m]
      BY <1>1
    <2>6. \A e \in Edges : done'[Dst[e]] = done[Dst[e]]
      BY <1>1
    <2> QED
      BY <1>1, <2>1, <2>2, <2>3, <2>4, <2>5, <2>6, SleepersSleepOn
  <1> QED
    BY <1>1, <1>5 DEF Wakeful, WakeInv, NoCancelYet

\* A receiver that is done owes a notification to the sender of every input edge,
\* and forgets one only as it gives it.
LEMMA MarkWakes ==
    ASSUME WakeInv, NEW n \in Nodes, Mark(n) \/ WakeProducer(n) \/ End(n)
    PROVE  Wakeful
  <1>0. TypeOK
    BY DEF WakeInv, CreditInv
  <1>1. /\ UNCHANGED <<hand, credits, cancelled, canceller, nextCond, main>>
        /\ \A m \in Nodes \ {n} : pc'[m] = pc[m] /\ towake'[m] = towake[m] /\ q'[m] = q[m]
        /\ pc[n] \in {"run", "wake"} /\ asleep' \subseteq asleep
        /\ pc'[n] = "cancel" <=> pc[n] = "cancel"
    BY <1>0, Shapes DEF Mark, WakeProducer, End, Notify, edgeVars, runVars, mainVars
  <1>2. n \notin asleep
    BY <1>1, Awake
  <1>3. ASSUME NEW s \in asleep'  PROVE Sleeper(s)'
    <2>1. s \in asleep /\ s \in Nodes /\ s # n /\ Sleeper(s)
      BY <1>0, <1>1, <1>2, Shapes DEF WakeInv
    <2>2. pc'[s] = pc[s] /\ q'[s] = q[s]
      BY <1>1, <2>1
    <2>3. (cancelled => CancelWillNotify(s))'
      <3>1. \A m \in Nodes : pc'[m] = "cancel" <=> pc[m] = "cancel"
        BY <1>1
      <3> QED
        BY <1>1, <2>1, <2>2, <3>1 DEF Sleeper, CancelWillNotify
    <2>4. (pc[s] = "park_out" /\ HandReady(s) => ReceiverWillNotify(s))'
      <3> SUFFICES ASSUME pc[s] = "park_out", HandReady(s)'  PROVE ReceiverWillNotify(s)'
        BY <2>2
      <3>1. CASE Mark(n)
        <4>0. /\ done' = [done EXCEPT ![n] = TRUE] /\ pc'[n] = "wake"
              /\ towake'[n] = In[n] /\ pc[n] = "run"
          BY <1>0, <3>1, Shapes DEF Mark
        <4>1. CASE \E e \in Edges : Src[e] = s /\ Dst[e] = n
          <5>1. PICK e \in Edges : Src[e] = s /\ Dst[e] = n
            BY <4>1
          <5>2. \E i \in DOMAIN In[Dst[e]] : In[Dst[e]][i] = e
            BY GraphAssumption
          <5> QED
            BY <4>0, <5>1, <5>2 DEF ReceiverWillNotify
        <4>2. CASE \A e \in Edges : Src[e] = s => Dst[e] # n
          <5>1. \A e \in Edges : Src[e] = s => done'[Dst[e]] = done[Dst[e]]
            BY <1>0, <4>0, <4>2, Shapes, GraphType
          <5>2. \A e \in Edges : credits'[e] \in Int /\ credits'[e] <= credits[e]
            BY <1>0, <1>1, Shapes
          <5>3. hand'[s] = hand[s] /\ CreditInv
            BY <1>1 DEF WakeInv
          <5>4. HandReady(s)
            BY <2>1, <5>1, <5>2, <5>3, HandReadyKept
          <5>5. PICK e \in Edges : /\ Src[e] = s /\ pc[Dst[e]] = "wake"
                                   /\ \E i \in DOMAIN towake[Dst[e]] : towake[Dst[e]][i] = e
            BY <2>1, <2>2, <5>4 DEF Sleeper, ReceiverWillNotify
          <5>6. Dst[e] \in Nodes \ {n}
            BY <4>0, <5>5, GraphType
          <5> QED
            BY <1>1, <5>5, <5>6 DEF ReceiverWillNotify
        <4> QED
          BY <4>1, <4>2
      <3>2. CASE WakeProducer(n) \/ End(n)
        <4>1. HandReady(s)
          <5>1. done' = done /\ hand'[s] = hand[s] /\ CreditInv
            BY <1>1, <3>2 DEF WakeProducer, End, edgeVars, WakeInv
          <5>2. \A e \in Edges : /\ credits'[e] \in Int /\ credits'[e] <= credits[e]
                                 /\ done'[Dst[e]] = done[Dst[e]]
            BY <1>0, <1>1, <5>1, Shapes
          <5> QED
            BY <2>1, <5>1, <5>2, HandReadyKept
        <4>2. PICK e \in Edges : /\ Src[e] = s /\ pc[Dst[e]] = "wake"
                                 /\ \E i \in DOMAIN towake[Dst[e]] : towake[Dst[e]][i] = e
          BY <2>1, <2>2, <4>1 DEF Sleeper, ReceiverWillNotify
        <4>3. CASE Dst[e] # n
          BY <1>1, <4>2, <4>3, GraphType DEF ReceiverWillNotify
        <4>4. CASE Dst[e] = n
          <5>1. PICK i \in DOMAIN towake[n] : towake[n][i] = e
            BY <4>2, <4>4
          <5>2. towake[n] \in Seq(Edges) /\ i \in 1..Len(towake[n]) /\ towake[n] # <<>>
            BY <1>0, <5>1, Shapes
          <5>3. WakeProducer(n)
            BY <3>2, <5>2 DEF End
          <5>4. /\ asleep' = Notify(Src[Head(towake[n])], "park_out")
                /\ towake'[n] = Tail(towake[n]) /\ pc'[n] = "wake"
            BY <1>0, <5>3, Shapes DEF WakeProducer
          <5>5. Head(towake[n]) # e
            BY <4>2, <2>2, <5>4 DEF Notify
          <5>6. Head(towake[n]) = towake[n][1]
            BY <5>2
          <5>7. i # 1
            BY <5>1, <5>5, <5>6
          <5>8. /\ Len(Tail(towake[n])) = Len(towake[n]) - 1
                /\ \A j \in 1..(Len(towake[n]) - 1) : Tail(towake[n])[j] = towake[n][j + 1]
                /\ DOMAIN Tail(towake[n]) = 1..Len(Tail(towake[n]))
            BY <5>2
          <5>9. Len(towake[n]) \in Nat
            BY <5>2
          <5>10. i - 1 \in 1..(Len(towake[n]) - 1) /\ (i - 1) + 1 = i
            BY <5>2, <5>7, <5>9
          <5>11. i - 1 \in DOMAIN Tail(towake[n]) /\ Tail(towake[n])[i - 1] = e
            BY <5>1, <5>8, <5>10
          <5> QED
            BY <4>2, <4>4, <5>4, <5>11 DEF ReceiverWillNotify
        <4> QED
          BY <4>3, <4>4
      <3> QED
        BY <3>1, <3>2
    <2> QED
      BY <2>1, <2>2, <2>3, <2>4 DEF Sleeper
  <1> QED
    BY <1>1, <1>3 DEF Wakeful, WakeInv, NoCancelYet

\* Fail raises the flag before it walks the conditions; each step of the walk wakes
\* whoever waits on the next one.
LEMMA CancelWakes ==
    ASSUME WakeInv, NEW n \in Nodes, Fail(n) \/ CancelReturns(n)
    PROVE  Wakeful
  <1>0. TypeOK
    BY DEF WakeInv, CreditInv
  <1>1. /\ UNCHANGED <<hand, q, credits, done, towake, nextCond, main, asleep>>
        /\ \A m \in Nodes \ {n} : pc'[m] = pc[m]
        /\ pc[n] \in {"run", "cancel"} /\ n \notin asleep
    <2>1. pc[n] \in {"run", "cancel"}
      BY DEF Fail, CancelReturns, Making, Free, Coding
    <2>2. n \notin asleep
      BY <2>1, Awake
    <2> QED
      BY <1>0, <2>1, <2>2, Shapes DEF Fail, CancelReturns, edgeVars, runVars, mainVars
  <1>2. ASSUME NEW s \in asleep  PROVE s \in Nodes /\ s # n /\ pc'[s] = pc[s] /\ Sleeper(s)
    BY <1>0, <1>1, <1>2, Shapes DEF WakeInv
  <1>3. CASE Fail(n) /\ cancelled
    <2>1. UNCHANGED <<pc, cancelled, canceller>>
      BY <1>3 DEF Fail
    <2>2. ASSUME NEW s \in asleep  PROVE Sleeper(s)'
      BY <1>0, <1>1, <1>2, <2>1, <2>2, Shapes, SleepersSleepOn
    <2> QED
      BY <1>1, <2>1, <2>2 DEF Wakeful, WakeInv, NoCancelYet
  <1>4. CASE Fail(n) /\ ~cancelled
    <2>1. pc'[n] = "cancel" /\ cancelled' /\ nextCond' = 1
      BY <1>0, <1>1, <1>4, Shapes DEF Fail, WakeInv, NoCancelYet
    <2>2. ASSUME NEW s \in asleep  PROVE Sleeper(s)'
      <3>1. pc[s] \in {"park_in", "park_out"} /\ s \in Nodes
        BY <1>2 DEF Sleeper
      <3>2. CancelWillNotify(s)'
        BY <1>2, <2>1, <3>1, CancelReachesAll
      <3>3. (pc[s] = "park_out" /\ HandReady(s) => ReceiverWillNotify(s))'
        <4>1. HandReady(s)' = HandReady(s)
          BY <1>1 DEF HandReady, AnyReady, OutReady
        <4>2. pc[s] = "park_out" /\ HandReady(s) => ReceiverWillNotify(s)
          BY <1>2 DEF Sleeper
        <4>3. \A m \in Nodes : pc[m] = "wake" => pc'[m] = "wake"
          BY <1>1, <2>1, <1>4 DEF Fail, Making, Free, Coding
        <4> QED
          BY <1>1, <1>2, <4>1, <4>2, <4>3, GraphType DEF ReceiverWillNotify
      <3> QED
        BY <1>1, <1>2, <3>1, <3>2, <3>3 DEF Sleeper
    <2> QED
      BY <1>1, <2>1, <2>2 DEF Wakeful, NoCancelYet
  <1>5. CASE CancelReturns(n)
    <2>1. /\ UNCHANGED <<cancelled, canceller, nextCond>> /\ nextCond > 2 * Len(Order)
          /\ pc[n] = "cancel"
      BY <1>5 DEF CancelReturns, runVars
    <2>2. canceller = {n}
      BY <1>5 DEF CancelReturns
    <2>3. cancelled
      BY <2>2 DEF WakeInv, NoCancelYet
    <2>4. ASSUME NEW s \in asleep  PROVE FALSE
      <3>1. CancelWillNotify(s)
        BY <1>2, <2>3 DEF Sleeper
      <3>2. nextCond \in Nat /\ Len(Order) \in Nat
        BY <1>0, GraphType DEF TypeOK, RunTyped
      <3> QED
        BY <2>1, <3>1, <3>2 DEF CancelWillNotify
    <2> QED
      BY <1>1, <2>1, <2>4 DEF Wakeful, WakeInv, NoCancelYet
  <1> QED
    BY <1>3, <1>4, <1>5

LEMMA CancelStepWakes ==
    ASSUME WakeInv, NEW who, CancelStep(who)
    PROVE  Wakeful
  <1>0. TypeOK
    BY DEF WakeInv, CreditInv
  <1> DEFINE n == Order[(nextCond + 1) \div 2]
             cond == IF nextCond % 2 = 1 THEN "park_in" ELSE "park_out"
  <1>1. /\ UNCHANGED <<pc, hand, q, credits, done, towake, cancelled, canceller, main>>
        /\ asleep' = Notify(n, cond) /\ nextCond' = nextCond + 1
        /\ nextCond \in Nat /\ cancelled
    BY <1>0 DEF CancelStep, edgeVars, mainVars, TypeOK, RunTyped, WakeInv, NoCancelYet
  <1>2. ASSUME NEW s \in asleep'  PROVE Sleeper(s)'
    <2>1. s \in asleep /\ Sleeper(s) /\ ~(s = n /\ pc[s] = cond)
      BY <1>1 DEF Notify, WakeInv
    <2>2. CancelWillNotify(s)'
      <3>1. main = "cancel" \/ \E m \in Nodes : pc[m] = "cancel"
        BY <1>1, <2>1 DEF Sleeper, CancelWillNotify
      <3>2. PICK i \in nextCond..(2 * Len(Order)) :
               Order[(i + 1) \div 2] = s /\ pc[s] = (IF i % 2 = 1 THEN "park_in" ELSE "park_out")
        BY <1>1, <2>1 DEF Sleeper, CancelWillNotify
      <3>3. i # nextCond
        BY <2>1, <3>2
      <3>4. i \in (nextCond + 1)..(2 * Len(Order))
        <4>1. Len(Order) \in Nat
          BY GraphType
        <4> HIDE DEF n, cond
        <4> QED
          BY <1>1, <3>2, <3>3, <4>1
      <3> QED
        BY <1>1, <3>1, <3>2, <3>4 DEF CancelWillNotify
    <2>3. (pc[s] = "park_out" /\ HandReady(s) => ReceiverWillNotify(s))'
      <3>1. HandReady(s)' = HandReady(s) /\ ReceiverWillNotify(s)' = ReceiverWillNotify(s)
        BY <1>1 DEF HandReady, AnyReady, OutReady, ReceiverWillNotify
      <3> QED
        BY <1>1, <2>1, <3>1 DEF Sleeper
    <2> QED
      BY <1>1, <2>1, <2>2, <2>3 DEF Sleeper
  <1> QED
    BY <1>1, <1>2 DEF Wakeful, NoCancelYet

LEMMA MainWakes ==
    ASSUME WakeInv, Tick \/ MainCancelReturns \/ Join
    PROVE  Wakeful
  <1>0. TypeOK
    BY DEF WakeInv, CreditInv
  <1>1. UNCHANGED <<pc, hand, q, credits, done, towake, nextCond, asleep>>
    BY DEF Tick, MainCancelReturns, Join, threadVars, edgeVars, runVars
  <1>2. ASSUME NEW s \in asleep  PROVE Sleeper(s) /\ s \in Nodes
    BY <1>0, Shapes DEF WakeInv
  <1>3. \A s \in asleep : (pc[s] = "park_out" /\ HandReady(s) => ReceiverWillNotify(s))'
    <2> SUFFICES ASSUME NEW s \in asleep
                 PROVE  (pc[s] = "park_out" /\ HandReady(s) => ReceiverWillNotify(s))'
      OBVIOUS
    <2>1. HandReady(s)' = HandReady(s) /\ ReceiverWillNotify(s)' = ReceiverWillNotify(s)
      BY <1>1 DEF HandReady, AnyReady, OutReady, ReceiverWillNotify
    <2> QED
      BY <1>1, <1>2, <2>1 DEF Sleeper
  <1>4. CASE UNCHANGED <<cancelled, canceller>> /\ (main = "cancel" => main' = "cancel")
    <2>1. ASSUME NEW s \in asleep  PROVE (cancelled => CancelWillNotify(s))'
      BY <1>1, <1>2, <1>4 DEF Sleeper, CancelWillNotify
    <2> QED
      BY <1>1, <1>2, <1>3, <1>4, <2>1 DEF Wakeful, WakeInv, NoCancelYet, Sleeper
  <1>5. CASE main' = "cancel" /\ cancelled' /\ nextCond = 1
    <2>1. ASSUME NEW s \in asleep  PROVE CancelWillNotify(s)'
      <3>1. pc'[s] \in {"park_in", "park_out"} /\ s \in Nodes
        BY <1>1, <1>2 DEF Sleeper
      <3> QED
        BY <1>1, <1>5, <3>1, CancelReachesAll
    <2> QED
      BY <1>1, <1>2, <1>3, <1>5, <2>1 DEF Wakeful, NoCancelYet, Sleeper
  <1>6. CASE UNCHANGED <<cancelled, canceller>> /\ main = "cancel" /\ nextCond > 2 * Len(Order)
    <2>1. nextCond \in Nat /\ Len(Order) \in Nat
      BY <1>0, GraphType DEF TypeOK, RunTyped
    <2>2. ASSUME NEW s \in asleep  PROVE ~cancelled
      BY <1>2, <1>6, <2>1 DEF Sleeper, CancelWillNotify
    <2> QED
      BY <1>1, <1>2, <1>3, <1>6, <2>2 DEF Wakeful, WakeInv, NoCancelYet, Sleeper
  <1>7. CASE Tick
    <2>1. main = "watch"
      BY <1>7 DEF Tick
    <2>2. CASE UNCHANGED <<cancelled, canceller>>
      BY <1>4, <2>1, <2>2
    <2>3. CASE ~UNCHANGED <<cancelled, canceller>>
      <3>1. ~cancelled /\ cancelled' /\ main' = "cancel"
        BY <1>7, <2>3 DEF Tick
      <3> QED
        BY <1>5, <3>1 DEF WakeInv, NoCancelYet
    <2> QED
      BY <2>2, <2>3
  <1>8. CASE MainCancelReturns
    BY <1>6, <1>8 DEF MainCancelReturns, runVars
  <1>9. CASE Join
    BY <1>4, <1>9 DEF Join, runVars
  <1> QED
    BY <1>7, <1>8, <1>9

LEMMA InitWakes == Init => WakeInv
  <1>1. Init => (\A s \in asleep : Sleeper(s)) /\ NoCancelYet
    BY DEF Init, NoCancelYet
  <1> QED
    BY <1>1, InitWired DEF WakeInv

LEMMA WakeStep == WakeInv /\ [Next]_vars => WakeInv'
  <1> SUFFICES ASSUME WakeInv, [Next]_vars  PROVE Wakeful
    BY CreditStep DEF WakeInv, Wakeful
  <1>1. ASSUME NEW n \in Nodes, Node(n)  PROVE Wakeful
    <2>1. CASE \/ Start(n) \/ Produce(n) \/ Process(n) \/ Return(n) \/ Unwind(n)
               \/ Buffer(n) \/ Skip(n) \/ Prepare(n) \/ Claim(n) \/ ClaimAny(n)
               \/ TakeKept(n) \/ Drain(n) \/ NextOfBatch(n) \/ Pop(n) \/ FlushFirst(n)
               \/ LoopDone(n) \/ ExternalEnded(n)
      BY <2>1, CalmSteps, CalmWakes
    <2>2. CASE Doze(n) \/ Await(n)
      BY <2>2, DozeWakes
    <2>3. CASE Block(n)
      BY <2>3, BlockWakes
    <2>4. CASE Push(n) \/ Tell(n) \/ Release(n)
      BY <2>4, NotifyWakes
    <2>5. CASE Mark(n) \/ WakeProducer(n) \/ End(n)
      BY <2>5, MarkWakes
    <2>6. CASE Fail(n) \/ CancelReturns(n)
      BY <2>6, CancelWakes
    <2>7. CASE CancelStep(n)
      BY <2>7, CancelStepWakes
    <2> QED
      BY <1>1, <2>1, <2>2, <2>3, <2>4, <2>5, <2>6, <2>7 DEF Node, Emits, Receives, Runs
  <1>2. CASE MainThread
    BY <1>2, MainWakes, CancelStepWakes DEF MainThread
  <1>3. CASE Over \/ UNCHANGED vars
    <2>1. UNCHANGED <<pc, hand, q, credits, done, towake, nextCond, asleep, cancelled,
                      canceller, main>>
      BY <1>3 DEF Over, vars, threadVars, edgeVars, runVars, mainVars
    <2>2. ASSUME NEW s \in asleep  PROVE Sleeper(s)'
      <3>1. Sleeper(s)' = Sleeper(s)
        BY <2>1 DEF Sleeper, HandReady, AnyReady, OutReady, ReceiverWillNotify, CancelWillNotify
      <3> QED
        BY <3>1 DEF WakeInv
    <2> QED
      BY <2>1, <2>2 DEF Wakeful, WakeInv, NoCancelYet
  <1> QED
    BY <1>1, <1>2, <1>3 DEF Next

\* No wake-up is lost in any run of any graph: a thread waiting on a condition whose
\* predicate holds, or in a run that is cancelled, is still to be notified
\* (scheduler.wait, the notify calls of Inbox.push, Edge.refill and wake_producer,
\* and the walk of RunContext.cancel).
THEOREM NoWakeupLost == Spec => []NoLostWakeup
  <1>1. WakeInv => NoLostWakeup
    BY DEF WakeInv, NoLostWakeup, Sleeper, Ready
  <1> QED
    BY <1>1, InitWakes, WakeStep, PTL DEF Spec
=============================================================================
