------------------------------ MODULE Dataflow ------------------------------
(***************************************************************************)
(* The threads runtime of Tolquane: one thread per node, one inbox per     *)
(* node, bounded edges with credits, batches, selective receive, early     *)
(* stop, feedback loops, failure, cancellation and the deadlock watchdog   *)
(* of the main thread.                                                     *)
(*                                                                         *)
(* An action is one critical section of the code (what runs under one lock *)
(* without releasing it) or a run of steps on state only its thread        *)
(* touches.  A thread waiting on a condition variable is in `asleep' until *)
(* somebody notifies that condition; pc tells which one it waits on.       *)
(*                                                                         *)
(* An item is named by its number on its edge: put[e] counts the items     *)
(* user code has sent on e, got[e] those handed to the receiver's code.    *)
(***************************************************************************)
EXTENDS Integers, Sequences, FiniteSets

CONSTANTS
    Nodes,        \* the nodes of the graph
    Edges,        \* its edges
    Src, Dst,     \* [Edges -> Nodes]
    Out, Back,    \* [Nodes -> Seq(Edges)], outbox.edges and outbox.feedback_edges
    In,           \* [Nodes -> Seq(Edges)], inbox.edges_in
    LoopNodes,    \* the nodes of the graph's feedback loop; {} without one
    Heads,        \* loop.heads, a sequence of nodes
    Recycle,      \* [Nodes -> Nat], items a node's code may feed back in all
    Order,        \* the nodes in the order their conditions are registered
    Capacity,     \* [Edges -> Nat], the capacity of each edge
    BatchSize,    \* [Edges -> Nat], the batch asked for
    Policy,       \* [Nodes -> Policies], spec.distribute
    Supply,       \* [Nodes -> Nat], items the node's code makes by itself
    Fanout,       \* [Nodes -> SUBSET Nat], sends its code may make per item
    Raw,          \* nodes whose code calls recv: no fast path
    Prefer,       \* [Nodes -> SUBSET Edges], read to their end first: recv(source=..)
    MayStop,      \* nodes whose code may call ctx.stop()
    MayFail,      \* nodes whose code may raise
    StallLimit    \* deadlock_timeout / TICK

Policies == {"round_robin", "broadcast", "on_demand", "key", "scatter"}

All(n) == Out[n] \o Back[n]                 \* outbox._all_edges()

\* Every edge is listed by its two ends, once among the outputs.  The model leaves
\* out graphs in which two edges join the same pair of nodes.
ASSUME GraphAssumption ==
    /\ IsFiniteSet(Nodes) /\ IsFiniteSet(Edges) /\ Edges # {}
    /\ Src \in [Edges -> Nodes] /\ Dst \in [Edges -> Nodes]
    /\ Out \in [Nodes -> Seq(Edges)] /\ Back \in [Nodes -> Seq(Edges)]
    /\ In \in [Nodes -> Seq(Edges)]
    /\ \A n \in Nodes : \A i \in DOMAIN All(n) : Src[All(n)[i]] = n
    /\ \A n \in Nodes : \A i \in DOMAIN In[n] : Dst[In[n][i]] = n
    /\ \A e \in Edges : /\ \E i \in DOMAIN All(Src[e]) : All(Src[e])[i] = e
                        /\ \E i \in DOMAIN In[Dst[e]] : In[Dst[e]][i] = e
    /\ \A n \in Nodes : \A i, j \in DOMAIN All(n) : All(n)[i] = All(n)[j] => i = j
    /\ \A d, e \in Edges : Src[d] = Src[e] /\ Dst[d] = Dst[e] => d = e
    /\ Order \in Seq(Nodes) /\ \A n \in Nodes : \E i \in DOMAIN Order : Order[i] = n
    /\ LoopNodes \subseteq Nodes /\ Heads \in Seq(LoopNodes)

ASSUME SizeAssumption ==
    /\ Capacity \in [Edges -> Nat \ {0}] /\ BatchSize \in [Edges -> Nat \ {0}]
    /\ Supply \in [Nodes -> Nat] /\ Fanout \in [Nodes -> SUBSET Nat]
    /\ Recycle \in [Nodes -> Nat]
    /\ StallLimit \in Nat \ {0}

ASSUME CodeAssumption ==
    /\ Policy \in [Nodes -> Policies]
    /\ Raw \subseteq Nodes /\ MayStop \subseteq Nodes /\ MayFail \subseteq Nodes
    /\ Prefer \in [Nodes -> SUBSET Edges]
    \* only code that calls recv itself names a source, one of its inputs at a time
    /\ \A n \in Nodes : \A d, e \in Prefer[n] : d = e
    /\ \A n \in Nodes : \A e \in Prefer[n] : n \in Raw /\ Dst[e] = n
    \* a node without outputs cannot send, and on-demand edges do not batch
    /\ \A n \in Nodes : Out[n] = <<>> => Supply[n] = 0 /\ Fanout[n] \subseteq {0}
    /\ \A e \in Edges : Policy[Src[e]] = "on_demand" => BatchSize[e] = 1

EOS == 0                                    \* the end-of-stream sentinel
LOOP_DONE == -1                             \* the control that ends feedback inputs
\* Broken on purpose: a batch larger than the edge can ever have credits for.
BatchUncapped(e) == BatchSize[e]

Batch(e) == IF BatchSize[e] > Capacity[e] THEN Capacity[e] ELSE BatchSize[e]
Items == Seq(Nat)
InLoop(e) == Src[e] \in LoopNodes /\ Dst[e] \in LoopNodes     \* edge.loop is set
EntersLoop(e) == Src[e] \notin LoopNodes /\ Dst[e] \in LoopNodes  \* edge.entry_loop is set
Feedback(e) == \E i \in DOMAIN Back[Src[e]] : Back[Src[e]][i] = e
Entry == [edge : Edges, items : Items]      \* a queue entry: a Batch, an item or EOS
Control == [edge : Edges, items : {<<LOOP_DONE>>}]  \* one from no edge: the edge means nothing
-----------------------------------------------------------------------------
VARIABLES
    \* the threads
    pc,          \* where each node's thread is
    mode,        \* "body" while node code runs, "closing" in run_node's finally
    state,       \* NodeInstance.state, read by the watchdog
    plan,        \* the sends the node's code still has to make, in order
    hand,        \* the entry being sent: credits wanted, then taken
    asleep,      \* threads in cond.wait() that nobody has notified
    \* the edges and inboxes
    credits, pending, queued, q, done, rr,
    \* FirstCome
    batch, kept, ended, rel, taken,
    \* Loop, and what each thread owes it
    tokens, external, closed, owes, telling,
    \* user code and history
    made, recycled, stopped, put, got,
    \* RunContext
    cancelled, failures, canceller, nextCond, towake,
    \* the main thread
    main, stall, quiet, slow, deadlock

threadVars == <<pc, mode, state, plan, hand, asleep>>
edgeVars == <<credits, pending, queued, q, done, rr>>
receiveVars == <<batch, kept, ended, rel, taken>>
loopVars == <<tokens, external, closed, owes, telling>>
codeVars == <<made, recycled, stopped, put, got>>
runVars == <<cancelled, failures, canceller, nextCond, towake>>
mainVars == <<main, stall, deadlock>>
vars == <<threadVars, edgeVars, receiveVars, loopVars, codeVars, runVars, mainVars,
          quiet, slow>>
-----------------------------------------------------------------------------
Cmd(op, e) == [op |-> op, edge |-> e]
Ops == {"put", "any", "flush", "eos"}
NoEntry == [edge |-> CHOOSE e \in Edges : TRUE, items |-> <<>>]
NoRelease == [edge |-> NoEntry.edge, n |-> 0]

FlushPlan(n) == [i \in DOMAIN All(n) |-> Cmd("flush", All(n)[i])]
EosPlan(n) == [i \in DOMAIN All(n) |-> Cmd("eos", All(n)[i])]
\* Broken on purpose: close without flushing, and close before flushing.
ClosePlanUnflushed(n) == EosPlan(n)
ClosePlanEarly(n) == EosPlan(n) \o FlushPlan(n)
ClosePlan(n) == FlushPlan(n) \o EosPlan(n)

\* The ways k calls of ctx.send may be routed: sequences of puts.
Sends(n, k) ==
    LET L == Len(Out[n])
        To(i) == Cmd("put", Out[n][i])
        Round(m) == [i \in 1..(k * m) |-> To(((i - 1) % m) + 1)]
    IN  CASE Policy[n] = "round_robin" -> {[i \in 1..k |-> To(((rr[n] + i - 1) % L) + 1)]}
          [] Policy[n] = "broadcast"   -> {Round(L)}
          [] Policy[n] = "scatter"     -> {Round(m) : m \in 1..L}
          [] Policy[n] = "key"         -> {[i \in 1..k |-> To(f[i])] : f \in [1..k -> 1..L]}
          [] Policy[n] = "on_demand"   -> {[i \in 1..k |-> Cmd("any", NoEntry.edge)]}

\* Broken on purpose: the turn does not wrap.
AdvanceUnwrapped(n, k) == IF Policy[n] = "round_robin" THEN rr[n] + k ELSE rr[n]

Advance(n, k) == IF Policy[n] = "round_robin" /\ Out[n] # <<>>
                 THEN (rr[n] + k) % Len(Out[n]) ELSE rr[n]

Remaining(n) == {e \in Edges : Dst[e] = n /\ e \notin ended}
HasPending(n) == \E e \in Edges : Src[e] = n /\ pending[e] # <<>>
\* The one source recv(source=..) is reading, while it is open.
Watched(n) == Prefer[n] \ ended

Live(n) == state[n] \notin {"DONE", "FAILED"}
\* Broken on purpose: giving credits back notifies nobody.
NotifyInput(m, cond) == IF pc[m] = cond /\ cond = "park_in" THEN asleep \ {m} ELSE asleep
Notify(m, cond) == IF pc[m] = cond THEN asleep \ {m} ELSE asleep
\* Broken on purpose: cancelled is looked at before the lock is taken.
ParksUnchecked(n) == {n}
\* scheduler.wait looks at cancelled under the condition's lock, then waits.
Parks(n) == IF cancelled THEN {} ELSE {n}

\* The predicates scheduler.wait is called with.
OutReady(e, k) == done[Dst[e]] \/ credits[e] >= k
AnyReady(n) == \E i \in DOMAIN Out[n] : OutReady(Out[n][i], 1)
HandReady(n) == IF hand[n].items = <<>> THEN AnyReady(n)
                ELSE OutReady(hand[n].edge, Len(hand[n].items))
Ready(n) == \/ pc[n] = "park_in" /\ q[n] # <<>>
            \/ pc[n] = "park_out" /\ HandReady(n)
-----------------------------------------------------------------------------
Init ==
    /\ pc = [n \in Nodes |-> "new"]
    /\ mode = [n \in Nodes |-> "body"]
    /\ state = [n \in Nodes |-> "NEW"]
    /\ plan = [n \in Nodes |-> <<>>]
    /\ hand = [n \in Nodes |-> NoEntry]
    /\ asleep = {}
    /\ credits = Capacity
    /\ pending = [e \in Edges |-> <<>>]
    /\ queued = [e \in Edges |-> 0]
    /\ q = [n \in Nodes |-> <<>>]
    /\ done = [n \in Nodes |-> FALSE]
    /\ rr = [n \in Nodes |-> 0]
    /\ batch = [n \in Nodes |-> NoEntry]
    /\ kept = [e \in Edges |-> <<>>]
    /\ ended = {}
    /\ rel = [n \in Nodes |-> NoRelease]
    /\ taken = [n \in Nodes |-> <<>>]
    /\ tokens = 0
    /\ external = Cardinality({e \in Edges : EntersLoop(e)})
    /\ closed = FALSE
    /\ owes = [n \in Nodes |-> FALSE]
    /\ telling = [n \in Nodes |-> <<>>]
    /\ made = [n \in Nodes |-> 0]
    /\ recycled = [n \in Nodes |-> 0]
    /\ stopped = [n \in Nodes |-> FALSE]
    /\ put = [e \in Edges |-> 0]
    /\ got = [e \in Edges |-> 0]
    /\ cancelled = FALSE
    /\ failures = {}
    /\ canceller = {}
    /\ nextCond = 1
    /\ towake = [n \in Nodes |-> <<>>]
    /\ main = "watch"
    /\ stall = 0
    /\ quiet = FALSE
    /\ slow = {}
    /\ deadlock = FALSE
-----------------------------------------------------------------------------
(* Node code and run_node.                                                 *)

Start(n) ==
    /\ pc[n] = "new"
    /\ pc' = [pc EXCEPT ![n] = "run"]
    /\ state' = [state EXCEPT ![n] = "RUNNING"]
    /\ UNCHANGED <<mode, plan, hand, asleep, quiet>>
    /\ UNCHANGED <<edgeVars, receiveVars, loopVars, codeVars, runVars, mainVars>>

\* The thread is in its node's code, with nothing left to send or to process.
Coding(n) == pc[n] = "run" /\ mode[n] = "body" /\ plan[n] = <<>>
\* It has finished an item its loop still counts.
Owing(n) == owes[n] /\ (mode[n] = "body" \/ n \in Raw)
Free(n) == Coding(n) /\ taken[n] = <<>> /\ ~Owing(n)
Making(n) == Free(n) /\ ~stopped[n] /\ made[n] < Supply[n]
Asking(n) == Free(n) /\ ~stopped[n] /\ made[n] = Supply[n]
MayStopNow(n) == IF n \in MayStop THEN BOOLEAN ELSE {FALSE}

\* One round of _run_source, or of the sends a node makes before it reads.
\* A source leaves its loop once the run is cancelled; other code does not look.
Produce(n) ==
    /\ Making(n)
    /\ cancelled => In[n] # <<>>
    /\ \E s \in Sends(n, 1), stop \in MayStopNow(n) :
          /\ plan' = [plan EXCEPT ![n] = s]
          /\ stopped' = [stopped EXCEPT ![n] = stop]
    /\ made' = [made EXCEPT ![n] = @ + 1]
    /\ rr' = [rr EXCEPT ![n] = Advance(n, 1)]
    /\ UNCHANGED <<pc, mode, state, hand, asleep, credits, pending, queued, q, done, quiet>>
    /\ UNCHANGED <<recycled, put, got, receiveVars, loopVars, runVars, mainVars>>

\* ctx.feedback, while the items the code feeds back are not used up.
Feeds(n) == {<<>>} \cup
    IF recycled[n] < Recycle[n] THEN {<<Cmd("put", Back[n][i])>> : i \in DOMAIN Back[n]} ELSE {}

\* The node's function on one delivered item, with the sends it makes.
Process(n) ==
    /\ Coding(n)
    /\ taken[n] # <<>>
    /\ \E k \in Fanout[n], stop \in MayStopNow(n), feed \in Feeds(n) :
          /\ \E s \in Sends(n, k) : plan' = [plan EXCEPT ![n] = s \o feed]
          /\ recycled' = [recycled EXCEPT ![n] = @ + Len(feed)]
          /\ stopped' = [stopped EXCEPT ![n] = stop]
          /\ taken' = [taken EXCEPT ![n] = IF stop THEN <<>> ELSE Tail(@)]
          /\ rr' = [rr EXCEPT ![n] = Advance(n, k)]
    /\ UNCHANGED <<pc, mode, state, hand, asleep, credits, pending, queued, q, done, quiet>>
    /\ UNCHANGED <<batch, kept, ended, rel, made, put, got, loopVars, runVars, mainVars>>

\* The body returns: ctx.stop(), nothing left to read, or a cancelled source.
Return(n) ==
    /\ Free(n)
    /\ \/ stopped[n]
       \/ Making(n) /\ cancelled /\ In[n] = <<>>
       \/ /\ Asking(n) /\ Remaining(n) = {} /\ batch[n].items = <<>>
          /\ \A e \in Edges : Dst[e] = n => kept[e] = <<>>
    /\ mode' = [mode EXCEPT ![n] = "closing"]
    /\ plan' = [plan EXCEPT ![n] = ClosePlan(n)]
    /\ UNCHANGED <<pc, state, hand, asleep, quiet>>
    /\ UNCHANGED <<edgeVars, receiveVars, loopVars, codeVars, runVars, mainVars>>

\* The node's code raises: rc.fail, up to the flag that rc.cancel sets.
Fail(n) ==
    /\ n \in MayFail
    /\ Making(n) \/ (Coding(n) /\ taken[n] # <<>>)
    /\ failures' = failures \cup {n}
    /\ state' = [state EXCEPT ![n] = "FAILED"]
    /\ mode' = [mode EXCEPT ![n] = "closing"]
    /\ plan' = [plan EXCEPT ![n] = ClosePlan(n)]
    /\ cancelled' = TRUE
    /\ IF cancelled THEN UNCHANGED <<canceller, pc>>
       ELSE canceller' = {n} /\ pc' = [pc EXCEPT ![n] = "cancel"]
    /\ UNCHANGED <<hand, asleep, nextCond, towake, quiet>>
    /\ UNCHANGED <<edgeVars, receiveVars, loopVars, codeVars, mainVars>>

\* Cancelled leaves a wait: the first time it ends the body, in the finally
\* block it ends close_all.
Unwind(n) ==
    /\ pc[n] \in {"park_in", "park_out"} /\ n \notin asleep
    /\ ~Ready(n) /\ cancelled
    /\ pc' = [pc EXCEPT ![n] = "run"]
    /\ state' = [state EXCEPT ![n] = "RUNNING"]
    /\ mode' = [mode EXCEPT ![n] = "closing"]
    /\ plan' = [plan EXCEPT ![n] = IF mode[n] = "body" THEN ClosePlan(n) ELSE <<>>]
    /\ hand' = [hand EXCEPT ![n] = NoEntry]
    /\ UNCHANGED <<asleep, quiet, edgeVars, receiveVars, loopVars, codeVars, runVars, mainVars>>

\* A notified thread whose predicate is still false waits again.
Doze(n) ==
    /\ pc[n] \in {"park_in", "park_out"} /\ n \notin asleep
    /\ ~Ready(n) /\ ~cancelled
    /\ asleep' = asleep \cup {n}
    /\ UNCHANGED <<pc, mode, state, plan, hand, quiet>>
    /\ UNCHANGED <<edgeVars, receiveVars, loopVars, codeVars, runVars, mainVars>>

\* Inbox.mark_done: one section under the inbox lock ...
Mark(n) ==
    /\ pc[n] = "run" /\ mode[n] = "closing" /\ plan[n] = <<>> /\ ~Owing(n)
    /\ done' = [done EXCEPT ![n] = TRUE]
    /\ q' = [q EXCEPT ![n] = <<>>]
    /\ towake' = [towake EXCEPT ![n] = In[n]]
    /\ pc' = [pc EXCEPT ![n] = "wake"]
    /\ UNCHANGED <<mode, state, plan, hand, asleep, credits, pending, queued, rr, quiet>>
    /\ UNCHANGED <<cancelled, failures, canceller, nextCond, receiveVars, loopVars, codeVars, mainVars>>

\* ... then one under the outbox lock of each producer.
WakeProducer(n) ==
    /\ pc[n] = "wake" /\ towake[n] # <<>>
    /\ asleep' = Notify(Src[Head(towake[n])], "park_out")
    /\ towake' = [towake EXCEPT ![n] = Tail(@)]
    /\ UNCHANGED <<pc, mode, state, plan, hand, quiet>>
    /\ UNCHANGED <<cancelled, failures, canceller, nextCond>>
    /\ UNCHANGED <<edgeVars, receiveVars, loopVars, codeVars, mainVars>>

\* RunContext.node_done.
End(n) ==
    /\ pc[n] = "wake" /\ towake[n] = <<>>
    /\ pc' = [pc EXCEPT ![n] = "end"]
    /\ state' = [state EXCEPT ![n] = IF @ = "FAILED" THEN @ ELSE "DONE"]
    /\ UNCHANGED <<mode, plan, hand, asleep, quiet>>
    /\ UNCHANGED <<edgeVars, receiveVars, loopVars, codeVars, runVars, mainVars>>
-----------------------------------------------------------------------------
(* Outbox: batching, credits, pushing.                                     *)

Sending(n) == pc[n] = "run" /\ plan[n] # <<>> /\ (mode[n] = "closing" => ~Owing(n))
HeadOp(n) == Head(plan[n]).op
HeadEdge(n) == Head(plan[n]).edge
\* Broken on purpose: an item fed back is not counted.
CountSentOutside(e) == UNCHANGED loopVars
\* loop.sent, before the item is batched or pushed.
CountSent(e) == /\ tokens' = IF InLoop(e) THEN tokens + 1 ELSE tokens
                /\ UNCHANGED <<external, closed, owes, telling>>

\* put on a batching edge that is neither full nor due for its timed flush.
Buffer(n) ==
    /\ Sending(n) /\ HeadOp(n) = "put"
    /\ LET e == HeadEdge(n) IN
          /\ Len(pending[e]) + 1 < Batch(e)
          /\ put' = [put EXCEPT ![e] = @ + 1]
          /\ pending' = [pending EXCEPT ![e] = Append(@, put[e] + 1)]
          /\ CountSent(e)
    /\ plan' = [plan EXCEPT ![n] = Tail(@)]
    /\ UNCHANGED <<pc, mode, state, hand, asleep, credits, queued, q, done, rr, quiet>>
    /\ UNCHANGED <<made, recycled, stopped, got, receiveVars, runVars, mainVars>>

\* flush passes over an edge with nothing pending.
Skip(n) ==
    /\ Sending(n) /\ HeadOp(n) = "flush" /\ pending[HeadEdge(n)] = <<>>
    /\ plan' = [plan EXCEPT ![n] = Tail(@)]
    /\ UNCHANGED <<pc, mode, state, hand, asleep, quiet>>
    /\ UNCHANGED <<edgeVars, receiveVars, loopVars, codeVars, runVars, mainVars>>

\* put (full, timed out, or unbatched), _flush_edge and close_all up to the call of
\* _acquire_credit: the entry leaves pending.  _put_any has no edge yet.
Prepare(n) ==
    /\ Sending(n)
    /\ HeadOp(n) = "flush" => pending[HeadEdge(n)] # <<>>
    /\ LET e == HeadEdge(n) IN
          /\ hand' = [hand EXCEPT ![n] =
                CASE HeadOp(n) = "put"   -> [edge |-> e, items |-> Append(pending[e], put[e] + 1)]
                  [] HeadOp(n) = "flush" -> [edge |-> e, items |-> pending[e]]
                  [] HeadOp(n) = "eos"   -> [edge |-> e, items |-> <<EOS>>]
                  [] HeadOp(n) = "any"   -> NoEntry]
          /\ put' = [put EXCEPT ![e] = IF HeadOp(n) = "put" THEN @ + 1 ELSE @]
          /\ pending' = [pending EXCEPT ![e] = IF HeadOp(n) \in {"put", "flush"} THEN <<>> ELSE @]
          /\ IF HeadOp(n) = "put" THEN CountSent(e) ELSE UNCHANGED loopVars
    /\ plan' = [plan EXCEPT ![n] = Tail(@)]
    /\ pc' = [pc EXCEPT ![n] = "credit"]
    /\ UNCHANGED <<mode, state, asleep, credits, queued, q, done, rr, quiet>>
    /\ UNCHANGED <<made, recycled, stopped, got, receiveVars, runVars, mainVars>>

\* In _acquire_credit or _put_any: about to test the predicate, first or again.
Claiming(n) == pc[n] = "credit" \/ (pc[n] = "park_out" /\ n \notin asleep)
Claimed(n) ==
    /\ pc' = [pc EXCEPT ![n] = "push"]
    /\ state' = [state EXCEPT ![n] = IF pc[n] = "park_out" THEN "RUNNING" ELSE @]
    /\ UNCHANGED <<mode, plan, asleep, pending, queued, q, done, quiet>>
    /\ UNCHANGED <<made, recycled, stopped, got, receiveVars, runVars, mainVars>>

\* Broken on purpose: one credit per batch.
ChargeOne(e, k) == [credits EXCEPT ![e] = IF done[Dst[e]] THEN @ ELSE @ - 1]
\* Take the credits; a receiver that is done takes none.
Charge(e, k) == [credits EXCEPT ![e] = IF done[Dst[e]] THEN @ ELSE @ - k]

Claim(n) ==
    /\ Claiming(n) /\ hand[n].items # <<>> /\ HandReady(n)
    /\ credits' = Charge(hand[n].edge, Len(hand[n].items))
    /\ UNCHANGED <<hand, rr, put, loopVars>>
    /\ Claimed(n)

\* _put_any: the first output with room, counting on from rr.
ClaimAny(n) ==
    /\ Claiming(n) /\ hand[n].items = <<>> /\ HandReady(n)
    /\ LET L == Len(Out[n])
           at(k) == ((rr[n] + k) % L) + 1
       IN \E k \in 0..(L - 1) :
             LET e == Out[n][at(k)] IN
             /\ OutReady(e, 1)
             /\ \A j \in 0..(k - 1) : ~OutReady(Out[n][at(j)], 1)
             /\ rr' = [rr EXCEPT ![n] = (rr[n] + k + 1) % L]
             /\ credits' = Charge(e, 1)
             /\ put' = [put EXCEPT ![e] = @ + 1]
             /\ hand' = [hand EXCEPT ![n] = [edge |-> e, items |-> <<put[e] + 1>>]]
             /\ CountSent(e)
    /\ Claimed(n)

\* Other edges' pending batches that can go out before this thread blocks.
Flushable(n) ==
    {e \in Edges : /\ Src[e] = n /\ pending[e] # <<>>
                   /\ hand[n].items # <<>> => e # hand[n].edge
                   /\ OutReady(e, Len(pending[e]))}

\* No room: _flush_others_locked, then wait on outbox.space.  The pushes are
\* made while the outbox lock is held, so the section is one step.
Block(n) ==
    /\ pc[n] = "credit" /\ ~HandReady(n)
    /\ LET F == Flushable(n)
           P == {e \in F : ~done[Dst[e]]}
           New(m) == {e \in P : Dst[e] = m}
       IN /\ credits' = [e \in Edges |-> IF e \in P THEN credits[e] - Len(pending[e])
                                         ELSE credits[e]]
          /\ queued' = [e \in Edges |-> IF e \in P THEN queued[e] + Len(pending[e])
                                        ELSE queued[e]]
          /\ pending' = [e \in Edges |-> IF e \in F THEN <<>> ELSE pending[e]]
          /\ q' = [m \in Nodes |->
                     IF New(m) = {} THEN q[m]
                     ELSE LET e == CHOOSE e \in New(m) : TRUE
                          IN  Append(q[m], [edge |-> e, items |-> pending[e]])]
          /\ quiet' = (quiet /\ P = {})
          /\ asleep' = (asleep \ {m \in Nodes : pc[m] = "park_in" /\ New(m) # {}})
                       \cup Parks(n)
    /\ pc' = [pc EXCEPT ![n] = "park_out"]
    /\ state' = [state EXCEPT ![n] = "WAITING"]
    /\ UNCHANGED <<mode, plan, hand, done, rr, receiveVars, loopVars, codeVars, runVars, mainVars>>

\* _push_entry: Inbox.push, under the receiver's lock.
Push(n) ==
    /\ pc[n] = "push"
    /\ LET e == hand[n].edge
           m == Dst[e]
       IN IF done[m] THEN UNCHANGED <<q, queued, asleep, quiet>>
          ELSE /\ q' = [q EXCEPT ![m] = Append(@, hand[n])]
               /\ queued' = [queued EXCEPT ![e] = @ + Len(hand[n].items)]
               /\ asleep' = Notify(m, "park_in")
               /\ quiet' = FALSE
    /\ hand' = [hand EXCEPT ![n] = NoEntry]
    /\ pc' = [pc EXCEPT ![n] = "run"]
    /\ UNCHANGED <<mode, state, plan, credits, pending, done, rr>>
    /\ UNCHANGED <<receiveVars, loopVars, codeVars, runVars, mainVars>>
-----------------------------------------------------------------------------
(* Inbox and FirstCome.                                                    *)

\* Broken on purpose: the credit goes back when the item is popped, even if it is
\* then held back, and again when it is delivered.
UnpackEager(n, b) ==
    LET e == b.edge IN
    /\ batch' = [batch EXCEPT ![n] =
                   IF Len(b.items) = 1 THEN NoEntry ELSE [b EXCEPT !.items = Tail(@)]]
    /\ rel' = [rel EXCEPT ![n] = [edge |-> e, n |-> 1]]
    /\ pc' = [pc EXCEPT ![n] = "release"]
    /\ IF Watched(n) \subseteq {e}
       THEN /\ taken' = [taken EXCEPT ![n] = <<Head(b.items)>>]
            /\ got' = [got EXCEPT ![e] = @ + 1]
            /\ UNCHANGED <<kept, owes>>
       ELSE /\ kept' = [kept EXCEPT ![e] = Append(@, Head(b.items))]
            /\ UNCHANGED <<taken, got, owes>>
    /\ UNCHANGED <<tokens, external, closed, telling>>

\* One item of entry b reaches FirstCome.next: it is kept back when another
\* source is being read, else delivered, its credit still to be given back.
\* _entered counts it in before anything else can: until this thread meets the
\* end of e, the loop is held open by external.
Unpack(n, b) ==
    LET e == b.edge IN
    /\ batch' = [batch EXCEPT ![n] =
                   IF Len(b.items) = 1 THEN NoEntry ELSE [b EXCEPT !.items = Tail(@)]]
    /\ IF Watched(n) \subseteq {e}
       THEN /\ taken' = [taken EXCEPT ![n] = <<Head(b.items)>>]
            /\ got' = [got EXCEPT ![e] = @ + 1]
            /\ rel' = [rel EXCEPT ![n] = [edge |-> e, n |-> 1]]
            /\ pc' = [pc EXCEPT ![n] = "release"]
            /\ owes' = [owes EXCEPT ![n] = n \in LoopNodes]
            /\ kept' = kept
       ELSE /\ kept' = [kept EXCEPT ![e] = Append(@, Head(b.items))]
            /\ pc' = [pc EXCEPT ![n] = "run"]
            /\ UNCHANGED <<taken, got, rel, owes>>
    /\ tokens' = IF EntersLoop(e) THEN tokens + 1 ELSE tokens
    /\ UNCHANGED <<external, closed, telling>>

\* Broken on purpose: a node reading one source takes whole batches.
FastRaw(n) == n \notin LoopNodes
Fast(n) == n \notin Raw /\ n \notin LoopNodes
HasKept(n) == \E e \in Edges : Dst[e] = n /\ kept[e] # <<>>

\* next(): an item held back earlier, once no single source is being read.
TakeKept(n) ==
    /\ Asking(n) /\ Watched(n) = {}
    /\ \E e \in Edges :
          /\ Dst[e] = n /\ kept[e] # <<>>
          /\ kept' = [kept EXCEPT ![e] = Tail(@)]
          /\ taken' = [taken EXCEPT ![n] = <<Head(kept[e])>>]
          /\ got' = [got EXCEPT ![e] = @ + 1]
          /\ rel' = [rel EXCEPT ![n] = [edge |-> e, n |-> 1]]
    /\ owes' = [owes EXCEPT ![n] = n \in LoopNodes]
    /\ pc' = [pc EXCEPT ![n] = "release"]
    /\ UNCHANGED <<mode, state, plan, hand, asleep, batch, ended, made, recycled, stopped, put>>
    /\ UNCHANGED <<tokens, external, closed, telling, edgeVars, runVars, mainVars, quiet>>

\* take_batch: the rest of the current batch at once.
Drain(n) ==
    /\ Asking(n) /\ Fast(n) /\ batch[n].items # <<>>
    /\ LET e == batch[n].edge
           k == Len(batch[n].items)
       IN /\ taken' = [taken EXCEPT ![n] = batch[n].items]
          /\ got' = [got EXCEPT ![e] = @ + k]
          /\ rel' = [rel EXCEPT ![n] = [edge |-> e, n |-> k]]
    /\ batch' = [batch EXCEPT ![n] = NoEntry]
    /\ pc' = [pc EXCEPT ![n] = "release"]
    /\ UNCHANGED <<mode, state, plan, hand, asleep, kept, ended, made, recycled, stopped, put>>
    /\ UNCHANGED <<edgeVars, loopVars, runVars, mainVars, quiet>>

\* _pop on the current batch, one item at a time.
NextOfBatch(n) ==
    /\ Asking(n) /\ ~Fast(n) /\ batch[n].items # <<>>
    /\ Watched(n) = {} => ~HasKept(n)
    /\ Unpack(n, batch[n])
    /\ UNCHANGED <<mode, state, plan, hand, asleep, ended, made, recycled, stopped, put>>
    /\ UNCHANGED <<edgeVars, runVars, mainVars, quiet>>

\* Inbox.pop is called: nothing is buffered and some source is open.
Popping(n) ==
    /\ Asking(n) /\ batch[n].items = <<>> /\ Remaining(n) # {}
    /\ Watched(n) = {} => ~HasKept(n)

\* Inbox.pop with an entry in the queue, at once or after a wait.
Pop(n) ==
    /\ Popping(n) \/ (pc[n] = "park_in" /\ n \notin asleep)
    /\ q[n] # <<>>
    /\ LET b == Head(q[n]) IN
          /\ q' = [q EXCEPT ![n] = Tail(@)]
          /\ queued' = [queued EXCEPT ![b.edge] =
                           IF b.items = <<LOOP_DONE>> THEN @ ELSE @ - Len(b.items)]
          /\ IF b.items = <<EOS>>
             THEN /\ rel' = [rel EXCEPT ![n] = [edge |-> b.edge, n |-> 1]]
                  /\ ended' = ended \cup {b.edge}
                  /\ pc' = [pc EXCEPT ![n] = "release"]
                  /\ UNCHANGED <<batch, kept, taken, got, loopVars>>
             ELSE IF b.items = <<LOOP_DONE>>
             THEN /\ ended' = ended \cup {e \in Edges : Dst[e] = n /\ Feedback(e)}
                  /\ pc' = [pc EXCEPT ![n] = "run"]
                  /\ UNCHANGED <<rel, batch, kept, taken, got, loopVars>>
             ELSE Unpack(n, b) /\ UNCHANGED ended
    /\ state' = [state EXCEPT ![n] = IF pc[n] = "park_in" THEN "RUNNING" ELSE @]
    /\ quiet' = FALSE
    /\ UNCHANGED <<mode, plan, hand, asleep, credits, pending, done, rr>>
    /\ UNCHANGED <<made, recycled, stopped, put, runVars, mainVars>>

\* Inbox.pop with an empty queue flushes this node's own output first ...
FlushFirst(n) ==
    /\ Popping(n) /\ q[n] = <<>> /\ HasPending(n)
    /\ plan' = [plan EXCEPT ![n] = FlushPlan(n)]
    /\ UNCHANGED <<pc, mode, state, hand, asleep, quiet>>
    /\ UNCHANGED <<edgeVars, receiveVars, loopVars, codeVars, runVars, mainVars>>

\* ... and then waits for an entry.
Await(n) ==
    /\ Popping(n) /\ q[n] = <<>> /\ ~HasPending(n)
    /\ pc' = [pc EXCEPT ![n] = "park_in"]
    /\ state' = [state EXCEPT ![n] = "WAITING"]
    /\ asleep' = asleep \cup Parks(n)
    /\ UNCHANGED <<mode, plan, hand, quiet>>
    /\ UNCHANGED <<edgeVars, receiveVars, loopVars, codeVars, runVars, mainVars>>

\* Edge.refill, under the producer's outbox lock.  With no item delivered it
\* was for an end of stream, which an edge into a loop reports to the loop.
Release(n) ==
    /\ pc[n] = "release"
    /\ LET e == rel[n].edge IN
          /\ credits' = [credits EXCEPT ![e] = @ + rel[n].n]
          /\ asleep' = Notify(Src[e], "park_out")
          /\ pc' = [pc EXCEPT ![n] = IF taken[n] = <<>> /\ EntersLoop(e)
                                     THEN "external" ELSE "run"]
    /\ rel' = [rel EXCEPT ![n] = NoRelease]
    /\ UNCHANGED <<mode, state, plan, hand, pending, queued, q, done, rr, quiet>>
    /\ UNCHANGED <<batch, kept, ended, taken, loopVars, codeVars, runVars, mainVars>>
-----------------------------------------------------------------------------
(* Loop: its sections run under its own lock; the thread that closes it    *)
(* tells the heads one at a time.                                          *)

\* Broken on purpose: an item still inside is forgotten; the last input is.
ShouldCloseEarly(t, x) == ~closed /\ x <= 0
ShouldCloseNever(t, x) == ~closed /\ x < 0 /\ t <= 0
ShouldClose(t, x) == ~closed /\ x <= 0 /\ t <= 0

\* _should_close on the new counts t and x, and the start of _close.
MaybeClose(n, t, x) ==
    LET close == ShouldClose(t, x) IN
    /\ tokens' = t /\ external' = x
    /\ closed' = (closed \/ close)
    /\ telling' = [telling EXCEPT ![n] = IF close THEN Heads ELSE <<>>]
    /\ pc' = [pc EXCEPT ![n] = IF close THEN "tell" ELSE "run"]

\* loop.done(): after the item and every send made for it.
LoopDone(n) ==
    /\ pc[n] = "run" /\ Owing(n)
    /\ mode[n] = "closing" \/ (plan[n] = <<>> /\ taken[n] = <<>>)
    /\ MaybeClose(n, tokens - 1, external)
    /\ owes' = [owes EXCEPT ![n] = FALSE]
    /\ UNCHANGED <<mode, state, plan, hand, asleep, quiet>>
    /\ UNCHANGED <<edgeVars, receiveVars, codeVars, runVars, mainVars>>

\* loop.external_ended(): one edge into the loop has ended.
ExternalEnded(n) ==
    /\ pc[n] = "external"
    /\ MaybeClose(n, tokens, external - 1)
    /\ UNCHANGED <<mode, state, plan, hand, asleep, owes, quiet>>
    /\ UNCHANGED <<edgeVars, receiveVars, codeVars, runVars, mainVars>>

\* push_control(LOOP_DONE) to the next head.
Tell(n) ==
    /\ pc[n] = "tell" /\ telling[n] # <<>>
    /\ LET h == Head(telling[n]) IN
          IF done[h] THEN UNCHANGED <<q, asleep, quiet>>
          ELSE /\ q' = [q EXCEPT ![h] = Append(@, [NoEntry EXCEPT !.items = <<LOOP_DONE>>])]
               /\ asleep' = Notify(h, "park_in")
               /\ quiet' = FALSE
    /\ telling' = [telling EXCEPT ![n] = Tail(@)]
    /\ pc' = [pc EXCEPT ![n] = IF Len(telling[n]) = 1 THEN "run" ELSE "tell"]
    /\ UNCHANGED <<mode, state, plan, hand, credits, pending, queued, done, rr>>
    /\ UNCHANGED <<tokens, external, closed, owes, receiveVars, codeVars, runVars, mainVars>>
-----------------------------------------------------------------------------
(* RunContext.cancel, by a failing node or by the main thread.             *)

CancelStep(who) ==
    /\ canceller = {who}
    /\ nextCond <= 2 * Len(Order)
    /\ LET n == Order[(nextCond + 1) \div 2] IN
          asleep' = Notify(n, IF nextCond % 2 = 1 THEN "park_in" ELSE "park_out")
    /\ nextCond' = nextCond + 1
    /\ UNCHANGED <<pc, mode, state, plan, hand, cancelled, failures, canceller, towake, quiet>>
    /\ UNCHANGED <<edgeVars, receiveVars, loopVars, codeVars, mainVars>>

\* cancel returns to the failing node, which goes on to close_all.
CancelReturns(n) ==
    /\ canceller = {n} /\ pc[n] = "cancel" /\ nextCond > 2 * Len(Order)
    /\ pc' = [pc EXCEPT ![n] = "run"]
    /\ UNCHANGED <<mode, state, plan, hand, asleep, quiet>>
    /\ UNCHANGED <<edgeVars, receiveVars, loopVars, codeVars, runVars, mainVars>>

(* The main thread: execute's loop, the watchdog and the join.             *)

Main == "main"
AllIdle == \A n \in Nodes : Live(n) => state[n] = "WAITING"
AnyLive == \E n \in Nodes : Live(n)
\* Broken on purpose: progress is ignored; the count starts anew every tick.
StalledAnyway == stall + 1
StalledAnew == IF quiet THEN 1 ELSE 0
Stalled == IF quiet THEN stall + 1 ELSE 0

\* One tick of the loop.  quiet stands for progress = last_progress: nothing
\* was pushed or popped since the last tick that saw every live node wait.
\* Promptness: a notified thread takes its next step before another tick.
Tick ==
    /\ main = "watch" /\ slow = {}
    /\ UNCHANGED <<threadVars, edgeVars, receiveVars, loopVars, codeVars, failures, nextCond, towake>>
    /\ IF cancelled \/ ~AnyLive
       THEN main' = "join" /\ UNCHANGED <<stall, quiet, slow, deadlock, cancelled, canceller>>
       ELSE IF ~AllIdle
       THEN stall' = 0 /\ quiet' = FALSE
            /\ UNCHANGED <<main, slow, deadlock, cancelled, canceller>>
       ELSE /\ stall' = Stalled
            /\ quiet' = TRUE
            /\ slow' = {n \in Nodes : pc[n] \in {"park_in", "park_out"} /\ n \notin asleep}
            /\ IF Stalled < StallLimit
               THEN UNCHANGED <<main, deadlock, cancelled, canceller>>
               ELSE /\ deadlock' = TRUE /\ cancelled' = TRUE
                    /\ canceller' = {Main} /\ main' = "cancel"

MainCancelReturns ==
    /\ main = "cancel" /\ nextCond > 2 * Len(Order)
    /\ main' = "join"
    /\ UNCHANGED <<threadVars, edgeVars, receiveVars, loopVars, codeVars, runVars>>
    /\ UNCHANGED <<stall, deadlock, quiet, slow>>

\* _join returns and execute raises or returns the report.
Join ==
    /\ main = "join" /\ \A n \in Nodes : pc[n] = "end"
    /\ main' = "over"
    /\ UNCHANGED <<threadVars, edgeVars, receiveVars, loopVars, codeVars, runVars>>
    /\ UNCHANGED <<stall, deadlock, quiet, slow>>
-----------------------------------------------------------------------------
Emits(n) == Buffer(n) \/ Skip(n) \/ Prepare(n) \/ Claim(n) \/ ClaimAny(n) \/ Block(n) \/ Push(n)
Receives(n) == \/ TakeKept(n) \/ Drain(n) \/ NextOfBatch(n) \/ Pop(n)
               \/ FlushFirst(n) \/ Await(n) \/ Release(n)
               \/ LoopDone(n) \/ ExternalEnded(n) \/ Tell(n)
Runs(n) == \/ Start(n) \/ Produce(n) \/ Process(n) \/ Return(n) \/ Fail(n)
           \/ Unwind(n) \/ Doze(n) \/ Mark(n) \/ WakeProducer(n) \/ End(n)
           \/ CancelStep(n) \/ CancelReturns(n)

Node(n) == (Emits(n) \/ Receives(n) \/ Runs(n)) /\ slow' = slow \ {n}
MainThread == \/ Tick \/ MainCancelReturns \/ Join
              \/ CancelStep(Main) /\ UNCHANGED slow

\* The run is over: nothing moves any more.
Over == main = "over" /\ UNCHANGED vars

Next == (\E n \in Nodes : Node(n)) \/ MainThread \/ Over

\* Threads are preemptively scheduled and user code returns: each thread that
\* can move does.
Fairness == (\A n \in Nodes : WF_vars(Node(n))) /\ WF_vars(MainThread)

Spec == Init /\ [][Next]_vars
FairSpec == Spec /\ Fairness
-----------------------------------------------------------------------------
(* What should hold.                                                       *)

Threads == {"new", "run", "credit", "park_out", "push", "park_in", "release",
            "external", "tell", "cancel", "wake", "end"}
Commands == [op : Ops, edge : Edges]
Queued == {b \in Entry : b.items # <<>>} \cup Control

ThreadsTyped ==
    /\ pc \in [Nodes -> Threads]
    /\ mode \in [Nodes -> {"body", "closing"}]
    /\ state \in [Nodes -> {"NEW", "RUNNING", "WAITING", "DONE", "FAILED"}]
    /\ plan \in [Nodes -> Seq(Commands)]
    /\ hand \in [Nodes -> Entry]
    /\ \A n \in Nodes : pc[n] = "push" => hand[n].items # <<>>
    /\ asleep \subseteq Nodes
EdgesTyped ==
    /\ credits \in [Edges -> Int] /\ queued \in [Edges -> Int]
    /\ pending \in [Edges -> Items]
    /\ q \in [Nodes -> Seq(Queued)]
    /\ done \in [Nodes -> BOOLEAN]
    /\ rr \in [Nodes -> Nat] /\ \A n \in Nodes : rr[n] = 0 \/ rr[n] < Len(Out[n])
ReceiversTyped ==
    /\ batch \in [Nodes -> Entry] /\ kept \in [Edges -> Items]
    /\ ended \subseteq Edges
    /\ rel \in [Nodes -> [edge : Edges, n : Nat]]
    /\ taken \in [Nodes -> Items]
LoopTyped ==
    /\ tokens \in Int /\ external \in Int /\ closed \in BOOLEAN
    /\ owes \in [Nodes -> BOOLEAN] /\ telling \in [Nodes -> Seq(Nodes)]
CodeTyped ==
    /\ made \in [Nodes -> Nat] /\ recycled \in [Nodes -> Nat]
    /\ stopped \in [Nodes -> BOOLEAN]
    /\ put \in [Edges -> Nat] /\ got \in [Edges -> Nat]
RunTyped ==
    /\ cancelled \in BOOLEAN /\ failures \subseteq Nodes
    /\ canceller \subseteq Nodes \cup {Main}
    /\ nextCond \in Nat /\ towake \in [Nodes -> Seq(Edges)]
MainTyped ==
    /\ main \in {"watch", "cancel", "join", "over"}
    /\ stall \in Nat /\ deadlock \in BOOLEAN
    /\ quiet \in BOOLEAN /\ slow \subseteq Nodes

\* Every variable has its type.
TypeOK == /\ ThreadsTyped /\ EdgesTyped /\ ReceiversTyped /\ LoopTyped
          /\ CodeTyped /\ RunTyped /\ MainTyped

\* Where the credits of e are: taken by a sender about to push, or with the
\* receiver, popped and not yet given back.
Sent(e) == IF pc[Src[e]] = "push" /\ hand[Src[e]].edge = e THEN Len(hand[Src[e]].items) ELSE 0
Held(e) == Len(kept[e])
           + (IF batch[Dst[e]].edge = e THEN Len(batch[Dst[e]].items) ELSE 0)
           + (IF pc[Dst[e]] = "release" /\ rel[Dst[e]].edge = e THEN rel[Dst[e]].n ELSE 0)

Balanced(e) == ~done[Dst[e]] =>
    /\ credits[e] >= 0
    /\ credits[e] + Sent(e) + queued[e] + Held(e) = Capacity[e]

\* No credit is lost or made: as long as the receiver reads, the credits of an
\* edge are its capacity less what is on its way, queued, or held back by it.
CreditConservation == \A e \in Edges : Balanced(e)

\* Backpressure: the queue an edge adds to its receiver's inbox never exceeds
\* the edge's capacity, whatever the batches, policies and held-back items.
BoundedQueue == \A e \in Edges : ~done[Dst[e]] => queued[e] + Held(e) <= Capacity[e]

\* A condition of thread n that rc.cancel has yet to notify.
CancelWillNotify(n) ==
    /\ main = "cancel" \/ \E m \in Nodes : pc[m] = "cancel"
    /\ \E i \in nextCond..(2 * Len(Order)) :
          Order[(i + 1) \div 2] = n /\ pc[n] = (IF i % 2 = 1 THEN "park_in" ELSE "park_out")
\* A producer that the done receiver of one of its edges has yet to wake.
ReceiverWillNotify(n) ==
    \E e \in Edges : /\ Src[e] = n /\ pc[Dst[e]] = "wake"
                     /\ \E i \in DOMAIN towake[Dst[e]] : towake[Dst[e]][i] = e

\* No wake-up is lost: a thread asleep on a condition whose predicate holds, or
\* in a run that is cancelled, will still be notified by somebody.
NoLostWakeup ==
    \A n \in asleep : /\ Ready(n) => pc[n] = "park_out" /\ ReceiverWillNotify(n)
                      /\ cancelled => CancelWillNotify(n)

\* A deadlock is reported only when there is one: every live node is asleep,
\* none could go on, and none has a notification coming.
NoFalseDeadlock ==
    [][deadlock' # deadlock => \A n \in Nodes : Live(n) => n \in asleep /\ ~Ready(n)]_vars

\* The report is never of a run whose graph cannot lock up.
NoDeadlock == ~deadlock

\* execute returns whatever the nodes do: a run completes, fails, or is
\* reported as a deadlock, and no thread is left behind.
EveryRunEnds == <>(main = "over")

\* A receiver that is told a stream has ended has been given all of it.
EndIsLast ==
    \A e \in Edges : e \in ended =>
        put[e] = got[e] + Len(kept[e])

\* A run that ends without an error has delivered every item that was sent,
\* closed every edge, and has all its credits back, except where the receiver
\* asked to stop.
CompleteDelivery ==
    main = "over" /\ ~cancelled =>
        \A e \in Edges : stopped[Dst[e]] \/
            /\ got[e] = put[e]
            /\ Feedback(e) \/ (e \in ended /\ credits[e] = Capacity[e])

\* A node whose code raised is shown as failed when its thread has ended.
FailedIsShown == \A n \in Nodes : n \in failures /\ pc[n] = "end" => state[n] = "FAILED"
=============================================================================
