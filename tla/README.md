# A verification development of Tolquane

Tolquane runs dataflow graphs: nodes are Python functions or classes, edges are
bounded channels with backpressure, and edges between hosts are TCP connections. A web
server and a browser interface edit, run, schedule and watch them. This directory holds
TLA+ modules of the runtime and of the browser interface with the parts of the server it
talks to, the TLC configurations that model-check them, and TLAPS proofs of what
matters most. Paths are relative to the repository: `channel.py` and the like to
`src/tolquane/`, `.ts` and `.tsx` files to `web/src/`.

    tlc -config Pipeline.cfg MCDataflow.tla     # and Side, Loop, LoopStop, FailedShown
    tlc -config Net.cfg MCNetEdge.tla           # and NetDrop, NetSlow
    tlc -config Editor.cfg Editor.tla
    tlc -config Web.cfg MCWeb.tla
    tlc -config Watch.cfg MCWatch.tla
    tlc -config SignIn.cfg Session.tla
    tlapm DataflowProofs.tla                    # then StreamProofs, LoopProofs, ChannelProofs
    tlapm NetEdgeProofs.tla
    tlapm PagesProofs.tla                       # and FormsProofs, EditorProofs

| file | what it is |
|---|---|
| `Dataflow.tla` | the threads runtime: edges, inboxes, node threads, loops, cancellation, watchdog |
| `Channel.tla` | abstract: what one edge promises the two nodes it joins |
| `MCDataflow.tla` | three graphs for TLC, the refinement mapping to `Channel`, the loop's count |
| `DataflowProofs.tla` | theorems: types, credits, bounded queues, no wake-up is lost |
| `StreamProofs.tla` | on top of it: what was sent on an edge, and where it is; the watchdog reports nothing that is not stuck |
| `LoopProofs.tla` | on top of that: a loop's counter is exact; the end comes last and delivery is complete, with a loop or without |
| `ChannelProofs.tla` | on top of `StreamProofs`: the edges of `Dataflow` implement `Channel`, and a graph without a cycle never locks up |
| `NetEdge.tla` | an edge between two groups of a deployed graph: sender, reader threads, receiver, connections |
| `MCNetEdge.tla` | the refinement mapping from `NetEdge` to `Channel` |
| `NetEdgeProofs.tla` | theorems: credits across the wire, acknowledgements, no gap, a complete end; `NetEdge` implements `Channel` |
| `Editor.tla` | the flow open in the editor: text, model, requests, saves, other writers |
| `EditorProofs.tla` | theorems: flows apart, versions, edits, text and model of `Editor` |
| `Blocks.tla` | the canvas: the tree of blocks, its edits, positions, selection, undo, what is drawn |
| `FarmPanel.tla` | the options of a farm, what the panel objects to and what the library refuses |
| `RunView.tla` `RunsList.tla` | a run as the editor watches it; the Runs page |
| `AiThread.tla` | a conversation with the AI builder |
| `Session.tla` | token, sign-in, the gate in front of the pages |
| `SettingsForm.tla` `HistoryView.tla` `ScheduleForm.tla` `UsersPage.tla` `FlowsPage.tla` | the pages and panels of these names |
| `PagesProofs.tla` | theorems: `Session`, `AiThread`, `FlowsPage`, `RunView` |
| `FormsProofs.tla` | theorems: `SettingsForm`, `HistoryView`, `ScheduleForm`, `UsersPage`, `FarmPanel` |
| `MCWeb.tla` `MCWatch.tla` | small instances of these parts side by side |
| `Pipeline.cfg` `Side.cfg` `Loop.cfg` `Net.cfg` `Editor.cfg` `Web.cfg` `Watch.cfg` | runs that pass |
| `LoopStop.cfg` `FailedShown.cfg` `NetDrop.cfg` `NetSlow.cfg` `SignIn.cfg` | runs that show the code departing from its documentation |

## 1. The system

### Inventory

For each part: its state, its operations, who it interacts with, what is hard
about it, and what makes it correct.

**Channels** (`channel.py`). *State*: per `Edge` credits, pending batch, queued
count; per `Inbox` one queue shared by all incoming edges, a lock, a condition,
`done`; per `Outbox` a lock and condition, the round-robin turn. *Operations*:
`send`, `put`, `_put_entry`, `_put_any`, `flush`, `_flush_others_locked`, `close_all`,
`pop`, `release`, `push`, `mark_done`. *Interacts* with two locks per pair of
nodes (outbox then inbox), taken one after the other, never nested the other way,
and through `scheduler.wait`, which releases the lock. *Hard*: a wait in the
middle of a send, state read before it and used after it; a batch larger than the
credits; a sender about to block while it withholds items its receiver needs.
*Correct when*: no credit is lost or made, the queue is bounded by the capacity,
items of an edge are neither lost, repeated nor overtaken, the end of stream comes
last.

**Node execution** (`runner.py`). *State*: `NodeInstance.state`, the stop
and failure flags. *Operations*: `run_node`, `_run_source`, `_run_items`, raw nodes,
`ctx.send/recv/stop/feedback`. *Hard*: the `finally` block flushes and closes while
other nodes fail; a second exception inside it. *Correct when*: every node ends,
always closing its edges, and its final state says what happened.

**Delivery** (`policies.py`). `FirstCome` (arrival order, with `recv(source=...)`
holding other entries back), `RoundRobin`, `Window` and `Reorder` (ordered farms).
*Hard*: held-back items keep their credits; credits returned late; end-of-stream
markers overtaken by held items; a window that nothing advances. *Correct when*:
order per edge survives, and credits return once per item.

**Feedback loops** (`channel.py`, `Loop`). A counter of items inside the loop and of
external edges still open; when both reach zero, a control entry ends the
feedback inputs of the loop's heads. *Hard*: an item is counted by the thread that
sends it and discounted by the one that finishes it. *Correct when*: the count is
the number of items inside, so the loop closes exactly once, when empty.

**Threads runtime** (`runtime.py`). One thread per node; `ThreadScheduler.wait`,
`RunContext.fail/cancel`, `execute`'s loop with the deadlock watchdog, `_join`. *Hard*:
cancellation walks the conditions one at a time while threads enter their waits;
the watchdog reads states and progress with no lock. *Correct when*: no wake-up is
lost, a deadlock is reported if and only if there is one, `execute` returns.

**Sync runtime** (`runtime.py`, `BatonScheduler`): one thread at a time holds a baton;
deterministic order. *Correct when*: exactly one holder, and a run without a
runnable thread is a deadlock at once.

**Ordered and gathering farms** (`policies.py`, `channel.py`): tags on items, a window
of outstanding tags, a collector that reorders. *Correct when*: the output order is
the input order, whatever the workers do, and the window always moves.

**Processes runtime** (`processes.py`): remote workers over pipes, a proxy thread per
worker, completion markers. *Hard*: a worker process dying between two items.

**Network edges** (`net.py`). *State*: the sender's positions `sent` and `acked`, the
frames not acknowledged, its socket, whether END was said; the receiver's position
`expected`; the listener's queue of connections. *Operations*: `_connect`, `_send_items`,
`_transmit`, `_reconnect`, `_wait_for`, `_finish`, `_reader`, `_serve`, the goodbyes. *Interacts*
with the local channels on both sides: the producer's credits come back only when
the other group acknowledges. *Hard*: a thread per connection that changes
the sender's state while it is blocked elsewhere; frames sent again while old
acknowledgements arrive; each side deciding alone that the other is gone. *Correct
when*: exactly-once, in order, END after the last item, through any number of lost
connections, and both groups stop.

**Async pools** (`asyncnode.py`): coroutines on an event loop fed by a node's thread.
*Correct when*: concurrency is bounded, and an error or cancellation reaches both
sides.

**Graph construction, validation, optimisation** (`graph.py`, `api.py`,
`optimize.py`): pure.

**Sessions** (`session.py`): a running graph fed and read from outside.

**Launching groups** (`launch.py`): one process per group, waits for all.

**Web service** (`web/`): `supervisor.py` (child processes, reaper, kill and abandon
timers, concurrency limit), `scheduler.py` (cron, retries, overlapping runs),
`notify.py`, `store.py` (SQLite), the HTTP server, the flow model. *Hard*: check-then-act
on the number of live runs, shutdown racing a start, a restart between a due time
and its run. *Correct when*: a run has one final status, and the limit holds.

**AI builder, command line, events and drawing**: input, output and presentation.

**The open flow** (`store/flow.ts`, `editor/code/sync.ts`, `pages/EditorPage.tsx`). *State*: the
text of the file, the model parsed from it, the stamp of the version it came from,
the layout, undo and redo, flags for what is not saved or not yet derived; two timers; a
number for the newest parse or generate request. *Operations*: typing, canvas edits, undo,
save, conflict dialog, opening another flow, restoring a version, applying a draft.
*Interacts* with the server through requests answered in any order, and with other writers
of the same file. *Hard*: text and model are each derived from the other, by requests
that are overtaken; a save spans up to three requests while the person goes on. *Correct when*: no
edit is lost, no version is overwritten that nobody has seen, text and model agree again.

**Blocks and canvas** (`model/`, `editor/Canvas.tsx`, `buildGraph.ts`). *State*: a tree of blocks
addressed by paths, positions and a selection by path, snapshots. *Hard*: every edit shifts
paths, and positions, selection and the next edit follow by renaming. *Correct when*: the tree
stays one the types allow, and what is drawn and selected is in it.

**Farm options** (`Properties.tsx`, `validate.ts`). *Correct when*: the browser objects to what
`tq.farm` refuses.

**Watching runs** (`useRunEvents.ts`, `store/run.ts`, `RunButton.tsx`, `RunsPage.tsx`). A socket that replays
from the first event at each connection; a list polled while something is going. *Correct when*:
each line is shown once, and a run that ended is shown to have.

**Conversation** (`store/ai.ts`, `AiPanel.tsx`). Events of a stream land on the last turn. *Correct when*:
that is the turn that asked, and Stop reaches its request.

**Session** (`token.ts`, `store/auth.ts`, `LoginGate.tsx`, `LoginPage.tsx`). *Correct when*: the person shown is
the one whose token is held, and a session that ended leads to the sign-in form.

**Settings, history, schedules, users, flows** (the pages of these names). Each keeps a copy of what the
server has, changes it by requests of its own, and reads it again. *Hard*: answers that come after
the page has moved on; other people; lost answers. *Correct when*: what is shown is so once
every answer is in, and what is sent is what the person meant.

`PROJECT.json` lists all of these under `components`, and under `hazards` each place
where the code is hard to test, at its line, with the properties that watch it.

### Plan

In this order, the most load-bearing behaviour first.

1. `Dataflow`, `Channel`, `MCDataflow`, `DataflowProofs` — the threads runtime.
   **Written.**
2. `NetEdge`, `MCNetEdge` — sender and receiver over a connection that drops, with
   resending, END and timeouts; refines the same `Channel`. **Written.**
3. `Editor` — the open flow; then `Blocks`, `FarmPanel`, `RunView`, `RunsList`, `AiThread`, `Session`
   and the pages, composed by `MCWeb` and `MCWatch`. **Written.**
4. Proofs. **Written** for `NetEdge` (its four invariants, and that it implements `Channel`), for
   `NoLostWakeup`, `EndIsLast`, `CompleteDelivery` and the loop's counter of `Dataflow`, that its edges
   implement `Channel`, and for its watchdog; for the safety properties of `Editor`, and for the invariant of each page. To come:
   that the edges of a loop are channels, in cancelled runs too.
5. `OrderedFarm` — emitter, workers, collector with tags, `Window` and `Reorder`; an
   abstract in-order stream it refines; a run with a collector that stops.
   Theorems: tags outstanding never exceed the window, output is a prefix of input.
6. `Supervisor` — start, reap, kill, abandon, shutdown and the limit, with the run
   status in the store; `WebSchedule` — passes, retries and a restart between them.
7. `RemoteWorker`, `AsyncPool`, `BatonScheduler`, in this order of value.
8. Pure algorithms as operators against a reference definition: `split_sequence`,
   the rest of graph validation, the next time of a cron expression.

Each new module declares its parameters as CONSTANTS with named assumptions,
has an action per operation, and keeps RECURSIVE out, so that it can be proved
about.

## 2. `Dataflow`: the threads runtime

### State

| variables | code |
|---|---|
| `pc`, `asleep` | where each node's thread is; waiting in `cond.wait()` and not yet notified |
| `mode` | in node code, or in `run_node`'s `finally` |
| `state` | `NodeInstance.state` |
| `plan`, `hand` | the sends the current call still has to make; the entry it is pushing |
| `credits`, `pending`, `queued` | the fields of `Edge` |
| `q`, `done` | `Inbox.queue`, `Inbox.done` |
| `rr` | the `Outbox`'s turn |
| `batch`, `kept`, `ended`, `rel` | `FirstCome`'s current batch, entries held back for other sources, ended edges, credits about to be released |
| `taken` | items delivered to the node's code and not yet processed |
| `tokens`, `external`, `closed`, `owes`, `telling` | `Loop`, and each thread's debts to it |
| `cancelled`, `failures`, `canceller`, `nextCond` | `RunContext`, and how far `cancel` has got through the conditions |
| `towake` | the producers `mark_done` has yet to wake |
| `main`, `stall`, `quiet`, `deadlock` | `execute`'s loop and its outcome |
| `made`, `recycled`, `stopped`, `put`, `got` | user code and history |

An item is named by its number on its edge, so `put[e]` and `got[e]` also say which
items have been sent and delivered.

### Actions

An action is one critical section (what runs under a lock without releasing it),
or steps on state only its thread touches. The parts of a send that the code does
under different locks are different actions: `Prepare` (which closes the batch and
decides), `Claim` or `ClaimAny` (wait for credits, take them), `Block` (flush the other
edges and go to sleep), `Push` (the receiver's inbox). Receiving is `Pop`, `FlushFirst`
(a node flushes before it would block), `Await`, `Release` (credits back under the
sender's lock), `NextOfBatch`, `Drain` (the fast path that takes a whole batch),
`TakeKept`. `Doze` is a notified thread whose predicate is still false; `Unwind` is the
`Cancelled` exception leaving a wait. `Mark`, `WakeProducer` and `End` are the end of
`run_node`. `CancelStep` notifies one condition of the run per step, input before
output, node by node, as `RunContext.cancel` does. `Tick` is one turn of the watchdog.
`Next` is any thread, or the main thread, making one step.

Node code is nondeterministic: a source makes `Supply` items, an item makes any
number of sends in `Fanout` or a feedback, code in `MayStop` may stop and in
`MayFail` may raise wherever it makes or is given an item. All policies are
modelled: round robin, broadcast, by key, scatter and on demand.

### What is abstracted

- Items carry no value. Key routing is any choice of edge.
- Sections under one lock are one action: `Block` includes the flushes of
  `_flush_others_locked` that do not have to wait; `Pop` includes `_entered`; `Fail` includes
  the section of `rc.fail` and the flag that `cancel` sets first; `ClaimAny` includes
  `loop.sent`. Python's interleaving inside them cannot be seen by another thread.
- The watchdog's scan of the node states is atomic. `quiet` stands for
  `progress == last_progress`: every push and pop resets it.
- `slow` is an assumption on promptness: a thread that was already awake when the
  watchdog saw every node waiting takes its next step before the next tick. Without
  it a thread that is not scheduled for the whole `deadlock_timeout` would be taken for
  a deadlocked one; the code relies on the same.
- A condition variable has at most one thread waiting on it, as each belongs to
  one node.
- A timed flush of a batch is not a step of its own: a batch may go early by
  `Prepare`.
- A stopped, failed or cancelled node's `on_end` sends nothing.

Graphs are bounded: no edge of unlimited capacity, one feedback loop, and no two
edges joining the same pair of nodes. Left out of this module and listed under
`components`: the ordered strategies, tags, comb chains inside a loop, the stop
event and Ctrl-C, progress callbacks, the five-second limit of `_join`, async pools,
remote workers and network edges.

### Fairness

`FairSpec` gives weak fairness to each node's thread and to the main thread.
CPython schedules threads preemptively, a lock is held only over code that ends, and
user code is assumed to return. No action is fair by itself: a choice inside
user code is never forced, and a thread in a wait moves only once it is notified.

## 3. `NetEdge`: an edge between two groups

`NetOut` and `NetIn` (`net.py`) stand at the two ends of an edge that crosses groups.
`NetOut` is a node of the sending group: the producer fills its inbox against the
credits of an ordinary edge, and its `_Sender` gives those credits back only when the
other side acknowledges. `NetIn` is a source of the receiving group.

### State

| variables | code |
|---|---|
| `produced`, `closed`, `credits`, `inq` | the producer's sends, `Edge.credits` and `Inbox.q` of `NetOut` |
| `spc`, `then` | where `_Sender.run` is, and where it goes on after (re)connecting |
| `hand`, `frame`, `resend`, `last` | `pending` of `run`, the frame `_transmit` is writing, `resend` of `_reconnect`, `remaining == 0` |
| `sent`, `acked`, `unacked`, `ended`, `sock`, `dropped` | the fields of `_Sender`; `timed` is `ack_deadline is not None` |
| `readers` | connections whose reader thread still runs |
| `conn`, `made`, `inbound` | the connections, how many were made, `_State.inbound` of the edge |
| `rpc`, `rsock`, `todo`, `upto` | where `_Receiver.run` is, its socket, the rest of the batch it is handing over and its end |
| `expected` | `_Receiver.expected` |
| `passed`, `delivered` | the items given to `ctx.send`, and how many of them the local node has: `edge.pending` of `NetIn`'s output holds the rest |
| `cancelled`, `message`, `verdict` | each group's `RunContext.cancelled`, `_State.failure`, and how this end came to stop |
| `up`, `drops` | the network |

Items are 1, 2, 3 ... in the order they were produced, so an item lost, repeated or
out of order shows in `passed`. A connection is a pair of FIFO streams. When it
breaks, any prefix of each stream survives, and either end finds out when it next reads
past that prefix or writes. A socket closed with unread input may throw away
what it had just sent (a reset); after `_linger` it does not.

### Actions

The sender: `Pop`, `MakeFrame` (the part of a batch the window has room for), `Transmit`,
`Finish`, `Done`; `Connect`, `Welcomed`, `ConnectFails`; `TransmitFails`, `ResendFails` and
`WaitReconnects` are the three ways into `_reconnect`, and `Snapshot`, `Resend`, `Resent` its
second half. `ReadAck`, `ReadError`, `ReadEnd` are steps of a reader thread; an old connection's
reader may still run when the next one is in use. `Quit` is `Cancelled` raised
wherever the code looks at `rc.cancelled`, possibly between two parts of a frame
(`Torn`), and `SayGoodbye`, `CallBack`, `Farewell`, `Leave` the goodbye. The receiver: `Accept`,
`ReceiveData`, `PassOn` (one `ctx.send`, which puts the item in `edge.pending`), `Flush` (`_flush_edge`, when a batch is
whole, when the last flush was long ago, and before `_serve` reads again), `AckFrame`, `Heartbeat`, `ReceiveEnd`,
`ReceiveError`, `Dropped`, `CloseSocket`, `QuitReceiver`. An edge of `NetIn` batches as the cut edge does, so a frame is
acknowledged (`net.py:800`) when up to `BatchSize - 1` of its items may still be pending; when the receiver's group is
cancelled then, `close_all` hands them on or gives them up (`ClosesOutput`).

### What is abstracted

- *Time.* Deadlines are seconds long. `Quiescent` says that no prompt step can be taken,
  and only then does a deadline pass. The constant `Slow` names who may take longer
  than any deadline: the producer, or the node that takes the items. Without `Slow`,
  a timeout is one because nothing more was going to happen.
- A write is accepted whole, blocks, fails, or leaves half a frame when its group is
  cancelled. HELLO, the HMAC challenge and the hand-over to the receiver are one step;
  replies are never blocked, and read whole.
- Storing the peer's message and `rc.fail` in the reader are one step.
- A group's failure elsewhere is `Cancel`, with or without something to tell the peer.
  It may happen at any time up to the end of this edge.

Bounds: `MaxItems` produced, `MaxConns` connections, `MaxDrops` drops and outages together,
`Buffer` frames in a connection, and a heartbeat only once the one before it has been read.

### Fairness

Weak fairness for the sender's thread, for each reader thread, for the receiver's
thread; for `Flush` and `CloseOutput`, as the local node and the producer go on in the
end; and for `Timeout`, as time passes. `Restore` is not fair: the network need never come
back.

## 4. The browser interface

JavaScript runs one callback at a time: an action is one callback, or the part of an async
function between two awaits. What interleaves are the person, the timers, the answers to
requests, what the server does with them, and other people. A request is a record in a set,
with the step it is at: asked, done by the server, answered; the set lets answers
come in any order (`Session` has a list of the answers to `me`, of which any may be the next to land),
and a failing action takes a request away at any step, so an answer may also
be lost after the server has done what was asked. The server's handlers are translated from
`web/server.py`, as far as the page sees them.

### `Editor`

`flow` is the record of `store/flow.ts`, `sync` the one of `syncStore.ts` with the two timers of `sync.ts` (`parseDue`,
`generateDue`), `ask` the newest parse or generate request (`sequence`; an older one is dropped
whatever it answers), `calls` the saves, loads and restores in flight. `disk` has every version of each
file; a stamp (`modified`) is the number of a version. `kept` and `seen` are history: the
edits that must not be lost, and the last version of each flow that the person was shown.

Content is a set of edits. A text and the model parsed from it have the same ones; a text
that is not `ok` cannot be modelled. `Effects` is what React's effects do after each change: they are
part of every action that changes the store. `Save`, `SaveGenerated`, `ServerWrites`, `SaveAnswered`, `ServerLayout`,
`LayoutAnswered` are the steps of one save; `SaveRefused`, `KeepMine`, `TakeTheirs`, `CancelConflict` a conflict.

### `Blocks` and `FarmPanel`

A tree is a function from paths to blocks, so a subtree, a rename and a snapshot are functions of
functions. The code follows a card by the identity of its object; here a block has a number. Actions are
the palette, drop, delete, wrap, unwrap, the options that give a block children or take them,
drag, tidy, click, undo, redo. `Cards` and `Links` are what `buildGraph.ts` draws, without sizes. `FarmPanel` has an
action per control but the name; `FarmProblems` is `validate.ts`, `LibraryRefuses` is `Farm.__init__` of `graph.py`.

### The pages

| module | the page's copy | requests | the server and others |
|---|---|---|---|
| `RunView` | `shown` (the run store), `watch` (the socket) | `asked`, `cancels` | `runs`, as lists of events |
| `RunsList` | `rows`, `opened` | `listing`, `detail`, `acting`, `reloads` | `ran` |
| `AiThread` | `turns`, `controller` | `streams` | its events |
| `Session` | `held`, `refused`, `signInNeeded`, `user`, `mode`, `route` (`overtaken` is history: the answer on show was asked before one heard earlier) | `whoAmI`, `signingIn` | `accounts`, `sessions` |
| `SettingsForm` | `settings`, `draft`, `state` | `loading`, `puts` | `stored`; another administrator |
| `HistoryView` | `known`, `showing` | `inquiries`, `changing`, `reading` | `repo`, `files`; commits from a terminal |
| `ScheduleForm` | `scheduled`, `form`, `busyRow` | `asksList`, `params`, `works` | `schedules` |
| `UsersPage` | `listedPeople`, `secretsShown`, `adding`, `busyPerson` | `asksPeople`, `orders` | `people`; another administrator |
| `FlowsPage` | `listedFlows`, `flowDialog`, `drawing` (an editor) | `asksFlows`, `flowDeed` | `flowAt`, `sidecars`; others |

A list request that is overtaken by another is cancelled by its effect, so one of them counts at
any time. Values are numbers no two of which are equal, so a value put back, mixed up or sent for another
thing shows. A `busy` row is as the code has it: one number, which another row's request takes over.

### Bounds, and parts side by side

These parts share no state, except the ones that are in one module. `MCWeb` and `MCWatch` put them next to
one another: `part` chooses which one moves in a behaviour, and the others stay at their first
state. Their state spaces add up instead of multiplying, and each part is checked as it would be alone.

| part | bounds | states |
|---|---|---|
| `Blocks` | 2 edits or drags, 2 undos or redos, from every tree of `Samples`; sources, sinks and fused pairs from the palette | 145,000 |
| `FarmPanel` | the numbers 0 and 1 (`FarmNumbers`: too small, and any that is not); every order of the controls | 64,000 |
| `AiThread` | 3 questions, answers of 2 events | 13,000 |
| `Session` | 2 sessions, 1 of which ends, 1 silence, 1 answer under way while something is submitted | 18,000 |
| `SettingsForm` | 2 values typed, two sections with rules and one without | 11,000 |
| `HistoryView` | 2 flows, 1 write in all, 3 questions | 214,000 |
| `ScheduleForm` | 2 schedules, 2 flows, 1 form, 2 values, 1 request (`MaxWorks`) | 122,000 |
| `UsersPage` | 3 accounts, 2 changes | 23,000 |
| `FlowsPage` | 2 paths, 3 flows, 2 deeds here and 1 elsewhere | 69,000 |

Two answers are enough to come in the wrong order, and one change in between for the older to be
out of date; deeper trees start deep instead of being built by many edits. `UsersPage` with
three changes, which is what `Hops` takes to matter, was checked by itself and passes as well (1,027,282
states); it is too large to stand beside the others. One form whose Enter key sends two saves takes
`MaxWorks = 2`; beside the others there is room for one request, and the theorem `ParametersOwn` covers any number. `RunsList`
has one request of its buttons under way at a time.

### What the person waits for

In some places the code lets a person do something too early and goes wrong. Each of them is named by a
constant; the runs give it the value with which the person waits, so that the rest of the property
can be checked. With the other value TLC finds the violation:

| constant | switched on | then |
|---|---|---|
| `Hurried` (`Editor`) | `"switch hands"`: going from the text to the canvas, or back, before the first has arrived | `NoEditLost` fails: what was typed is overwritten by what was drawn |
| | `"edit while saving"`: typing or drawing before the save is answered | `NoEditLost` fails: the answer of the save puts back the text it was sent with |
| | `"save twice"`: saving or restoring during a save | `SyncUnderWay` fails: the answer of the save lands on the restored version |
| | `"unverified"`: saving or editing before a node's body has been parsed again | `SyncUnderWay` fails: the save generates the text itself, and the parse that was due is not made |
| | `"leave"`: opening another flow during a save | `CleanIsOnDisk` fails: the answer is put into the other flow's store |
| `MayReturn` (`RunView`) | leaving the editor and coming back to a run that was shown | `ConsoleOnce` fails: only a reconnection empties the console (`useRunEvents.ts`) |
| `Hasty` (`AiThread`) | a question between the last event of an answer and the end of its stream | `TurnsApart` fails: `settle` (`store/ai.ts:237`) removes the new controller |
| `TypesOn` (`SettingsForm`) | typing in a section that is being saved | `SectionsApart` fails: the answer puts back what was sent (`SettingsPage.tsx:437`) |
| `Wanders` (`HistoryView`) | opening another flow during a restore | `DotTruthful` fails: the store asks about the flow before (`HistoryPanel.tsx:98`) |
| `Early` (`ScheduleForm`) | saving before the chosen flow's parameters have come | `OwnParameters` fails: those of the flow before are sent |
| `Hops` (`UsersPage`, with `MaxOrders = 3`) | resetting a password again on a row freed by another row's answer | `UsersTruthful` fails: the password shown is not the last one set |
| `Lingers` (`FlowsPage`) | an editor saving its layout after its flow was moved and another put there | `FlowsKept` fails: a layout has no stamp |

`Hurried` is the widest of these, and the disagreement with the code's own words the plainest: `sync.ts:4-6` says that "typing never loses a
character and never waits for a request", and with `Hurried = {}` the runs leave out the moments in which the code loses some. `NoEditLost` is a promise to a person who pauses for the save and between the two sides, and to nobody else.

Three properties name their exceptions themselves, and each exception is real: TLC finds the property violated without it.

- `SessionAgrees` is not claimed when the answer on show was asked before one heard earlier (`overtaken`). `load`
  (`store/auth.ts:70-96`) numbers nothing, so after signing out before the answer of one's own sign-in has come, that answer
  lands last and the page shows a person with no token held.
- `AppendedInOrder` is not claimed of a second source or sink, nor, when the root is one block, of a source or of anything
  at all behind a root that ends in a sink (`OutOfPlace`): `appendStageEdit` puts the new block behind it
  (`flow.ts:473-476`), although `flow.ts:457-461` says that a click never leaves a flow that cannot run.
- `DotTruthful` and `UsersTruthful` say nothing once the page cannot know (`unheard`, `doubtful`): a change from elsewhere, or one
  whose answer was lost. After such a loss nothing asks again (`EditorPage.tsx:182-191`, `HistoryPanel.tsx:99, 114`).

`ListOfOne` (a farm written with a list of one worker) is excluded in the same way from `SelectionSound` and `DrawnWhole`.

### Fairness

`Editor`: weak fairness of `Syncs`: a timer fires, and a parse or generate request is answered or refused. Nobody need
type, save or let a save arrive. `RunView`: a run goes on to its end, what it says arrives, a timer fires; the
socket may drop, and need not. `RunsList`: the poll's timer fires (weak), and the server lists and the list lands
(strong): each poll cancels the answer it has not had, so the property needs that an answer is at
some time quicker than the 1.5 s between two polls. `Session`: answers to `me` arrive, a redirect is carried out.


## 5. What the runs show

| run | graph | bounds | states |
|---|---|---|---|
| `Pipeline` | a → b → c; b may fail, c may stop | 3 items, capacities 2 and 1, batches of 2 asked for (capped to 1 on the second edge) | 111,465 |
| `Side` | s → t, s → w → t; t reads w's edge to its end first and holds back the rest; scatter | 2 items, each to one or both, w may drop them | 71,873 |
| `Loop` | s → h → {v, w} → h, on demand | 2 items, capacity 1, each worker may feed back once | 94,890 |
| `LoopStop` | as `Loop`, v may call `ctx.stop()` | | violation |
| `FailedShown` | as `Pipeline` | | violation |
| `Net` | one edge across two groups; either may be cancelled, producer and consumer may be slow | 2 items, capacity, batch and buffer 2, 3 connections, 1 drop or outage | 637,393 |
| `NetDrop` | as `Net`, nobody cancelled or slow | | violation |
| `NetSlow` | as `Net` without drops, the consumer slow | | violation |
| `Editor` | two flows, one open at a time | 3 edits, 2 saves, 2 other events, an undo stack of 1 | 1,175,030 |
| `Web` | nine parts, one of which moves | see the table in section 4 | 679,471 |
| `Watch` | the editor's run and the Runs page, one of which is open | 2 runs, 2 lines, a console of 1 line; 2 rows, 1 list refused | 300,247 |
| `SignIn` | `Session`, one sign-in and one session that ends | | violation |

The bounds make the cases that matter happen: the pipeline has more items than
its edges hold, so senders block with a partial batch in hand, batches are both full and
partial, and a batch larger than the capacity is capped; `Side` locks up in some
interleavings and not in others, which is what the watchdog has to tell apart;
`Loop` has two items in a loop whose edges hold one each, with both workers
feeding back. In `Net` the drop can fall at any point of the exchange, with zero,
one or two frames out, in one frame or two, before, during or after END, and there is a
connection to spare after the one that replaces it; a batch is as large as the
window, so the sender blocks with every credit out. In `Editor` three edits are enough for one in
the text, one on the canvas and one after a save or a conflict, with its dialog (two saves)
and another writer and a lost answer (two events); a stack of one snapshot overflows at the second edit. No edit falls
into a save (`Hurried = {}`, section 4).

- **`TypeOK`** (Pipeline), **`CreditConservation`** (Side): the credits of an
  edge are its capacity less what is being pushed, queued, in the receiver's
  batch, held back, or about to be released. Both are proved too, and with them `BoundedQueue`,
  which follows from the second and is not checked separately.
- **`NoLostWakeup`** (Pipeline): a sleeping thread whose predicate holds, or in a run that is
  cancelled, has a notification coming. The cases are a wait entered between the
  flag and the notifications of `cancel`, and a receiver that finishes while a
  sender waits for its credits.
- **`NoDeadlock`** (Pipeline, Loop): these graphs never lock up. It depends on a
  blocked sender flushing what it withholds and on a reader flushing before it waits.
- **`NoFalseDeadlock`** (Side): when a deadlock is reported every live node is asleep,
  and none could go on.
- **`EveryRunEnds`** (Side): `execute` returns, whether the run completes, stops or locks up.
- **`CompleteDelivery`** (Pipeline): a run that ends without an error delivered every
  item, ended every stream and has all its credits back, except where the
  receiver stopped.
- **`EndIsLast`** (Side): a receiver told that a stream has ended has it all, even
  what it holds back. A cancelled run does not promise this when the sender was blocked.
- **`EdgesAreChannels`** (Pipeline, Side), **`IsChannel`** (Net): every edge implements `Channel`, a bounded FIFO with an
  end of stream and early leaving. `Channel` counts the items accepted and the items
  handed over; `HandedInOrder` beside it says that what is handed over are the next
  ones, in order. The receiver may be told of the end with its last items
  (`FirstCome` takes the last one held back of an edge that has ended) or after
  them, and in a cancelled run before them: the sender may have given up on its last
  ones. Wherever an item is on its way - pending, in the sender's hand, queued,
  in the current batch, held back, on the wire - it is inside.
- **`TokensCountItems`** (Loop): the loop's counter is the number of items inside the loop.
- **`CreditsAcrossWire`** (Net): the producer's credits are the capacity less what waits in
  the inbox, is in the sender's hand, or is sent and not acknowledged.
- **`AckedHasArrived`** (Net): what is acknowledged has arrived at `NetIn`, less than a batch of it still
  to be handed to the local node, and what is not can still be sent again from `unacked`. The stronger claim of
  `net.py:13-17`, that the receiver acknowledges a batch after it has handed it to the local node, is not true of edges that
  batch, so up to `BatchSize - 1` items beyond the capacity may be under way (`IsChannel` has that limit).
- **`NothingMissing`** (Net): the receiver never finds a gap: the branches of `_serve` for
  missing items are there for a peer that misbehaves.
- **`EndIsComplete`** (Net): when the receiver's stream ends its node has every item, once, in order. When the
  sender is done `NetIn` has them; a part of a batch may still be pending there and is lost if that group is cancelled
  before its last flush.
- **`EndOrStarve`** (Net): both ends stop, whatever drops or fails, except that the sender
  may wait for ever with all its credits out. The exception is the code's (`NetDrop`, below);
  without it the property is `BothEnd`.

Of the open flow (`Editor`):

- **`NoEditLost`**: what would be saved has every edit the person made and did not take back,
  whatever is being parsed and generated, of a person with none of the habits of `Hurried`; so has the text a conflict
  dialog offers to keep.
- **`CleanIsOnDisk`**: a flow not marked as unsaved is, letter for letter, the version its stamp names.
- **`SyncUnderWay`**, **`CatchesUp`**: text and model differ only while something is due or under way
  that brings them together, or the view says so; and it does come to its end.
- **`FlowsApart`**: nothing of one flow gets into another's editor, file or sidecar.
- **`NothingOverwrittenUnseen`**: a save replaces only a version that this person was shown.

Of the other parts (`Web`, `Watch`):

- **`TreeSound`**, **`SelectionSound`**, **`DrawnWhole`**, **`AppendedInOrder`** (`Blocks`): after any sequence of
  edits, undone and redone, the tree is one the types allow, what is selected is in it, every edge drawn
  joins two cards, and a click in the palette leaves the row in an order that can run, but for the clicks of `OutOfPlace`.
- **`PanelAgrees`** (`FarmPanel`): the card shows a problem whenever the library refuses the farm, and only then, except for
  a fused pair as worker, a window below 1 and a capacity below 1, to which the browser alone objects.
- **`TurnsApart`** (`AiThread`): an answer shows only what came for its question, and Stop reaches it.
- **`SessionAgrees`** (`Session`): with every answer in, the person shown is the one whose session is held, unless the
  answer on show was overtaken (section 4).
- **`SectionsApart`** (`SettingsForm`): no save undoes what is typed in another section, and the server
  holds nothing in a section that was not saved there.
- **`DotTruthful`** (`HistoryView`), **`UsersTruthful`** (`UsersPage`): with every answer in, what is shown of the open
  flow's history, and of the accounts, is so; a password on screen opens its account.
- **`OwnParameters`** (`ScheduleForm`): a schedule calls its flow with that flow's own parameters.
- **`FlowsKept`** (`FlowsPage`): a flow stays until somebody deletes it, and no flow is drawn by another's layout.
- **`ConsoleOnce`**, **`RunSettles`** (`RunView`): the console has each line once, in order, however often the
  socket replays; a run does not stay at `running`, unless the socket dropped twice and the drawer says so.
- **`EndedShown`** (`RunsList`): the poll does not stop with a row on screen that is out of date.

Definitions marked *Broken on purpose* or *mutant* are wrong versions of the one they precede,
used in `PROJECT.json` to show that each property can fail.

### Where the code departs from what it says

- `LoopStop` violates **`NoDeadlock`**. A worker inside a loop that stops early drops the
  entries of its inbox in `mark_done`, and later pushes to it are dropped as well
  (`channel.py:284`), yet the loop still counts them. The counter never reaches zero,
  the head waits for ever, and a run that did nothing wrong is reported as a deadlock.
- `FailedShown` violates **`FailedIsShown`**. `rc.fail` sets a node's state to `FAILED`;
  `close_all` in the `finally` block can then wait for credits, and
  `ThreadScheduler.wait` sets the state to `WAITING` and back to `RUNNING`
  (`runtime.py:302`). `node_done` keeps `FAILED` only, so the node ends as `DONE` and is reported
  as such.
- `NetDrop` violates **`BothEnd`**. The sender has written a batch that uses all the credits and
  waits in `inbox.pop()`; the connection drops with the batch in it. The reader
  thread sets `dropped` and returns (`net.py:516`), but only `_wait_for` and a failing write
  look at the consequences. The producer has no credit to send or to close with, so
  nothing more comes to the sender's inbox; the receiver waits for a new connection
  until `reconnect_timeout` and gives up; the sender's group hangs. Its items out count as
  work, so the watchdog does not report it either. The comment at `net.py:493` says that
  the reader is there to prevent this.
- `NetSlow` violates **`LostOnlyInOutage`**. `_serve` sends a heartbeat only when there is nothing
  to read. While it hands a batch to a node whose queue is full (`net.py:797`) it sends
  none, and the sender takes the group for lost, although `net.py:783` says that the
  heartbeat is for a node that "is slow to take the items".
- `SignIn` violates **`SignInAsked`**. When a session ends on a server with accounts,
  `reportUnauthorized` (`api/token.ts:101`) removes the token and raises `signInNeeded`; the auth
  store still has its `user`, as nothing asks `me` again. `LoginGate.tsx:37` redirects to `/login` for the one, and
  `LoginPage.tsx:74` back to the page for the other, without end; `docs/web-user.md:489` says that the
  page shows the sign-in form. With no session ending, or after loading the page anew, the form comes.

## 6. What is proved

| theorem | module | of every run, for any constants that meet the assumptions |
|---|---|---|
| `TypeCorrect` | `DataflowProofs` | `[]TypeOK` |
| `CreditsConserved` | `DataflowProofs` | `[]CreditConservation` |
| `QueuesBounded` | `DataflowProofs` | `[]BoundedQueue` |
| `NoWakeupLost` | `DataflowProofs` | `[]NoLostWakeup` |
| `TokensExact` | `LoopProofs` | the loop, if any, well formed: `[]TokensCountItems` |
| `EndComesLast` | `LoopProofs` | the loop, if any, well formed: `[](~cancelled => EndIsLast)` |
| `DeliveryComplete` | `LoopProofs` | the loop, if any, well formed: `[]CompleteDelivery` |
| `NoFalseReport` | `StreamProofs` | without a feedback loop, if no code stops reading early: `NoFalseDeadlock` |
| `EdgesChannels` | `ChannelProofs` | without a feedback loop, `EdgesAreChannels` |
| `NeverDeadlocked` | `ChannelProofs` | without any cycle, if items are read as they come and to their end: `[]NoDeadlock` |
| `CreditsKept` | `NetEdgeProofs` | `[]CreditsAcrossWire` |
| `AckedArrived` | `NetEdgeProofs` | `[]AckedHasArrived` |
| `NoGap` | `NetEdgeProofs` | `[]NothingMissing` |
| `EndComplete` | `NetEdgeProofs` | `[]EndIsComplete` |
| `EdgeIsChannel` | `NetEdgeProofs` | `IsChannel`: every step is one of `Channel` or a stutter |
| `EditorSoundness` | `EditorProofs` | `[]EditorSound`: types without bounds, and what is used is there |
| `FlowsStayApart` | `EditorProofs` | nobody leaves a flow during a write: `[]FlowsApart` |
| `OnlySeenReplaced` | `EditorProofs` | nor begins a write during another: `NothingOverwrittenUnseen` |
| `CleanMeansSaved` | `EditorProofs` | nor edits during a save, nor before text or canvas has caught up: `[]CleanIsOnDisk` |
| `EditsKept` | `EditorProofs` | likewise: `[]NoEditLost` |
| `AlwaysUnderWay` | `EditorProofs` | nor saves or edits a body yet to be parsed: `[]SyncUnderWay` |
| `EditorBounded` | `EditorProofs` | `[]TypeOK`: the undo stack stays within its limit, and each stamp has been given |
| `ReaderIsHolder` | `PagesProofs` | `[]SessionAgrees` |
| `AnswersKeptApart` | `PagesProofs` | `~Hasty`: `[]TurnsApart` |
| `FlowsNeverLost` | `PagesProofs` | `~Lingers`: `[]FlowsKept` |
| `LinesComeOnce` | `PagesProofs` | `~MayReturn`: `[]ConsoleOnce` |
| `SectionsSavedApart` | `FormsProofs` | `~TypesOn`: `[]SectionsApart` |
| `HistoryTold` | `FormsProofs` | `~Wanders`: `[]DotTruthful` |
| `ParametersOwn` | `FormsProofs` | `~Early`: `[]OwnParameters` |
| `PeopleTold` | `FormsProofs` | `~Hops`: `[]UsersTruthful` |
| `PanelTells` | `FormsProofs` | `[]PanelAgrees`, whatever numbers are typed |

The assumptions are those of the modules. `GraphAssumption`: edges and the lists of
edges of a node agree, an edge is listed once among the outputs, no parallel edges.
`SizeAssumption`: positive capacities and batches. `CodeAssumption`: a node without outputs sends
nothing; on-demand edges do not batch. `WireAssumption` (`NetEdge`): the bounds are natural numbers, the
capacity is positive. `EditorAssumption`: there is a flow, as the editor's address names one, and finitely many of them; the undo stack holds
something; the bounds are natural numbers. The runs evaluate all of them. Any capacities, batches, policies, node
code, early stops and failures are covered, and any number of items, connections and drops.

**Credits.** `CreditConservation` is not inductive by itself. Whether a push and a release touch
the edge whose credits they account for depends on where the entry in hand, the
batch and the pending release came from. `CreditInv` adds that: `PlanWired` (a planned
send names an edge of its node), `HandWired` (an entry being pushed is for an edge
of the thread that pushes it), `QueueWired`, `BatchWired`, `ReleaseWired` (what a node has
queued, unpacked or is about to release came from an edge into it). That credits are never negative
comes from the guard of `Claim`: a sender takes credits in the same section that
found enough of them, or a receiver that is done. `BoundedQueue` follows since credits are never
negative.

**Wake-ups.** `WakeInv` adds to `CreditInv` what is true of a thread in `asleep` (`Sleeper`): it is at one of the
two waits; a reader's queue is empty; a sender whose wait is over has a receiver at `wake_producer` that
has its edge still to go through; and in a cancelled run the walk of `cancel` has not come to its
condition. `NoCancelYet` is what makes the last part inductive: the walk starts at the first condition, after the
flag, and happens once. The proof shows where each notification is needed: whoever makes a
predicate true notifies that condition in the same section, `Mark` alone hands it on to `WakeProducer`.

**Delivery.** `EndIsLast` and `CompleteDelivery` compare numbers of items, so the proof has to count an edge's items in a queue
shared with other edges. `Counted(s, e, x)` says that a queue holds `x` of them, by a witness `w` that
counts the oldest entries one by one, and that nothing of the edge comes after its end; it is kept by
an entry at the back and by taking the front away, with no recursion. `StreamInv` then says for each edge
that what was sent is received, held back, queued, in the sender's hand or pending, the end counting as one
(`Conserves`); that the end is sent last and with nothing pending (`Seals`, `Sealed`); for each node, that `close_all` flushes
each output before it ends any and ends each once (`Closes`), and that a node that closes without
having been stopped has read every input to its end and given all credits back (`Finishes`). It holds *while the
run is not cancelled*: `Unwind` drops the entry in hand, and the `finally` block may still push an end behind it, so a
cancelled run keeps none of this, and does not promise it.

**Loops.** In a graph with a feedback loop the head ends its feedback inputs on `LOOP_DONE`, and that nothing is on them
by then is a matter of the loop's counter. `LoopSound` says what the proof asks of the graph: feedback edges stay inside
the loop; each of its nodes is fed from inside, sends nothing before it has read, and does not stop early. The run `Loop`
meets it; a graph without a loop does too (`FreeIsSound`), so the two delivery theorems cover both. `LoopStop` shows why
the last part is needed: a worker that stops drops items that stay counted. `LoopInv` is `StreamInv` with, while the run is not
cancelled:

- `Serves`: a node of the loop owes it an item from the moment it takes one until it is through with it, sends included.
- `TokensCount`: the counter is the number of pairs of an edge inside the loop and the number of an item on it that nobody has
  taken (`Unfinished`), with the number of nodes that owe one (`Owers`). Counting pairs makes the sum over edges a
  cardinality, so that one item more or less is one element more or less, with no recursion.
- `OpenLoop`: until it closes its nodes go on reading, and `external` is the number of edges into it whose end has not been
  taken, with the nodes that have taken one and have yet to say so (`ExternalCounts`).
- `ClosedLoop`: once it has closed nobody owes anything, and nothing but ends is on its way to one of its nodes (`Dead`).

When it closes both counters are zero, so the sets they count are empty and, by `Conserves`, the edges are dead (`EmptyDead`): the
step from `OpenLoop` to `ClosedLoop`, which is what `_should_close` gets right.

**Channels.** `EdgesChannels` holds in every run, cancelled ones too, so it cannot rest on `Conserves`. Its invariant gives every
item its *number*: what is held back, in the current batch, in the queue, in the sender's hand and pending on an
edge numbers on from `got + 1`, place by place (`Stock`, `Line` for a queue shared with other edges, `Supplies`). `Has` and
`Backs` cut this at the last item that has reached the receiver: up to there nothing is ever given up; behind it a
sender that is cancelled may drop what it has in hand, and then sends nothing more. `Settled` and `Closed` say that
the end goes last: whoever holds it has nothing pending and none of it planned any more, and behind it in a queue
nothing of the edge is found. Each hand-over then takes the next number, which is the `Receive` of `Channel`; a put is its
`Send`. That no more than its `Limit` is under way follows from `Small` (at most one batch is with the sender) and the
credits.

**The watchdog.** The watchdog looks at `state`, not at threads, and counts ticks without a push or a pop. `WatchInv` says
what it may conclude. `Honest`: a node shown as waiting is at a wait, one shown as done has ended, and none is shown
as failed before the run is cancelled. `Still`: since a tick has seen every live node wait, nobody has done anything but wait
again, or take credits it was waiting for and stand before the push that will end the quiet. (That push is not
dropped: its receiver is done only once the end of the edge has come to it, which is where the hypothesis on stops
is needed.) So at the tick that reports, `slow = {}` leaves every live thread asleep, and `WakeInv` says of a sleeper that could
go on that its receiver is at `wake_producer`, which `Still` excludes.

`NeverDeadlocked` then asks who could be asleep. A thread that waits for room has a receiver that is not done and
that holds, in its queue or its hands, what the missing credits stand for; a receiver that waits for an entry holds nothing
(`NothingHeld`; this is where reading one source first would spoil it), so that receiver waits for room itself (`WaitsForRoom`). A thread
that waits for an entry has an input that is open; a sender that had ended would have left its end there, so the sender is alive
(`WaitsForEntry`). Along the first chain one comes to a last node, along the second to a first; `Lowest` and `Highest` find them. `Loop` and
`Side` are outside the theorem: one has a cycle, and never locks up on its bounds; the other reads one source first, and does.
`Pipeline` has a receiver that stops, and is outside for that.

**The edge between groups.** `IInv` follows the stream from the producer to the local node. `Inbox`: hand and inbox hold the
items after those sent, in order, the end behind them. `Count`: their number, which is what credits are compared
with. `Kept` and `Covered`: the frames in `unacked` are adjacent and reach from the last acknowledgement to the last item sent.
`Told`: the receiver never says more than it has taken. `OnWire`, `InTurn`, `Flowing`, `Ready`, `Fresh`: on every connection that can
still be read, the first frame starts no later than where the receiver is, each starts no later than the one
before it ends, and what the sender writes next goes on from there, also in the middle of resending. `Served`, `Finished`: what
has been given to `ctx.send` is exactly the items up to where the receiver is. That a new connection starts early enough
is the point of the argument: the sender takes the count in WELCOME for the receiver's position, and
`Queue` (connections are accepted in the order they are made) keeps the receiver from taking anything
off an older one after it has said so. `Held` bounds what is pending on the local side by a batch. For `EdgeIsChannel`, what is
inside are the items between `delivered` and `produced`, at most `Capacity + BatchSize - 1`: a production is a `Send`, a delivery a `Receive`, the end of the receiver an `End` or a
`Leave`, and every other step a stutter.

**The open flow.** The theorems hold for any number of flows, edits, saves and other writers, and any `HistoryLimit`. `flow`, the
newest `ask` and the requests in `calls` each hold a copy of a text, and which copy is the newest depends on who moved last; the
invariant is built in layers, each of which rests on those before, and each of which excludes only the habits it has to: TLC finds each theorem's property violated by every single
habit that the theorem excludes, and by none of the others.

- `EditorSound`: types, and `Whole`: a request goes only through the steps of its kind, and what an answer puts
  into the store is there. The layers above use it to split requests into kinds.
- `ApartInv` (no `"leave"`): whatever writes, and the dialog, is about the flow that is open (`Placed`), so an answer lands where it
  was asked from; the store, the requests, and the files hold only what is of their flow, down to the undo stack.
- `SeenInv` (nor `"save twice"`): one request at a time is not a mere load (`OneWriter`), and no stamp in hand is newer than what the
  person was shown (`ShownStamps`). A save that the server accepts has the file's newest stamp; so that version was seen.
- `EditsInv` (nor `"switch hands"` or `"edit while saving"`): text and model are never both ahead (`OneHand`), a save carries what the editor
  holds at every step of it (`SaveHolds`), and the model has every edit unless it is to be parsed again or could not be
  (`ModelHolds`). `Filed` relates each stamp to its version. `CleanIsOnDisk` and `NoEditLost` are read off.
- `SyncInv` (no habit at all): what is behind is due, asked for or has failed (`Catching`), and a model whose text may
  not parse is going to be verified (`Verified`), unless a save generates the text itself.
- `BoundsInv` (no habit at all), for the numbers in `TypeOK`. `pushHistory` cuts the stack wherever something is put on it, undo and
  redo only move a snapshot across (`ShortPast`). The versions of a file, with the requests that will still write one
  (`Due`), are no more than the saves, restores and events that have begun (`FilesCounted`): a request that
  wrote twice, or after having been refused, would exceed them. A stamp in hand is that of a version (`StampsCounted`).

For each action a lemma first states what it does, field by field, with the effects included (`UndoDoes`, `GenerateAnsweredDoes`, ...). The layers cite these
and need no definition of an action.

**The pages.** Each theorem lifts the bounds of `MCWeb` and `MCWatch`: any number of questions, values, sessions, changes and
requests under way, answered in any order or never. Where it has a hypothesis, that is one of the habits of section 4
(*What the person waits for*); without it TLC finds the property violated, so the hypothesis is as weak as the code allows.
What the invariants have in common is *which answer counts*. None of the properties is inductive, as each speaks of the moment
when nothing is under way; the invariant has to say of every request what its answer will be worth when it comes.

- `SessionInv`: the last answer to *who am I* that is on its way, or else the reader on screen, names the owner of the token held
  (`LastWord`), unless one asked after it has been heard: whoever changes the
  token asks again, and of two answers the one asked later speaks for the newer token.
- `AiThreadInv`: at most one request is in flight, and it is the one of the last turn and of the controller (`OneRequest`).
- `FlowsInv`: the deeds keep every flow at one path (`OnePath`, `NoneLost`), and the list that counts was asked for after the
  last deed the page has heard of (`ListTruthful`).
- `RunViewInv`: the socket's place in the run says what the console holds (`ToldSoFar`), and it is that of the run on screen
  (`Follows`); a run tells of its problem right before its last event, so it is counted once (`ToldLast`).
- `SettingsInv`: a save that somebody waits for is its section's only one, and the fields hold what it sent (`FieldsHold`), so its
  answer puts back nothing that was not there; what is sent of one section has nothing of another (`SavesApart`).
- `HistoryInv`: the newest question is about the flow that is open (`OpenFlowAsked`), and each thing git has said to it is
  still so unless something was done that the store has yet to ask about (`LastTruthful`).
- `ScheduleInv`: the parameters asked for are the chosen flow's, and the fields hold only its values once they have come (`FilledIn`).
- `UsersInv`: an order is numbered and no two under way set one password (`Numbered`); a password on screen was set by the last
  order for its owner, and none is under way (`SecretsOpen`); the list that counts is true of every order heard of
  (`PeopleTruthful`); nothing is ever asked of the account yet to be made (`NotYet`).

For the proof about `_acknowledge`, `Forget` states what `Acknowledge` keeps of `unacked` as a sequence and its properties,
and `Size` is a recursive function, so that sums over batches can be proved about. Inductions (`Least`, `Induction` in
`NetEdgeProofs`) go over sets of numbers, from the well-foundedness of `<` on `Nat`.

**Only model-checked**, and why:

- `EveryRunEnds`, `EndOrStarve` and the other liveness properties: fairness is beyond the prover. `LostOnlyInOutage`
  rests on timeouts that wait until nothing else can move (`Quiescent`), which is stated with ENABLED: so is that.
- `NoFalseDeadlock` with a receiver that stops early is not true of every graph. When it stops, its producers drop
  their sends to it and give credits back without a push or a pop; a chain of such stops can make several ticks look
  quiet although threads were just notified, and `done_event` is set at every `node_done`, so `done_event.wait(TICK)`
  (`runtime.py:741`) may return at once and the ticks be shorter than `TICK`. With a `StallLimit` of 1 TLC finds this on
  `Pipeline` with a wider first edge; with the limits the code uses it takes as many stops in a row. `Side` has none.
- `NoDeadlock` where the theorem does not apply: in a graph with a cycle, or with a receiver that reads one source first, it
  depends on the sizes and on the code of the nodes; with one that stops early, on the stall limit, as above.
- `EdgesAreChannels` and `NoFalseDeadlock` in a graph with a loop. Both hold on the bounds of `Loop` when added to it, where nothing
  is cancelled; no run states them and the theorems leave them out. What is missing is an invariant for a cancelled loop, which keeps
  nothing of `Looping` and yet must not end an edge that has items on it.
- Of the browser interface: `Blocks` is written with RECURSIVE operators on trees, which the prover cannot reason
  about; what `RunsList` promises is liveness.

## 7. What is not modelled

Of the runtime: the sync runtime, ordered and gathering farms, remote workers, async pools, sessions and
launching groups; of the server: the supervisor, the pass of the scheduler, notifications. They have
state and concurrency, stand in the plan, and are listed as hazards without a property where
that is where they would go wrong.

File parsing and code generation, HTTP, SQL, the model providers of the AI builder, the command
line and drawing are formats and I/O, without shared state.

Of the browser interface: the command palette, API tokens, samples, the check button, filters, taps, the report's
tables, log files, the preview of a schedule's coming times, templates, the parameters and environment rows, and everything
about sizes, wording and looks. `insertAfter`, `insertBefore` and `moveStage` of `edits.ts` have no control
on any page that calls them. CodeMirror's own undo is left out.

Known and outside every model, found while reading: text typed in a node's body is lost when its field is
closed within 400 ms (`NodeBody.tsx:47-54`); the result of a check lands on whichever flow is open by then
(`EditorPage.tsx:196-235`); clearing a schedule's sample is not stored, as the server ignores fields that
are `null`; renaming a flow leaves its schedules on the old path; an account made from a dialog that is closed before the
answer has a password nobody has seen; leaving the Flows, Users or Schedules page while a request is under way, which no
module has an action for: what the answer would have done to the page is not done, so a rename or a deletion
(`FlowsPage.tsx:146-157`) is not followed by a reload. Another administrator who adds accounts or resets passwords is
left out of `UsersPage`; the watchdog's scan of all nodes is one step of `Dataflow` (section 2), so reads of single nodes at
different moments are covered only as far as several quiet ticks show them.
