-------------------------------- MODULE Editor --------------------------------
(***************************************************************************)
(* One flow open in the browser's editor: the text and the model derived   *)
(* from it, the requests that keep the two together, the saves that write  *)
(* the file, and what can replace it under them: another writer, another   *)
(* flow, an older version, a draft of the builder.                         *)
(*                                                                         *)
(* Content is the set of edits it contains.  A text and the model it is    *)
(* parsed to have the same edits; a text that is not `ok' cannot be        *)
(* modelled.  JavaScript is single threaded: an action is one callback, or *)
(* the part of an async function between two awaits.                       *)
(***************************************************************************)
EXTENDS Integers, Sequences, FiniteSets, SequencesExt

CONSTANTS
    Flows,        \* the flows of the workspace
    MaxEdits,     \* edits ever made, undos and redos counted
    MaxSaves,     \* saves ever begun
    MaxEvents,    \* what else happens: cards dragged, flows left, versions restored,
                  \* writes of somebody else, requests that fail or lose their answer
    HistoryLimit, \* HISTORY_LIMIT, 100 in the code
    Hurried       \* what the person does without waiting: see Waited

Edits == 1..MaxEdits
NoFlow == "none"
Habits == {"switch hands", "edit while saving", "save twice", "unverified", "leave"}

ASSUME EditorAssumption ==
    /\ IsFiniteSet(Flows) /\ Flows # {} /\ NoFlow \notin Flows
    /\ {MaxEdits, MaxSaves, MaxEvents} \subseteq Nat
    /\ HistoryLimit \in Nat \ {0} /\ Hurried \subseteq Habits

Texts == [of: Flows, has: SUBSET Edits, ok: BOOLEAN]
Null == [of |-> NoFlow, has |-> {}, ok |-> FALSE]     \* model === null
Layouts == [of: Flows, moved: 0..MaxEvents]
NoLayout == [of |-> NoFlow, moved |-> 0]
MaxStamp == Cardinality(Flows) + MaxSaves + MaxEvents

VARIABLES
    route,      \* the path in the address bar
    flow,       \* store/flow.ts
    sync,       \* editor/code/syncStore.ts, and the two timers of sync.ts
    ask,        \* the newest parse or generate request, the only one that counts
    calls,      \* saves, loads and restores in flight
    disk,       \* per flow, the versions of its file; `modified' is the last one's number
    sidecar,    \* per flow, the layout on disk
    kept,       \* history: the edits the person has not taken back in the open flow
    seen,       \* history: per flow, the last version the editor has shown or written
    edits, saves, events    \* counters

vars == <<route, flow, sync, ask, calls, disk, sidecar, kept, seen, edits, saves, events>>
server == <<disk, sidecar>>
counts == <<edits, saves, events>>
history == <<kept, seen>>

Initial ==
    [path |-> NoFlow, source |-> Null, modified |-> 0, model |-> Null, layout |-> NoLayout,
     dirty |-> FALSE, layoutDirty |-> FALSE, stale |-> FALSE,
     past |-> <<>>, future |-> <<>>]
NoConflict == [path |-> NoFlow, mine |-> Null, theirs |-> Null, modified |-> 0]
Reset ==
    [parseDue |-> FALSE, generateDue |-> FALSE, verify |-> FALSE, phase |-> "idle",
     failure |-> FALSE, conflict |-> NoConflict]
NoAsk == [kind |-> "none", given |-> Null, verify |-> FALSE]
FirstText(f) == [of |-> f, has |-> {}, ok |-> TRUE]

\* what GET answers: the file, and its stamp
LastText(f) == Last(disk[f])
Stamp(f) == Len(disk[f])

Call(why, step, f, text, stamp, layout) ==
    [why |-> why, step |-> step, path |-> f, text |-> text, stamp |-> stamp,
     layout |-> layout]
Opening(f) == Call("open", "asked", f, Null, 0, NoLayout)

TypeOK ==
    /\ route \in Flows
    /\ flow.path \in Flows \union {NoFlow}
    /\ {flow.source, flow.model} \subseteq Texts \union {Null}
    /\ flow.layout \in Layouts \union {NoLayout} /\ flow.modified \in 0..MaxStamp
    /\ {flow.dirty, flow.layoutDirty, flow.stale} \subseteq BOOLEAN
    /\ flow.past \in BoundedSeq(Texts \union {Null}, HistoryLimit)
    /\ flow.future \in Seq(Texts \union {Null})
    /\ sync.phase \in {"idle", "parsing", "generating"}
    /\ {sync.parseDue, sync.generateDue, sync.verify, sync.failure} \subseteq BOOLEAN
    /\ ask.kind \in {"none", "parse", "generate"}
    /\ \A c \in calls : c.why \in {"save", "keep", "open", "theirs", "restore"}
    /\ \A f \in Flows : sidecar[f] \in Layouts /\ Len(disk[f]) \in 1..MaxStamp
    /\ kept \subseteq Edits

Init ==
    /\ route = (CHOOSE f \in Flows : TRUE) /\ calls = {Opening(route)}
    /\ flow = Initial /\ sync = Reset /\ ask = NoAsk
    /\ disk = [f \in Flows |-> <<FirstText(f)>>]
    /\ sidecar = [f \in Flows |-> [of |-> f, moved |-> 0]]
    /\ kept = {} /\ seen = [f \in Flows |-> 0]
    /\ edits = 0 /\ saves = 0 /\ events = 0

-----------------------------------------------------------------------------
(* The flow store's setters, as functions of its state.                    *)

Parsed(text) == IF text.ok THEN text ELSE Null

ServerFlow(f, text, stamp, layout) ==       \* applyServerFlow
    [Initial EXCEPT !.path = f, !.source = text, !.modified = stamp,
                    !.model = Parsed(text), !.layout = layout]

\* applyParse; relayout drops the positions of blocks that are gone
WithParse(s, text) == [s EXCEPT !.model = Parsed(text)]

WithSource(s, text) == [s EXCEPT !.source = text, !.stale = FALSE]

\* mutant: the stack is never cut to HISTORY_LIMIT
PushedWhole(s) == IF s.model = Null THEN s.past ELSE Append(s.past, s.model)
Pushed(s) ==                                \* pushHistory
    IF s.model = Null THEN s.past
    ELSE LET all == Append(s.past, s.model)
         IN  SubSeq(all, IF Len(all) > HistoryLimit THEN 2 ELSE 1, Len(all))

WithModel(s, m) ==
    [s EXCEPT !.past = Pushed(s), !.future = <<>>, !.model = m,
              !.dirty = TRUE, !.stale = TRUE]

\* mutant: the stamp of the answer is not kept
SavedOldStamp(s, text, stamp) == [s EXCEPT !.source = text, !.dirty = FALSE, !.stale = FALSE]
Saved(s, text, stamp) ==                    \* markSaved
    [s EXCEPT !.source = text, !.modified = stamp, !.dirty = FALSE, !.stale = FALSE]

Restored(s, m) ==
    [s EXCEPT !.model = m, !.dirty = TRUE, !.layoutDirty = TRUE, !.stale = TRUE]

(* The effects of useCodeSync run after every change of the store: another *)
(* path resets the sync store and stops the parse timer; another model, or *)
(* another `sourceStale', starts the generate timer again or stops it.     *)
Effects(s, y) ==
    LET z == IF s.path # flow.path THEN Reset ELSE y
        due == s.stale /\ s.model # Null
               /\ (sync.generateDue \/ s.stale # flow.stale \/ s.model # flow.model)
    IN  /\ flow' = s
        /\ sync' = [z EXCEPT !.generateDue = due]

-----------------------------------------------------------------------------
(* What the person does.  Hurried names what is done without waiting for   *)
(* the sync or for a save; what it leaves out waits.                       *)

Busy(why) == \E c \in calls : c.why \in why
Writing == Busy({"save", "keep", "restore", "theirs"})
TextBehind ==             \* the model has to catch up with the text, or could not
    sync.parseDue \/ ask.kind = "parse" \/ sync.failure
ModelAhead == flow.stale \/ ask.kind = "generate"     \* the text has to catch up

Waited(habit, busy) == habit \in Hurried \/ ~busy
Attended ==               \* a flow is open, and no dialog lies over it
    flow.path # NoFlow /\ sync.conflict = NoConflict

MayType ==
    /\ Attended
    /\ Waited("switch hands", ModelAhead) /\ Waited("edit while saving", Writing)

MayEdit ==
    /\ Attended
    /\ Waited("switch hands", TextBehind) /\ Waited("edit while saving", Writing)
    /\ Waited("unverified", ask.verify)

\* sourceTyped: editSource, then markTyped
Type(ok) ==
    /\ MayType /\ edits < MaxEdits
    /\ LET e == edits + 1
           text == [flow.source EXCEPT !.has = @ \union {e}, !.ok = ok]
       IN  /\ Effects([flow EXCEPT !.source = text, !.dirty = TRUE, !.stale = FALSE],
                      [sync EXCEPT !.parseDue = TRUE, !.failure = FALSE])
           /\ edits' = e /\ kept' = kept \union {e}
    /\ UNCHANGED <<route, ask, calls, server, seen, saves, events>>

\* edit, setStart, the parameters (body = FALSE), and nodeSourceTyped (body = TRUE)
Edit(body, ok) ==
    /\ MayEdit /\ flow.model # Null /\ edits < MaxEdits
    /\ LET e == edits + 1
           m == [flow.model EXCEPT !.has = @ \union {e}, !.ok = IF body THEN ok ELSE @]
       IN  /\ Effects([WithModel(flow, m) EXCEPT !.layoutDirty = IF body THEN @ ELSE TRUE],
                      IF body THEN [sync EXCEPT !.verify = TRUE, !.failure = FALSE] ELSE sync)
           /\ edits' = e /\ kept' = kept \union {e}
    /\ UNCHANGED <<route, ask, calls, server, seen, saves, events>>

Move ==
    /\ MayEdit /\ events < MaxEvents
    /\ Effects([flow EXCEPT !.layout.moved = @ + 1, !.layoutDirty = TRUE], sync)
    /\ events' = events + 1
    /\ UNCHANGED <<route, ask, calls, server, history, edits, saves>>

Undo ==
    /\ MayEdit /\ flow.past # <<>> /\ edits < MaxEdits
    /\ LET m == Last(flow.past)
       IN  /\ Waited("unverified", ~m.ok)
           /\ Effects([Restored(flow, m) EXCEPT !.past = Front(@),
                                                !.future = Append(@, flow.model)], sync)
           /\ kept' = m.has
    /\ edits' = edits + 1
    /\ UNCHANGED <<route, ask, calls, server, seen, saves, events>>

\* a snapshot taken while there was no model cannot be restored: validateModel throws
Redo ==
    /\ MayEdit /\ flow.future # <<>> /\ edits < MaxEdits
    /\ LET m == Last(flow.future)
           s == [flow EXCEPT !.past = SubSeq(Append(@, flow.model),
                     IF Len(@) = HistoryLimit THEN 2 ELSE 1, Len(@) + 1)]
       IN  /\ Waited("unverified", m # Null /\ ~m.ok)
           /\ IF m = Null
              THEN Effects(s, sync) /\ UNCHANGED kept
              ELSE /\ Effects([Restored(s, m) EXCEPT !.future = Front(@)], sync)
                   /\ kept' = m.has
    /\ edits' = edits + 1
    /\ UNCHANGED <<route, ask, calls, server, seen, saves, events>>

\* applyDraftToEditor: the draft takes the place of the text, under the same stamp
ApplyDraft(ok) ==
    /\ MayEdit /\ Waited("switch hands", ModelAhead) /\ edits < MaxEdits
    /\ LET e == edits + 1
           text == [flow.source EXCEPT !.has = {e}, !.ok = ok]
           s == ServerFlow(flow.path, text, flow.modified, flow.layout)
       IN  /\ Effects([s EXCEPT !.dirty = TRUE, !.past = Pushed(flow)], sync)
           /\ edits' = e /\ kept' = {e}
    /\ UNCHANGED <<route, ask, calls, server, seen, saves, events>>

\* save(), up to its first await: Ctrl+S, the button, the palette, before a run
Save ==
    /\ Attended /\ saves < MaxSaves /\ Waited("save twice", Writing)
    /\ Waited("leave", flow.path # route \/ Busy({"open"}))
    /\ Waited("unverified", sync.verify \/ ask.verify)
    /\ saves' = saves + 1
    /\ LET generate == flow.stale /\ flow.model # Null
       IN  calls' = calls \union
              {Call("save", IF generate THEN "generate" ELSE "put", flow.path,
                    IF generate THEN flow.model ELSE flow.source, flow.modified,
                    NoLayout)}
    /\ UNCHANGED <<route, flow, sync, ask, server, history, edits, events>>

\* another flow's address: the answer for the one before is no longer awaited
Go(f) ==
    /\ f # route /\ sync.conflict = NoConflict
    /\ Waited("leave", Writing) /\ events < MaxEvents
    /\ events' = events + 1
    /\ route' = f
    /\ calls' = {c \in calls : c.why # "open"} \union {Opening(f)}
    /\ UNCHANGED <<flow, sync, ask, server, history, edits, saves>>

\* HistoryPanel: write an older version back and open it
Restore ==
    /\ Attended /\ events < MaxEvents /\ Waited("save twice", Writing)
    /\ Waited("leave", flow.path # route \/ Busy({"open"}))
    /\ Waited("edit while saving", TextBehind \/ ModelAhead)
    /\ calls' = calls \union {Call("restore", "asked", flow.path, Null, 0, NoLayout)}
    /\ events' = events + 1
    /\ UNCHANGED <<route, flow, sync, ask, server, history, edits, saves>>

\* the dialog's three buttons; while one of the two works they are disabled
\* mutant: the stamp is asked for again when the button is pressed
KeepLatest ==
    /\ sync.conflict # NoConflict /\ ~Busy({"keep", "theirs"})
    /\ saves < MaxSaves /\ saves' = saves + 1
    /\ calls' = calls \union {Call("keep", "put", sync.conflict.path, sync.conflict.mine,
                                   Stamp(sync.conflict.path), NoLayout)}
    /\ UNCHANGED <<route, flow, sync, ask, server, history, edits, events>>

KeepMine ==
    /\ sync.conflict # NoConflict /\ ~Busy({"keep", "theirs"})
    /\ saves < MaxSaves /\ saves' = saves + 1
    /\ calls' = calls \union {Call("keep", "put", sync.conflict.path, sync.conflict.mine,
                                   sync.conflict.modified, NoLayout)}
    /\ UNCHANGED <<route, flow, sync, ask, server, history, edits, events>>

TakeTheirs ==
    /\ sync.conflict # NoConflict /\ ~Busy({"keep", "theirs"})
    /\ calls' = calls \union {Call("theirs", "asked", sync.conflict.path, Null, 0, NoLayout)}
    /\ UNCHANGED <<route, flow, sync, ask, server, history, counts>>

CancelConflict ==
    /\ sync.conflict # NoConflict /\ ~Busy({"keep", "theirs"})
    /\ sync' = [sync EXCEPT !.conflict = NoConflict]
    /\ UNCHANGED <<route, flow, ask, calls, server, history, counts>>

-----------------------------------------------------------------------------
(* The sync: a timer asks, an answer is applied unless it was overtaken.   *)

\* runParse: ++sequence makes the request before it one that nobody listens to
RunParse ==
    /\ sync.parseDue
    /\ sync' = [sync EXCEPT !.parseDue = FALSE, !.phase = "parsing"]
    /\ ask' = [kind |-> "parse", given |-> flow.source, verify |-> FALSE]
    /\ UNCHANGED <<route, flow, calls, server, history, counts>>

\* mutant: nobody looks whether the text has moved on
ParseAnsweredLate ==
    /\ ask.kind = "parse"
    /\ flow' = WithParse(flow, ask.given)
    /\ sync' = [sync EXCEPT !.phase = "idle", !.failure = FALSE]
    /\ ask' = NoAsk
    /\ UNCHANGED <<route, calls, server, history, counts>>

ParseAnswered ==
    /\ ask.kind = "parse"
    /\ IF flow.source = ask.given
       THEN LET s == WithParse(flow, ask.given)
            IN  /\ flow' = s
                /\ sync' = [sync EXCEPT !.phase = "idle", !.failure = FALSE,
                                        !.generateDue = s.stale /\ s.model # Null]
       ELSE sync' = [sync EXCEPT !.phase = "idle"] /\ UNCHANGED flow
    /\ ask' = NoAsk
    /\ UNCHANGED <<route, calls, server, history, counts>>

RunGenerate ==
    /\ sync.generateDue
    /\ sync' = [sync EXCEPT !.generateDue = FALSE, !.phase = "generating", !.verify = FALSE]
    /\ ask' = [kind |-> "generate", given |-> flow.model, verify |-> sync.verify]
    /\ UNCHANGED <<route, flow, calls, server, history, counts>>

\* mutant: nobody looks whether the model has moved on
GenerateAnsweredLate ==
    /\ ask.kind = "generate"
    /\ Effects(WithSource(flow, ask.given), [sync EXCEPT !.phase = "idle"])
    /\ ask' = NoAsk
    /\ UNCHANGED <<route, calls, server, history, counts>>

\* mutant: the answer is not parsed again after a node's body was rewritten
GenerateUnverified ==
    /\ ask.kind = "generate"
    /\ IF flow.model # ask.given
       THEN sync' = [sync EXCEPT !.phase = "idle"] /\ UNCHANGED flow
       ELSE Effects(WithSource(flow, ask.given), [sync EXCEPT !.failure = FALSE, !.phase = "idle"])
    /\ ask' = NoAsk
    /\ UNCHANGED <<route, calls, server, history, counts>>

\* a verified one goes on with runParse at once
GenerateAnswered ==
    /\ ask.kind = "generate"
    /\ IF flow.model # ask.given
       THEN /\ sync' = [sync EXCEPT !.phase = "idle"]
            /\ ask' = NoAsk /\ UNCHANGED flow
       ELSE LET s == WithSource(flow, ask.given)
            IN  /\ Effects(s, [sync EXCEPT !.failure = FALSE,
                                 !.phase = IF ask.verify THEN "parsing" ELSE "idle"])
                /\ ask' = IF ask.verify
                          THEN [kind |-> "parse", given |-> s.source, verify |-> FALSE]
                          ELSE NoAsk
    /\ UNCHANGED <<route, calls, server, history, counts>>

\* mutant: the finally block leaves the phase as it is
AskFailsSilently ==
    /\ ask.kind # "none" /\ events < MaxEvents
    /\ events' = events + 1
    /\ sync' = [sync EXCEPT !.failure = TRUE]
    /\ ask' = NoAsk
    /\ UNCHANGED <<route, flow, calls, server, history, edits, saves>>

AskFails ==
    /\ ask.kind # "none" /\ events < MaxEvents
    /\ events' = events + 1
    /\ sync' = [sync EXCEPT !.phase = "idle", !.failure = TRUE]
    /\ ask' = NoAsk
    /\ UNCHANGED <<route, flow, calls, server, history, edits, saves>>

-----------------------------------------------------------------------------
(* The server: it answers a request at some moment between the two halves  *)
(* of the caller.  Somebody else writes the same files.                    *)

Goes(c, d) == calls' = (calls \ {c}) \union {d}
Ends(c) == calls' = calls \ {c}

ServerWrites(c) ==                  \* PUT /api/flows/{path}
    /\ c.step = "put"
    /\ IF c.stamp = Stamp(c.path)
       THEN /\ disk' = [disk EXCEPT ![c.path] = Append(@, c.text)]
            /\ Goes(c, [c EXCEPT !.step = "written", !.stamp = @ + 1])
            /\ seen' = [seen EXCEPT ![c.path] = Stamp(c.path) + 1]
       ELSE /\ Goes(c, [c EXCEPT !.step = "refused", !.text = LastText(c.path),
                                 !.stamp = Stamp(c.path)])
            /\ UNCHANGED <<disk, seen>>
    /\ UNCHANGED <<route, flow, sync, ask, sidecar, kept, counts>>

ServerReads(c) ==                   \* GET /api/flows/{path}
    /\ c.step = "asked" /\ c.why # "restore"
    /\ Goes(c, [c EXCEPT !.step = "answered", !.text = LastText(c.path),
                         !.stamp = Stamp(c.path), !.layout = sidecar[c.path]])
    /\ UNCHANGED <<route, flow, sync, ask, server, history, counts>>

ServerRestores(c) ==                \* POST .../restore: the file, and the sidecar if it was
    /\ c.step = "asked" /\ c.why = "restore"              \* in that commit: an earlier layout
    /\ \E i \in 1..Stamp(c.path), n \in 0..sidecar[c.path].moved :
          LET text == disk[c.path][i]
              layout == [sidecar[c.path] EXCEPT !.moved = n]
          IN  /\ disk' = [disk EXCEPT ![c.path] = Append(@, text)]
              /\ sidecar' = [sidecar EXCEPT ![c.path] = layout]
              /\ Goes(c, [c EXCEPT !.step = "answered", !.text = text,
                                   !.stamp = Stamp(c.path) + 1, !.layout = layout])
    /\ UNCHANGED <<route, flow, sync, ask, history, counts>>

ServerLayout(c) ==                  \* PUT /api/flows/{path}/layout
    /\ c.step = "layout"
    /\ sidecar' = [sidecar EXCEPT ![c.path] = c.layout]
    /\ Goes(c, [c EXCEPT !.step = "laid"])
    /\ UNCHANGED <<route, flow, sync, ask, disk, history, counts>>

OtherWrites(f) ==
    /\ events < MaxEvents
    /\ events' = events + 1
    /\ disk' = [disk EXCEPT ![f] = Append(@, FirstText(f))]
    /\ UNCHANGED <<route, flow, sync, ask, calls, sidecar, history, edits, saves>>

-----------------------------------------------------------------------------
(* The answers.                                                            *)

SaveGenerated(c) ==
    /\ c.step = "generate"
    /\ Effects(WithSource(flow, c.text), sync)
    /\ Goes(c, [c EXCEPT !.step = "put"])
    /\ UNCHANGED <<route, ask, server, history, counts>>

SaveAnswered(c) ==
    /\ c.step = "written" /\ c.why = "save"
    /\ Effects(Saved(flow, c.text, c.stamp), sync)
    /\ IF flow.layoutDirty
       THEN Goes(c, [c EXCEPT !.step = "layout", !.layout = flow.layout])
       ELSE Ends(c)
    /\ UNCHANGED <<route, ask, server, history, counts>>

LayoutAnswered(c) ==
    /\ c.step = "laid"
    /\ flow' = [flow EXCEPT !.layoutDirty = FALSE]
    /\ Ends(c)
    /\ UNCHANGED <<route, sync, ask, server, history, counts>>

\* reportSaveFailure opens the dialog for the flow that is open now
SaveRefused(c) ==
    /\ c.step = "refused" /\ c.why = "save"
    /\ sync' = [sync EXCEPT !.phase = "idle",
                  !.conflict = [path |-> flow.path, mine |-> flow.source,
                                theirs |-> c.text, modified |-> c.stamp]]
    /\ seen' = [seen EXCEPT ![c.path] = c.stamp]
    /\ Ends(c)
    /\ UNCHANGED <<route, flow, ask, server, kept, counts>>

KeepAnswered(c) ==
    /\ c.step = "written" /\ c.why = "keep"
    /\ Effects(WithParse(Saved(flow, c.text, c.stamp), c.text),
               [sync EXCEPT !.conflict = NoConflict])
    /\ Ends(c)
    /\ UNCHANGED <<route, ask, server, history, counts>>

\* the dialog stays, with its old stamp: only Cancel and another save go on
KeepRefused(c) ==
    /\ c.step = "refused" /\ c.why = "keep"
    /\ Ends(c)
    /\ UNCHANGED <<route, flow, sync, ask, server, history, counts>>

\* a load, `take theirs' and a restore all end in applyServerFlow
FlowAnswered(c) ==
    /\ c.step = "answered"
    /\ Effects(ServerFlow(c.path, c.text, c.stamp, c.layout),
               IF c.why = "theirs" THEN [sync EXCEPT !.conflict = NoConflict] ELSE sync)
    /\ kept' = c.text.has
    /\ seen' = [seen EXCEPT ![c.path] = c.stamp]
    /\ Ends(c)
    /\ UNCHANGED <<route, ask, server, counts>>

\* a request that does not arrive, or an answer that does not, to one that has
\* changed the file even
CallFails(c) ==
    /\ events < MaxEvents
    /\ events' = events + 1
    /\ Ends(c)
    /\ UNCHANGED <<route, flow, sync, ask, server, history, edits, saves>>

-----------------------------------------------------------------------------

Person ==
    \/ \E ok \in BOOLEAN : Type(ok) \/ ApplyDraft(ok)
    \/ \E ok \in BOOLEAN : Edit(TRUE, ok)
    \/ Edit(FALSE, TRUE) \/ Move \/ Undo \/ Redo \/ Save \/ Restore
    \/ \E f \in Flows : Go(f)
    \/ KeepMine \/ TakeTheirs \/ CancelConflict

Syncs == RunParse \/ ParseAnswered \/ RunGenerate \/ GenerateAnswered

Serves(c) == ServerWrites(c) \/ ServerReads(c) \/ ServerRestores(c) \/ ServerLayout(c)

Answers(c) ==
    \/ SaveGenerated(c) \/ SaveAnswered(c) \/ LayoutAnswered(c) \/ SaveRefused(c)
    \/ KeepAnswered(c) \/ KeepRefused(c) \/ FlowAnswered(c)

Requests == \E c \in calls : Serves(c) \/ Answers(c)

Faults == AskFails \/ (\E c \in calls : CallFails(c)) \/ \E f \in Flows : OtherWrites(f)

Next == Person \/ Syncs \/ Requests \/ Faults

\* a timer fires, and a request is answered or fails; nobody need do anything else
Fairness == WF_vars(Syncs)

Spec == Init /\ [][Next]_vars /\ Fairness

-----------------------------------------------------------------------------
(* Properties.                                                             *)

\* What will be saved: a stale text is generated from the model first.
Effective == IF flow.stale /\ flow.model # Null THEN flow.model ELSE flow.source

\* No edit of the open flow gets lost between the text and the model: typing while a
\* parse is due or under way, drawing while a generation is, answers that are overtaken
\* or lost, undo, drafts, other writers; and a conflict dialog holds them all (flow.ts
\* markSaved, ConflictDialog.tsx:5).  `Typing never loses a character and never waits
\* for a request' (sync.ts:5) is more than the code keeps, and than this says: with
\* Hurried = {} nobody types before what was drawn has reached the text, draws before
\* what was typed has reached the canvas, or edits anything during a save or a restore.
\* Each of these loses edits, and is a habit of its own.
NoEditLost ==
    flow.path # NoFlow =>
        /\ kept \subseteq Effective.has
        /\ sync.conflict # NoConflict => kept \subseteq sync.conflict.mine.has

\* A flow that is not shown as unsaved is the version of the file its stamp
\* names, letter for letter (flow.ts dirty and modified).
CleanIsOnDisk ==
    (flow.path # NoFlow /\ ~flow.dirty) =>
        ~flow.stale /\ disk[flow.path][flow.modified] = flow.source

\* When the text and the model differ something is due or under way that brings
\* them together, or the view says so: `Canvas in sync' is true, and no request
\* overtaken by another leaves the two apart (sync.ts:4, sync.ts:16, statusOf).
SyncUnderWay ==
    (flow.path # NoFlow /\ (flow.stale \/ flow.model # Parsed(flow.source))) =>
        sync.parseDue \/ sync.generateDue \/ ask.kind # "none" \/ sync.failure \/ Writing

\* Text, model and layout of one flow never get into another's editor, file or
\* sidecar, with requests of the one before still in flight (EditorPage.tsx:129).
FlowsApart ==
    /\ \A f \in Flows : sidecar[f].of = f /\ \A i \in DOMAIN disk[f] : disk[f][i].of = f
    /\ flow.path # NoFlow =>
          /\ flow.source.of = flow.path /\ flow.layout.of = flow.path
          /\ flow.model # Null => flow.model.of = flow.path

\* A save, the first or `keep mine', only ever replaces a version the person has
\* seen, in the editor or in the dialog (flow.ts modified, ConflictDialog.tsx:4).
NothingOverwrittenUnseen ==
    [][\A c \in calls : ServerWrites(c) =>
          (disk' # disk => seen[c.path] = Stamp(c.path))]_vars

\* Whatever is typed or drawn, the text and the model agree again, or the view
\* says that they do not; and it does not stay `Reading the flow...'.
CatchesUp ==
    (sync.parseDue \/ sync.generateDue \/ ask.kind # "none") ~>
        /\ sync.phase = "idle"
        /\ sync.failure \/ (~flow.stale /\ flow.model = Parsed(flow.source))
=============================================================================
