------------------------------ MODULE EditorProofs ------------------------------
(***************************************************************************)
(* What the editor promises for any number of edits, saves and other       *)
(* writers: flows stay apart, nothing unseen is overwritten, no edit is    *)
(* lost between the text and the model, and a flow shown as saved is.      *)
(***************************************************************************)
EXTENDS Editor, FiniteSetTheorems, SequenceTheorems, TLAPS

-----------------------------------------------------------------------------
(* Types: nothing here is bounded but the numbers edits are given. That    *)
(* stacks and stamps stay within the bounds of TypeOK comes last.          *)

Sheets == Texts \union {Null}
Plans == [of : Flows, moved : Nat]
Dialogs == [path : Flows \union {NoFlow}, mine : Sheets, theirs : Sheets, modified : Nat]
OpenFlows ==
    [path : Flows \union {NoFlow}, source : Sheets, modified : Nat, model : Sheets,
     layout : Plans \union {NoLayout}, dirty : BOOLEAN, layoutDirty : BOOLEAN, stale : BOOLEAN,
     past : Seq(Sheets), future : Seq(Sheets)]
Syncing ==
    [parseDue : BOOLEAN, generateDue : BOOLEAN, verify : BOOLEAN,
     phase : {"idle", "parsing", "generating"}, failure : BOOLEAN, conflict : Dialogs]
Questions == [kind : {"none", "parse", "generate"}, given : Sheets, verify : BOOLEAN]
Calls ==
    [why : {"save", "keep", "open", "theirs", "restore"},
     step : {"generate", "put", "written", "refused", "layout", "laid", "asked", "answered"},
     path : Flows, text : Sheets, stamp : Nat, layout : Plans \union {NoLayout}]

EditorTyped ==
    /\ route \in Flows /\ flow \in OpenFlows /\ sync \in Syncing /\ ask \in Questions
    /\ calls \subseteq Calls
    /\ disk \in [Flows -> Seq(Texts)] /\ \A f \in Flows : disk[f] # <<>>
    /\ sidecar \in [Flows -> Plans]
    /\ kept \subseteq Edits /\ seen \in [Flows -> Nat] /\ edits \in 0..MaxEdits

\* What a request for a flow goes through.
Steps(why) ==
    CASE why = "save" -> {"generate", "put", "written", "refused", "layout", "laid"}
      [] why = "keep" -> {"put", "written", "refused"}
      [] OTHER -> {"asked", "answered"}

\* What is there when it is used: a flow that is open has a text, what is sent is something.
Whole ==
    /\ flow.path # NoFlow => flow.source # Null /\ flow.layout # NoLayout
    /\ \A c \in calls :
          /\ c.step \in Steps(c.why)
          /\ c.why # "open" => flow.path # NoFlow
          /\ c.step \in {"generate", "put", "written", "answered"} => c.text # Null
          /\ c.step \in {"layout", "answered"} => c.layout # NoLayout
    /\ sync.conflict # NoConflict =>
          flow.path # NoFlow /\ sync.conflict.path # NoFlow /\ sync.conflict.mine # Null
    /\ sync.generateDue => flow.stale /\ flow.model # Null
    /\ ask.kind = "generate" => ask.given # Null

EditorSound == EditorTyped /\ Whole

-----------------------------------------------------------------------------
(* Flows apart: whoever leaves no flow that is being written.              *)

\* A flow that is written is the one that is open, and no other is on its way.
Settled(f) == f = flow.path /\ flow.path = route /\ \A c \in calls : c.why # "open"
Placed ==
    /\ \A c \in calls : IF c.why = "open" THEN c.path = route ELSE Settled(c.path)
    /\ sync.conflict # NoConflict =>
          Settled(sync.conflict.path) /\ sync.conflict.mine.of = sync.conflict.path

\* Whatever is in hand of a flow, or on its way to it, is its own.
Snapshots(s, f) == \A i \in 1..Len(s) : s[i] # Null => s[i].of = f
Belongs(f) ==
    /\ Snapshots(flow.past, f) /\ Snapshots(flow.future, f)
    /\ flow.model # Null => flow.model.of = f
OwnFlow ==
    flow.path # NoFlow =>
        flow.source.of = flow.path /\ flow.layout.of = flow.path /\ Belongs(flow.path)
OwnCalls ==
    \A c \in calls :
        /\ c.step \in {"generate", "put", "written", "answered"} => c.text.of = c.path
        /\ c.step \in {"layout", "answered"} => c.layout.of = c.path
OwnFiles == \A f \in Flows : sidecar[f].of = f /\ \A i \in 1..Len(disk[f]) : disk[f][i].of = f

ApartInv == Placed /\ OwnFlow /\ OwnCalls /\ OwnFiles

-----------------------------------------------------------------------------
(* Versions: whoever begins no save or restore during another, either.     *)

\* One request writes at a time; the dialog's are made while it is open, the others before.
OneWriter ==
    /\ \A c, d \in calls : c.why # "open" /\ d.why # "open" => c = d
    /\ \A c \in calls : /\ c.why \in {"keep", "theirs"} => sync.conflict # NoConflict
                        /\ c.why \in {"save", "restore"} => sync.conflict = NoConflict
\* No stamp in hand is newer than what the person was shown.
ShownStamps ==
    /\ \A f \in Flows : seen[f] <= Stamp(f)
    /\ flow.path # NoFlow => flow.modified <= seen[flow.path]
    /\ sync.conflict # NoConflict => sync.conflict.modified <= seen[sync.conflict.path]
    /\ \A c \in calls :
          /\ c.step \in {"generate", "put", "written"} => c.stamp <= seen[c.path]
          /\ c.step = "refused" => c.stamp <= Stamp(c.path) /\ flow.modified <= c.stamp
          /\ c.step = "answered" => c.stamp <= Stamp(c.path)

SeenInv == OneWriter /\ ShownStamps

-----------------------------------------------------------------------------
(* Text and model: whoever does not switch hands before the first is done, *)
(* and does not edit during a save, either.                                *)

Generating == ask.kind = "generate" /\ ask.given = flow.model
Parsing == ask.kind = "parse" /\ ask.given = flow.source

\* The text is ahead of the model, or the model of the text, and never both.
OneHand ==
    /\ sync.parseDue \/ ask.kind = "parse" => ~flow.stale
    /\ flow.stale => flow.dirty
    /\ Generating => flow.stale \/ flow.source = ask.given

\* A version the server has told of is on its disk.
OnFile(f, n, text) == n \in 1..Len(disk[f]) /\ disk[f][n] = text
Filed ==
    /\ flow.path # NoFlow /\ ~flow.dirty => OnFile(flow.path, flow.modified, flow.source)
    /\ \A c \in calls : c.step \in {"written", "answered"} => OnFile(c.path, c.stamp, c.text)

\* A save carries what the editor holds.
Carried(c) ==
    /\ c.step = "generate" =>
          /\ flow.dirty /\ (flow.model = Null \/ kept \subseteq flow.model.has)
          /\ IF flow.stale THEN flow.model # Null => c.text = flow.model ELSE c.text = flow.source
          /\ Generating => c.text = ask.given
    /\ c.why = "save" /\ c.step \in {"put", "written"} => c.text = flow.source
    /\ c.why = "save" /\ c.step \in {"put", "written", "refused"} => ~flow.stale \/ flow.model = Null
    /\ c.why = "keep" /\ c.step \in {"put", "written"} => c.text = sync.conflict.mine
    /\ c.step \in {"generate", "put", "written"} => kept \subseteq c.text.has
SaveHolds == \A c \in calls : Carried(c)

\* The model has every edit, unless it is to be parsed again, or could not be.
ModelHolds ==
    flow.path # NoFlow =>
        flow.model = Null \/ kept \subseteq flow.model.has \/ sync.parseDue \/ sync.failure \/ Parsing

EditsInv == OneHand /\ Filed /\ SaveHolds /\ ModelHolds /\ NoEditLost

-----------------------------------------------------------------------------
(* The two agree: whoever waits for a node's body to be parsed, too.       *)

\* A text that is behind is generated, a model that is behind is parsed, or the view says.
Catching ==
    /\ flow.stale => /\ flow.model # Null
                     /\ sync.generateDue \/ Generating \/ sync.failure
    /\ ~flow.stale /\ flow.model # Parsed(flow.source) => sync.parseDue \/ Parsing \/ sync.failure
\* A model whose text may not parse is on its way to be.
Verified ==
    /\ ask.kind = "generate" /\ ~ask.given.ok => ask.verify
    /\ flow.model # Null /\ ~flow.model.ok =>
          \/ sync.verify
          \/ Generating /\ ask.verify /\ ~sync.generateDue
          \/ sync.failure /\ ~sync.generateDue /\ ask.kind # "generate"
          \/ ~flow.stale /\ (sync.parseDue \/ ask.kind = "parse")
    /\ \A c \in calls : c.why = "save" => ~sync.verify /\ ~(ask.kind = "generate" /\ ask.verify)

SyncInv == Catching /\ Verified

-----------------------------------------------------------------------------
(* The setters, field by field.                                            *)

LEMMA SheetFields ==
    /\ Null \in Sheets /\ ~Null.ok /\ Null.has = {} /\ Null.of = NoFlow
    /\ \A t \in Sheets : t = Null \/ t \in Texts
    /\ \A t \in Sheets : t # Null => t.of \in Flows
    /\ \A t \in Texts : t \in Sheets /\ t # Null /\ t.of \in Flows /\ t.has \subseteq Edits /\ t.ok \in BOOLEAN
    /\ NoLayout.of = NoFlow /\ NoFlow \notin Flows
    /\ \A t \in Sheets : Parsed(t) \in {t, Null} /\ (Parsed(t) # Null => t.ok)
    /\ NoConflict \in Dialogs /\ Reset \in Syncing /\ NoAsk \in Questions
    /\ NoConflict.path = NoFlow /\ NoAsk.kind = "none"
    /\ Reset.conflict = NoConflict /\ ~Reset.parseDue /\ ~Reset.verify /\ ~Reset.failure
  <1>1. NoFlow \notin Flows
    BY EditorAssumption
  <1>2. Null \in Sheets /\ ~Null.ok /\ Null.has = {} /\ Null.of = NoFlow /\ NoLayout.of = NoFlow
    BY DEF Null, Sheets, NoLayout
  <1>3. /\ \A t \in Sheets : t = Null \/ t \in Texts
        /\ \A t \in Texts : t \in Sheets /\ t.of \in Flows /\ t.has \subseteq Edits /\ t.ok \in BOOLEAN
    BY DEF Sheets, Texts
  <1>4. \A t \in Texts : t # Null
    BY <1>1, <1>2, <1>3
  <1>5. \A t \in Sheets : Parsed(t) \in {t, Null} /\ (Parsed(t) # Null => t.ok)
    BY DEF Parsed
  <1>6. NoConflict \in Dialogs /\ NoAsk \in Questions /\ NoConflict.path = NoFlow /\ NoAsk.kind = "none"
    BY <1>2 DEF NoConflict, Dialogs, NoAsk, Questions
  <1>7. Reset \in Syncing /\ Reset.conflict = NoConflict /\ ~Reset.parseDue /\ ~Reset.verify /\ ~Reset.failure
    BY <1>6 DEF Reset, Syncing
  <1> QED
    BY <1>1, <1>2, <1>3, <1>4, <1>5, <1>6, <1>7

\* What the effects make of a change to the store.
LEMMA EffectsOf ==
    ASSUME flow \in OpenFlows, sync \in Syncing, NEW s \in OpenFlows, NEW y \in Syncing,
           Effects(s, y)
    PROVE  /\ flow' = s /\ sync' \in Syncing
           /\ sync'.generateDue <=>
                 /\ s.stale /\ s.model # Null
                 /\ sync.generateDue \/ s.stale # flow.stale \/ s.model # flow.model
           /\ s.path = flow.path =>
                 /\ sync'.parseDue = y.parseDue /\ sync'.verify = y.verify
                 /\ sync'.failure = y.failure /\ sync'.conflict = y.conflict
           /\ s.path # flow.path =>
                 /\ ~sync'.parseDue /\ ~sync'.verify /\ ~sync'.failure
                 /\ sync'.conflict = NoConflict
  <1> DEFINE z == IF s.path # flow.path THEN Reset ELSE y
             due == /\ s.stale /\ s.model # Null
                    /\ sync.generateDue \/ s.stale # flow.stale \/ s.model # flow.model
  <1>1. flow' = s /\ sync' = [z EXCEPT !.generateDue = due]
    BY DEF Effects
  <1>2. z \in Syncing
    BY SheetFields
  <1>3. due \in BOOLEAN
    BY DEF OpenFlows, Syncing
  <1> HIDE DEF due
  <1>4. /\ sync' \in Syncing /\ sync'.generateDue = due /\ sync'.parseDue = z.parseDue
        /\ sync'.verify = z.verify /\ sync'.failure = z.failure /\ sync'.conflict = z.conflict
    <2> HIDE DEF z
    <2> QED
      BY <1>1, <1>2, <1>3 DEF Syncing
  <1>5. s.path = flow.path => z = y
    OBVIOUS
  <1>6. s.path # flow.path => z = Reset
    OBVIOUS
  <1> HIDE DEF z
  <1> QED
    BY <1>1, <1>4, <1>5, <1>6, SheetFields DEF due

\* A part of a stack of snapshots.
LEMMA PartOfStack ==
    ASSUME NEW s \in Seq(Sheets), NEW i \in 1..2, NEW j \in Nat, i <= Len(s) + 1, i <= j + 1, j <= Len(s)
    PROVE  /\ SubSeq(s, i, j) \in Seq(Sheets)
           /\ \A f \in Flows : Snapshots(s, f) => Snapshots(SubSeq(s, i, j), f)
  <1>1. i \in 1..(Len(s) + 1) /\ j \in (i - 1)..Len(s)
    OBVIOUS
  <1>2. /\ SubSeq(s, i, j) \in Seq(Sheets) /\ Len(SubSeq(s, i, j)) = j - i + 1
        /\ \A k \in 1..(j - i + 1) : SubSeq(s, i, j)[k] = s[i + k - 1]
    BY <1>1, SubSeqProperties
  <1>3. \A k \in 1..(j - i + 1) : i + k - 1 \in 1..Len(s)
    OBVIOUS
  <1> QED
    BY <1>2, <1>3 DEF Snapshots

LEMMA OneMoreSnapshot ==
    ASSUME NEW s \in Seq(Sheets), NEW m \in Sheets
    PROVE  /\ Append(s, m) \in Seq(Sheets) /\ Len(Append(s, m)) = Len(s) + 1
           /\ \A f \in Flows : Snapshots(s, f) /\ (m # Null => m.of = f) => Snapshots(Append(s, m), f)
  BY DEF Snapshots

LEMMA LastSnapshot ==
    ASSUME NEW s \in Seq(Sheets), s # <<>>
    PROVE  /\ Last(s) \in Sheets /\ Front(s) \in Seq(Sheets)
           /\ \A f \in Flows : Snapshots(s, f) =>
                 Snapshots(Front(s), f) /\ (Last(s) # Null => Last(s).of = f)
  <1>1. Len(s) \in Nat /\ Len(s) # 0 /\ Len(s) \in 1..Len(s)
    OBVIOUS
  <1>2. Last(s) \in Sheets /\ \A f \in Flows : Snapshots(s, f) => (Last(s) # Null => Last(s).of = f)
    BY <1>1 DEF Last, Snapshots
  <1>3. Len(s) - 1 \in Nat /\ Len(s) - 1 <= Len(s)
    BY <1>1
  <1> QED
    BY <1>1, <1>2, <1>3, PartOfStack DEF Front

LEMMA PushedStack ==
    ASSUME flow \in OpenFlows
    PROVE  /\ Pushed(flow) \in Seq(Sheets)
           /\ \A f \in Flows : Snapshots(flow.past, f) /\ (flow.model # Null => flow.model.of = f) =>
                 Snapshots(Pushed(flow), f)
  <1>1. flow.past \in Seq(Sheets) /\ flow.model \in Sheets
    BY DEF OpenFlows
  <1>2. CASE flow.model = Null
    BY <1>1, <1>2 DEF Pushed
  <1>3. CASE flow.model # Null
    <2> DEFINE all == Append(flow.past, flow.model)
               i == IF Len(all) > HistoryLimit THEN 2 ELSE 1
    <2>1. all \in Seq(Sheets) /\ Len(all) = Len(flow.past) + 1 /\ Len(flow.past) \in Nat
      BY <1>1, OneMoreSnapshot
    <2>2. i \in 1..2 /\ i <= Len(all) + 1 /\ Len(all) \in Nat /\ Len(all) <= Len(all)
      BY <2>1
    <2>3. Pushed(flow) = SubSeq(all, i, Len(all))
      BY <1>3 DEF Pushed
    <2>4. \A f \in Flows : Snapshots(flow.past, f) /\ (flow.model # Null => flow.model.of = f) => Snapshots(all, f)
      BY <1>1, OneMoreSnapshot
    <2> HIDE DEF all, i
    <2> QED
      BY <2>1, <2>2, <2>3, <2>4, PartOfStack
  <1> QED
    BY <1>2, <1>3

LEMMA Setters ==
    ASSUME flow \in OpenFlows
    PROVE  /\ \A t \in Sheets : /\ WithParse(flow, t) \in OpenFlows
                                /\ WithParse(flow, t) = [flow EXCEPT !.model = Parsed(t)]
                                /\ WithSource(flow, t) \in OpenFlows
                                /\ WithModel(flow, t) \in OpenFlows
                                /\ Restored(flow, t) \in OpenFlows
           /\ \A t \in Sheets, n \in Nat : Saved(flow, t, n) \in OpenFlows
           /\ \A f \in Flows, t \in Sheets, n \in Nat, l \in Plans \cup {NoLayout} :
                 /\ ServerFlow(f, t, n, l) \in OpenFlows
                 /\ LET s == ServerFlow(f, t, n, l)
                    IN  /\ s.path = f /\ s.source = t /\ s.modified = n /\ s.model = Parsed(t)
                        /\ s.layout = l /\ ~s.dirty /\ ~s.layoutDirty /\ ~s.stale
                        /\ s.past = <<>> /\ s.future = <<>>
  <1>1. \A t \in Sheets : Parsed(t) \in Sheets
    BY SheetFields
  <1>2. \A t \in Sheets : /\ WithParse(flow, t) \in OpenFlows
                          /\ WithParse(flow, t) = [flow EXCEPT !.model = Parsed(t)]
    BY <1>1 DEF WithParse, OpenFlows
  <1>3. \A t \in Sheets : WithSource(flow, t) \in OpenFlows /\ Restored(flow, t) \in OpenFlows
    BY DEF WithSource, Restored, OpenFlows
  <1>4. \A t \in Sheets : WithModel(flow, t) \in OpenFlows
    <2> DEFINE p == Pushed(flow)
    <2>1. p \in Seq(Sheets)
      BY PushedStack
    <2>2. TAKE t \in Sheets
    <2>3. WithModel(flow, t) =
             [flow EXCEPT !.past = p, !.future = <<>>, !.model = t, !.dirty = TRUE, !.stale = TRUE]
      BY DEF WithModel
    <2>4. <<>> \in Seq(Sheets)
      OBVIOUS
    <2> HIDE DEF p
    <2>5. [flow EXCEPT !.past = p, !.future = <<>>, !.model = t, !.dirty = TRUE, !.stale = TRUE] \in OpenFlows
      BY <2>1, <2>4 DEF OpenFlows
    <2> QED
      BY <2>3, <2>5
  <1>5. \A t \in Sheets, n \in Nat : Saved(flow, t, n) \in OpenFlows
    BY DEF Saved, OpenFlows
  <1>6. ASSUME NEW f \in Flows, NEW t \in Sheets, NEW n \in Nat, NEW l \in Plans \cup {NoLayout}
        PROVE  /\ ServerFlow(f, t, n, l) \in OpenFlows
               /\ LET s == ServerFlow(f, t, n, l)
                  IN  /\ s.path = f /\ s.source = t /\ s.modified = n /\ s.model = Parsed(t)
                      /\ s.layout = l /\ ~s.dirty /\ ~s.layoutDirty /\ ~s.stale
                      /\ s.past = <<>> /\ s.future = <<>>
    <2> DEFINE p == Parsed(t)
    <2>1. ServerFlow(f, t, n, l) = [Initial EXCEPT !.path = f, !.source = t, !.modified = n, !.model = p, !.layout = l]
      BY DEF ServerFlow
    <2>2. <<>> \in Seq(Sheets) /\ p \in Sheets
      BY <1>1
    <2>3. ServerFlow(f, t, n, l) =
            [path |-> f, source |-> t, modified |-> n, model |-> p, layout |-> l,
             dirty |-> FALSE, layoutDirty |-> FALSE, stale |-> FALSE, past |-> <<>>, future |-> <<>>]
      <3> HIDE DEF p
      <3> QED
        BY <2>1 DEF Initial
    <2> HIDE DEF p
    <2>4. ServerFlow(f, t, n, l) \in OpenFlows
      BY <2>2, <2>3 DEF OpenFlows
    <2> QED
      BY <2>3, <2>4 DEF p
  <1> QED
    BY <1>2, <1>3, <1>4, <1>5, <1>6

-----------------------------------------------------------------------------
(* What each step does to the editor, field by field.                      *)

\* The store and the sync after a change, where the flow and its request stay.
Edited == UNCHANGED <<route, ask, calls, disk, sidecar, seen>>

LEMMA MaxEditsNat == MaxEdits \in Nat /\ HistoryLimit \in Nat \ {0}
  BY EditorAssumption

\* With a flow open and nothing sent, the rest follows from the store and the sync.
LEMMA SoundIfEdited ==
    ASSUME EditorSound, Edited, flow' \in OpenFlows, sync' \in Syncing,
           flow'.path = flow.path, flow'.source # Null, flow'.layout # NoLayout,
           sync'.conflict = sync.conflict,
           sync'.generateDue => flow'.stale /\ flow'.model # Null,
           kept' \subseteq Edits, edits' \in 0..MaxEdits
    PROVE  EditorSound'
  BY DEF EditorSound, EditorTyped, Whole, Edited

LEMMA TypeDoes ==
    ASSUME EditorSound, NEW ok \in BOOLEAN, Type(ok)
    PROVE  /\ EditorSound' /\ Edited /\ MayType
           /\ \E e \in Edits : kept' = kept \cup {e} /\ flow'.source.has = flow.source.has \cup {e}
           /\ flow'.source.of = flow.source.of /\ flow'.dirty /\ ~flow'.stale
           /\ flow'.path = flow.path /\ flow'.model = flow.model /\ flow'.modified = flow.modified
           /\ flow'.layout = flow.layout /\ flow'.past = flow.past /\ flow'.future = flow.future
           /\ sync'.parseDue /\ sync'.verify = sync.verify /\ ~sync'.failure
           /\ sync'.conflict = sync.conflict /\ ~sync'.generateDue
  <1> DEFINE e == edits + 1
             text == [flow.source EXCEPT !.has = @ \cup {e}, !.ok = ok]
             s == [flow EXCEPT !.source = text, !.dirty = TRUE, !.stale = FALSE]
             y == [sync EXCEPT !.parseDue = TRUE, !.failure = FALSE]
  <1>0. EditorTyped /\ Whole /\ flow \in OpenFlows /\ sync \in Syncing /\ flow.path # NoFlow
    BY DEF EditorSound, EditorTyped, Type, MayType, Attended
  <1>1. e \in Edits /\ edits' = e /\ e \in 0..MaxEdits /\ kept' = kept \cup {e} /\ Edited /\ MayType /\ Effects(s, y)
    BY <1>0, MaxEditsNat DEF Type, EditorTyped, Edits, Edited, server
  <1>2. flow.source \in Texts /\ flow.layout # NoLayout
    BY <1>0, SheetFields DEF OpenFlows, Whole
  <1>3. text \in Texts /\ text.of = flow.source.of /\ text.has = flow.source.has \cup {e}
    BY <1>1, <1>2 DEF Texts
  <1> HIDE DEF text, e
  <1>4. text \in Sheets /\ text # Null
    BY <1>3, SheetFields
  <1>5. /\ s \in OpenFlows /\ s.source = text /\ s.dirty /\ ~s.stale /\ s.path = flow.path
        /\ s.model = flow.model /\ s.modified = flow.modified /\ s.layout = flow.layout
        /\ s.past = flow.past /\ s.future = flow.future
    BY <1>0, <1>4 DEF OpenFlows
  <1>6. y \in Syncing /\ y.parseDue /\ ~y.failure /\ y.verify = sync.verify /\ y.conflict = sync.conflict
    BY <1>0 DEF Syncing
  <1> HIDE DEF s, y
  <1>7. /\ flow' = s /\ sync' \in Syncing /\ ~sync'.generateDue /\ sync'.parseDue /\ ~sync'.failure
        /\ sync'.verify = sync.verify /\ sync'.conflict = sync.conflict
    BY <1>0, <1>1, <1>5, <1>6, EffectsOf
  <1>8. kept' \subseteq Edits
    BY <1>0, <1>1 DEF EditorTyped
  <1>9. EditorSound'
    BY <1>1, <1>2, <1>4, <1>5, <1>7, <1>8, SoundIfEdited
  <1> QED
    BY <1>1, <1>3, <1>5, <1>7, <1>9

LEMMA EditDoes ==
    ASSUME EditorSound, NEW body \in BOOLEAN, NEW ok \in BOOLEAN, Edit(body, ok)
    PROVE  /\ EditorSound' /\ Edited /\ MayEdit /\ flow.model # Null
           /\ \E e \in Edits : kept' = kept \cup {e} /\ flow'.model.has = flow.model.has \cup {e}
           /\ flow'.model # Null /\ flow'.model.of = flow.model.of
           /\ flow'.model.ok = (IF body THEN ok ELSE flow.model.ok)
           /\ flow'.dirty /\ flow'.stale /\ flow'.past = Pushed(flow) /\ flow'.future = <<>>
           /\ flow'.path = flow.path /\ flow'.source = flow.source /\ flow'.modified = flow.modified
           /\ flow'.layout = flow.layout
           /\ sync'.parseDue = sync.parseDue /\ sync'.conflict = sync.conflict
           /\ sync'.generateDue <=>
                 sync.generateDue \/ ~flow.stale \/ flow'.model # flow.model
           /\ IF body THEN sync'.verify /\ ~sync'.failure
                      ELSE sync'.verify = sync.verify /\ sync'.failure = sync.failure
  <1> DEFINE e == edits + 1
             m == [flow.model EXCEPT !.has = @ \cup {e}, !.ok = IF body THEN ok ELSE @]
             w == WithModel(flow, m)
             s == [w EXCEPT !.layoutDirty = IF body THEN @ ELSE TRUE]
             y == IF body THEN [sync EXCEPT !.verify = TRUE, !.failure = FALSE] ELSE sync
  <1>0. EditorTyped /\ Whole /\ flow \in OpenFlows /\ sync \in Syncing /\ flow.path # NoFlow
    BY DEF EditorSound, EditorTyped, Edit, MayEdit, Attended
  <1>1. e \in Edits /\ edits' = e /\ e \in 0..MaxEdits /\ kept' = kept \cup {e} /\ Edited /\ MayEdit
        /\ Effects(s, y) /\ flow.model # Null
    BY <1>0, MaxEditsNat DEF Edit, EditorTyped, Edits, Edited, server
  <1>2. flow.model \in Texts /\ flow.source # Null /\ flow.layout # NoLayout
    BY <1>0, <1>1, SheetFields DEF OpenFlows, Whole
  <1>3. m \in Texts /\ m.of = flow.model.of /\ m.has = flow.model.has \cup {e}
        /\ m.ok = (IF body THEN ok ELSE flow.model.ok)
    BY <1>1, <1>2 DEF Texts
  <1> HIDE DEF m, e
  <1>4. m \in Sheets /\ m # Null
    BY <1>3, SheetFields
  <1>5. /\ w \in OpenFlows /\ w.model = m /\ w.dirty /\ w.stale /\ w.path = flow.path
        /\ w.source = flow.source /\ w.modified = flow.modified /\ w.layout = flow.layout
        /\ w.past = Pushed(flow) /\ w.future = <<>>
    <2>1. w \in OpenFlows
      BY <1>0, <1>4, Setters
    <2> DEFINE p == Pushed(flow)
    <2>2. w = [flow EXCEPT !.past = p, !.future = <<>>, !.model = m, !.dirty = TRUE, !.stale = TRUE]
      BY DEF WithModel
    <2> HIDE DEF p, w
    <2>3. /\ w.model = m /\ w.dirty /\ w.stale /\ w.path = flow.path
          /\ w.source = flow.source /\ w.modified = flow.modified /\ w.layout = flow.layout
          /\ w.past = p /\ w.future = <<>>
      BY <1>0, <2>2 DEF OpenFlows
    <2> QED
      BY <2>1, <2>3 DEF p
  <1> HIDE DEF w
  <1>6. /\ s \in OpenFlows /\ s.model = m /\ s.dirty /\ s.stale /\ s.path = flow.path
        /\ s.source = flow.source /\ s.modified = flow.modified /\ s.layout = flow.layout
        /\ s.past = Pushed(flow) /\ s.future = <<>>
    BY <1>5 DEF OpenFlows
  <1>7. /\ y \in Syncing /\ y.parseDue = sync.parseDue /\ y.conflict = sync.conflict
        /\ IF body THEN y.verify /\ ~y.failure ELSE y.verify = sync.verify /\ y.failure = sync.failure
    BY <1>0 DEF Syncing
  <1> HIDE DEF s, y
  <1>8. /\ flow' = s /\ sync' \in Syncing
        /\ sync'.parseDue = sync.parseDue /\ sync'.conflict = sync.conflict
        /\ sync'.generateDue <=> sync.generateDue \/ ~flow.stale \/ m # flow.model
        /\ IF body THEN sync'.verify /\ ~sync'.failure
                   ELSE sync'.verify = sync.verify /\ sync'.failure = sync.failure
    <2>1. /\ flow' = s /\ sync' \in Syncing
          /\ sync'.parseDue = y.parseDue /\ sync'.conflict = y.conflict
          /\ sync'.verify = y.verify /\ sync'.failure = y.failure
          /\ sync'.generateDue <=>
                /\ s.stale /\ s.model # Null
                /\ sync.generateDue \/ s.stale # flow.stale \/ s.model # flow.model
      BY <1>0, <1>1, <1>6, <1>7, EffectsOf
    <2>2. flow.stale \in BOOLEAN
      BY <1>0 DEF OpenFlows
    <2> QED
      BY <1>4, <1>6, <1>7, <2>1, <2>2
  <1>9. kept' \subseteq Edits
    BY <1>0, <1>1 DEF EditorTyped
  <1>10. EditorSound'
    BY <1>1, <1>2, <1>4, <1>6, <1>8, <1>9, SoundIfEdited
  <1> QED
    BY <1>1, <1>3, <1>4, <1>6, <1>8, <1>10

LEMMA MoveDoes ==
    ASSUME EditorSound, Move
    PROVE  /\ EditorSound' /\ Edited /\ MayEdit /\ kept' = kept
           /\ flow'.layout.of = flow.layout.of
           /\ flow'.path = flow.path /\ flow'.source = flow.source /\ flow'.modified = flow.modified
           /\ flow'.model = flow.model /\ flow'.dirty = flow.dirty /\ flow'.stale = flow.stale
           /\ flow'.past = flow.past /\ flow'.future = flow.future
           /\ sync'.parseDue = sync.parseDue /\ sync'.conflict = sync.conflict
           /\ sync'.verify = sync.verify /\ sync'.failure = sync.failure
           /\ sync'.generateDue = sync.generateDue
  <1> DEFINE l == [flow.layout EXCEPT !.moved = @ + 1]
             s == [flow EXCEPT !.layout = l, !.layoutDirty = TRUE]
  <1>0. EditorTyped /\ Whole /\ flow \in OpenFlows /\ sync \in Syncing /\ flow.path # NoFlow
    BY DEF EditorSound, EditorTyped, Move, MayEdit, Attended
  <1>1. Edited /\ MayEdit /\ UNCHANGED <<kept, edits>> /\ Effects([flow EXCEPT !.layout.moved = @ + 1, !.layoutDirty = TRUE], sync)
    BY DEF Move, Edited, server, history
  <1>2. flow.layout \in Plans /\ flow.source # Null
    BY <1>0 DEF OpenFlows, Whole
  <1>3. l \in Plans /\ l.of = flow.layout.of /\ l # NoLayout
    <2>1. l \in Plans /\ l.of = flow.layout.of
      BY <1>2 DEF Plans
    <2>2. \A p \in Plans : p.of \in Flows
      BY DEF Plans
    <2> QED
      BY <2>1, <2>2, SheetFields
  <1>4. [flow EXCEPT !.layout.moved = @ + 1, !.layoutDirty = TRUE] = s
    BY <1>0 DEF OpenFlows
  <1> HIDE DEF l
  <1>5. /\ s \in OpenFlows /\ s.layout = l /\ s.path = flow.path /\ s.source = flow.source
        /\ s.modified = flow.modified /\ s.model = flow.model /\ s.dirty = flow.dirty
        /\ s.stale = flow.stale /\ s.past = flow.past /\ s.future = flow.future
    BY <1>0, <1>3 DEF OpenFlows
  <1> HIDE DEF s
  <1>6. /\ flow' = s /\ sync' \in Syncing
        /\ sync'.parseDue = sync.parseDue /\ sync'.conflict = sync.conflict
        /\ sync'.verify = sync.verify /\ sync'.failure = sync.failure
        /\ sync'.generateDue <=> s.stale /\ s.model # Null /\ sync.generateDue
    BY <1>0, <1>1, <1>4, <1>5, EffectsOf
  <1>7. sync'.generateDue = sync.generateDue
    BY <1>0, <1>5, <1>6 DEF Whole, Syncing
  <1>8. kept' \subseteq Edits /\ edits' \in 0..MaxEdits
    BY <1>0, <1>1 DEF EditorTyped
  <1>9. EditorSound'
    BY <1>0, <1>1, <1>2, <1>3, <1>5, <1>6, <1>7, <1>8, SoundIfEdited DEF Whole
  <1> QED
    BY <1>1, <1>3, <1>5, <1>6, <1>7, <1>9

\* Undo and redo put back a snapshot m.
PutBack(m) ==
    /\ MayEdit /\ Waited("unverified", ~m.ok) /\ m \in Sheets
    /\ flow'.model = m /\ kept' = m.has /\ flow'.dirty /\ flow'.stale
    /\ sync'.generateDue <=> m # Null /\ (sync.generateDue \/ ~flow.stale \/ m # flow.model)
\* Redo of a snapshot that holds no model only moves the snapshots.
NothingPutBack ==
    /\ MayEdit /\ flow'.model = flow.model /\ kept' = kept /\ flow'.dirty = flow.dirty
    /\ flow'.stale = flow.stale /\ sync'.generateDue = sync.generateDue
Restack ==
    /\ Edited /\ flow'.path = flow.path /\ flow'.source = flow.source
    /\ flow'.modified = flow.modified /\ flow'.layout = flow.layout
    /\ \A f \in Flows : Belongs(f) => Belongs(f)'
    /\ sync'.parseDue = sync.parseDue /\ sync'.conflict = sync.conflict
    /\ sync'.verify = sync.verify /\ sync'.failure = sync.failure

LEMMA UndoDoes ==
    ASSUME EditorSound, Undo
    PROVE  EditorSound' /\ Restack /\ \E m \in Sheets : PutBack(m)
  <1> DEFINE m == Last(flow.past)
             p == Front(flow.past)
             q == Append(flow.future, flow.model)
             s == [Restored(flow, m) EXCEPT !.past = Front(@), !.future = Append(@, flow.model)]
  <1>0. EditorTyped /\ Whole /\ flow \in OpenFlows /\ sync \in Syncing /\ flow.path # NoFlow
    BY DEF EditorSound, EditorTyped, Undo, MayEdit, Attended
  <1>1. Edited /\ MayEdit /\ Waited("unverified", ~m.ok) /\ kept' = m.has /\ edits' = edits + 1 /\ edits < MaxEdits
        /\ Effects(s, sync) /\ flow.past # <<>>
    BY DEF Undo, Edited, server
  <1>2. flow.past \in Seq(Sheets) /\ flow.future \in Seq(Sheets) /\ flow.model \in Sheets
        /\ flow.source # Null /\ flow.layout # NoLayout
    BY <1>0 DEF OpenFlows, Whole
  <1>3. /\ m \in Sheets /\ p \in Seq(Sheets) /\ q \in Seq(Sheets)
        /\ \A f \in Flows : Belongs(f) => Snapshots(p, f) /\ Snapshots(q, f) /\ (m # Null => m.of = f)
    BY <1>1, <1>2, LastSnapshot, OneMoreSnapshot DEF Belongs
  <1>4. s = [flow EXCEPT !.model = m, !.dirty = TRUE, !.layoutDirty = TRUE, !.stale = TRUE,
                         !.past = p, !.future = q]
    BY <1>0 DEF Restored, OpenFlows
  <1> HIDE DEF m, p, q
  <1>5. /\ s \in OpenFlows /\ s.model = m /\ s.dirty /\ s.stale /\ s.path = flow.path
        /\ s.source = flow.source /\ s.modified = flow.modified /\ s.layout = flow.layout
        /\ s.past = p /\ s.future = q
    BY <1>0, <1>3, <1>4 DEF OpenFlows
  <1> HIDE DEF s
  <1>6. /\ flow' = s /\ sync' \in Syncing
        /\ sync'.parseDue = sync.parseDue /\ sync'.conflict = sync.conflict
        /\ sync'.verify = sync.verify /\ sync'.failure = sync.failure
        /\ sync'.generateDue <=>
              s.stale /\ s.model # Null /\ (sync.generateDue \/ s.stale # flow.stale \/ s.model # flow.model)
    BY <1>0, <1>1, <1>5, EffectsOf
  <1>7. sync'.generateDue <=> m # Null /\ (sync.generateDue \/ ~flow.stale \/ m # flow.model)
    <2>1. flow.stale \in BOOLEAN
      BY <1>0 DEF OpenFlows
    <2> QED
      BY <1>5, <1>6, <2>1
  <1>8. kept' \subseteq Edits /\ edits' \in 0..MaxEdits
    BY <1>0, <1>1, <1>3, SheetFields, MaxEditsNat DEF EditorTyped
  <1>9. EditorSound'
    BY <1>1, <1>2, <1>5, <1>6, <1>7, <1>8, SoundIfEdited
  <1>10. \A f \in Flows : Belongs(f) => Belongs(f)'
    BY <1>3, <1>5, <1>6 DEF Belongs
  <1> QED
    BY <1>1, <1>3, <1>5, <1>6, <1>7, <1>9, <1>10 DEF Restack, PutBack

LEMMA RedoDoes ==
    ASSUME EditorSound, Redo
    PROVE  EditorSound' /\ Restack /\ (NothingPutBack \/ \E m \in Sheets : PutBack(m))
  <1> DEFINE m == Last(flow.future)
             all == Append(flow.past, flow.model)
             i == IF Len(flow.past) = HistoryLimit THEN 2 ELSE 1
             p == SubSeq(all, i, Len(flow.past) + 1)
             q == Front(flow.future)
             s == [flow EXCEPT !.past = SubSeq(Append(@, flow.model),
                     IF Len(@) = HistoryLimit THEN 2 ELSE 1, Len(@) + 1)]
             u == [Restored(s, m) EXCEPT !.future = Front(@)]
  <1>0. EditorTyped /\ Whole /\ flow \in OpenFlows /\ sync \in Syncing /\ flow.path # NoFlow
    BY DEF EditorSound, EditorTyped, Redo, MayEdit, Attended
  <1>1. Edited /\ MayEdit /\ Waited("unverified", m # Null /\ ~m.ok) /\ edits' = edits + 1 /\ edits < MaxEdits
        /\ flow.future # <<>>
        /\ IF m = Null THEN Effects(s, sync) /\ kept' = kept ELSE Effects(u, sync) /\ kept' = m.has
    BY DEF Redo, Edited, server
  <1>2. flow.past \in Seq(Sheets) /\ flow.future \in Seq(Sheets) /\ flow.model \in Sheets
        /\ flow.source # Null /\ flow.layout # NoLayout
    BY <1>0 DEF OpenFlows, Whole
  <1>3. /\ m \in Sheets /\ q \in Seq(Sheets) /\ p \in Seq(Sheets)
        /\ \A f \in Flows : Belongs(f) => Snapshots(p, f) /\ Snapshots(q, f) /\ (m # Null => m.of = f)
    <2>1. /\ all \in Seq(Sheets) /\ Len(all) = Len(flow.past) + 1 /\ Len(flow.past) \in Nat
          /\ \A f \in Flows : Belongs(f) => Snapshots(all, f)
      BY <1>2, OneMoreSnapshot DEF Belongs
    <2>2. i \in 1..2 /\ i <= Len(all) + 1 /\ i <= Len(flow.past) + 1 + 1 /\ Len(flow.past) + 1 \in Nat
          /\ Len(flow.past) + 1 <= Len(all)
      BY <2>1, MaxEditsNat
    <2>3. p \in Seq(Sheets) /\ \A f \in Flows : Snapshots(all, f) => Snapshots(p, f)
      <3> HIDE DEF all, i
      <3> QED
        BY <2>1, <2>2, PartOfStack
    <2> QED
      BY <1>1, <1>2, <2>1, <2>3, LastSnapshot DEF Belongs
  <1>4. s = [flow EXCEPT !.past = p]
    BY <1>0 DEF OpenFlows
  <1> HIDE DEF m, p, q, s
  <1>5. u = [flow EXCEPT !.model = m, !.dirty = TRUE, !.layoutDirty = TRUE, !.stale = TRUE,
                         !.past = p, !.future = q]
    <2>1. Restored(s, m) = [flow EXCEPT !.past = p, !.model = m, !.dirty = TRUE, !.layoutDirty = TRUE, !.stale = TRUE]
      BY <1>0, <1>4 DEF Restored, OpenFlows
    <2> QED
      BY <1>0, <2>1 DEF q, OpenFlows
  <1>6. /\ s \in OpenFlows /\ s.model = flow.model /\ s.dirty = flow.dirty /\ s.stale = flow.stale
        /\ s.path = flow.path /\ s.source = flow.source /\ s.modified = flow.modified
        /\ s.layout = flow.layout /\ s.past = p /\ s.future = flow.future
    BY <1>0, <1>3, <1>4 DEF OpenFlows
  <1>7. /\ u \in OpenFlows /\ u.model = m /\ u.dirty /\ u.stale /\ u.path = flow.path
        /\ u.source = flow.source /\ u.modified = flow.modified /\ u.layout = flow.layout
        /\ u.past = p /\ u.future = q
    BY <1>0, <1>3, <1>5 DEF OpenFlows
  <1> HIDE DEF u
  <1>8. kept' \subseteq Edits /\ edits' \in 0..MaxEdits
    BY <1>0, <1>1, <1>3, SheetFields, MaxEditsNat DEF EditorTyped
  <1>9. CASE m = Null
    <2>1. /\ flow' = s /\ sync' \in Syncing
          /\ sync'.parseDue = sync.parseDue /\ sync'.conflict = sync.conflict
          /\ sync'.verify = sync.verify /\ sync'.failure = sync.failure
          /\ sync'.generateDue <=> s.stale /\ s.model # Null /\ sync.generateDue
      BY <1>0, <1>1, <1>6, <1>9, EffectsOf
    <2>2. sync'.generateDue = sync.generateDue
      BY <1>0, <1>6, <2>1 DEF Whole, Syncing
    <2>3. EditorSound'
      BY <1>0, <1>1, <1>2, <1>6, <1>8, <2>1, <2>2, SoundIfEdited DEF Whole
    <2>4. \A f \in Flows : Belongs(f) => Belongs(f)'
      BY <1>3, <1>6, <2>1 DEF Belongs
    <2> QED
      BY <1>1, <1>6, <1>9, <2>1, <2>2, <2>3, <2>4 DEF Restack, NothingPutBack
  <1>10. CASE m # Null
    <2>1. /\ flow' = u /\ sync' \in Syncing
          /\ sync'.parseDue = sync.parseDue /\ sync'.conflict = sync.conflict
          /\ sync'.verify = sync.verify /\ sync'.failure = sync.failure
          /\ sync'.generateDue <=>
                u.stale /\ u.model # Null /\ (sync.generateDue \/ u.stale # flow.stale \/ u.model # flow.model)
      BY <1>0, <1>1, <1>7, <1>10, EffectsOf
    <2>2. sync'.generateDue <=> m # Null /\ (sync.generateDue \/ ~flow.stale \/ m # flow.model)
      <3>1. flow.stale \in BOOLEAN
        BY <1>0 DEF OpenFlows
      <3> QED
        BY <1>7, <2>1, <3>1
    <2>3. EditorSound'
      BY <1>1, <1>2, <1>7, <1>8, <2>1, <2>2, SoundIfEdited
    <2>4. \A f \in Flows : Belongs(f) => Belongs(f)'
      BY <1>3, <1>7, <2>1 DEF Belongs
    <2>5. Waited("unverified", ~m.ok) /\ kept' = m.has
      BY <1>1, <1>10 DEF Waited
    <2> QED
      BY <1>1, <1>3, <1>7, <2>1, <2>2, <2>3, <2>4, <2>5 DEF Restack, PutBack
  <1> QED
    BY <1>9, <1>10

LEMMA ApplyDraftDoes ==
    ASSUME EditorSound, NEW ok \in BOOLEAN, ApplyDraft(ok)
    PROVE  /\ EditorSound' /\ Edited /\ MayEdit /\ Waited("switch hands", ModelAhead)
           /\ \E e \in Edits : kept' = {e} /\ flow'.source.has = {e}
           /\ flow'.source \in Texts /\ flow'.source.of = flow.source.of
           /\ flow'.model = Parsed(flow'.source)
           /\ flow'.dirty /\ ~flow'.stale /\ flow'.past = Pushed(flow) /\ flow'.future = <<>>
           /\ flow'.path = flow.path /\ flow'.modified = flow.modified /\ flow'.layout = flow.layout
           /\ sync'.parseDue = sync.parseDue /\ sync'.conflict = sync.conflict
           /\ sync'.verify = sync.verify /\ sync'.failure = sync.failure
           /\ ~sync'.generateDue
  <1> DEFINE e == edits + 1
             text == [flow.source EXCEPT !.has = {e}, !.ok = ok]
             r == ServerFlow(flow.path, text, flow.modified, flow.layout)
             p == Pushed(flow)
             s == [r EXCEPT !.dirty = TRUE, !.past = p]
  <1>0. EditorTyped /\ Whole /\ flow \in OpenFlows /\ sync \in Syncing /\ flow.path # NoFlow
    BY DEF EditorSound, EditorTyped, ApplyDraft, MayEdit, Attended
  <1>1. e \in Edits /\ edits' = e /\ e \in 0..MaxEdits /\ kept' = {e} /\ Edited /\ MayEdit
        /\ Waited("switch hands", ModelAhead) /\ Effects(s, sync)
    <2>1. e \in Edits /\ e \in 0..MaxEdits
      <3>1. edits < MaxEdits
        BY DEF ApplyDraft
      <3> QED
        BY <1>0, <3>1, MaxEditsNat DEF EditorTyped, Edits
    <2>2. edits' = e /\ kept' = {e} /\ Edited /\ MayEdit /\ Waited("switch hands", ModelAhead)
      BY DEF ApplyDraft, Edited, server
    <2>3. Effects(s, sync)
      BY DEF ApplyDraft
    <2> QED
      BY <2>1, <2>2, <2>3
  <1>2. flow.source \in Texts /\ flow.layout # NoLayout /\ flow.layout \in Plans \cup {NoLayout}
        /\ flow.path \in Flows /\ flow.modified \in Nat
    BY <1>0, SheetFields DEF OpenFlows, Whole
  <1>3. text \in Texts /\ text.of = flow.source.of /\ text.has = {e}
    BY <1>1, <1>2 DEF Texts
  <1> HIDE DEF text, e
  <1>4. text \in Sheets /\ text # Null
    BY <1>3, SheetFields
  <1>5. /\ r \in OpenFlows /\ r.path = flow.path /\ r.source = text /\ r.modified = flow.modified
        /\ r.model = Parsed(text) /\ r.layout = flow.layout /\ ~r.stale /\ r.future = <<>>
    BY <1>0, <1>2, <1>4, Setters
  <1>6. p \in Seq(Sheets)
    BY <1>0, PushedStack
  <1> HIDE DEF r, p
  <1>7. /\ s \in OpenFlows /\ s.path = flow.path /\ s.source = text /\ s.modified = flow.modified
        /\ s.model = Parsed(text) /\ s.layout = flow.layout /\ ~s.stale /\ s.future = <<>>
        /\ s.dirty /\ s.past = p
    BY <1>5, <1>6 DEF OpenFlows
  <1> HIDE DEF s
  <1>8. /\ flow' = s /\ sync' \in Syncing /\ ~sync'.generateDue
        /\ sync'.parseDue = sync.parseDue /\ sync'.conflict = sync.conflict
        /\ sync'.verify = sync.verify /\ sync'.failure = sync.failure
    BY <1>0, <1>1, <1>7, EffectsOf
  <1>9. kept' \subseteq Edits
    BY <1>1
  <1>10. EditorSound'
    BY <1>1, <1>2, <1>4, <1>7, <1>8, <1>9, SoundIfEdited
  <1> QED
    BY <1>1, <1>3, <1>7, <1>8, <1>10 DEF p

\* What a text that comes back takes the place of, and what stays.
Around(s) == /\ s.path = flow.path /\ s.layout = flow.layout /\ s.past = flow.past
             /\ s.future = flow.future
LEMMA TextSet ==
    ASSUME flow \in OpenFlows, NEW t \in Sheets
    PROVE  /\ LET s == WithSource(flow, t)
              IN  /\ s \in OpenFlows /\ Around(s) /\ s.source = t /\ ~s.stale
                  /\ s.model = flow.model /\ s.dirty = flow.dirty /\ s.modified = flow.modified
           /\ LET s == WithParse(flow, t)
              IN  /\ s \in OpenFlows /\ Around(s) /\ s.source = flow.source /\ s.stale = flow.stale
                  /\ s.model = Parsed(t) /\ s.dirty = flow.dirty /\ s.modified = flow.modified
           /\ \A n \in Nat :
                 LET s == Saved(flow, t, n)
                 IN  /\ s \in OpenFlows /\ Around(s) /\ s.source = t /\ ~s.stale
                     /\ s.model = flow.model /\ ~s.dirty /\ s.modified = n
           /\ \A n \in Nat :
                 LET s == WithParse(Saved(flow, t, n), t)
                 IN  /\ s \in OpenFlows /\ Around(s) /\ s.source = t /\ ~s.stale
                     /\ s.model = Parsed(t) /\ ~s.dirty /\ s.modified = n
  <1>1. /\ WithSource(flow, t) \in OpenFlows /\ WithParse(flow, t) \in OpenFlows
        /\ \A n \in Nat : Saved(flow, t, n) \in OpenFlows
        /\ Parsed(t) \in Sheets
    BY Setters, SheetFields
  <1>2. LET s == WithSource(flow, t)
        IN  /\ Around(s) /\ s.source = t /\ ~s.stale
            /\ s.model = flow.model /\ s.dirty = flow.dirty /\ s.modified = flow.modified
    BY DEF WithSource, Around, OpenFlows
  <1>3. LET s == WithParse(flow, t)
        IN  /\ Around(s) /\ s.source = flow.source /\ s.stale = flow.stale
            /\ s.model = Parsed(t) /\ s.dirty = flow.dirty /\ s.modified = flow.modified
    <2> DEFINE p == Parsed(t)
    <2>1. WithParse(flow, t) = [flow EXCEPT !.model = p]
      BY DEF WithParse
    <2> HIDE DEF p
    <2>2. LET s == [flow EXCEPT !.model = p]
          IN  /\ Around(s) /\ s.source = flow.source /\ s.stale = flow.stale
              /\ s.model = p /\ s.dirty = flow.dirty /\ s.modified = flow.modified
      BY DEF Around, OpenFlows
    <2> QED
      BY <2>1, <2>2 DEF p
  <1>4. ASSUME NEW n \in Nat
        PROVE  LET s == Saved(flow, t, n)
               IN  /\ Around(s) /\ s.source = t /\ ~s.stale
                   /\ s.model = flow.model /\ ~s.dirty /\ s.modified = n
    BY DEF Saved, Around, OpenFlows
  <1>5. ASSUME NEW n \in Nat
        PROVE  LET s == WithParse(Saved(flow, t, n), t)
               IN  /\ s \in OpenFlows /\ Around(s) /\ s.source = t /\ ~s.stale
                   /\ s.model = Parsed(t) /\ ~s.dirty /\ s.modified = n
    <2> DEFINE p == Parsed(t)
               r == Saved(flow, t, n)
    <2>1. WithParse(r, t) = [r EXCEPT !.model = p]
      BY DEF WithParse
    <2>2. r \in OpenFlows /\ p \in Sheets
      BY <1>1
    <2>3. Around(r) /\ r.source = t /\ ~r.stale /\ ~r.dirty /\ r.modified = n
      BY <1>4
    <2> HIDE DEF p, r
    <2>4. LET s == [r EXCEPT !.model = p]
          IN  /\ s \in OpenFlows /\ Around(s) /\ s.source = t /\ ~s.stale
              /\ s.model = p /\ ~s.dirty /\ s.modified = n
      BY <2>2, <2>3 DEF Around, OpenFlows
    <2> QED
      BY <2>1, <2>4 DEF p, r
  <1> QED
    BY <1>1, <1>2, <1>3, <1>4, <1>5

\* The person's flow and what is sent of it stay; the sync goes on.
Synced == UNCHANGED <<route, calls, disk, sidecar, kept, seen>>

LEMMA SoundIfSynced ==
    ASSUME EditorSound, Synced, edits' = edits, flow' \in OpenFlows, sync' \in Syncing,
           ask' \in Questions, Around(flow'), flow'.source = flow.source \/ flow'.source # Null,
           sync'.conflict = sync.conflict,
           sync'.generateDue => flow'.stale /\ flow'.model # Null,
           ask'.kind = "generate" => ask'.given # Null
    PROVE  EditorSound'
  BY DEF EditorSound, EditorTyped, Whole, Synced, Around

LEMMA RunParseDoes ==
    ASSUME EditorSound, RunParse
    PROVE  /\ EditorSound' /\ Synced /\ flow' = flow /\ sync.parseDue /\ ~sync'.parseDue
           /\ sync'.generateDue = sync.generateDue /\ sync'.verify = sync.verify
           /\ sync'.failure = sync.failure /\ sync'.conflict = sync.conflict
           /\ ask'.kind = "parse" /\ ask'.given = flow.source /\ ~ask'.verify
  <1>0. EditorTyped /\ Whole /\ flow \in OpenFlows /\ sync \in Syncing
    BY DEF EditorSound, EditorTyped
  <1>1. /\ Synced /\ flow' = flow /\ edits' = edits /\ sync.parseDue
        /\ sync' = [sync EXCEPT !.parseDue = FALSE, !.phase = "parsing"]
        /\ ask' = [kind |-> "parse", given |-> flow.source, verify |-> FALSE]
    BY DEF RunParse, Synced, server, history, counts
  <1>2. /\ sync' \in Syncing /\ ~sync'.parseDue
        /\ sync'.generateDue = sync.generateDue /\ sync'.verify = sync.verify
        /\ sync'.failure = sync.failure /\ sync'.conflict = sync.conflict
    BY <1>0, <1>1 DEF Syncing
  <1>3. ask' \in Questions /\ ask'.kind = "parse" /\ ask'.given = flow.source /\ ~ask'.verify
    BY <1>0, <1>1 DEF Questions, OpenFlows
  <1>4. EditorSound'
    BY <1>0, <1>1, <1>2, <1>3, SoundIfSynced DEF Whole, Around
  <1> QED
    BY <1>1, <1>2, <1>3, <1>4

LEMMA ParseAnsweredDoes ==
    ASSUME EditorSound, ParseAnswered
    PROVE  /\ EditorSound' /\ Synced /\ ask.kind = "parse" /\ ask'.kind = "none"
           /\ Around(flow') /\ flow'.source = flow.source /\ flow'.stale = flow.stale
           /\ flow'.dirty = flow.dirty /\ flow'.modified = flow.modified
           /\ sync'.parseDue = sync.parseDue /\ sync'.verify = sync.verify
           /\ sync'.conflict = sync.conflict
           /\ IF flow.source = ask.given
              THEN /\ flow'.model = Parsed(flow.source) /\ ~sync'.failure
                   /\ sync'.generateDue <=> flow.stale /\ flow'.model # Null
              ELSE /\ flow'.model = flow.model /\ sync'.failure = sync.failure
                   /\ sync'.generateDue = sync.generateDue
  <1>0. EditorTyped /\ Whole /\ flow \in OpenFlows /\ sync \in Syncing /\ flow.source \in Sheets
    BY DEF EditorSound, EditorTyped, OpenFlows
  <1>1. /\ Synced /\ edits' = edits /\ ask.kind = "parse" /\ ask' = NoAsk
    BY DEF ParseAnswered, Synced, server, history, counts
  <1>2. ask' \in Questions /\ ask'.kind = "none"
    BY <1>1, SheetFields
  <1>3. CASE flow.source = ask.given
    <2> DEFINE s == WithParse(flow, ask.given)
               due == s.stale /\ s.model # Null
    <2>1. flow' = s /\ sync' = [sync EXCEPT !.phase = "idle", !.failure = FALSE, !.generateDue = due]
      BY <1>3 DEF ParseAnswered
    <2>2. /\ s \in OpenFlows /\ Around(s) /\ s.source = flow.source /\ s.stale = flow.stale
          /\ s.model = Parsed(flow.source) /\ s.dirty = flow.dirty /\ s.modified = flow.modified
      BY <1>0, <1>3, TextSet
    <2> HIDE DEF s
    <2>3. due \in BOOLEAN /\ (due <=> flow.stale /\ s.model # Null)
      BY <2>2 DEF OpenFlows
    <2> HIDE DEF due
    <2>4. /\ sync' \in Syncing /\ ~sync'.failure /\ sync'.generateDue = due
          /\ sync'.parseDue = sync.parseDue /\ sync'.verify = sync.verify /\ sync'.conflict = sync.conflict
      BY <1>0, <2>1, <2>3 DEF Syncing
    <2>5. EditorSound'
      BY <1>0, <1>1, <1>2, <2>1, <2>2, <2>3, <2>4, SoundIfSynced
    <2> QED
      BY <1>1, <1>2, <1>3, <2>1, <2>2, <2>3, <2>4, <2>5
  <1>4. CASE flow.source # ask.given
    <2>1. flow' = flow /\ sync' = [sync EXCEPT !.phase = "idle"]
      BY <1>4 DEF ParseAnswered
    <2>2. /\ sync' \in Syncing /\ sync'.failure = sync.failure /\ sync'.generateDue = sync.generateDue
          /\ sync'.parseDue = sync.parseDue /\ sync'.verify = sync.verify /\ sync'.conflict = sync.conflict
      BY <1>0, <2>1 DEF Syncing
    <2>3. EditorSound'
      BY <1>0, <1>1, <1>2, <2>1, <2>2, SoundIfSynced DEF Whole, Around
    <2> QED
      BY <1>1, <1>2, <1>4, <2>1, <2>2, <2>3 DEF Around
  <1> QED
    BY <1>3, <1>4

LEMMA RunGenerateDoes ==
    ASSUME EditorSound, RunGenerate
    PROVE  /\ EditorSound' /\ Synced /\ flow' = flow /\ sync.generateDue /\ ~sync'.generateDue
           /\ sync'.parseDue = sync.parseDue /\ ~sync'.verify
           /\ sync'.failure = sync.failure /\ sync'.conflict = sync.conflict
           /\ ask'.kind = "generate" /\ ask'.given = flow.model /\ ask'.verify = sync.verify
  <1>0. EditorTyped /\ Whole /\ flow \in OpenFlows /\ sync \in Syncing
    BY DEF EditorSound, EditorTyped
  <1>1. /\ Synced /\ flow' = flow /\ edits' = edits /\ sync.generateDue
        /\ sync' = [sync EXCEPT !.generateDue = FALSE, !.phase = "generating", !.verify = FALSE]
        /\ ask' = [kind |-> "generate", given |-> flow.model, verify |-> sync.verify]
    BY DEF RunGenerate, Synced, server, history, counts
  <1>2. /\ sync' \in Syncing /\ ~sync'.generateDue
        /\ sync'.parseDue = sync.parseDue /\ ~sync'.verify
        /\ sync'.failure = sync.failure /\ sync'.conflict = sync.conflict
    BY <1>0, <1>1 DEF Syncing
  <1>3. /\ ask' \in Questions /\ ask'.kind = "generate" /\ ask'.given = flow.model
        /\ ask'.verify = sync.verify /\ ask'.given # Null
    BY <1>0, <1>1 DEF Questions, OpenFlows, Syncing, Whole
  <1>4. EditorSound'
    BY <1>0, <1>1, <1>2, <1>3, SoundIfSynced DEF Whole, Around
  <1> QED
    BY <1>1, <1>2, <1>3, <1>4

LEMMA GenerateAnsweredDoes ==
    ASSUME EditorSound, GenerateAnswered
    PROVE  /\ EditorSound' /\ Synced /\ ask.kind = "generate" /\ ask.given # Null
           /\ Around(flow') /\ flow'.model = flow.model
           /\ flow'.dirty = flow.dirty /\ flow'.modified = flow.modified
           /\ sync'.parseDue = sync.parseDue /\ sync'.verify = sync.verify
           /\ sync'.conflict = sync.conflict
           /\ IF flow.model = ask.given
              THEN /\ flow'.source = ask.given /\ ~flow'.stale
                   /\ ~sync'.failure /\ ~sync'.generateDue
                   /\ IF ask.verify THEN ask'.kind = "parse" /\ ask'.given = ask.given
                                    ELSE ask'.kind = "none"
              ELSE /\ flow' = flow /\ sync'.failure = sync.failure
                   /\ sync'.generateDue = sync.generateDue /\ ask'.kind = "none"
  <1>0. /\ EditorTyped /\ Whole /\ flow \in OpenFlows /\ sync \in Syncing /\ ask.given \in Sheets
        /\ ask.verify \in BOOLEAN
    BY DEF EditorSound, EditorTyped, Questions
  <1>1. Synced /\ edits' = edits /\ ask.kind = "generate" /\ ask.given # Null
    BY <1>0 DEF GenerateAnswered, Synced, server, history, counts, Whole
  <1>2. CASE flow.model # ask.given
    <2>1. flow' = flow /\ sync' = [sync EXCEPT !.phase = "idle"] /\ ask' = NoAsk
      BY <1>2 DEF GenerateAnswered
    <2>2. /\ sync' \in Syncing /\ sync'.failure = sync.failure /\ sync'.generateDue = sync.generateDue
          /\ sync'.parseDue = sync.parseDue /\ sync'.verify = sync.verify /\ sync'.conflict = sync.conflict
      BY <1>0, <2>1 DEF Syncing
    <2>3. ask' \in Questions /\ ask'.kind = "none"
      BY <2>1, SheetFields
    <2>4. EditorSound'
      BY <1>0, <1>1, <2>1, <2>2, <2>3, SoundIfSynced DEF Whole, Around
    <2> QED
      BY <1>1, <1>2, <2>1, <2>2, <2>3, <2>4 DEF Around
  <1>3. CASE flow.model = ask.given
    <2> DEFINE s == WithSource(flow, ask.given)
               ph == IF ask.verify THEN "parsing" ELSE "idle"
               y == [sync EXCEPT !.failure = FALSE, !.phase = ph]
    <2>1. Effects(s, y) /\ ask' = IF ask.verify
                          THEN [kind |-> "parse", given |-> s.source, verify |-> FALSE]
                          ELSE NoAsk
      BY <1>3 DEF GenerateAnswered
    <2>2. /\ s \in OpenFlows /\ Around(s) /\ s.source = ask.given /\ ~s.stale
          /\ s.model = flow.model /\ s.dirty = flow.dirty /\ s.modified = flow.modified
      BY <1>0, TextSet
    <2> HIDE DEF s
    <2>3. ph \in {"idle", "parsing", "generating"}
      OBVIOUS
    <2> HIDE DEF ph
    <2>4. /\ y \in Syncing /\ ~y.failure /\ y.parseDue = sync.parseDue /\ y.verify = sync.verify
          /\ y.conflict = sync.conflict
      BY <1>0, <2>3 DEF Syncing
    <2> HIDE DEF y
    <2>5. /\ flow' = s /\ sync' \in Syncing /\ ~sync'.generateDue /\ ~sync'.failure
          /\ sync'.parseDue = sync.parseDue /\ sync'.verify = sync.verify /\ sync'.conflict = sync.conflict
      BY <1>0, <2>1, <2>2, <2>4, EffectsOf DEF Around
    <2>6. /\ ask' \in Questions /\ ask'.kind # "generate"
          /\ IF ask.verify THEN ask'.kind = "parse" /\ ask'.given = ask.given ELSE ask'.kind = "none"
      BY <1>0, <2>1, <2>2, SheetFields DEF Questions
    <2>7. EditorSound'
      BY <1>0, <1>1, <2>2, <2>5, <2>6, SoundIfSynced
    <2> QED
      BY <1>1, <1>3, <2>2, <2>5, <2>6, <2>7
  <1> QED
    BY <1>2, <1>3

LEMMA AskFailsDoes ==
    ASSUME EditorSound, AskFails
    PROVE  /\ EditorSound' /\ Synced /\ flow' = flow /\ ask.kind # "none" /\ ask'.kind = "none"
           /\ sync'.generateDue = sync.generateDue /\ sync'.verify = sync.verify
           /\ sync'.parseDue = sync.parseDue /\ sync'.failure /\ sync'.conflict = sync.conflict
  <1>0. EditorTyped /\ Whole /\ flow \in OpenFlows /\ sync \in Syncing
    BY DEF EditorSound, EditorTyped
  <1>1. /\ Synced /\ flow' = flow /\ edits' = edits /\ ask.kind # "none" /\ ask' = NoAsk
        /\ sync' = [sync EXCEPT !.phase = "idle", !.failure = TRUE]
    BY DEF AskFails, Synced, server, history
  <1>2. /\ sync' \in Syncing /\ sync'.generateDue = sync.generateDue /\ sync'.verify = sync.verify
        /\ sync'.parseDue = sync.parseDue /\ sync'.failure /\ sync'.conflict = sync.conflict
    BY <1>0, <1>1 DEF Syncing
  <1>3. ask' \in Questions /\ ask'.kind = "none"
    BY <1>1, SheetFields
  <1>4. EditorSound'
    BY <1>0, <1>1, <1>2, <1>3, SoundIfSynced DEF Whole, Around
  <1> QED
    BY <1>1, <1>2, <1>3, <1>4

\* The person sends something; the flow stays.
Sent == UNCHANGED <<flow, ask, disk, sidecar, kept, seen>>

LEMMA SoundIfSent ==
    ASSUME EditorSound, Sent, sync' = sync, edits' = edits, route' \in Flows, NEW c \in Calls,
           calls' \subseteq calls \cup {c}, c.why # "open" => flow.path # NoFlow,
           c.step \in {"generate", "put"} => c.text # Null,
           c.step \in {"generate", "put", "asked"}, c.step \in Steps(c.why)
    PROVE  EditorSound'
  BY DEF EditorSound, EditorTyped, Whole, Sent

LEMMA SaveDoes ==
    ASSUME EditorSound, Save
    PROVE  /\ EditorSound' /\ Sent /\ route' = route /\ sync' = sync
           /\ Attended /\ Waited("save twice", Writing)
           /\ Waited("leave", flow.path # route \/ Busy({"open"}))
           /\ Waited("unverified", sync.verify \/ ask.verify)
           /\ \E c \in Calls :
                 /\ calls' = calls \cup {c} /\ c.why = "save" /\ c.path = flow.path
                 /\ c.stamp = flow.modified
                 /\ IF flow.stale /\ flow.model # Null
                    THEN c.step = "generate" /\ c.text = flow.model
                    ELSE c.step = "put" /\ c.text = flow.source
  <1> DEFINE generate == flow.stale /\ flow.model # Null
             st == IF generate THEN "generate" ELSE "put"
             t == IF generate THEN flow.model ELSE flow.source
             c == Call("save", st, flow.path, t, flow.modified, NoLayout)
  <1>0. EditorTyped /\ Whole /\ flow \in OpenFlows /\ flow.path # NoFlow
    BY DEF EditorSound, EditorTyped, Save, Attended
  <1>1. /\ Sent /\ route' = route /\ sync' = sync /\ edits' = edits /\ calls' = calls \cup {c}
        /\ Attended /\ Waited("save twice", Writing)
        /\ Waited("leave", flow.path # route \/ Busy({"open"}))
        /\ Waited("unverified", sync.verify \/ ask.verify)
    BY DEF Save, Sent, server, history
  <1>2. /\ flow.path \in Flows /\ t \in Sheets /\ t # Null /\ flow.modified \in Nat
        /\ st \in {"generate", "put"}
    BY <1>0 DEF OpenFlows, Whole
  <1>3. /\ c \in Calls /\ c.why = "save" /\ c.path = flow.path /\ c.stamp = flow.modified
        /\ c.step = st /\ c.text = t
    <2> HIDE DEF st, t
    <2> QED
      BY <1>2 DEF Call, Calls
  <1> HIDE DEF c
  <1>4. EditorSound'
    BY <1>0, <1>1, <1>2, <1>3, SoundIfSent DEF EditorTyped, Steps
  <1> QED
    BY <1>1, <1>3, <1>4

LEMMA GoDoes ==
    ASSUME EditorSound, NEW f \in Flows, Go(f)
    PROVE  /\ EditorSound' /\ Sent /\ route' = f /\ sync' = sync
           /\ sync.conflict = NoConflict /\ Waited("leave", Writing)
           /\ \E c \in Calls :
                 /\ calls' = {d \in calls : d.why # "open"} \cup {c}
                 /\ c.why = "open" /\ c.path = f /\ c.step = "asked"
  <1> DEFINE c == Opening(f)
  <1>1. /\ Sent /\ route' = f /\ sync' = sync /\ edits' = edits
        /\ calls' = {d \in calls : d.why # "open"} \cup {c}
        /\ sync.conflict = NoConflict /\ Waited("leave", Writing)
    BY DEF Go, Sent, server, history
  <1>2. c \in Calls /\ c.why = "open" /\ c.path = f /\ c.step = "asked"
    BY SheetFields DEF Opening, Call, Calls
  <1> HIDE DEF c
  <1>3. EditorSound'
    BY <1>1, <1>2, SoundIfSent DEF Steps
  <1> QED
    BY <1>1, <1>2, <1>3

LEMMA RestoreDoes ==
    ASSUME EditorSound, Restore
    PROVE  /\ EditorSound' /\ Sent /\ route' = route /\ sync' = sync
           /\ Attended /\ Waited("save twice", Writing)
           /\ Waited("leave", flow.path # route \/ Busy({"open"}))
           /\ \E c \in Calls :
                 /\ calls' = calls \cup {c} /\ c.why = "restore" /\ c.path = flow.path
                 /\ c.step = "asked"
  <1> DEFINE c == Call("restore", "asked", flow.path, Null, 0, NoLayout)
  <1>0. EditorTyped /\ flow \in OpenFlows /\ flow.path # NoFlow
    BY DEF EditorSound, EditorTyped, Restore, Attended
  <1>1. /\ Sent /\ route' = route /\ sync' = sync /\ edits' = edits /\ calls' = calls \cup {c}
        /\ Attended /\ Waited("save twice", Writing)
        /\ Waited("leave", flow.path # route \/ Busy({"open"}))
    BY DEF Restore, Sent, server, history
  <1>2. c \in Calls /\ c.why = "restore" /\ c.path = flow.path /\ c.step = "asked"
    BY <1>0, SheetFields DEF Call, Calls, OpenFlows
  <1> HIDE DEF c
  <1>3. EditorSound'
    BY <1>0, <1>1, <1>2, SoundIfSent DEF EditorTyped, Steps
  <1> QED
    BY <1>1, <1>2, <1>3

LEMMA KeepMineDoes ==
    ASSUME EditorSound, KeepMine
    PROVE  /\ EditorSound' /\ Sent /\ route' = route /\ sync' = sync
           /\ sync.conflict # NoConflict /\ ~Busy({"keep", "theirs"})
           /\ \E c \in Calls :
                 /\ calls' = calls \cup {c} /\ c.why = "keep" /\ c.path = sync.conflict.path
                 /\ c.step = "put" /\ c.text = sync.conflict.mine
                 /\ c.stamp = sync.conflict.modified
  <1> DEFINE c == Call("keep", "put", sync.conflict.path, sync.conflict.mine, sync.conflict.modified, NoLayout)
  <1>1. /\ Sent /\ route' = route /\ sync' = sync /\ edits' = edits /\ calls' = calls \cup {c}
        /\ sync.conflict # NoConflict /\ ~Busy({"keep", "theirs"})
    BY DEF KeepMine, Sent, server, history
  <1>2. /\ sync.conflict.path \in Flows /\ sync.conflict.mine \in Sheets /\ sync.conflict.mine # Null
        /\ sync.conflict.modified \in Nat
    <2>1. sync.conflict \in Dialogs
      BY DEF EditorSound, EditorTyped, Syncing
    <2> QED
      BY <1>1, <2>1 DEF EditorSound, Whole, Dialogs
  <1>3. /\ c \in Calls /\ c.why = "keep" /\ c.path = sync.conflict.path
        /\ c.step = "put" /\ c.text = sync.conflict.mine /\ c.stamp = sync.conflict.modified
    BY <1>2 DEF Call, Calls
  <1> HIDE DEF c
  <1>4. EditorSound'
    BY <1>1, <1>2, <1>3, SoundIfSent DEF EditorSound, EditorTyped, Whole, Steps
  <1> QED
    BY <1>1, <1>3, <1>4

LEMMA TakeTheirsDoes ==
    ASSUME EditorSound, TakeTheirs
    PROVE  /\ EditorSound' /\ Sent /\ route' = route /\ sync' = sync
           /\ sync.conflict # NoConflict /\ ~Busy({"keep", "theirs"})
           /\ \E c \in Calls :
                 /\ calls' = calls \cup {c} /\ c.why = "theirs" /\ c.path = sync.conflict.path
                 /\ c.step = "asked"
  <1> DEFINE c == Call("theirs", "asked", sync.conflict.path, Null, 0, NoLayout)
  <1>1. /\ Sent /\ route' = route /\ sync' = sync /\ edits' = edits /\ calls' = calls \cup {c}
        /\ sync.conflict # NoConflict /\ ~Busy({"keep", "theirs"})
    BY DEF TakeTheirs, Sent, server, history, counts
  <1>2. sync.conflict.path \in Flows /\ flow.path # NoFlow
    <2>1. sync.conflict \in Dialogs
      BY DEF EditorSound, EditorTyped, Syncing
    <2> QED
      BY <1>1, <2>1 DEF EditorSound, Whole, Dialogs
  <1>3. c \in Calls /\ c.why = "theirs" /\ c.path = sync.conflict.path /\ c.step = "asked"
    BY <1>2, SheetFields DEF Call, Calls
  <1> HIDE DEF c
  <1>4. EditorSound'
    BY <1>1, <1>2, <1>3, SoundIfSent DEF EditorSound, EditorTyped, Steps
  <1> QED
    BY <1>1, <1>3, <1>4

LEMMA CancelConflictDoes ==
    ASSUME EditorSound, CancelConflict
    PROVE  /\ EditorSound' /\ Sent /\ route' = route /\ calls' = calls
           /\ sync'.conflict = NoConflict /\ ~Busy({"keep", "theirs"})
           /\ sync'.parseDue = sync.parseDue /\ sync'.generateDue = sync.generateDue
           /\ sync'.verify = sync.verify /\ sync'.failure = sync.failure
  <1>1. /\ Sent /\ route' = route /\ calls' = calls /\ edits' = edits
        /\ sync' = [sync EXCEPT !.conflict = NoConflict] /\ ~Busy({"keep", "theirs"})
    BY DEF CancelConflict, Sent, server, history, counts
  <1>2. sync \in Syncing /\ NoConflict \in Dialogs
    BY SheetFields DEF EditorSound, EditorTyped, NoConflict, Dialogs
  <1>3. /\ sync' \in Syncing /\ sync'.conflict = NoConflict
        /\ sync'.parseDue = sync.parseDue /\ sync'.generateDue = sync.generateDue
        /\ sync'.verify = sync.verify /\ sync'.failure = sync.failure
    BY <1>1, <1>2 DEF Syncing
  <1>4. EditorSound'
    BY <1>1, <1>3 DEF EditorSound, EditorTyped, Whole, Sent
  <1> QED
    BY <1>1, <1>3, <1>4

-----------------------------------------------------------------------------
(* What the server does.                                                   *)

\* The file of f gets one more version.
Grown(f, t) == disk' = [disk EXCEPT ![f] = Append(@, t)]

LEMMA FileGrows ==
    ASSUME EditorTyped, NEW f \in Flows, NEW t \in Texts, Grown(f, t)
    PROVE  /\ disk' \in [Flows -> Seq(Texts)] /\ \A g \in Flows : disk'[g] # <<>>
           /\ Stamp(f) \in Nat /\ Stamp(f)' = Stamp(f) + 1
           /\ \A n \in Nat : n = Stamp(f) + 1 => OnFile(f, n, t)'
           /\ disk'[f] = Append(disk[f], t)
           /\ \A g \in Flows : g # f => disk'[g] = disk[g]
           /\ \A g \in Flows : Stamp(g) \in Nat /\ Stamp(g)' \in Nat /\ Stamp(g) <= Stamp(g)'
           /\ \A g \in Flows, n \in Nat, x \in Sheets : OnFile(g, n, x) => OnFile(g, n, x)'
           /\ OwnFiles /\ t.of = f => \A g \in Flows : \A i \in 1..Len(disk'[g]) : disk'[g][i].of = g
  <1>1. disk \in [Flows -> Seq(Texts)]
    BY DEF EditorTyped
  <1>2. disk' \in [Flows -> Seq(Texts)] /\ disk'[f] = Append(disk[f], t)
        /\ \A g \in Flows : g # f => disk'[g] = disk[g]
    BY <1>1 DEF Grown
  <1>3. /\ \A g \in Flows : disk[g] \in Seq(Texts) /\ Len(disk[g]) \in Nat
        /\ Len(disk'[f]) = Len(disk[f]) + 1 /\ disk'[f][Len(disk[f]) + 1] = t
        /\ \A i \in 1..Len(disk[f]) : disk'[f][i] = disk[f][i]
    BY <1>1, <1>2
  <1>4. \A g \in Flows : disk'[g] # <<>>
    BY <1>2, <1>3 DEF EditorTyped
  <1>5. \A g \in Flows : Stamp(g) \in Nat /\ Stamp(g)' \in Nat /\ Stamp(g) <= Stamp(g)'
    BY <1>2, <1>3 DEF Stamp
  <1>6. Stamp(f) \in Nat /\ Stamp(f)' = Stamp(f) + 1
    BY <1>3 DEF Stamp
  <1>7. \A n \in Nat : n = Stamp(f) + 1 => OnFile(f, n, t)'
    BY <1>3 DEF OnFile, Stamp
  <1>8. \A g \in Flows, n \in Nat, x \in Sheets : OnFile(g, n, x) => OnFile(g, n, x)'
    BY <1>2, <1>3 DEF OnFile
  <1>9. ASSUME OwnFiles, t.of = f
        PROVE  \A g \in Flows : \A i \in 1..Len(disk'[g]) : disk'[g][i].of = g
    <2>1. \A i \in 1..Len(disk'[f]) : i \in 1..Len(disk[f]) \/ i = Len(disk[f]) + 1
      BY <1>3
    <2>2. \A i \in 1..Len(disk'[f]) : disk'[f][i].of = f
      BY <1>3, <1>9, <2>1 DEF OwnFiles
    <2> QED
      BY <1>2, <1>9, <2>2 DEF OwnFiles
  <1> QED
    BY <1>2, <1>4, <1>5, <1>6, <1>7, <1>8, <1>9

LEMMA LastOnFile ==
    ASSUME EditorTyped, NEW f \in Flows
    PROVE  /\ LastText(f) \in Texts /\ Stamp(f) \in Nat \ {0} /\ OnFile(f, Stamp(f), LastText(f))
           /\ OwnFiles => LastText(f).of = f
  <1>1. disk[f] \in Seq(Texts) /\ disk[f] # <<>>
    BY DEF EditorTyped
  <1>2. Len(disk[f]) \in Nat /\ Len(disk[f]) # 0 /\ Len(disk[f]) \in 1..Len(disk[f])
    BY <1>1
  <1> QED
    BY <1>1, <1>2 DEF LastText, Stamp, OnFile, OwnFiles, Last

\* The server takes the request c a step further.
Becomes(c, d) ==
    /\ calls' = (calls \ {c}) \cup {d} /\ d \in Calls /\ d.why = c.why /\ d.path = c.path
Served == UNCHANGED <<route, flow, sync, ask, kept>>

LEMMA SoundIfServed ==
    ASSUME EditorSound, Served, edits' = edits, NEW c \in calls, NEW d, Becomes(c, d),
           disk' \in [Flows -> Seq(Texts)], \A f \in Flows : disk'[f] # <<>>,
           sidecar' \in [Flows -> Plans], seen' \in [Flows -> Nat],
           d.step \in {"generate", "put", "written", "answered"} => d.text # Null,
           d.step \in {"layout", "answered"} => d.layout # NoLayout,
           \/ c.step = "put" /\ d.step \in {"written", "refused"}
           \/ c.step = "layout" /\ d.step = "laid"
           \/ c.step = "asked" /\ d.step = "answered"
    PROVE  EditorSound'
  <1>1. calls' \subseteq calls \cup {d} /\ calls' \subseteq Calls
    BY DEF Becomes, EditorSound, EditorTyped
  <1>2. d.why # "open" => flow.path # NoFlow
    BY DEF Becomes, EditorSound, Whole
  <1>3. d.step \in Steps(d.why)
    BY DEF Becomes, Steps, EditorSound, EditorTyped, Whole, Calls
  <1> QED
    BY <1>1, <1>2, <1>3 DEF EditorSound, EditorTyped, Whole, Served

LEMMA ServerWritesDoes ==
    ASSUME EditorSound, NEW c \in calls, ServerWrites(c)
    PROVE  /\ EditorSound' /\ Served /\ sidecar' = sidecar /\ c.step = "put" /\ c.text \in Texts
           /\ \E d \in Calls :
                 /\ Becomes(c, d)
                 /\ IF c.stamp = Stamp(c.path)
                    THEN /\ d.step = "written" /\ d.text = c.text /\ d.stamp = Stamp(c.path) + 1
                         /\ Grown(c.path, c.text)
                         /\ seen' = [seen EXCEPT ![c.path] = Stamp(c.path) + 1]
                    ELSE /\ d.step = "refused" /\ d.stamp = Stamp(c.path) /\ d.text \in Texts
                         /\ disk' = disk /\ seen' = seen
  <1>0. EditorTyped /\ Whole /\ c \in Calls
    BY DEF EditorSound, EditorTyped
  <1>1. Served /\ sidecar' = sidecar /\ edits' = edits /\ c.step = "put"
    BY DEF ServerWrites, Served, counts
  <1>2. c.path \in Flows /\ c.text \in Texts /\ c.stamp \in Nat
    BY <1>0, <1>1, SheetFields DEF Calls, Whole
  <1>3. LastText(c.path) \in Texts /\ Stamp(c.path) \in Nat
    BY <1>0, <1>2, LastOnFile
  <1>4. CASE c.stamp = Stamp(c.path)
    <2> DEFINE n == Stamp(c.path) + 1
               d == [c EXCEPT !.step = "written", !.stamp = n]
    <2>0. c.stamp + 1 = n /\ n \in Nat /\ [c EXCEPT !.step = "written", !.stamp = @ + 1] = d
      BY <1>0, <1>3, <1>4 DEF Calls
    <2>1. /\ Grown(c.path, c.text) /\ calls' = (calls \ {c}) \cup {d}
          /\ seen' = [seen EXCEPT ![c.path] = n]
      BY <1>4, <2>0 DEF ServerWrites, Goes, Grown
    <2> HIDE DEF n
    <2>2. d \in Calls /\ d.why = c.why /\ d.path = c.path /\ d.step = "written" /\ d.text = c.text
          /\ d.stamp = n
      BY <1>0, <2>0 DEF Calls
    <2> HIDE DEF d
    <2>3. Becomes(c, d)
      BY <2>1, <2>2 DEF Becomes
    <2>4. disk' \in [Flows -> Seq(Texts)] /\ \A f \in Flows : disk'[f] # <<>>
      BY <1>0, <1>2, <2>1, FileGrows
    <2>5. sidecar' \in [Flows -> Plans] /\ seen' \in [Flows -> Nat]
      BY <1>0, <1>1, <2>0, <2>1 DEF EditorTyped
    <2>6. d.text # Null
      BY <1>2, <2>2, SheetFields
    <2>7. EditorSound'
      BY <1>1, <2>2, <2>3, <2>4, <2>5, <2>6, SoundIfServed
    <2> QED
      BY <1>1, <1>2, <1>4, <2>1, <2>2, <2>3, <2>7 DEF n
  <1>5. CASE c.stamp # Stamp(c.path)
    <2> DEFINE t == LastText(c.path)
               d == [c EXCEPT !.step = "refused", !.text = t, !.stamp = Stamp(c.path)]
    <2>1. disk' = disk /\ seen' = seen /\ calls' = (calls \ {c}) \cup {d}
      BY <1>5 DEF ServerWrites, Goes
    <2>2. t \in Texts /\ t \in Sheets
      BY <1>3, SheetFields
    <2> HIDE DEF t
    <2>3. d \in Calls /\ d.why = c.why /\ d.path = c.path /\ d.step = "refused" /\ d.text = t
          /\ d.stamp = Stamp(c.path)
      BY <1>0, <1>3, <2>2 DEF Calls
    <2> HIDE DEF d
    <2>4. Becomes(c, d)
      BY <2>1, <2>3 DEF Becomes
    <2>5. EditorSound'
      BY <1>0, <1>1, <2>1, <2>3, <2>4, SoundIfServed DEF EditorTyped
    <2> QED
      BY <1>1, <1>2, <1>5, <2>1, <2>2, <2>3, <2>4, <2>5
  <1> QED
    BY <1>4, <1>5

LEMMA ServerReadsDoes ==
    ASSUME EditorSound, NEW c \in calls, ServerReads(c)
    PROVE  /\ EditorSound' /\ Served /\ UNCHANGED <<disk, sidecar, seen>>
           /\ c.step = "asked" /\ c.why # "restore"
           /\ \E d \in Calls :
                 /\ Becomes(c, d) /\ d.step = "answered" /\ d.text = LastText(c.path)
                 /\ d.stamp = Stamp(c.path) /\ d.layout = sidecar[c.path]
  <1> DEFINE t == LastText(c.path)
             l == sidecar[c.path]
             d == [c EXCEPT !.step = "answered", !.text = t, !.stamp = Stamp(c.path), !.layout = l]
  <1>0. EditorTyped /\ Whole /\ c \in Calls
    BY DEF EditorSound, EditorTyped
  <1>1. /\ Served /\ UNCHANGED <<disk, sidecar, seen>> /\ edits' = edits
        /\ c.step = "asked" /\ c.why # "restore" /\ calls' = (calls \ {c}) \cup {d}
    BY DEF ServerReads, Served, counts, server, history, Goes
  <1>2. c.path \in Flows
    BY <1>0 DEF Calls
  <1>3. /\ t \in Sheets /\ t # Null /\ Stamp(c.path) \in Nat
        /\ l \in Plans /\ l # NoLayout
    <2>1. l \in Plans /\ l.of \in Flows
      BY <1>0, <1>2 DEF EditorTyped, Plans
    <2> QED
      BY <1>0, <1>2, <2>1, LastOnFile, SheetFields
  <1> HIDE DEF t, l
  <1>4. d \in Calls /\ d.why = c.why /\ d.path = c.path /\ d.step = "answered" /\ d.text = t
        /\ d.stamp = Stamp(c.path) /\ d.layout = l
    BY <1>0, <1>3 DEF Calls
  <1> HIDE DEF d
  <1>5. Becomes(c, d)
    BY <1>1, <1>4 DEF Becomes
  <1>6. EditorSound'
    BY <1>0, <1>1, <1>3, <1>4, <1>5, SoundIfServed DEF EditorTyped
  <1> QED
    BY <1>1, <1>4, <1>5, <1>6 DEF t, l

LEMMA ServerRestoresDoes ==
    ASSUME EditorSound, NEW c \in calls, ServerRestores(c)
    PROVE  /\ EditorSound' /\ Served /\ seen' = seen
           /\ c.step = "asked" /\ c.why = "restore" /\ c.path \in Flows
           /\ \E d \in Calls :
                 /\ Becomes(c, d) /\ d.step = "answered" /\ d.text \in Texts
                 /\ Grown(c.path, d.text) /\ d.stamp = Stamp(c.path) + 1
                 /\ sidecar' = [sidecar EXCEPT ![c.path] = d.layout]
                 /\ OwnFiles => d.text.of = c.path /\ d.layout.of = c.path
  <1>0. EditorTyped /\ Whole /\ c \in Calls
    BY DEF EditorSound, EditorTyped
  <1>1. Served /\ seen' = seen /\ edits' = edits /\ c.step = "asked" /\ c.why = "restore"
    BY DEF ServerRestores, Served, counts, history
  <1>2. c.path \in Flows /\ sidecar[c.path] \in Plans
    BY <1>0 DEF Calls, EditorTyped
  <1>3. PICK i \in 1..Stamp(c.path), n \in 0..sidecar[c.path].moved :
          LET text == disk[c.path][i]
              layout == [sidecar[c.path] EXCEPT !.moved = n]
          IN  /\ disk' = [disk EXCEPT ![c.path] = Append(@, text)]
              /\ sidecar' = [sidecar EXCEPT ![c.path] = layout]
              /\ Goes(c, [c EXCEPT !.step = "answered", !.text = text,
                                   !.stamp = Stamp(c.path) + 1, !.layout = layout])
    BY DEF ServerRestores
  <1> DEFINE t == disk[c.path][i]
             l == [sidecar[c.path] EXCEPT !.moved = n]
             k == Stamp(c.path) + 1
             d == [c EXCEPT !.step = "answered", !.text = t, !.stamp = k, !.layout = l]
  <1>4. Grown(c.path, t) /\ sidecar' = [sidecar EXCEPT ![c.path] = l] /\ calls' = (calls \ {c}) \cup {d}
    BY <1>3 DEF Grown, Goes
  <1>5. t \in Texts /\ (OwnFiles => t.of = c.path) /\ k \in Nat
    BY <1>0, <1>2 DEF EditorTyped, Stamp, OwnFiles
  <1>6. l \in Plans /\ l.of = sidecar[c.path].of /\ l # NoLayout
    <2>1. n \in Nat
      BY <1>2 DEF Plans
    <2>2. l \in Plans /\ l.of = sidecar[c.path].of /\ l.of \in Flows
      BY <1>2, <2>1 DEF Plans
    <2> QED
      BY <2>2, SheetFields
  <1>7. OwnFiles => l.of = c.path
    BY <1>2, <1>6 DEF OwnFiles
  <1> HIDE DEF t, l, k
  <1>8. t \in Sheets /\ t # Null
    BY <1>5, SheetFields
  <1>9. d \in Calls /\ d.why = c.why /\ d.path = c.path /\ d.step = "answered" /\ d.text = t
        /\ d.stamp = k /\ d.layout = l
    BY <1>0, <1>5, <1>6, <1>8 DEF Calls
  <1> HIDE DEF d
  <1>10. Becomes(c, d)
    BY <1>4, <1>9 DEF Becomes
  <1>11. disk' \in [Flows -> Seq(Texts)] /\ \A f \in Flows : disk'[f] # <<>>
    BY <1>0, <1>2, <1>4, <1>5, FileGrows
  <1>12. sidecar' \in [Flows -> Plans] /\ seen' \in [Flows -> Nat]
    BY <1>0, <1>1, <1>4, <1>6 DEF EditorTyped
  <1>13. EditorSound'
    BY <1>1, <1>6, <1>8, <1>9, <1>10, <1>11, <1>12, SoundIfServed
  <1> QED
    BY <1>1, <1>2, <1>4, <1>5, <1>7, <1>9, <1>10, <1>13 DEF k

LEMMA ServerLayoutDoes ==
    ASSUME EditorSound, NEW c \in calls, ServerLayout(c)
    PROVE  /\ EditorSound' /\ Served /\ disk' = disk /\ seen' = seen
           /\ c.step = "layout" /\ c.path \in Flows /\ sidecar' = [sidecar EXCEPT ![c.path] = c.layout]
           /\ \E d \in Calls : Becomes(c, d) /\ d.step = "laid"
  <1> DEFINE d == [c EXCEPT !.step = "laid"]
  <1>0. EditorTyped /\ Whole /\ c \in Calls
    BY DEF EditorSound, EditorTyped
  <1>1. /\ Served /\ disk' = disk /\ seen' = seen /\ edits' = edits /\ c.step = "layout"
        /\ sidecar' = [sidecar EXCEPT ![c.path] = c.layout] /\ calls' = (calls \ {c}) \cup {d}
    BY DEF ServerLayout, Served, counts, history, Goes
  <1>2. c.path \in Flows /\ c.layout \in Plans
    BY <1>0, <1>1 DEF Calls, Whole
  <1>3. d \in Calls /\ d.why = c.why /\ d.path = c.path /\ d.step = "laid"
    BY <1>0 DEF Calls
  <1> HIDE DEF d
  <1>4. Becomes(c, d)
    BY <1>1, <1>3 DEF Becomes
  <1>5. sidecar' \in [Flows -> Plans]
    BY <1>0, <1>1, <1>2 DEF EditorTyped
  <1>6. EditorSound'
    BY <1>0, <1>1, <1>3, <1>4, <1>5, SoundIfServed DEF EditorTyped
  <1> QED
    BY <1>1, <1>2, <1>3, <1>4, <1>6

LEMMA OtherWritesDoes ==
    ASSUME EditorSound, NEW f \in Flows, OtherWrites(f)
    PROVE  /\ EditorSound' /\ Served /\ sidecar' = sidecar /\ seen' = seen /\ calls' = calls
           /\ FirstText(f) \in Texts /\ FirstText(f).of = f /\ Grown(f, FirstText(f))
  <1>1. /\ Served /\ sidecar' = sidecar /\ seen' = seen /\ calls' = calls /\ edits' = edits
        /\ Grown(f, FirstText(f))
    BY DEF OtherWrites, Served, history, Grown
  <1>2. FirstText(f) \in Texts /\ FirstText(f).of = f
    BY DEF FirstText, Texts
  <1>3. disk' \in [Flows -> Seq(Texts)] /\ \A g \in Flows : disk'[g] # <<>>
    BY <1>1, <1>2, FileGrows DEF EditorSound
  <1>4. EditorSound'
    BY <1>1, <1>3 DEF EditorSound, EditorTyped, Whole, Served
  <1> QED
    BY <1>1, <1>2, <1>4

-----------------------------------------------------------------------------
(* What the editor makes of an answer.                                     *)

Answered == UNCHANGED <<route, ask, disk, sidecar>>

LEMMA SoundIfAnswered ==
    ASSUME EditorSound, Answered, edits' = edits, NEW c \in calls,
           calls' = calls \ {c} \/ \E d : Becomes(c, d) /\ (d.step = "put" => d.text # Null)
                                          /\ (d.step = "layout" => d.layout # NoLayout)
                                          /\ \/ c.step = "generate" /\ d.step = "put"
                                             \/ c.why = "save" /\ d.step = "layout",
           flow' \in OpenFlows, flow'.path # flow.path => flow'.path # NoFlow,
           flow'.path # NoFlow => flow'.source # Null /\ flow'.layout # NoLayout,
           sync' \in Syncing, sync'.generateDue => flow'.stale /\ flow'.model # Null,
           sync'.conflict # NoConflict =>
              flow'.path # NoFlow /\ sync'.conflict.path # NoFlow /\ sync'.conflict.mine # Null,
           kept' \subseteq Edits, seen' \in [Flows -> Nat]
    PROVE  EditorSound'
  <1>1. EditorTyped'
    <2>1. calls' \subseteq Calls
      BY DEF Becomes, EditorSound, EditorTyped
    <2> QED
      BY <2>1 DEF EditorSound, EditorTyped, Answered
  <1>2. flow.path # NoFlow => flow'.path # NoFlow
    OBVIOUS
  <1>3. \A d \in calls' : d.step \in Steps(d.why)
    <2>1. \A d \in calls : d.step \in Steps(d.why)
      BY DEF EditorSound, Whole
    <2>2. c.step = "generate" => c.why = "save"
      BY <2>1 DEF Steps
    <2>3. "put" \in Steps("save") /\ "layout" \in Steps("save")
      BY DEF Steps
    <2> QED
      BY <2>1, <2>2, <2>3 DEF Becomes
  <1>4. \A d \in calls' :
            /\ d.why # "open" => flow'.path # NoFlow
            /\ d.step \in {"generate", "put", "written", "answered"} => d.text # Null
            /\ d.step \in {"layout", "answered"} => d.layout # NoLayout
    BY <1>2 DEF EditorSound, Whole, Becomes
  <1>5. Whole'
    BY <1>3, <1>4 DEF EditorSound, Whole, Answered
  <1> QED
    BY <1>1, <1>5 DEF EditorSound

\* What stays of the sync when an answer changes the flow but not its path.
SyncKept == /\ sync'.parseDue = sync.parseDue /\ sync'.verify = sync.verify
            /\ sync'.failure = sync.failure

LEMMA SaveGeneratedDoes ==
    ASSUME EditorSound, NEW c \in calls, SaveGenerated(c)
    PROVE  /\ EditorSound' /\ Answered /\ UNCHANGED <<kept, seen>>
           /\ c.step = "generate" /\ c.text \in Texts
           /\ \E d \in Calls : /\ Becomes(c, d) /\ d.step = "put" /\ d.text = c.text
                               /\ d.stamp = c.stamp
           /\ Around(flow') /\ flow'.source = c.text /\ ~flow'.stale /\ flow'.model = flow.model
           /\ flow'.dirty = flow.dirty /\ flow'.modified = flow.modified
           /\ SyncKept /\ sync'.conflict = sync.conflict /\ ~sync'.generateDue
  <1> DEFINE s == WithSource(flow, c.text)
             d == [c EXCEPT !.step = "put"]
  <1>0. EditorTyped /\ Whole /\ flow \in OpenFlows /\ sync \in Syncing /\ c \in Calls
    BY DEF EditorSound, EditorTyped
  <1>1. /\ Answered /\ UNCHANGED <<kept, seen>> /\ edits' = edits /\ c.step = "generate"
        /\ Effects(s, sync) /\ calls' = (calls \ {c}) \cup {d}
    BY DEF SaveGenerated, Answered, server, history, counts, Goes
  <1>2. c.text \in Texts /\ c.text \in Sheets /\ c.text # Null
    BY <1>0, <1>1, SheetFields DEF Calls, Whole
  <1>3. /\ s \in OpenFlows /\ Around(s) /\ s.source = c.text /\ ~s.stale
        /\ s.model = flow.model /\ s.dirty = flow.dirty /\ s.modified = flow.modified
    BY <1>0, <1>2, TextSet
  <1> HIDE DEF s
  <1>4. /\ d \in Calls /\ d.why = c.why /\ d.path = c.path /\ d.step = "put" /\ d.text = c.text
        /\ d.stamp = c.stamp
    BY <1>0 DEF Calls
  <1> HIDE DEF d
  <1>5. Becomes(c, d)
    BY <1>1, <1>4 DEF Becomes
  <1>6. flow' = s /\ sync' \in Syncing /\ ~sync'.generateDue /\ SyncKept /\ sync'.conflict = sync.conflict
    BY <1>0, <1>1, <1>3, EffectsOf DEF Around, SyncKept
  <1>7. flow'.path = flow.path /\ flow'.layout = flow.layout
    BY <1>3, <1>6 DEF Around
  <1>8. EditorSound'
    BY <1>0, <1>1, <1>2, <1>3, <1>4, <1>5, <1>6, <1>7, SoundIfAnswered DEF Whole, EditorTyped
  <1> QED
    BY <1>1, <1>2, <1>3, <1>4, <1>5, <1>6, <1>8

LEMMA SaveAnsweredDoes ==
    ASSUME EditorSound, NEW c \in calls, SaveAnswered(c)
    PROVE  /\ EditorSound' /\ Answered /\ UNCHANGED <<kept, seen>>
           /\ c.step = "written" /\ c.why = "save" /\ c.text \in Texts
           /\ \/ calls' = calls \ {c}
              \/ \E d \in Calls : Becomes(c, d) /\ d.step = "layout" /\ d.layout = flow.layout
           /\ Around(flow') /\ flow'.source = c.text /\ ~flow'.stale /\ flow'.model = flow.model
           /\ ~flow'.dirty /\ flow'.modified = c.stamp
           /\ SyncKept /\ sync'.conflict = sync.conflict /\ ~sync'.generateDue
  <1> DEFINE s == Saved(flow, c.text, c.stamp)
             d == [c EXCEPT !.step = "layout", !.layout = flow.layout]
  <1>0. EditorTyped /\ Whole /\ flow \in OpenFlows /\ sync \in Syncing /\ c \in Calls
    BY DEF EditorSound, EditorTyped
  <1>1. /\ Answered /\ UNCHANGED <<kept, seen>> /\ edits' = edits /\ c.step = "written"
        /\ c.why = "save" /\ Effects(s, sync)
        /\ calls' = (calls \ {c}) \cup {d} \/ calls' = calls \ {c}
    BY DEF SaveAnswered, Answered, server, history, counts, Goes, Ends
  <1>2. c.text \in Texts /\ c.text \in Sheets /\ c.text # Null /\ c.stamp \in Nat
    BY <1>0, <1>1, SheetFields DEF Calls, Whole
  <1>3. /\ s \in OpenFlows /\ Around(s) /\ s.source = c.text /\ ~s.stale
        /\ s.model = flow.model /\ ~s.dirty /\ s.modified = c.stamp
    BY <1>0, <1>2, TextSet
  <1> HIDE DEF s
  <1>4. /\ d \in Calls /\ d.why = c.why /\ d.path = c.path /\ d.step = "layout"
        /\ d.layout = flow.layout /\ flow.layout # NoLayout /\ flow.path # NoFlow
    BY <1>0, <1>1 DEF Calls, OpenFlows, Whole
  <1> HIDE DEF d
  <1>5. calls' = calls \ {c} \/ Becomes(c, d)
    BY <1>1, <1>4 DEF Becomes
  <1>6. flow' = s /\ sync' \in Syncing /\ ~sync'.generateDue /\ SyncKept /\ sync'.conflict = sync.conflict
    BY <1>0, <1>1, <1>3, EffectsOf DEF Around, SyncKept
  <1>7. flow'.path = flow.path /\ flow'.layout = flow.layout
    BY <1>3, <1>6 DEF Around
  <1>8. EditorSound'
    BY <1>0, <1>1, <1>2, <1>3, <1>4, <1>5, <1>6, <1>7, SoundIfAnswered DEF Whole, EditorTyped
  <1> QED
    BY <1>1, <1>2, <1>3, <1>4, <1>5, <1>6, <1>8

LEMMA LayoutAnsweredDoes ==
    ASSUME EditorSound, NEW c \in calls, LayoutAnswered(c)
    PROVE  /\ EditorSound' /\ Answered /\ UNCHANGED <<kept, seen, sync>>
           /\ c.step = "laid" /\ calls' = calls \ {c}
           /\ Around(flow') /\ flow'.source = flow.source /\ flow'.stale = flow.stale
           /\ flow'.model = flow.model /\ flow'.dirty = flow.dirty /\ flow'.modified = flow.modified
  <1>0. EditorTyped /\ Whole /\ flow \in OpenFlows /\ sync \in Syncing
    BY DEF EditorSound, EditorTyped
  <1>1. /\ Answered /\ UNCHANGED <<kept, seen, sync>> /\ edits' = edits /\ c.step = "laid"
        /\ calls' = calls \ {c} /\ flow' = [flow EXCEPT !.layoutDirty = FALSE]
    BY DEF LayoutAnswered, Answered, server, history, counts, Ends
  <1>2. /\ flow' \in OpenFlows /\ Around(flow') /\ flow'.source = flow.source /\ flow'.stale = flow.stale
        /\ flow'.model = flow.model /\ flow'.dirty = flow.dirty /\ flow'.modified = flow.modified
    BY <1>0, <1>1 DEF OpenFlows, Around
  <1>3. EditorSound'
    BY <1>0, <1>1, <1>2, SoundIfAnswered DEF Whole, EditorTyped, Around
  <1> QED
    BY <1>1, <1>2, <1>3

LEMMA SaveRefusedDoes ==
    ASSUME EditorSound, NEW c \in calls, SaveRefused(c)
    PROVE  /\ EditorSound' /\ Answered /\ UNCHANGED <<kept, flow>>
           /\ c.step = "refused" /\ c.why = "save" /\ c.path \in Flows /\ calls' = calls \ {c}
           /\ seen' = [seen EXCEPT ![c.path] = c.stamp]
           /\ SyncKept /\ sync'.generateDue = sync.generateDue
           /\ sync'.conflict # NoConflict /\ sync'.conflict.path = flow.path
           /\ sync'.conflict.mine = flow.source /\ sync'.conflict.modified = c.stamp
           /\ flow.path # NoFlow
  <1> DEFINE w == [path |-> flow.path, mine |-> flow.source, theirs |-> c.text, modified |-> c.stamp]
  <1>0. EditorTyped /\ Whole /\ flow \in OpenFlows /\ sync \in Syncing /\ c \in Calls
    BY DEF EditorSound, EditorTyped
  <1>1. /\ Answered /\ UNCHANGED <<kept, flow>> /\ edits' = edits /\ c.step = "refused"
        /\ c.why = "save" /\ calls' = calls \ {c} /\ seen' = [seen EXCEPT ![c.path] = c.stamp]
        /\ sync' = [sync EXCEPT !.phase = "idle", !.conflict = w]
    BY DEF SaveRefused, Answered, server, counts, Ends
  <1>2. /\ c.path \in Flows /\ c.text \in Sheets /\ c.stamp \in Nat
        /\ flow.path # NoFlow /\ flow.source # Null /\ flow.source \in Sheets
        /\ flow.path \in Flows
    BY <1>0, <1>1 DEF Calls, OpenFlows, Whole
  <1>3. /\ w \in Dialogs /\ w.path = flow.path /\ w.mine = flow.source /\ w.modified = c.stamp
        /\ w # NoConflict
    <2>1. w \in Dialogs /\ w.path = flow.path /\ w.mine = flow.source /\ w.modified = c.stamp
      BY <1>2 DEF Dialogs
    <2> QED
      BY <1>2, <2>1, SheetFields
  <1> HIDE DEF w
  <1>4. /\ sync' \in Syncing /\ SyncKept /\ sync'.generateDue = sync.generateDue /\ sync'.conflict = w
    BY <1>0, <1>1, <1>3 DEF Syncing, SyncKept
  <1>5. seen' \in [Flows -> Nat]
    BY <1>0, <1>1, <1>2 DEF EditorTyped
  <1>6. EditorSound'
    BY <1>0, <1>1, <1>2, <1>3, <1>4, <1>5, SoundIfAnswered DEF Whole, EditorTyped
  <1> QED
    BY <1>1, <1>2, <1>3, <1>4, <1>6

LEMMA KeepAnsweredDoes ==
    ASSUME EditorSound, NEW c \in calls, KeepAnswered(c)
    PROVE  /\ EditorSound' /\ Answered /\ UNCHANGED <<kept, seen>>
           /\ c.step = "written" /\ c.why = "keep" /\ c.text \in Texts /\ calls' = calls \ {c}
           /\ Around(flow') /\ flow'.source = c.text /\ ~flow'.stale
           /\ flow'.model = Parsed(c.text) /\ ~flow'.dirty /\ flow'.modified = c.stamp
           /\ SyncKept /\ sync'.conflict = NoConflict /\ ~sync'.generateDue
  <1> DEFINE s == WithParse(Saved(flow, c.text, c.stamp), c.text)
             y == [sync EXCEPT !.conflict = NoConflict]
  <1>0. EditorTyped /\ Whole /\ flow \in OpenFlows /\ sync \in Syncing /\ c \in Calls
    BY DEF EditorSound, EditorTyped
  <1>1. /\ Answered /\ UNCHANGED <<kept, seen>> /\ edits' = edits /\ c.step = "written"
        /\ c.why = "keep" /\ Effects(s, y) /\ calls' = calls \ {c}
    BY DEF KeepAnswered, Answered, server, history, counts, Ends
  <1>2. c.text \in Texts /\ c.text \in Sheets /\ c.text # Null /\ c.stamp \in Nat
    BY <1>0, <1>1, SheetFields DEF Calls, Whole
  <1>3. /\ s \in OpenFlows /\ Around(s) /\ s.source = c.text /\ ~s.stale
        /\ s.model = Parsed(c.text) /\ ~s.dirty /\ s.modified = c.stamp
    BY <1>0, <1>2, TextSet
  <1> HIDE DEF s
  <1>4. /\ y \in Syncing /\ y.conflict = NoConflict /\ y.parseDue = sync.parseDue
        /\ y.verify = sync.verify /\ y.failure = sync.failure
    BY <1>0, SheetFields DEF Syncing
  <1> HIDE DEF y
  <1>5. flow' = s /\ sync' \in Syncing /\ ~sync'.generateDue /\ SyncKept /\ sync'.conflict = NoConflict
    BY <1>0, <1>1, <1>3, <1>4, EffectsOf DEF Around, SyncKept
  <1>6. flow'.path = flow.path /\ flow'.layout = flow.layout
    BY <1>3, <1>5 DEF Around
  <1>7. EditorSound'
    BY <1>0, <1>1, <1>2, <1>3, <1>5, <1>6, SoundIfAnswered DEF Whole, EditorTyped
  <1> QED
    BY <1>1, <1>2, <1>3, <1>5, <1>7

LEMMA KeepRefusedDoes ==
    ASSUME EditorSound, NEW c \in calls, KeepRefused(c)
    PROVE  /\ EditorSound' /\ Answered /\ UNCHANGED <<kept, seen, flow, sync>>
           /\ calls' = calls \ {c}
  <1>1. Answered /\ UNCHANGED <<kept, seen, flow, sync>> /\ edits' = edits /\ calls' = calls \ {c}
    BY DEF KeepRefused, Answered, server, history, counts, Ends
  <1> QED
    BY <1>1, SoundIfAnswered DEF EditorSound, EditorTyped, Whole

LEMMA CallFailsDoes ==
    ASSUME EditorSound, NEW c \in calls, CallFails(c)
    PROVE  /\ EditorSound' /\ Answered /\ UNCHANGED <<kept, seen, flow, sync>>
           /\ calls' = calls \ {c}
  <1>1. Answered /\ UNCHANGED <<kept, seen, flow, sync>> /\ edits' = edits /\ calls' = calls \ {c}
    BY DEF CallFails, Answered, server, history, Ends
  <1> QED
    BY <1>1, SoundIfAnswered DEF EditorSound, EditorTyped, Whole

LEMMA FlowAnsweredDoes ==
    ASSUME EditorSound, NEW c \in calls, FlowAnswered(c)
    PROVE  /\ EditorSound' /\ Answered /\ c.step = "answered" /\ calls' = calls \ {c}
           /\ c.path \in Flows /\ c.text \in Texts /\ c.layout \in Plans
           /\ flow'.path = c.path /\ flow'.source = c.text /\ flow'.modified = c.stamp
           /\ flow'.model = Parsed(c.text) /\ flow'.layout = c.layout
           /\ ~flow'.dirty /\ ~flow'.stale /\ flow'.past = <<>> /\ flow'.future = <<>>
           /\ kept' = c.text.has /\ seen' = [seen EXCEPT ![c.path] = c.stamp]
           /\ ~sync'.generateDue
           /\ c.path = flow.path =>
                 /\ SyncKept
                 /\ sync'.conflict = IF c.why = "theirs" THEN NoConflict ELSE sync.conflict
           /\ c.path # flow.path =>
                 ~sync'.parseDue /\ ~sync'.verify /\ ~sync'.failure /\ sync'.conflict = NoConflict
  <1> DEFINE s == ServerFlow(c.path, c.text, c.stamp, c.layout)
             w == IF c.why = "theirs" THEN NoConflict ELSE sync.conflict
             y == IF c.why = "theirs" THEN [sync EXCEPT !.conflict = NoConflict] ELSE sync
  <1>0. EditorTyped /\ Whole /\ flow \in OpenFlows /\ sync \in Syncing /\ c \in Calls
    BY DEF EditorSound, EditorTyped
  <1>1. /\ Answered /\ edits' = edits /\ c.step = "answered" /\ Effects(s, y) /\ calls' = calls \ {c}
        /\ kept' = c.text.has /\ seen' = [seen EXCEPT ![c.path] = c.stamp]
    BY DEF FlowAnswered, Answered, server, counts, Ends
  <1>2. /\ c.text \in Texts /\ c.text \in Sheets /\ c.text # Null /\ c.stamp \in Nat /\ c.path \in Flows
        /\ c.layout \in Plans /\ c.layout # NoLayout
    BY <1>0, <1>1, SheetFields DEF Calls, Whole
  <1>3. /\ s \in OpenFlows /\ s.path = c.path /\ s.source = c.text /\ s.modified = c.stamp
        /\ s.model = Parsed(c.text) /\ s.layout = c.layout /\ ~s.dirty /\ ~s.stale
        /\ s.past = <<>> /\ s.future = <<>>
    BY <1>0, <1>2, Setters
  <1> HIDE DEF s
  <1>4. /\ y \in Syncing /\ y.conflict = w /\ y.parseDue = sync.parseDue
        /\ y.verify = sync.verify /\ y.failure = sync.failure
    BY <1>0, SheetFields DEF Syncing
  <1> HIDE DEF y
  <1>5. /\ flow' = s /\ sync' \in Syncing /\ ~sync'.generateDue
        /\ c.path = flow.path => SyncKept /\ sync'.conflict = w
        /\ c.path # flow.path =>
              ~sync'.parseDue /\ ~sync'.verify /\ ~sync'.failure /\ sync'.conflict = NoConflict
    BY <1>0, <1>1, <1>3, <1>4, EffectsOf DEF SyncKept
  <1>6. sync'.conflict # NoConflict => sync.conflict = sync'.conflict
    BY <1>5
  <1>7. kept' \subseteq Edits /\ seen' \in [Flows -> Nat] /\ c.path # NoFlow
    BY <1>0, <1>1, <1>2, SheetFields DEF EditorTyped
  <1>8. EditorSound'
    BY <1>0, <1>1, <1>2, <1>3, <1>5, <1>6, <1>7, SoundIfAnswered DEF Whole
  <1> QED
    BY <1>1, <1>2, <1>3, <1>5, <1>8

-----------------------------------------------------------------------------
(* What is open, sent and stored always is what it is taken for.           *)

LEMMA SoundAtFirst == Init => EditorSound
  <1> SUFFICES ASSUME Init PROVE EditorSound
    OBVIOUS
  <1> DEFINE c == Opening(route)
  <1>1. route \in Flows
    BY EditorAssumption DEF Init
  <1>2. /\ flow \in OpenFlows /\ flow.path = NoFlow
    <2>1. Null \in Sheets /\ <<>> \in Seq(Sheets)
      BY SheetFields
    <2> QED
      BY <2>1 DEF Init, Initial, OpenFlows
  <1>3. /\ sync \in Syncing /\ sync.conflict = NoConflict /\ ~sync.generateDue
        /\ ask \in Questions /\ ask.kind = "none"
    BY SheetFields DEF Init, Reset
  <1>4. c \in Calls /\ c.why = "open" /\ c.step = "asked" /\ calls = {c}
    BY <1>1, SheetFields DEF Init, Opening, Call, Calls
  <1>5. disk \in [Flows -> Seq(Texts)] /\ \A f \in Flows : disk[f] # <<>>
    BY DEF Init, FirstText, Texts
  <1>6. sidecar \in [Flows -> Plans] /\ kept \subseteq Edits /\ seen \in [Flows -> Nat] /\ edits \in 0..MaxEdits
    BY MaxEditsNat DEF Init, Plans
  <1> HIDE DEF c
  <1>7. EditorTyped
    BY <1>1, <1>2, <1>3, <1>4, <1>5, <1>6 DEF EditorTyped
  <1>8. Whole
    BY <1>2, <1>3, <1>4 DEF Whole, Steps
  <1> QED
    BY <1>7, <1>8 DEF EditorSound

LEMMA SoundStep ==
    ASSUME EditorSound, [Next]_vars
    PROVE  EditorSound'
  <1>1. ASSUME Person PROVE EditorSound'
    <2>1. ASSUME NEW ok \in BOOLEAN, Type(ok) \/ ApplyDraft(ok) PROVE EditorSound'
      BY <2>1, TypeDoes, ApplyDraftDoes
    <2>2. ASSUME NEW body \in BOOLEAN, NEW ok \in BOOLEAN, Edit(body, ok) PROVE EditorSound'
      BY <2>2, EditDoes
    <2>3. ASSUME NEW f \in Flows, Go(f) PROVE EditorSound'
      BY <2>3, GoDoes
    <2>4. ASSUME Move \/ Undo \/ Redo \/ Save \/ Restore PROVE EditorSound'
      BY <2>4, MoveDoes, UndoDoes, RedoDoes, SaveDoes, RestoreDoes
    <2>5. ASSUME KeepMine \/ TakeTheirs \/ CancelConflict PROVE EditorSound'
      BY <2>5, KeepMineDoes, TakeTheirsDoes, CancelConflictDoes
    <2> QED
      BY <1>1, <2>1, <2>2, <2>3, <2>4, <2>5 DEF Person
  <1>2. ASSUME Syncs PROVE EditorSound'
    BY <1>2, RunParseDoes, ParseAnsweredDoes, RunGenerateDoes, GenerateAnsweredDoes DEF Syncs
  <1>3. ASSUME NEW c \in calls, Serves(c) PROVE EditorSound'
    BY <1>3, ServerWritesDoes, ServerReadsDoes, ServerRestoresDoes, ServerLayoutDoes DEF Serves
  <1>4. ASSUME NEW c \in calls, Answers(c) PROVE EditorSound'
    BY <1>4, SaveGeneratedDoes, SaveAnsweredDoes, LayoutAnsweredDoes, SaveRefusedDoes,
       KeepAnsweredDoes, KeepRefusedDoes, FlowAnsweredDoes DEF Answers
  <1>5. ASSUME Faults PROVE EditorSound'
    BY <1>5, AskFailsDoes, CallFailsDoes, OtherWritesDoes DEF Faults
  <1>6. ASSUME UNCHANGED vars PROVE EditorSound'
    BY <1>6 DEF vars, server, history, counts, EditorSound, EditorTyped, Whole
  <1> QED
    BY <1>1, <1>2, <1>3, <1>4, <1>5, <1>6 DEF Next, Requests

\* Every part keeps its type, and what an action uses is there: the text and layout of
\* an open flow, the text of a save, the model that is generated from (flow.ts, sync.ts).
THEOREM EditorSoundness == Spec => []EditorSound
  <1> QED
    BY SoundAtFirst, SoundStep, PTL DEF Spec

-----------------------------------------------------------------------------
(* Flows apart.                                                            *)

\* A step that changes neither address nor flow, and puts nothing foreign anywhere.
LEMMA ApartIfInPlace ==
    ASSUME EditorSound, ApartInv, route' = route, flow'.path = flow.path,
           sync'.conflict \in {sync.conflict, NoConflict},
           \A d \in calls' :
              \/ d \in calls
              \/ /\ \E c \in calls : d.why = c.why /\ d.path = c.path
                 /\ d.step \in {"generate", "put", "written", "answered"} => d.text.of = d.path
                 /\ d.step \in {"layout", "answered"} => d.layout.of = d.path,
           flow.path # NoFlow => flow'.source.of = flow.path /\ flow'.layout.of = flow.path,
           \A f \in Flows : f = flow.path => Belongs(f)',
           OwnFiles'
    PROVE  ApartInv'
  <1>1. \A f \in Flows : Settled(f) => Settled(f)'
    BY DEF Settled
  <1>2. Placed'
    <2>1. \A c \in calls : c.path \in Flows
      BY DEF EditorSound, EditorTyped, Calls
    <2>2. \A d \in calls' : IF d.why = "open" THEN d.path = route ELSE Settled(d.path)'
      BY <1>1, <2>1 DEF ApartInv, Placed
    <2>3. sync'.conflict # NoConflict =>
             /\ sync'.conflict = sync.conflict /\ sync.conflict.path \in Flows
             /\ Settled(sync.conflict.path) /\ sync.conflict.mine.of = sync.conflict.path
      BY DEF ApartInv, Placed, EditorSound, EditorTyped, Whole, Syncing, Dialogs
    <2> QED
      BY <1>1, <2>2, <2>3 DEF Placed
  <1>3. OwnFlow'
    BY DEF OwnFlow, EditorSound, EditorTyped, OpenFlows
  <1>4. OwnCalls'
    BY DEF OwnCalls, ApartInv
  <1> QED
    BY <1>2, <1>3, <1>4 DEF ApartInv

\* The part of the store an answer leaves alone stays the open flow's.
LEMMA BelongsIfAround ==
    ASSUME Around(flow'), NEW f, Belongs(f), flow'.model # Null => flow'.model.of = f
    PROVE  Belongs(f)'
  BY DEF Belongs, Around, Snapshots

LEMMA ApartIfEdited ==
    ASSUME EditorSound, ApartInv, Edited, flow'.path = flow.path, sync'.conflict = sync.conflict,
           flow'.source.of = flow.source.of, flow'.layout.of = flow.layout.of,
           \A f \in Flows : Belongs(f) => Belongs(f)'
    PROVE  ApartInv'
  <1>1. route' = route /\ \A d \in calls' : d \in calls
    BY DEF Edited
  <1>2. flow.path # NoFlow => flow'.source.of = flow.path /\ flow'.layout.of = flow.path
    BY DEF ApartInv, OwnFlow
  <1>3. \A f \in Flows : f = flow.path => Belongs(f)'
    BY SheetFields DEF ApartInv, OwnFlow
  <1>4. OwnFiles'
    BY DEF ApartInv, OwnFiles, Edited
  <1> QED
    BY <1>1, <1>2, <1>3, <1>4, ApartIfInPlace

LEMMA ApartIfSynced ==
    ASSUME EditorSound, ApartInv, Synced, Around(flow'), sync'.conflict = sync.conflict,
           flow'.source = flow.source \/ (flow'.source = flow.model /\ flow'.source # Null),
           flow'.model # Null => flow'.model \in {flow.model, flow.source}
    PROVE  ApartInv'
  <1>1. route' = route /\ (\A d \in calls' : d \in calls) /\ flow'.path = flow.path
    BY DEF Synced, Around
  <1>2. flow.path # NoFlow =>
           /\ flow.source.of = flow.path /\ flow.layout.of = flow.path /\ Belongs(flow.path)
           /\ flow.model # Null => flow.model.of = flow.path
    BY DEF ApartInv, OwnFlow, Belongs
  <1>3. flow.path # NoFlow => flow'.source.of = flow.path /\ flow'.layout.of = flow.path
    BY <1>2 DEF Around
  <1>4. \A f \in Flows : f = flow.path => Belongs(f) /\ (flow'.model # Null => flow'.model.of = f)
    BY <1>2, SheetFields
  <1>5. \A f \in Flows : f = flow.path => Belongs(f)'
    BY <1>4, BelongsIfAround
  <1>6. OwnFiles'
    BY DEF ApartInv, OwnFiles, Synced
  <1> QED
    BY <1>1, <1>3, <1>5, <1>6, ApartIfInPlace

\* A new request for the open flow, from one who waits for what is on its way.
LEMMA ApartIfSent ==
    ASSUME EditorSound, ApartInv, Sent, route' = route, sync'.conflict \in {sync.conflict, NoConflict},
           NEW c \in Calls, calls' = calls \cup {c}, Settled(c.path), c.why # "open",
           c.step \in {"generate", "put"} => c.text.of = c.path,
           c.step \in {"generate", "put", "asked"}
    PROVE  ApartInv'
  <1>1. \A f : Settled(f) => Settled(f)'
    BY DEF Settled, Sent
  <1>2. Placed'
    BY <1>1 DEF ApartInv, Placed
  <1>3. OwnFlow' /\ OwnFiles'
    BY DEF ApartInv, OwnFlow, OwnFiles, Belongs, Snapshots, Sent
  <1>4. OwnCalls'
    BY DEF ApartInv, OwnCalls
  <1> QED
    BY <1>2, <1>3, <1>4 DEF ApartInv

LEMMA ApartIfServed ==
    ASSUME EditorSound, ApartInv, Served, NEW c \in calls, NEW d, Becomes(c, d), OwnFiles',
           d.step \in {"generate", "put", "written", "answered"} => d.text.of = d.path,
           d.step \in {"layout", "answered"} => d.layout.of = d.path
    PROVE  ApartInv'
  <1>1. route' = route /\ flow'.path = flow.path /\ sync'.conflict = sync.conflict
    BY DEF Served
  <1>2. \A e \in calls' : e \in calls \/ (e = d /\ d.why = c.why /\ d.path = c.path)
    BY DEF Becomes
  <1>3. flow.path # NoFlow => flow'.source.of = flow.path /\ flow'.layout.of = flow.path
    BY DEF ApartInv, OwnFlow, Served
  <1>4. \A f \in Flows : f = flow.path => Belongs(f)'
    BY SheetFields DEF ApartInv, OwnFlow, Belongs, Snapshots, Served
  <1> QED
    BY <1>1, <1>2, <1>3, <1>4, ApartIfInPlace

LEMMA ApartIfAnswered ==
    ASSUME EditorSound, ApartInv, Answered, sync'.conflict \in {sync.conflict, NoConflict}, Around(flow'),
           flow'.source = flow.source \/ flow'.source.of = flow.path,
           flow'.model # Null => flow'.model = flow.model \/ flow'.model.of = flow.path,
           \A d \in calls' :
              \/ d \in calls
              \/ /\ \E c \in calls : d.why = c.why /\ d.path = c.path
                 /\ d.step \in {"put", "layout"}
                 /\ d.step = "put" => d.text.of = d.path
                 /\ d.step = "layout" => d.layout.of = d.path
    PROVE  ApartInv'
  <1>1. route' = route /\ flow'.path = flow.path
    BY DEF Answered, Around
  <1>2. flow.path # NoFlow =>
           /\ flow.source.of = flow.path /\ flow.layout.of = flow.path /\ Belongs(flow.path)
           /\ flow.model # Null => flow.model.of = flow.path
    BY DEF ApartInv, OwnFlow, Belongs
  <1>3. flow.path # NoFlow => flow'.source.of = flow.path /\ flow'.layout.of = flow.path
    BY <1>2 DEF Around
  <1>4. \A f \in Flows : f = flow.path => Belongs(f) /\ (flow'.model # Null => flow'.model.of = f)
    BY <1>2, SheetFields
  <1>5. \A f \in Flows : f = flow.path => Belongs(f)'
    BY <1>4, BelongsIfAround
  <1>6. OwnFiles'
    BY DEF ApartInv, OwnFiles, Answered
  <1> QED
    BY <1>1, <1>3, <1>5, <1>6, ApartIfInPlace

LEMMA ApartAtFirst == Init => ApartInv
  <1> SUFFICES ASSUME Init PROVE ApartInv
    OBVIOUS
  <1> DEFINE c == Opening(route)
  <1>1. flow.path = NoFlow /\ sync.conflict = NoConflict
    BY SheetFields DEF Init, Initial
  <1>2. calls = {c} /\ c.why = "open" /\ c.step = "asked" /\ c.path = route
    BY DEF Init, Opening, Call
  <1> HIDE DEF c
  <1>3. Placed /\ OwnFlow /\ OwnCalls
    BY <1>1, <1>2 DEF Placed, OwnFlow, OwnCalls
  <1>4. OwnFiles
    BY DEF Init, OwnFiles, FirstText
  <1> QED
    BY <1>3, <1>4 DEF ApartInv

LEMMA ApartPerson ==
    ASSUME EditorSound, ApartInv, "leave" \notin Hurried, Person
    PROVE  ApartInv'
  <1>0. EditorTyped /\ Whole /\ flow \in OpenFlows
    BY DEF EditorSound, EditorTyped
  <1>1. ASSUME NEW ok \in BOOLEAN, Type(ok) PROVE ApartInv'
    <2>1. /\ Edited /\ flow'.path = flow.path /\ sync'.conflict = sync.conflict
          /\ flow'.source.of = flow.source.of /\ flow'.layout = flow.layout
          /\ flow'.model = flow.model /\ flow'.past = flow.past /\ flow'.future = flow.future
      BY <1>1, TypeDoes
    <2>2. \A f \in Flows : Belongs(f) => Belongs(f)'
      BY <2>1 DEF Belongs
    <2> QED
      BY <2>1, <2>2, ApartIfEdited
  <1>2. ASSUME NEW ok \in BOOLEAN, ApplyDraft(ok) PROVE ApartInv'
    <2>1. /\ Edited /\ flow'.path = flow.path /\ sync'.conflict = sync.conflict
          /\ flow'.source.of = flow.source.of /\ flow'.layout = flow.layout
          /\ flow'.source \in Texts /\ flow'.model = Parsed(flow'.source) /\ flow'.past = Pushed(flow)
          /\ flow'.future = <<>> /\ MayEdit
      BY <1>2, ApplyDraftDoes
    <2>2. \A f \in Flows : f = flow.path /\ Belongs(f) => Belongs(f)'
      <3>1. \A f \in Flows : f = flow.path => flow.source.of = f
        BY SheetFields DEF ApartInv, OwnFlow
      <3>2. \A f \in Flows : Snapshots(<<>>, f)
        BY DEF Snapshots
      <3>3. flow'.source \in Sheets
        BY <2>1, SheetFields
      <3>4. \A f \in Flows : f = flow.path /\ flow'.model # Null => flow'.model.of = f
        BY <2>1, <3>1, <3>3, SheetFields
      <3> QED
        BY <1>0, <2>1, <3>2, <3>4, PushedStack DEF Belongs
    <2>3. flow.path # NoFlow => flow'.source.of = flow.path /\ flow'.layout.of = flow.path
      BY <2>1 DEF ApartInv, OwnFlow
    <2>4. \A f \in Flows : f = flow.path => Belongs(f)'
      BY <2>2, SheetFields DEF ApartInv, OwnFlow
    <2>5. route' = route /\ (\A d \in calls' : d \in calls) /\ OwnFiles'
      BY <2>1 DEF Edited, ApartInv, OwnFiles
    <2> QED
      BY <2>1, <2>3, <2>4, <2>5, ApartIfInPlace
  <1>3. ASSUME NEW body \in BOOLEAN, NEW ok \in BOOLEAN, Edit(body, ok) PROVE ApartInv'
    <2>1. /\ Edited /\ flow'.path = flow.path /\ sync'.conflict = sync.conflict /\ flow.model # Null
          /\ flow'.source = flow.source /\ flow'.layout = flow.layout
          /\ flow'.model.of = flow.model.of /\ flow'.past = Pushed(flow) /\ flow'.future = <<>>
      BY <1>3, EditDoes
    <2>2. \A f \in Flows : Belongs(f) => Belongs(f)'
      <3>1. \A f \in Flows : Snapshots(<<>>, f)
        BY DEF Snapshots
      <3> QED
        BY <1>0, <2>1, <3>1, PushedStack DEF Belongs
    <2> QED
      BY <2>1, <2>2, ApartIfEdited
  <1>4. ASSUME Move PROVE ApartInv'
    <2>1. /\ Edited /\ flow'.path = flow.path /\ sync'.conflict = sync.conflict
          /\ flow'.source = flow.source /\ flow'.layout.of = flow.layout.of
          /\ flow'.model = flow.model /\ flow'.past = flow.past /\ flow'.future = flow.future
      BY <1>4, MoveDoes
    <2>2. \A f \in Flows : Belongs(f) => Belongs(f)'
      BY <2>1 DEF Belongs
    <2> QED
      BY <2>1, <2>2, ApartIfEdited
  <1>5. ASSUME Undo \/ Redo PROVE ApartInv'
    <2>1. Restack
      BY <1>5, UndoDoes, RedoDoes
    <2> QED
      BY <2>1, ApartIfEdited DEF Restack
  <1>6. ASSUME Save PROVE ApartInv'
    <2>1. PICK c \in Calls :
             /\ calls' = calls \cup {c} /\ c.why = "save" /\ c.path = flow.path
             /\ IF flow.stale /\ flow.model # Null
                THEN c.step = "generate" /\ c.text = flow.model
                ELSE c.step = "put" /\ c.text = flow.source
      BY <1>6, SaveDoes
    <2>2. Sent /\ route' = route /\ sync' = sync /\ Attended /\ Settled(flow.path)
      BY <1>6, SaveDoes DEF Waited, Settled, Busy
    <2>3. c.text.of = c.path
      BY <2>1, <2>2 DEF ApartInv, OwnFlow, Belongs, Attended
    <2> QED
      BY <2>1, <2>2, <2>3, ApartIfSent
  <1>7. ASSUME Restore PROVE ApartInv'
    <2>1. PICK c \in Calls :
             calls' = calls \cup {c} /\ c.why = "restore" /\ c.path = flow.path /\ c.step = "asked"
      BY <1>7, RestoreDoes
    <2>2. Sent /\ route' = route /\ sync' = sync /\ Settled(flow.path)
      BY <1>7, RestoreDoes DEF Waited, Settled, Busy
    <2> QED
      BY <2>1, <2>2, ApartIfSent
  <1>8. ASSUME NEW f \in Flows, Go(f) PROVE ApartInv'
    <2>1. PICK c \in Calls :
             /\ calls' = {d \in calls : d.why # "open"} \cup {c}
             /\ c.why = "open" /\ c.path = f /\ c.step = "asked"
      BY <1>8, GoDoes
    <2>2. Sent /\ route' = f /\ sync' = sync /\ sync.conflict = NoConflict /\ ~Writing
      BY <1>8, GoDoes DEF Waited
    <2>3. \A d \in calls : d.why = "open"
      BY <1>0, <2>2 DEF Writing, Busy, EditorTyped, Calls
    <2>4. calls' = {c}
      BY <2>1, <2>3
    <2>5. Placed' /\ OwnCalls'
      BY <2>1, <2>2, <2>4 DEF Placed, OwnCalls
    <2>6. OwnFlow' /\ OwnFiles'
      BY <2>2 DEF ApartInv, OwnFlow, OwnFiles, Belongs, Snapshots, Sent
    <2> QED
      BY <2>5, <2>6 DEF ApartInv
  <1>9. ASSUME KeepMine PROVE ApartInv'
    <2>1. PICK c \in Calls :
             /\ calls' = calls \cup {c} /\ c.why = "keep" /\ c.path = sync.conflict.path
             /\ c.step = "put" /\ c.text = sync.conflict.mine
      BY <1>9, KeepMineDoes
    <2>2. Sent /\ route' = route /\ sync' = sync /\ sync.conflict # NoConflict
      BY <1>9, KeepMineDoes
    <2>3. Settled(c.path) /\ c.text.of = c.path
      BY <2>1, <2>2 DEF ApartInv, Placed
    <2> QED
      BY <2>1, <2>2, <2>3, ApartIfSent
  <1>10. ASSUME TakeTheirs PROVE ApartInv'
    <2>1. PICK c \in Calls :
             /\ calls' = calls \cup {c} /\ c.why = "theirs" /\ c.path = sync.conflict.path
             /\ c.step = "asked"
      BY <1>10, TakeTheirsDoes
    <2>2. Sent /\ route' = route /\ sync' = sync /\ sync.conflict # NoConflict
      BY <1>10, TakeTheirsDoes
    <2>3. Settled(c.path)
      BY <2>1, <2>2 DEF ApartInv, Placed
    <2> QED
      BY <2>1, <2>2, <2>3, ApartIfSent
  <1>11. ASSUME CancelConflict PROVE ApartInv'
    <2>1. Sent /\ route' = route /\ calls' = calls /\ sync'.conflict = NoConflict
      BY <1>11, CancelConflictDoes
    <2>2. Placed' /\ OwnCalls'
      BY <2>1 DEF ApartInv, Placed, OwnCalls, Settled, Sent
    <2>3. OwnFlow' /\ OwnFiles'
      BY <2>1 DEF ApartInv, OwnFlow, OwnFiles, Belongs, Snapshots, Sent
    <2> QED
      BY <2>2, <2>3 DEF ApartInv
  <1> QED
    BY <1>1, <1>2, <1>3, <1>4, <1>5, <1>6, <1>7, <1>8, <1>9, <1>10, <1>11 DEF Person

LEMMA ApartSyncs ==
    ASSUME EditorSound, ApartInv, Syncs \/ AskFails
    PROVE  ApartInv'
  <1>0. flow.source \in Sheets /\ flow.model \in Sheets
    BY DEF EditorSound, EditorTyped, OpenFlows
  <1>1. ASSUME RunParse \/ RunGenerate \/ AskFails PROVE ApartInv'
    <2>1. Synced /\ flow' = flow /\ sync'.conflict = sync.conflict
      BY <1>1, RunParseDoes, RunGenerateDoes, AskFailsDoes
    <2> QED
      BY <2>1, ApartIfSynced DEF Around
  <1>2. ASSUME ParseAnswered PROVE ApartInv'
    <2>1. /\ Synced /\ Around(flow') /\ sync'.conflict = sync.conflict /\ flow'.source = flow.source
          /\ flow'.model \in {Parsed(flow.source), flow.model}
      BY <1>2, ParseAnsweredDoes
    <2> QED
      BY <1>0, <2>1, SheetFields, ApartIfSynced
  <1>3. ASSUME GenerateAnswered PROVE ApartInv'
    <2>1. /\ Synced /\ Around(flow') /\ sync'.conflict = sync.conflict /\ flow'.model = flow.model
          /\ flow'.source = flow.source \/ (flow'.source = flow.model /\ flow'.source # Null)
      BY <1>3, GenerateAnsweredDoes
    <2> QED
      BY <2>1, ApartIfSynced
  <1> QED
    BY <1>1, <1>2, <1>3 DEF Syncs

LEMMA ApartServes ==
    ASSUME EditorSound, ApartInv, NEW c \in calls, Serves(c)
    PROVE  ApartInv'
  <1>0. EditorTyped /\ OwnFiles /\ c.path \in Flows
    BY DEF EditorSound, EditorTyped, ApartInv, Calls
  <1>1. ASSUME ServerWrites(c) PROVE ApartInv'
    <2>1. PICK d \in Calls :
             /\ Becomes(c, d)
             /\ IF c.stamp = Stamp(c.path)
                THEN d.step = "written" /\ d.text = c.text /\ Grown(c.path, c.text)
                ELSE d.step = "refused" /\ disk' = disk
      BY <1>1, ServerWritesDoes
    <2>2. Served /\ sidecar' = sidecar /\ c.step = "put" /\ c.text \in Texts /\ c.text.of = c.path
      BY <1>1, ServerWritesDoes DEF ApartInv, OwnCalls
    <2>3. OwnFiles'
      <3>1. CASE c.stamp = Stamp(c.path)
        BY <1>0, <2>1, <2>2, <3>1, FileGrows DEF OwnFiles
      <3>2. CASE c.stamp # Stamp(c.path)
        BY <1>0, <2>1, <2>2, <3>2 DEF OwnFiles
      <3> QED
        BY <3>1, <3>2
    <2>4. d.path = c.path
      BY <2>1 DEF Becomes
    <2> QED
      BY <2>1, <2>2, <2>3, <2>4, ApartIfServed
  <1>2. ASSUME ServerReads(c) PROVE ApartInv'
    <2>1. PICK d \in Calls :
             /\ Becomes(c, d) /\ d.step = "answered" /\ d.text = LastText(c.path)
             /\ d.layout = sidecar[c.path]
      BY <1>2, ServerReadsDoes
    <2>2. Served /\ UNCHANGED <<disk, sidecar>> /\ d.path = c.path
      BY <1>2, <2>1, ServerReadsDoes DEF Becomes
    <2>3. d.text.of = d.path /\ d.layout.of = d.path
      BY <1>0, <2>1, <2>2, LastOnFile DEF OwnFiles
    <2>4. OwnFiles'
      BY <1>0, <2>2 DEF OwnFiles
    <2> QED
      BY <2>1, <2>2, <2>3, <2>4, ApartIfServed
  <1>3. ASSUME ServerRestores(c) PROVE ApartInv'
    <2>1. PICK d \in Calls :
             /\ Becomes(c, d) /\ d.step = "answered" /\ d.text \in Texts
             /\ Grown(c.path, d.text) /\ sidecar' = [sidecar EXCEPT ![c.path] = d.layout]
             /\ OwnFiles => d.text.of = c.path /\ d.layout.of = c.path
      BY <1>3, ServerRestoresDoes
    <2>2. Served /\ d.path = c.path
      BY <1>3, <2>1, ServerRestoresDoes DEF Becomes
    <2>3. \A f \in Flows : sidecar'[f].of = f
      BY <1>0, <2>1 DEF OwnFiles, EditorTyped
    <2>4. OwnFiles'
      BY <1>0, <2>1, <2>3, FileGrows DEF OwnFiles
    <2> QED
      BY <1>0, <2>1, <2>2, <2>4, ApartIfServed
  <1>4. ASSUME ServerLayout(c) PROVE ApartInv'
    <2>1. PICK d \in Calls : Becomes(c, d) /\ d.step = "laid"
      BY <1>4, ServerLayoutDoes
    <2>2. Served /\ disk' = disk /\ sidecar' = [sidecar EXCEPT ![c.path] = c.layout] /\ c.layout.of = c.path
      BY <1>4, ServerLayoutDoes DEF ApartInv, OwnCalls
    <2>3. OwnFiles'
      BY <1>0, <2>2 DEF OwnFiles, EditorTyped
    <2> QED
      BY <2>1, <2>2, <2>3, ApartIfServed
  <1> QED
    BY <1>1, <1>2, <1>3, <1>4 DEF Serves

LEMMA ApartAnswers ==
    ASSUME EditorSound, ApartInv, NEW c \in calls, Answers(c) \/ CallFails(c)
    PROVE  ApartInv'
  <1>0. EditorTyped /\ Whole /\ c.path \in Flows /\ (c.why # "open" => Settled(c.path))
    BY DEF EditorSound, EditorTyped, ApartInv, Placed, Calls
  <1>1. ASSUME SaveGenerated(c) PROVE ApartInv'
    <2>1. /\ Answered /\ Around(flow') /\ flow'.source = c.text /\ flow'.model = flow.model
          /\ sync'.conflict = sync.conflict /\ c.step = "generate"
      BY <1>1, SaveGeneratedDoes
    <2>2. PICK d \in Calls : Becomes(c, d) /\ d.step = "put" /\ d.text = c.text
      BY <1>1, SaveGeneratedDoes
    <2>3. c.text.of = c.path
      BY <2>1 DEF ApartInv, OwnCalls
    <2>4. \A e \in calls' : e \in calls \/ (e = d /\ d.why = c.why /\ d.path = c.path)
      BY <2>2 DEF Becomes
    <2>5. c.why # "open"
      BY <1>0, <2>1 DEF Whole, Steps
    <2> QED
      BY <1>0, <2>1, <2>2, <2>3, <2>4, <2>5, ApartIfAnswered DEF Settled
  <1>2. ASSUME SaveAnswered(c) PROVE ApartInv'
    <2>1. /\ Answered /\ Around(flow') /\ flow'.source = c.text /\ flow'.model = flow.model
          /\ sync'.conflict = sync.conflict /\ c.step = "written" /\ c.why = "save"
          /\ \/ calls' = calls \ {c}
             \/ \E d \in Calls : Becomes(c, d) /\ d.step = "layout" /\ d.layout = flow.layout
      BY <1>2, SaveAnsweredDoes
    <2>2. c.text.of = c.path /\ c.path = flow.path
      BY <1>0, <2>1 DEF ApartInv, OwnCalls, Settled
    <2>3. flow.layout.of = c.path
      BY <1>0, <2>1, <2>2 DEF ApartInv, OwnFlow, Whole
    <2>4. \A e \in calls' :
             \/ e \in calls
             \/ e.why = c.why /\ e.path = c.path /\ e.step = "layout" /\ e.layout.of = e.path
      BY <2>1, <2>3 DEF Becomes
    <2> QED
      BY <2>1, <2>2, <2>4, ApartIfAnswered
  <1>3. ASSUME LayoutAnswered(c) \/ KeepRefused(c) \/ CallFails(c) PROVE ApartInv'
    <2>1. /\ Answered /\ Around(flow') /\ flow'.source = flow.source /\ flow'.model = flow.model
          /\ sync' = sync /\ calls' = calls \ {c}
      BY <1>3, LayoutAnsweredDoes, KeepRefusedDoes, CallFailsDoes DEF Around
    <2> QED
      BY <2>1, ApartIfAnswered
  <1>4. ASSUME KeepAnswered(c) PROVE ApartInv'
    <2>1. /\ Answered /\ Around(flow') /\ flow'.source = c.text /\ flow'.model = Parsed(c.text)
          /\ sync'.conflict = NoConflict /\ c.step = "written" /\ c.why = "keep" /\ c.text \in Texts
          /\ calls' = calls \ {c}
      BY <1>4, KeepAnsweredDoes
    <2>2. c.text.of = c.path /\ c.path = flow.path
      BY <1>0, <2>1 DEF ApartInv, OwnCalls, Settled
    <2>3. flow'.model # Null => flow'.model.of = flow.path
      BY <2>1, <2>2, SheetFields
    <2> QED
      BY <2>1, <2>2, <2>3, ApartIfAnswered
  <1>5. ASSUME SaveRefused(c) PROVE ApartInv'
    <2>1. /\ Answered /\ flow' = flow /\ c.why = "save" /\ calls' = calls \ {c}
          /\ sync'.conflict.path = flow.path /\ sync'.conflict.mine = flow.source /\ flow.path # NoFlow
      BY <1>5, SaveRefusedDoes
    <2>2. Settled(flow.path)
      BY <1>0, <2>1 DEF Settled
    <2>3. \A f : Settled(f) => Settled(f)'
      BY <2>1 DEF Settled, Answered
    <2>4. Placed'
      <3>1. \A d \in calls' : IF d.why = "open" THEN d.path = route' ELSE Settled(d.path)'
        BY <2>1, <2>3 DEF ApartInv, Placed, Answered
      <3>2. Settled(flow.path)' /\ sync'.conflict.mine.of = flow.path
        BY <2>1, <2>2, <2>3 DEF ApartInv, OwnFlow, Settled, Answered
      <3> QED
        BY <2>1, <3>1, <3>2 DEF Placed
    <2>5. OwnFlow' /\ OwnCalls' /\ OwnFiles'
      BY <2>1 DEF ApartInv, OwnFlow, OwnCalls, OwnFiles, Belongs, Snapshots, Answered
    <2> QED
      BY <2>4, <2>5 DEF ApartInv
  <1>6. ASSUME FlowAnswered(c) PROVE ApartInv'
    <2>1. /\ Answered /\ c.step = "answered" /\ calls' = calls \ {c} /\ c.text \in Texts
          /\ flow'.path = c.path /\ flow'.source = c.text
          /\ flow'.model = Parsed(c.text) /\ flow'.layout = c.layout
          /\ flow'.past = <<>> /\ flow'.future = <<>>
          /\ c.path = flow.path => sync'.conflict \in {sync.conflict, NoConflict}
          /\ c.path # flow.path => sync'.conflict = NoConflict
      BY <1>6, FlowAnsweredDoes
    <2>2. c.text.of = c.path /\ c.layout.of = c.path
      BY <2>1 DEF ApartInv, OwnCalls
    <2>3. OwnCalls' /\ OwnFiles'
      BY <2>1 DEF ApartInv, OwnCalls, OwnFiles, Answered
    <2>4. flow'.model # Null => flow'.model.of = c.path
      BY <2>1, <2>2, SheetFields
    <2>5. OwnFlow'
      <3>1. Belongs(flow.path)'
        BY <2>1, <2>4 DEF Belongs, Snapshots
      <3> QED
        BY <2>1, <2>2, <3>1 DEF OwnFlow
    <2>6. CASE c.why = "open"
      <3>1. c.path = route /\ \A f : ~Settled(f)
        BY <2>6 DEF ApartInv, Placed, Settled
      <3>2. sync.conflict = NoConflict /\ \A d \in calls : d.why = "open" /\ d.path = route
        BY <3>1 DEF ApartInv, Placed
      <3>3. sync'.conflict = NoConflict
        BY <2>1, <3>2
      <3>4. Placed'
        BY <2>1, <3>2, <3>3 DEF Placed, Answered
      <3> QED
        BY <2>3, <2>5, <3>4 DEF ApartInv
    <2>7. CASE c.why # "open"
      <3>1. flow'.path = flow.path
        BY <1>0, <2>1, <2>7 DEF Settled
      <3>2. sync'.conflict \in {sync.conflict, NoConflict}
        BY <2>1
      <3>3. Placed'
        BY <2>1, <3>1, <3>2 DEF ApartInv, Placed, Settled, Answered
      <3> QED
        BY <2>3, <2>5, <3>3 DEF ApartInv
    <2> QED
      BY <2>6, <2>7
  <1> QED
    BY <1>1, <1>2, <1>3, <1>4, <1>5, <1>6 DEF Answers

LEMMA ApartStep ==
    ASSUME EditorSound, ApartInv, "leave" \notin Hurried, [Next]_vars
    PROVE  ApartInv'
  <1>1. ASSUME NEW f \in Flows, OtherWrites(f) PROVE ApartInv'
    <2>1. /\ Served /\ sidecar' = sidecar /\ calls' = calls
          /\ FirstText(f) \in Texts /\ FirstText(f).of = f /\ Grown(f, FirstText(f))
      BY <1>1, OtherWritesDoes
    <2>2. OwnFiles'
      BY <2>1, FileGrows DEF EditorSound, ApartInv, OwnFiles
    <2>3. Placed' /\ OwnFlow' /\ OwnCalls'
      BY <2>1 DEF ApartInv, Placed, Settled, OwnFlow, OwnCalls, Belongs, Snapshots, Served
    <2> QED
      BY <2>2, <2>3 DEF ApartInv
  <1>2. ASSUME UNCHANGED vars PROVE ApartInv'
    BY <1>2 DEF vars, ApartInv, Placed, Settled, OwnFlow, OwnCalls, OwnFiles, Belongs, Snapshots
  <1> QED
    BY <1>1, <1>2, ApartPerson, ApartSyncs, ApartServes, ApartAnswers DEF Next, Requests, Faults

\* Text, model and layout of one flow never get into another's editor, file or
\* sidecar, whatever is in flight, as long as whoever leaves a flow lets what is
\* being written of it finish (EditorPage.tsx:129).
THEOREM FlowsStayApart == "leave" \notin Hurried => (Spec => []FlowsApart)
  <1> SUFFICES ASSUME "leave" \notin Hurried PROVE Spec => []FlowsApart
    OBVIOUS
  <1>1. Init => EditorSound /\ ApartInv
    BY SoundAtFirst, ApartAtFirst
  <1>2. EditorSound /\ ApartInv /\ [Next]_vars => EditorSound' /\ ApartInv'
    BY SoundStep, ApartStep
  <1>3. EditorSound /\ ApartInv => FlowsApart
    <2> SUFFICES ASSUME EditorSound, ApartInv PROVE FlowsApart
      OBVIOUS
    <2>1. \A f \in Flows : DOMAIN disk[f] = 1..Len(disk[f])
      BY DEF EditorSound, EditorTyped
    <2> QED
      BY <2>1 DEF ApartInv, OwnFiles, OwnFlow, Belongs, FlowsApart
  <1> QED
    BY <1>1, <1>2, <1>3, PTL DEF Spec

-----------------------------------------------------------------------------
(* Nothing overwritten unseen.                                             *)

\* A step of the editor alone, that keeps the flow's stamp.
LEMMA SeenIfQuiet ==
    ASSUME SeenInv, calls' = calls, seen' = seen, disk' = disk,
           flow'.path = flow.path, flow'.modified = flow.modified, sync'.conflict = sync.conflict
    PROVE  SeenInv'
  <1>1. \A f : Stamp(f)' = Stamp(f)
    BY DEF Stamp
  <1>2. OneWriter'
    BY DEF SeenInv, OneWriter
  <1>3. ShownStamps'
    BY <1>1 DEF SeenInv, ShownStamps
  <1> QED
    BY <1>2, <1>3 DEF SeenInv

LEMMA SeenAtFirst == Init => SeenInv
  <1> SUFFICES ASSUME Init PROVE SeenInv
    OBVIOUS
  <1> DEFINE c == Opening(route)
  <1>1. flow.path = NoFlow /\ sync.conflict = NoConflict
    BY SheetFields DEF Init, Initial
  <1>2. calls = {c} /\ c.why = "open" /\ c.step = "asked"
    BY DEF Init, Opening, Call
  <1> HIDE DEF c
  <1>3. OneWriter
    BY <1>1, <1>2 DEF OneWriter
  <1>4. \A f \in Flows : seen[f] = 0 /\ Stamp(f) \in Nat
    BY SoundAtFirst, LastOnFile DEF Init, EditorSound
  <1>5. ShownStamps
    BY <1>1, <1>2, <1>4 DEF ShownStamps
  <1> QED
    BY <1>3, <1>5 DEF SeenInv

\* A save or a restore is begun when nothing is being written.
LEMMA NobodyWrites ==
    ASSUME EditorSound, ~Writing
    PROVE  \A c \in calls : c.why = "open" /\ c.step \in {"asked", "answered"}
  BY DEF EditorSound, EditorTyped, Whole, Calls, Writing, Busy, Steps

\* With a dialog open, only its own requests write.
LEMMA NobodyElse ==
    ASSUME EditorSound, ApartInv, SeenInv, sync.conflict # NoConflict, ~Busy({"keep", "theirs"})
    PROVE  calls = {}
  <1>1. \A c \in calls : c.why \in {"save", "keep", "open", "theirs", "restore"}
    BY DEF EditorSound, EditorTyped, Calls
  <1>2. \A c \in calls : c.why # "open"
    BY DEF ApartInv, Placed, Settled
  <1> QED
    BY <1>1, <1>2 DEF SeenInv, OneWriter, Busy

\* A request that writes is alone.
LEMMA Alone ==
    ASSUME EditorSound, ApartInv, SeenInv, NEW c \in calls, c.why # "open"
    PROVE  calls = {c} /\ c.path = flow.path /\ c.path \in Flows
  <1>1. c.path = flow.path /\ c.path \in Flows /\ \A d \in calls : d.why # "open"
    BY DEF ApartInv, Placed, Settled, EditorSound, EditorTyped, Calls
  <1> QED
    BY <1>1 DEF SeenInv, OneWriter

LEMMA SeenIfSent ==
    ASSUME EditorSound, SeenInv, Sent, sync' = sync, NEW c \in Calls, calls' \subseteq calls \cup {c},
           \A d \in calls : d.why = "open",
           c.why \in {"keep", "theirs"} => sync.conflict # NoConflict,
           c.why \in {"save", "restore"} => sync.conflict = NoConflict,
           c.step \in {"generate", "put"} => c.stamp <= seen[c.path],
           c.step \in {"generate", "put", "asked"}
    PROVE  SeenInv'
  <1>1. \A f : Stamp(f)' = Stamp(f)
    BY DEF Stamp, Sent
  <1>2. OneWriter'
    BY DEF SeenInv, OneWriter
  <1>3. ShownStamps'
    BY <1>1 DEF SeenInv, ShownStamps, Sent
  <1> QED
    BY <1>2, <1>3 DEF SeenInv

LEMMA SeenPerson ==
    ASSUME EditorSound, ApartInv, SeenInv, "leave" \notin Hurried, "save twice" \notin Hurried, Person
    PROVE  SeenInv'
  <1>1. ASSUME NEW ok \in BOOLEAN, Type(ok) \/ ApplyDraft(ok) PROVE SeenInv'
    BY <1>1, TypeDoes, ApplyDraftDoes, SeenIfQuiet DEF Edited
  <1>2. ASSUME NEW body \in BOOLEAN, NEW ok \in BOOLEAN, Edit(body, ok) PROVE SeenInv'
    BY <1>2, EditDoes, SeenIfQuiet DEF Edited
  <1>3. ASSUME Move PROVE SeenInv'
    BY <1>3, MoveDoes, SeenIfQuiet DEF Edited
  <1>4. ASSUME Undo \/ Redo PROVE SeenInv'
    BY <1>4, UndoDoes, RedoDoes, SeenIfQuiet DEF Edited, Restack
  <1>5. ASSUME Save PROVE SeenInv'
    <2>1. PICK c \in Calls :
             /\ calls' = calls \cup {c} /\ c.why = "save" /\ c.path = flow.path
             /\ c.stamp = flow.modified /\ c.step \in {"generate", "put"}
      BY <1>5, SaveDoes
    <2>2. Sent /\ sync' = sync /\ flow.path # NoFlow /\ sync.conflict = NoConflict /\ ~Writing
      BY <1>5, SaveDoes DEF Attended, Waited
    <2>3. c.stamp <= seen[c.path]
      BY <2>1, <2>2 DEF SeenInv, ShownStamps
    <2> QED
      BY <2>1, <2>2, <2>3, NobodyWrites, SeenIfSent
  <1>6. ASSUME Restore PROVE SeenInv'
    <2>1. PICK c \in Calls : calls' = calls \cup {c} /\ c.why = "restore" /\ c.step = "asked"
      BY <1>6, RestoreDoes
    <2>2. Sent /\ sync' = sync /\ sync.conflict = NoConflict /\ ~Writing
      BY <1>6, RestoreDoes DEF Attended, Waited
    <2> QED
      BY <2>1, <2>2, NobodyWrites, SeenIfSent
  <1>7. ASSUME NEW f \in Flows, Go(f) PROVE SeenInv'
    <2>1. PICK c \in Calls :
             calls' = {d \in calls : d.why # "open"} \cup {c} /\ c.why = "open" /\ c.step = "asked"
      BY <1>7, GoDoes
    <2>2. Sent /\ sync' = sync /\ ~Writing
      BY <1>7, GoDoes DEF Waited
    <2>3. calls' \subseteq calls \cup {c}
      BY <2>1
    <2> QED
      BY <2>1, <2>2, <2>3, NobodyWrites, SeenIfSent
  <1>8. ASSUME KeepMine PROVE SeenInv'
    <2>1. PICK c \in Calls :
             /\ calls' = calls \cup {c} /\ c.why = "keep" /\ c.path = sync.conflict.path
             /\ c.step = "put" /\ c.stamp = sync.conflict.modified
      BY <1>8, KeepMineDoes
    <2>2. Sent /\ sync' = sync /\ sync.conflict # NoConflict /\ calls = {}
      BY <1>8, KeepMineDoes, NobodyElse
    <2>3. c.stamp <= seen[c.path]
      BY <2>1, <2>2 DEF SeenInv, ShownStamps
    <2> QED
      BY <2>1, <2>2, <2>3, SeenIfSent
  <1>9. ASSUME TakeTheirs PROVE SeenInv'
    <2>1. PICK c \in Calls : calls' = calls \cup {c} /\ c.why = "theirs" /\ c.step = "asked"
      BY <1>9, TakeTheirsDoes
    <2>2. Sent /\ sync' = sync /\ sync.conflict # NoConflict /\ calls = {}
      BY <1>9, TakeTheirsDoes, NobodyElse
    <2> QED
      BY <2>1, <2>2, SeenIfSent
  <1>10. ASSUME CancelConflict PROVE SeenInv'
    <2>1. Sent /\ calls' = calls /\ sync'.conflict = NoConflict /\ ~Busy({"keep", "theirs"})
      BY <1>10, CancelConflictDoes
    <2>2. \A f : Stamp(f)' = Stamp(f)
      BY <2>1 DEF Stamp, Sent
    <2>3. OneWriter'
      BY <2>1 DEF SeenInv, OneWriter, Busy
    <2>4. ShownStamps'
      BY <2>1, <2>2 DEF SeenInv, ShownStamps, Sent
    <2> QED
      BY <2>3, <2>4 DEF SeenInv
  <1> QED
    BY <1>1, <1>2, <1>3, <1>4, <1>5, <1>6, <1>7, <1>8, <1>9, <1>10 DEF Person

LEMMA SeenSyncs ==
    ASSUME EditorSound, SeenInv, Syncs \/ AskFails
    PROVE  SeenInv'
  <1>1. /\ Synced /\ flow'.path = flow.path /\ flow'.modified = flow.modified
        /\ sync'.conflict = sync.conflict
    BY RunParseDoes, ParseAnsweredDoes, RunGenerateDoes, GenerateAnsweredDoes, AskFailsDoes
       DEF Syncs, Around
  <1> QED
    BY <1>1, SeenIfQuiet DEF Synced

LEMMA SeenServes ==
    ASSUME EditorSound, ApartInv, SeenInv, NEW c \in calls, Serves(c)
    PROVE  SeenInv'
  <1>0. /\ EditorTyped /\ Whole /\ c \in Calls /\ c.path \in Flows
        /\ flow \in OpenFlows /\ seen \in [Flows -> Nat]
        /\ \A f \in Flows : Stamp(f) \in Nat /\ seen[f] \in Nat /\ seen[f] <= Stamp(f)
    BY LastOnFile DEF EditorSound, EditorTyped, Calls, SeenInv, ShownStamps
  <1>1. ASSUME NEW d, Becomes(c, d), Served
        PROVE  OneWriter'
    BY <1>1 DEF SeenInv, OneWriter, Becomes, Served
  <1>2. ASSUME Served, seen' = seen, NEW d \in Calls, Becomes(c, d),
               d.step \notin {"generate", "put", "written"},
               \A f \in Flows : Stamp(f) <= Stamp(f)' /\ Stamp(f)' \in Nat,
               d.step = "refused" => d.stamp <= Stamp(c.path)' /\ flow.modified <= d.stamp,
               d.step = "answered" => d.stamp <= Stamp(c.path)'
        PROVE  SeenInv'
    <2>1. \A e \in calls : e.path \in Flows /\ e.stamp \in Nat
      BY <1>0 DEF EditorTyped, Calls
    <2>2. /\ flow.path # NoFlow => flow'.modified <= seen'[flow'.path]
          /\ sync.conflict # NoConflict => sync'.conflict.modified <= seen'[sync'.conflict.path]
          /\ flow' = flow /\ sync' = sync
      BY <1>2 DEF SeenInv, ShownStamps, Served
    <2>3. \A f \in Flows : seen'[f] <= Stamp(f)'
      BY <1>0, <1>2
    <2>4. \A e \in calls :
             /\ e.step \in {"generate", "put", "written"} => e.stamp <= seen'[e.path]
             /\ e.step = "refused" => e.stamp <= Stamp(e.path)' /\ flow'.modified <= e.stamp
             /\ e.step = "answered" => e.stamp <= Stamp(e.path)'
      <3> TAKE e \in calls
      <3>1. e.path \in Flows /\ e.stamp \in Nat /\ Stamp(e.path) \in Nat
            /\ Stamp(e.path) <= Stamp(e.path)' /\ Stamp(e.path)' \in Nat
        BY <1>0, <1>2, <2>1
      <3>2. /\ e.step \in {"generate", "put", "written"} => e.stamp <= seen[e.path]
            /\ e.step = "refused" => e.stamp <= Stamp(e.path) /\ flow.modified <= e.stamp
            /\ e.step = "answered" => e.stamp <= Stamp(e.path)
        BY DEF SeenInv, ShownStamps
      <3> QED
        BY <1>2, <2>2, <3>1, <3>2
    <2>5. \A e \in calls' : e \in calls \/ (e = d /\ d.path = c.path)
      BY <1>2 DEF Becomes
    <2>6. ShownStamps'
      BY <1>2, <2>2, <2>3, <2>4, <2>5 DEF ShownStamps
    <2> QED
      BY <1>1, <1>2, <2>6 DEF SeenInv
  <1>3. ASSUME ServerWrites(c) PROVE SeenInv'
    <2>1. PICK d \in Calls :
             /\ Becomes(c, d)
             /\ IF c.stamp = Stamp(c.path)
                THEN /\ d.step = "written" /\ d.stamp = Stamp(c.path) + 1
                     /\ Grown(c.path, c.text) /\ seen' = [seen EXCEPT ![c.path] = Stamp(c.path) + 1]
                ELSE /\ d.step = "refused" /\ d.stamp = Stamp(c.path)
                     /\ disk' = disk /\ seen' = seen
      BY <1>3, ServerWritesDoes
    <2>2. Served /\ c.step = "put" /\ c.text \in Texts
      BY <1>3, ServerWritesDoes
    <2>3. c.why # "open"
      BY <1>0, <2>2 DEF Whole, Steps
    <2>4. calls = {c} /\ c.path = flow.path
      BY <2>3, Alone
    <2>5. flow.modified \in Nat /\ flow.modified <= seen[c.path] /\ flow.modified <= Stamp(c.path)
      <3>1. flow.modified <= seen[c.path]
        BY <1>0, <2>4, SheetFields DEF SeenInv, ShownStamps
      <3>2. flow.modified \in Nat
        BY <1>0 DEF OpenFlows
      <3> QED
        BY <1>0, <3>1, <3>2
    <2>6. CASE c.stamp = Stamp(c.path)
      <3>1. /\ Stamp(c.path)' = Stamp(c.path) + 1 /\ \A f \in Flows : Stamp(f) <= Stamp(f)' /\ Stamp(f)' \in Nat
        BY <1>0, <2>1, <2>2, <2>6, FileGrows
      <3>2. /\ seen'[c.path] = Stamp(c.path) + 1
            /\ \A f \in Flows : f # c.path => seen'[f] = seen[f]
        BY <1>0, <2>1, <2>6
      <3>3. \A f \in Flows : seen'[f] <= Stamp(f)'
        <4> TAKE f \in Flows
        <4>1. CASE f = c.path
          BY <3>1, <3>2, <4>1, <1>0
        <4>2. CASE f # c.path
          BY <1>0, <3>1, <3>2, <4>2
        <4> QED
          BY <4>1, <4>2
      <3>4. \A f \in Flows : seen[f] \in Nat /\ seen'[f] \in Nat /\ seen[f] <= seen'[f]
        <4> TAKE f \in Flows
        <4>1. CASE f = c.path
          BY <3>2, <4>1, <1>0
        <4>2. CASE f # c.path
          BY <1>0, <3>2, <4>2
        <4> QED
          BY <4>1, <4>2
      <3>5. flow'.modified <= seen'[flow'.path]
        BY <1>0, <2>2, <2>4, <2>5, <3>4 DEF Served
      <3>6. sync'.conflict # NoConflict => sync'.conflict.modified <= seen'[sync'.conflict.path]
        <4> SUFFICES ASSUME sync.conflict # NoConflict
                     PROVE  sync.conflict.modified <= seen'[sync.conflict.path]
          BY <2>2 DEF Served
        <4>1. sync.conflict.path \in Flows /\ sync.conflict.modified \in Nat
          BY <1>0 DEF EditorTyped, Whole, Syncing, Dialogs
        <4>2. sync.conflict.modified <= seen[sync.conflict.path]
          BY DEF SeenInv, ShownStamps
        <4> QED
          BY <3>4, <4>1, <4>2
      <3>7. \A e \in calls' : e.step = "written" /\ e.stamp = seen'[e.path]
        BY <2>1, <2>4, <2>6, <3>2 DEF Becomes
      <3>8. \A e \in calls' : e.stamp <= seen'[e.path]
        BY <1>0, <2>1, <2>4, <3>4, <3>7 DEF Becomes
      <3>9. ShownStamps'
        BY <3>3, <3>5, <3>6, <3>7, <3>8 DEF ShownStamps
      <3> QED
        BY <1>1, <2>1, <2>2, <3>9 DEF SeenInv
    <2>7. CASE c.stamp # Stamp(c.path)
      <3>1. disk' = disk /\ seen' = seen /\ \A f : Stamp(f)' = Stamp(f)
        BY <2>1, <2>7 DEF Stamp
      <3>2. \A f \in Flows : Stamp(f) <= Stamp(f)' /\ Stamp(f)' \in Nat
        BY <1>0, <3>1
      <3>3. d.stamp <= Stamp(c.path)' /\ flow.modified <= d.stamp /\ d.step = "refused"
        BY <1>0, <2>1, <2>5, <2>7, <3>1
      <3> QED
        BY <1>2, <2>1, <2>2, <3>1, <3>2, <3>3
    <2> QED
      BY <2>6, <2>7
  <1>4. ASSUME ServerReads(c) PROVE SeenInv'
    <2>1. PICK d \in Calls : Becomes(c, d) /\ d.step = "answered" /\ d.stamp = Stamp(c.path)
      BY <1>4, ServerReadsDoes
    <2>2. Served /\ disk' = disk /\ seen' = seen
      BY <1>4, ServerReadsDoes
    <2>3. \A f \in Flows : Stamp(f)' = Stamp(f) /\ Stamp(f) <= Stamp(f)' /\ Stamp(f)' \in Nat
      BY <1>0, <2>2 DEF Stamp
    <2> QED
      BY <1>0, <1>2, <2>1, <2>2, <2>3
  <1>5. ASSUME ServerRestores(c) PROVE SeenInv'
    <2>1. PICK d \in Calls :
             /\ Becomes(c, d) /\ d.step = "answered" /\ d.text \in Texts
             /\ Grown(c.path, d.text) /\ d.stamp = Stamp(c.path) + 1
      BY <1>5, ServerRestoresDoes
    <2>2. Served /\ seen' = seen
      BY <1>5, ServerRestoresDoes
    <2>3. /\ \A f \in Flows : Stamp(f) <= Stamp(f)' /\ Stamp(f)' \in Nat
          /\ Stamp(c.path)' = Stamp(c.path) + 1
      BY <1>0, <2>1, FileGrows
    <2>4. d.stamp <= Stamp(c.path)'
      BY <1>0, <2>1, <2>3
    <2> QED
      BY <1>2, <2>1, <2>2, <2>3, <2>4
  <1>6. ASSUME ServerLayout(c) PROVE SeenInv'
    <2>1. PICK d \in Calls : Becomes(c, d) /\ d.step = "laid"
      BY <1>6, ServerLayoutDoes
    <2>2. Served /\ disk' = disk /\ seen' = seen
      BY <1>6, ServerLayoutDoes
    <2>3. \A f \in Flows : Stamp(f) <= Stamp(f)' /\ Stamp(f)' \in Nat
      BY <1>0, <2>2 DEF Stamp
    <2> QED
      BY <1>2, <2>1, <2>2, <2>3
  <1> QED
    BY <1>3, <1>4, <1>5, <1>6 DEF Serves

\* An answer to a request that writes leaves at most the one that follows it.
LEMMA SeenIfAnswered ==
    ASSUME EditorSound, SeenInv, Answered, seen' = seen,
           NEW c \in calls, calls = {c}, c.why # "open",
           flow'.path = flow.path, flow.path # NoFlow => flow'.modified <= seen[flow.path],
           sync'.conflict \in {sync.conflict, NoConflict},
           calls' # {} => sync'.conflict = sync.conflict,
           calls' = {} \/ \E d : /\ Becomes(c, d) /\ d.step \in {"put", "layout"}
                                 /\ d.step = "put" => d.stamp <= seen[d.path]
    PROVE  SeenInv'
  <1>1. \A f : Stamp(f)' = Stamp(f)
    BY DEF Stamp, Answered
  <1>2. OneWriter'
    BY DEF SeenInv, OneWriter, Becomes
  <1>3. \A e \in calls' : e.step \in {"put", "layout"} /\ (e.step = "put" => e.stamp <= seen[e.path])
    BY DEF Becomes
  <1>4. ShownStamps'
    BY <1>1, <1>3 DEF SeenInv, ShownStamps
  <1> QED
    BY <1>2, <1>4 DEF SeenInv

LEMMA SeenAnswers ==
    ASSUME EditorSound, ApartInv, SeenInv, NEW c \in calls, Answers(c) \/ CallFails(c)
    PROVE  SeenInv'
  <1>0. /\ EditorTyped /\ Whole /\ c \in Calls /\ c.path \in Flows
        /\ c.step \in {"generate", "put", "written", "refused"} => c.why # "open"
        /\ c.why # "open" => calls = {c} /\ c.path = flow.path
        /\ flow.path # NoFlow => flow.modified <= seen[flow.path]
    <2>1. EditorTyped /\ Whole /\ c \in Calls /\ c.path \in Flows
      BY DEF EditorSound, EditorTyped, Calls
    <2>2. c.step \in {"generate", "put", "written", "refused"} => c.why # "open"
      BY <2>1 DEF Whole, Steps
    <2> QED
      BY <2>1, <2>2, Alone DEF SeenInv, ShownStamps
  <1>1. ASSUME SaveGenerated(c) PROVE SeenInv'
    <2>1. /\ Answered /\ seen' = seen /\ c.step = "generate" /\ Around(flow')
          /\ flow'.modified = flow.modified /\ sync'.conflict = sync.conflict
      BY <1>1, SaveGeneratedDoes
    <2>2. PICK d \in Calls : Becomes(c, d) /\ d.step = "put" /\ d.stamp = c.stamp
      BY <1>1, SaveGeneratedDoes
    <2>3. d.stamp <= seen[d.path]
      BY <2>1, <2>2 DEF SeenInv, ShownStamps, Becomes
    <2> QED
      BY <1>0, <2>1, <2>2, <2>3, SeenIfAnswered DEF Around
  <1>2. ASSUME SaveAnswered(c) PROVE SeenInv'
    <2>1. /\ Answered /\ seen' = seen /\ c.step = "written" /\ Around(flow')
          /\ flow'.modified = c.stamp /\ sync'.conflict = sync.conflict
          /\ calls' = calls \ {c} \/ \E d \in Calls : Becomes(c, d) /\ d.step = "layout"
      BY <1>2, SaveAnsweredDoes
    <2>2. c.stamp <= seen[c.path]
      BY <2>1 DEF SeenInv, ShownStamps
    <2>3. calls = {c} /\ c.path = flow.path /\ c.why # "open"
      BY <1>0, <2>1
    <2>4. calls' = {} \/ \E d \in Calls : Becomes(c, d) /\ d.step = "layout"
      BY <2>1, <2>3
    <2> QED
      BY <1>0, <2>1, <2>2, <2>3, <2>4, SeenIfAnswered DEF Around
  <1>3. ASSUME LayoutAnswered(c) \/ KeepRefused(c) \/ CallFails(c) PROVE SeenInv'
    <2>1. /\ Answered /\ seen' = seen /\ Around(flow') /\ flow'.modified = flow.modified
          /\ sync' = sync /\ calls' = calls \ {c}
      BY <1>3, LayoutAnsweredDoes, KeepRefusedDoes, CallFailsDoes DEF Around
    <2>2. \A f : Stamp(f)' = Stamp(f)
      BY <2>1 DEF Stamp, Answered
    <2>3. OneWriter'
      BY <2>1 DEF SeenInv, OneWriter
    <2>4. ShownStamps'
      BY <2>1, <2>2 DEF SeenInv, ShownStamps, Around
    <2> QED
      BY <2>3, <2>4 DEF SeenInv
  <1>4. ASSUME KeepAnswered(c) PROVE SeenInv'
    <2>1. /\ Answered /\ seen' = seen /\ c.step = "written" /\ Around(flow')
          /\ flow'.modified = c.stamp /\ sync'.conflict = NoConflict /\ calls' = calls \ {c}
      BY <1>4, KeepAnsweredDoes
    <2>2. c.stamp <= seen[c.path]
      BY <2>1 DEF SeenInv, ShownStamps
    <2>3. calls = {c} /\ c.path = flow.path /\ c.why # "open" /\ calls' = {}
      BY <1>0, <2>1
    <2> QED
      BY <1>0, <2>1, <2>2, <2>3, SeenIfAnswered DEF Around
  <1>5. ASSUME SaveRefused(c) PROVE SeenInv'
    <2>1. /\ Answered /\ flow' = flow /\ c.step = "refused" /\ calls' = calls \ {c}
          /\ seen' = [seen EXCEPT ![c.path] = c.stamp]
          /\ sync'.conflict.path = flow.path /\ sync'.conflict.modified = c.stamp /\ flow.path # NoFlow
      BY <1>5, SaveRefusedDoes
    <2>2. calls' = {} /\ c.path = flow.path
      BY <1>0, <2>1
    <2>3. /\ c.stamp \in Nat /\ c.stamp <= Stamp(c.path) /\ flow.modified <= c.stamp
          /\ \A f \in Flows : seen[f] <= Stamp(f) /\ Stamp(f)' = Stamp(f)
      BY <1>0, <2>1 DEF SeenInv, ShownStamps, Calls, Stamp, Answered
    <2>4. seen'[c.path] = c.stamp /\ \A f \in Flows : f # c.path => seen'[f] = seen[f]
      BY <1>0, <2>1 DEF EditorTyped
    <2>5. \A f \in Flows : seen'[f] <= Stamp(f)'
      BY <2>3, <2>4
    <2>6. sync'.conflict.modified <= seen'[sync'.conflict.path] /\ flow'.modified <= seen'[flow'.path]
      BY <2>1, <2>2, <2>3, <2>4
    <2>7. OneWriter' /\ ShownStamps'
      BY <2>2, <2>5, <2>6 DEF OneWriter, ShownStamps
    <2> QED
      BY <2>7 DEF SeenInv
  <1>6. ASSUME FlowAnswered(c) PROVE SeenInv'
    <2>1. /\ Answered /\ c.step = "answered" /\ calls' = calls \ {c}
          /\ flow'.path = c.path /\ flow'.modified = c.stamp
          /\ seen' = [seen EXCEPT ![c.path] = c.stamp]
          /\ c.path = flow.path => sync'.conflict = IF c.why = "theirs" THEN NoConflict ELSE sync.conflict
          /\ c.path # flow.path => sync'.conflict = NoConflict
      BY <1>6, FlowAnsweredDoes
    <2>2. /\ c.stamp \in Nat /\ c.stamp <= Stamp(c.path)
          /\ \A f \in Flows : seen[f] <= Stamp(f) /\ Stamp(f)' = Stamp(f)
      BY <1>0, <2>1 DEF SeenInv, ShownStamps, Calls, Stamp, Answered
    <2>3. seen'[c.path] = c.stamp /\ \A f \in Flows : f # c.path => seen'[f] = seen[f]
      BY <1>0, <2>1 DEF EditorTyped
    <2>4. \A f \in Flows : seen'[f] <= Stamp(f)'
      BY <2>2, <2>3
    <2>5. sync'.conflict = NoConflict
      <3>1. CASE c.why = "open"
        <4>1. sync.conflict = NoConflict
          BY <3>1 DEF ApartInv, Placed, Settled
        <4> QED
          BY <2>1, <4>1
      <3>2. CASE c.why # "open"
        <4>1. c.why \in {"theirs", "restore"}
          BY <1>0, <2>1, <3>2 DEF Whole, Steps, Calls
        <4>2. c.why = "restore" => sync.conflict = NoConflict
          BY DEF SeenInv, OneWriter
        <4> QED
          BY <2>1, <4>1, <4>2
      <3> QED
        BY <3>1, <3>2
    <2>6. \A d \in calls' : d.why = "open" /\ d.step \in {"asked", "answered"}
      <3>1. \A d \in calls' : d \in calls /\ d # c
        BY <2>1
      <3>2. \A d \in calls' : d.why = "open"
        BY <3>1, Alone
      <3> QED
        BY <1>0, <3>1, <3>2 DEF Whole, Steps
    <2>7. \A d \in calls' : d.step = "answered" => d.stamp <= Stamp(d.path)'
      <3>1. \A d \in calls : Stamp(d.path)' = Stamp(d.path)
        BY <1>0, <2>2 DEF EditorTyped, Calls
      <3> QED
        BY <2>1, <3>1 DEF SeenInv, ShownStamps
    <2>8. OneWriter'
      BY <2>5, <2>6 DEF OneWriter
    <2>9. ShownStamps'
      BY <2>1, <2>2, <2>3, <2>4, <2>5, <2>6, <2>7 DEF ShownStamps
    <2> QED
      BY <2>8, <2>9 DEF SeenInv
  <1> QED
    BY <1>1, <1>2, <1>3, <1>4, <1>5, <1>6 DEF Answers

LEMMA SeenOthers ==
    ASSUME EditorSound, SeenInv, NEW f \in Flows, OtherWrites(f)
    PROVE  SeenInv'
  <1>1. /\ Served /\ seen' = seen /\ calls' = calls
        /\ FirstText(f) \in Texts /\ Grown(f, FirstText(f))
    BY OtherWritesDoes
  <1>2. \A g \in Flows : Stamp(g) \in Nat /\ Stamp(g)' \in Nat /\ Stamp(g) <= Stamp(g)'
    BY <1>1, FileGrows DEF EditorSound
  <1>3. OneWriter'
    BY <1>1 DEF SeenInv, OneWriter, Served
  <1>4. \A e \in calls : e.path \in Flows /\ e.stamp \in Nat
    BY DEF EditorSound, EditorTyped, Calls
  <1>5. \A g \in Flows : seen[g] \in Nat
    BY DEF EditorSound, EditorTyped
  <1>6. \A g \in Flows : seen[g] <= Stamp(g)'
    <2> TAKE g \in Flows
    <2>1. seen[g] <= Stamp(g)
      BY DEF SeenInv, ShownStamps
    <2>2. Stamp(g) \in Nat /\ Stamp(g)' \in Nat /\ Stamp(g) <= Stamp(g)' /\ seen[g] \in Nat
      BY <1>2, <1>5
    <2> QED
      BY <2>1, <2>2
  <1>7. \A e \in calls :
           /\ e.step = "refused" => e.stamp <= Stamp(e.path)' /\ flow.modified <= e.stamp
           /\ e.step = "answered" => e.stamp <= Stamp(e.path)'
    <2> TAKE e \in calls
    <2>1. /\ e.step = "refused" => e.stamp <= Stamp(e.path) /\ flow.modified <= e.stamp
          /\ e.step = "answered" => e.stamp <= Stamp(e.path)
      BY DEF SeenInv, ShownStamps
    <2>2. e.stamp \in Nat /\ Stamp(e.path) \in Nat /\ Stamp(e.path)' \in Nat
          /\ Stamp(e.path) <= Stamp(e.path)'
      BY <1>2, <1>4
    <2> QED
      BY <2>1, <2>2
  <1>8. ShownStamps'
    BY <1>1, <1>6, <1>7 DEF SeenInv, ShownStamps, Served
  <1> QED
    BY <1>3, <1>8 DEF SeenInv

LEMMA SeenStep ==
    ASSUME EditorSound, ApartInv, SeenInv, "leave" \notin Hurried, "save twice" \notin Hurried,
           [Next]_vars
    PROVE  SeenInv'
  <1>1. ASSUME UNCHANGED vars PROVE SeenInv'
    BY <1>1, SeenIfQuiet DEF vars, server, history
  <1> QED
    BY <1>1, SeenPerson, SeenSyncs, SeenServes, SeenAnswers, SeenOthers DEF Next, Requests, Faults

LEMMA SeenIsLast ==
    ASSUME EditorSound, SeenInv, NEW c \in calls, c.step = "put", c.stamp = Stamp(c.path)
    PROVE  seen[c.path] = Stamp(c.path)
  <1>1. c.path \in Flows /\ Stamp(c.path) \in Nat /\ seen[c.path] \in Nat
    BY LastOnFile DEF EditorSound, EditorTyped, Calls
  <1>2. c.stamp <= seen[c.path]
    BY DEF SeenInv, ShownStamps
  <1>3. seen[c.path] <= Stamp(c.path)
    BY <1>1 DEF SeenInv, ShownStamps
  <1> QED
    BY <1>1, <1>2, <1>3

\* A save, the first or `keep mine', only ever replaces a version the person has
\* seen, in the editor or in the dialog, as long as they let one write finish
\* before they begin the next or leave (flow.ts modified, ConflictDialog.tsx:4).
THEOREM OnlySeenReplaced ==
    "leave" \notin Hurried /\ "save twice" \notin Hurried => (Spec => NothingOverwrittenUnseen)
  <1> SUFFICES ASSUME "leave" \notin Hurried, "save twice" \notin Hurried
               PROVE  Spec => NothingOverwrittenUnseen
    OBVIOUS
  <1>1. Init => EditorSound /\ ApartInv /\ SeenInv
    BY SoundAtFirst, ApartAtFirst, SeenAtFirst
  <1>2. EditorSound /\ ApartInv /\ SeenInv /\ [Next]_vars => EditorSound' /\ ApartInv' /\ SeenInv'
    BY SoundStep, ApartStep, SeenStep
  <1>3. EditorSound /\ SeenInv /\ [Next]_vars =>
           [\A c \in calls : ServerWrites(c) => (disk' # disk => seen[c.path] = Stamp(c.path))]_vars
    <2> SUFFICES ASSUME EditorSound, SeenInv, NEW c \in calls, ServerWrites(c), disk' # disk
                 PROVE  seen[c.path] = Stamp(c.path)
      OBVIOUS
    <2>1. c.step = "put" /\ c.stamp = Stamp(c.path)
      BY DEF ServerWrites
    <2> QED
      BY <2>1, SeenIsLast
  <1> QED
    BY <1>1, <1>2, <1>3, PTL DEF Spec, NothingOverwrittenUnseen

-----------------------------------------------------------------------------
(* No edit lost, and clean is on disk.                                     *)

\* What the person waits for who is in no hurry, but for the parse of a body.
Patient == Hurried \subseteq {"unverified"}

LEMMA PatientWaits ==
    ASSUME EditorSound, Patient
    PROVE  /\ "leave" \notin Hurried /\ "save twice" \notin Hurried
           /\ MayType => ~flow.stale /\ ask.kind # "generate" /\ ~Writing
           /\ MayEdit => ~sync.parseDue /\ ask.kind # "parse" /\ ~sync.failure /\ ~Writing
           /\ Waited("switch hands", ModelAhead) => ~flow.stale /\ ask.kind # "generate"
           /\ MayType \/ MayEdit => flow.path # NoFlow /\ sync.conflict = NoConflict
  BY DEF Patient, MayType, MayEdit, Waited, ModelAhead, TextBehind, Attended

\* An answer that opens a flow leaves no dialog, and nobody writing.
LEMMA OpensAfresh ==
    ASSUME EditorSound, ApartInv, SeenInv, NEW c \in calls, FlowAnswered(c)
    PROVE  /\ sync'.conflict = NoConflict
           /\ \A d \in calls' : d \in calls /\ d.why = "open" /\ d.step \in {"asked", "answered"}
  <1>1. /\ c.step = "answered" /\ calls' = calls \ {c}
        /\ c.path = flow.path => sync'.conflict = IF c.why = "theirs" THEN NoConflict ELSE sync.conflict
        /\ c.path # flow.path => sync'.conflict = NoConflict
    BY FlowAnsweredDoes
  <1>2. CASE c.why = "open"
    <2>1. sync.conflict = NoConflict
      BY <1>2 DEF ApartInv, Placed, Settled
    <2>2. \A d \in calls : d.why = "open"
      BY <1>2, Alone
    <2> QED
      BY <1>1, <2>1, <2>2 DEF EditorSound, Whole, Steps
  <1>3. CASE c.why # "open"
    <2>1. c.why \in {"theirs", "restore"} /\ calls' = {}
      BY <1>1, <1>3, Alone DEF EditorSound, EditorTyped, Whole, Steps, Calls
    <2>2. c.why = "restore" => sync.conflict = NoConflict
      BY DEF SeenInv, OneWriter
    <2> QED
      BY <1>1, <2>1, <2>2
  <1> QED
    BY <1>2, <1>3

\* A step that keeps the flow, the text and the model: only requests and files move.
SameHands ==
    /\ flow'.path = flow.path /\ flow'.source = flow.source /\ flow'.model = flow.model
    /\ flow'.stale = flow.stale /\ flow'.dirty = flow.dirty /\ flow'.modified = flow.modified
    /\ sync'.parseDue = sync.parseDue /\ sync'.failure = sync.failure
    /\ ask' = ask /\ kept' = kept

LEMMA EditsIfSameHands ==
    ASSUME EditorSound, EditsInv, SameHands, sync'.conflict = sync.conflict,
           \A g \in Flows, n \in Nat, x \in Sheets : OnFile(g, n, x) => OnFile(g, n, x)',
           \A d \in calls' :
              \/ d \in calls
              \/ Carried(d) /\ (d.step \in {"written", "answered"} => OnFile(d.path, d.stamp, d.text)')
    PROVE  EditsInv'
  <1>1. OneHand'
    BY DEF EditsInv, OneHand, SameHands, Generating
  <1>2. /\ flow.path # NoFlow => flow.path \in Flows
        /\ flow.modified \in Nat /\ flow.source \in Sheets
        /\ \A d \in calls : d.path \in Flows /\ d.stamp \in Nat /\ d.text \in Sheets
    BY DEF EditorSound, EditorTyped, OpenFlows, Calls
  <1>3. Filed'
    <2>1. flow.path # NoFlow /\ ~flow.dirty => OnFile(flow.path, flow.modified, flow.source)
      BY DEF EditsInv, Filed
    <2>2. flow.path # NoFlow /\ ~flow.dirty =>
             \A g \in Flows, n \in Nat, x \in Sheets :
                g = flow.path /\ n = flow.modified /\ x = flow.source => OnFile(g, n, x)'
      BY <2>1
    <2>3. flow'.path # NoFlow /\ ~flow'.dirty => OnFile(flow.path, flow.modified, flow.source)'
      BY <1>2, <2>2 DEF SameHands
    <2>4. \A d \in calls : d.step \in {"written", "answered"} => OnFile(d.path, d.stamp, d.text)'
      BY <1>2 DEF EditsInv, Filed
    <2> QED
      BY <2>3, <2>4 DEF Filed
  <1>4. \A d : Carried(d) => Carried(d)'
    BY DEF Carried, SameHands, Generating
  <1>5. SaveHolds'
    BY <1>4 DEF EditsInv, SaveHolds
  <1>6. ModelHolds' /\ NoEditLost'
    BY DEF EditsInv, ModelHolds, NoEditLost, SameHands, Parsing, Effective
  <1> QED
    BY <1>1, <1>3, <1>5, <1>6 DEF EditsInv

\* An edit, made when nothing is being written.
LEMMA EditsIfEdited ==
    ASSUME EditorSound, EditsInv, Edited, ~Writing, sync'.conflict = NoConflict,
           flow'.path = flow.path, flow'.dirty,
           sync'.parseDue \/ ask.kind = "parse" => ~flow'.stale,
           ask.kind = "generate" => flow'.stale,
           kept' \subseteq Effective'.has, ModelHolds'
    PROVE  EditsInv'
  <1>1. ask' = ask /\ calls' = calls /\ disk' = disk
    BY DEF Edited
  <1>2. OneHand'
    BY <1>1 DEF OneHand, Generating
  <1>3. \A c \in calls : c.why = "open" /\ c.step \in {"asked", "answered"}
    BY NobodyWrites
  <1>4. Filed'
    BY <1>1 DEF EditsInv, Filed, OnFile
  <1>5. SaveHolds'
    BY <1>1, <1>3 DEF SaveHolds, Carried
  <1>6. NoEditLost'
    BY DEF NoEditLost
  <1> QED
    BY <1>2, <1>4, <1>5, <1>6 DEF EditsInv

LEMMA EditsAtFirst == Init => EditsInv
  <1> SUFFICES ASSUME Init PROVE EditsInv
    OBVIOUS
  <1> DEFINE c == Opening(route)
  <1>1. flow.path = NoFlow /\ ~flow.stale /\ ~sync.parseDue /\ ask.kind = "none"
    BY SheetFields DEF Init, Initial
  <1>2. calls = {c} /\ c.why = "open" /\ c.step = "asked"
    BY DEF Init, Opening, Call
  <1> HIDE DEF c
  <1> QED
    BY <1>1, <1>2 DEF EditsInv, OneHand, Filed, SaveHolds, Carried, ModelHolds, NoEditLost, Generating

LEMMA EditsPerson ==
    ASSUME EditorSound, ApartInv, SeenInv, EditsInv, Patient, Person
    PROVE  EditsInv'
  <1>0. /\ EditorTyped /\ Whole /\ flow.source \in Sheets /\ flow.model \in Sheets
        /\ flow.stale \in BOOLEAN
    BY DEF EditorSound, EditorTyped, OpenFlows
  <1>1. ASSUME NEW ok \in BOOLEAN, Type(ok) PROVE EditsInv'
    <2>1. PICK e \in Edits : kept' = kept \cup {e} /\ flow'.source.has = flow.source.has \cup {e}
      BY <1>1, TypeDoes
    <2>2. /\ Edited /\ MayType /\ flow'.dirty /\ ~flow'.stale /\ flow'.path = flow.path
          /\ sync'.parseDue /\ sync'.conflict = sync.conflict
      BY <1>1, TypeDoes
    <2>3. ~flow.stale /\ ask.kind # "generate" /\ ~Writing /\ sync.conflict = NoConflict /\ flow.path # NoFlow
      BY <2>2, PatientWaits
    <2>4. kept' \subseteq Effective'.has
      BY <2>1, <2>2, <2>3 DEF EditsInv, NoEditLost, Effective
    <2>5. ModelHolds'
      BY <2>2 DEF ModelHolds
    <2> QED
      BY <2>2, <2>3, <2>4, <2>5, EditsIfEdited
  <1>2. ASSUME NEW ok \in BOOLEAN, ApplyDraft(ok) PROVE EditsInv'
    <2>1. PICK e \in Edits : kept' = {e} /\ flow'.source.has = {e}
      BY <1>2, ApplyDraftDoes
    <2>2. /\ Edited /\ MayEdit /\ flow'.dirty /\ ~flow'.stale /\ flow'.path = flow.path
          /\ flow'.source \in Texts /\ flow'.model = Parsed(flow'.source)
          /\ Waited("switch hands", ModelAhead) /\ sync'.conflict = sync.conflict
      BY <1>2, ApplyDraftDoes
    <2>3. ask.kind # "generate" /\ ~Writing /\ sync.conflict = NoConflict
      BY <2>2, PatientWaits
    <2>4. kept' \subseteq Effective'.has
      BY <2>1, <2>2 DEF Effective
    <2>5. flow'.model \in {flow'.source, Null}
      BY <2>2, SheetFields
    <2>6. ModelHolds'
      BY <2>1, <2>5 DEF ModelHolds
    <2> QED
      BY <2>2, <2>3, <2>4, <2>6, EditsIfEdited
  <1>3. ASSUME NEW body \in BOOLEAN, NEW ok \in BOOLEAN, Edit(body, ok) PROVE EditsInv'
    <2>1. PICK e \in Edits : kept' = kept \cup {e} /\ flow'.model.has = flow.model.has \cup {e}
      BY <1>3, EditDoes
    <2>2. /\ Edited /\ MayEdit /\ flow.model # Null /\ flow'.model # Null /\ flow'.dirty
          /\ flow'.stale /\ flow'.path = flow.path /\ sync'.parseDue = sync.parseDue
          /\ sync'.conflict = sync.conflict
      BY <1>3, EditDoes
    <2>3. /\ ~sync.parseDue /\ ask.kind # "parse" /\ ~sync.failure /\ ~Writing
          /\ sync.conflict = NoConflict /\ flow.path # NoFlow
      BY <2>2, PatientWaits
    <2>4. kept \subseteq flow.model.has
      BY <2>2, <2>3 DEF EditsInv, ModelHolds, Parsing
    <2>5. kept' \subseteq flow'.model.has
      BY <2>1, <2>4
    <2>6. kept' \subseteq Effective'.has /\ ModelHolds'
      BY <2>2, <2>5 DEF Effective, ModelHolds
    <2> QED
      BY <2>2, <2>3, <2>6, EditsIfEdited
  <1>4. ASSUME Move PROVE EditsInv'
    <2>1. SameHands /\ sync'.conflict = sync.conflict /\ calls' = calls /\ disk' = disk
      BY <1>4, MoveDoes DEF SameHands, Edited
    <2> QED
      BY <2>1, EditsIfSameHands DEF OnFile
  <1>5. ASSUME Restack, NEW m \in Sheets, PutBack(m) PROVE EditsInv'
    <2>1. /\ Edited /\ MayEdit /\ flow'.path = flow.path /\ sync'.parseDue = sync.parseDue
          /\ sync'.conflict = sync.conflict /\ flow'.model = m /\ kept' = m.has
          /\ flow'.dirty /\ flow'.stale
      BY <1>5 DEF Restack, PutBack
    <2>2. ~sync.parseDue /\ ask.kind # "parse" /\ ~Writing /\ sync.conflict = NoConflict
      BY <2>1, PatientWaits
    <2>3. m = Null => m.has = {}
      BY SheetFields
    <2>4. kept' \subseteq Effective'.has /\ ModelHolds'
      BY <2>1, <2>3 DEF Effective, ModelHolds
    <2> QED
      BY <2>1, <2>2, <2>4, EditsIfEdited
  <1>6. ASSUME Restack, NothingPutBack PROVE EditsInv'
    <2>1. SameHands /\ sync'.conflict = sync.conflict /\ calls' = calls /\ disk' = disk
      BY <1>6 DEF SameHands, Edited, Restack, NothingPutBack
    <2> QED
      BY <2>1, EditsIfSameHands DEF OnFile
  <1>7. ASSUME Undo \/ Redo PROVE EditsInv'
    BY <1>5, <1>6, <1>7, UndoDoes, RedoDoes
  <1>8. ASSUME Save PROVE EditsInv'
    <2>1. PICK c \in Calls :
             /\ calls' = calls \cup {c} /\ c.why = "save" /\ c.path = flow.path
             /\ IF flow.stale /\ flow.model # Null
                THEN c.step = "generate" /\ c.text = flow.model
                ELSE c.step = "put" /\ c.text = flow.source
      BY <1>8, SaveDoes
    <2>2. Sent /\ sync' = sync /\ flow.path # NoFlow
      BY <1>8, SaveDoes DEF Attended
    <2>3. SameHands /\ sync'.conflict = sync.conflict /\ disk' = disk
      BY <2>2 DEF SameHands, Sent
    <2>4. kept \subseteq Effective.has /\ (flow.stale => flow.dirty)
      BY <2>2 DEF EditsInv, NoEditLost, OneHand
    <2>5. Carried(c)
      <3>1. CASE flow.stale /\ flow.model # Null
        BY <2>1, <2>4, <3>1 DEF Carried, Effective, Generating
      <3>2. CASE ~(flow.stale /\ flow.model # Null)
        BY <2>1, <2>4, <3>2 DEF Carried, Effective, Generating
      <3> QED
        BY <3>1, <3>2
    <2> QED
      BY <2>1, <2>3, <2>5, EditsIfSameHands DEF OnFile
  <1>9. ASSUME NEW f \in Flows, Go(f) PROVE EditsInv'
    <2>1. PICK c \in Calls :
             calls' = {d \in calls : d.why # "open"} \cup {c} /\ c.why = "open" /\ c.step = "asked"
      BY <1>9, GoDoes
    <2>2. Sent /\ sync' = sync
      BY <1>9, GoDoes
    <2>3. SameHands /\ sync'.conflict = sync.conflict /\ disk' = disk
      BY <2>2 DEF SameHands, Sent
    <2>4. Carried(c)
      BY <2>1 DEF Carried
    <2> QED
      BY <2>1, <2>3, <2>4, EditsIfSameHands DEF OnFile
  <1>10. ASSUME Restore \/ TakeTheirs PROVE EditsInv'
    <2>1. PICK c \in Calls : calls' = calls \cup {c} /\ c.step = "asked"
      BY <1>10, RestoreDoes, TakeTheirsDoes
    <2>2. Sent /\ sync' = sync
      BY <1>10, RestoreDoes, TakeTheirsDoes
    <2>3. SameHands /\ sync'.conflict = sync.conflict /\ disk' = disk
      BY <2>2 DEF SameHands, Sent
    <2>4. Carried(c)
      BY <2>1 DEF Carried
    <2> QED
      BY <2>1, <2>3, <2>4, EditsIfSameHands DEF OnFile
  <1>11. ASSUME KeepMine PROVE EditsInv'
    <2>1. PICK c \in Calls :
             calls' = calls \cup {c} /\ c.why = "keep" /\ c.step = "put" /\ c.text = sync.conflict.mine
      BY <1>11, KeepMineDoes
    <2>2. Sent /\ sync' = sync /\ sync.conflict # NoConflict
      BY <1>11, KeepMineDoes
    <2>3. SameHands /\ sync'.conflict = sync.conflict /\ disk' = disk
      BY <2>2 DEF SameHands, Sent
    <2>4. kept \subseteq c.text.has
      BY <1>0, <2>1, <2>2 DEF EditsInv, NoEditLost, Whole
    <2>5. Carried(c)
      BY <2>1, <2>4 DEF Carried
    <2> QED
      BY <2>1, <2>3, <2>5, EditsIfSameHands DEF OnFile
  <1>12. ASSUME CancelConflict PROVE EditsInv'
    <2>1. /\ Sent /\ calls' = calls /\ sync'.conflict = NoConflict
          /\ ~Busy({"keep", "theirs"}) /\ sync'.parseDue = sync.parseDue
          /\ sync'.failure = sync.failure /\ sync.conflict # NoConflict
      BY <1>12, CancelConflictDoes DEF CancelConflict
    <2>2. calls = {}
      BY <2>1, NobodyElse
    <2>3. OneHand' /\ Filed' /\ ModelHolds' /\ NoEditLost'
      BY <2>1 DEF EditsInv, OneHand, Filed, OnFile, ModelHolds, NoEditLost, Generating, Parsing, Effective, Sent
    <2> QED
      BY <2>1, <2>2, <2>3 DEF EditsInv, SaveHolds
  <1> QED
    BY <1>1, <1>2, <1>3, <1>4, <1>7, <1>8, <1>9, <1>10, <1>11, <1>12 DEF Person

LEMMA EditsSyncs ==
    ASSUME EditorSound, EditsInv, Syncs \/ AskFails
    PROVE  EditsInv'
  <1>0. /\ EditorTyped /\ Whole /\ flow.source \in Sheets /\ flow.model \in Sheets
        /\ flow.stale \in BOOLEAN /\ flow.dirty \in BOOLEAN
        /\ OneHand /\ Filed /\ SaveHolds /\ ModelHolds /\ NoEditLost
    BY DEF EditorSound, EditorTyped, OpenFlows, EditsInv
  <1>1. ASSUME RunParse PROVE EditsInv'
    <2>1. /\ Synced /\ flow' = flow /\ sync.parseDue /\ ~sync'.parseDue /\ sync'.conflict = sync.conflict
          /\ ask'.kind = "parse" /\ ask'.given = flow.source
      BY <1>1, RunParseDoes
    <2>2. OneHand' /\ ModelHolds'
      BY <1>0, <2>1 DEF OneHand, ModelHolds, Parsing, Generating
    <2>3. Filed' /\ NoEditLost'
      BY <1>0, <2>1 DEF Filed, OnFile, NoEditLost, Effective, Synced
    <2>4. SaveHolds'
      BY <1>0, <2>1 DEF SaveHolds, Carried, Generating, Synced
    <2> QED
      BY <2>2, <2>3, <2>4 DEF EditsInv
  <1>2. ASSUME ParseAnswered PROVE EditsInv'
    <2>1. /\ Synced /\ ask.kind = "parse" /\ ask'.kind = "none" /\ Around(flow')
          /\ flow'.source = flow.source /\ flow'.stale = flow.stale
          /\ flow'.dirty = flow.dirty /\ flow'.modified = flow.modified
          /\ sync'.parseDue = sync.parseDue /\ sync'.conflict = sync.conflict
          /\ IF flow.source = ask.given THEN flow'.model = Parsed(flow.source)
                                        ELSE flow'.model = flow.model /\ sync'.failure = sync.failure
      BY <1>2, ParseAnsweredDoes
    <2>2. ~flow.stale /\ (flow.path # NoFlow => kept \subseteq flow.source.has)
      BY <1>0, <2>1 DEF OneHand, NoEditLost, Effective
    <2>3. OneHand' /\ Filed' /\ NoEditLost'
      BY <1>0, <2>1, <2>2 DEF OneHand, Generating, Filed, OnFile, NoEditLost, Effective, Synced, Around
    <2>4. CASE flow.source = ask.given
      <3>1. flow'.model = Null \/ flow'.model = flow.source
        BY <1>0, <2>1, <2>4, SheetFields
      <3>2. ModelHolds'
        BY <2>1, <2>2, <3>1 DEF ModelHolds, Around, Synced
      <3>3. \A c \in calls : c.step = "generate" => flow.path # NoFlow
        BY <1>0 DEF Whole, Steps
      <3>4. SaveHolds'
        BY <1>0, <2>1, <2>2, <3>1, <3>3 DEF SaveHolds, Carried, Generating, Synced
      <3> QED
        BY <2>3, <3>2, <3>4 DEF EditsInv
    <2>5. CASE flow.source # ask.given
      <3>1. ModelHolds' /\ SaveHolds'
        BY <1>0, <2>1, <2>5 DEF ModelHolds, Parsing, SaveHolds, Carried, Generating, Around, Synced
      <3> QED
        BY <2>3, <3>1 DEF EditsInv
    <2> QED
      BY <2>4, <2>5
  <1>3. ASSUME RunGenerate PROVE EditsInv'
    <2>1. /\ Synced /\ flow' = flow /\ sync.generateDue /\ sync'.parseDue = sync.parseDue
          /\ sync'.failure = sync.failure /\ sync'.conflict = sync.conflict
          /\ ask'.kind = "generate" /\ ask'.given = flow.model
      BY <1>3, RunGenerateDoes
    <2>2. flow.stale /\ flow.model # Null /\ ~sync.parseDue /\ ask.kind # "parse"
      BY <1>0, <2>1 DEF Whole, OneHand
    <2>3. OneHand' /\ ModelHolds'
      BY <1>0, <2>1, <2>2 DEF OneHand, ModelHolds, Parsing, Generating, Synced
    <2>4. Filed' /\ NoEditLost'
      BY <1>0, <2>1 DEF Filed, OnFile, NoEditLost, Effective, Synced
    <2>5. SaveHolds'
      BY <1>0, <2>1, <2>2 DEF SaveHolds, Carried, Generating, Synced
    <2> QED
      BY <2>3, <2>4, <2>5 DEF EditsInv
  <1>4. ASSUME GenerateAnswered PROVE EditsInv'
    <2>1. /\ Synced /\ ask.kind = "generate" /\ ask.given # Null /\ Around(flow')
          /\ flow'.model = flow.model /\ flow'.dirty = flow.dirty /\ flow'.modified = flow.modified
          /\ sync'.parseDue = sync.parseDue /\ sync'.conflict = sync.conflict
      BY <1>4, GenerateAnsweredDoes
    <2>2. CASE flow.model = ask.given
      <3>1. flow'.source = ask.given /\ ~flow'.stale /\ ask'.kind # "generate"
        BY <1>4, <2>2, GenerateAnsweredDoes
      <3>2. Generating
        BY <2>1, <2>2 DEF Generating
      <3>3. flow.stale \/ flow.source = ask.given
        BY <1>0, <3>2 DEF OneHand
      <3>4. flow.path # NoFlow => kept \subseteq ask.given.has
        BY <1>0, <2>1, <2>2, <3>3 DEF NoEditLost, Effective
      <3>5. OneHand'
        BY <3>1 DEF OneHand, Generating
      <3>6. Filed'
        BY <1>0, <2>1, <3>1, <3>3 DEF Filed, OnFile, OneHand, Synced, Around
      <3>7. NoEditLost' /\ ModelHolds'
        BY <1>0, <2>1, <2>2, <3>1, <3>4 DEF NoEditLost, Effective, ModelHolds, Synced, Around
      <3>8. ASSUME NEW c \in calls PROVE Carried(c)'
        <4>1. c.step \in {"generate", "put", "written", "refused"} => flow.path # NoFlow
          BY <1>0 DEF Whole, Steps
        <4>2. Carried(c)
          BY <1>0 DEF SaveHolds
        <4>3. c.step = "generate" => c.text = ask.given
          BY <3>2, <4>2 DEF Carried
        <4>4. c.why = "save" /\ c.step \in {"put", "written"} => c.text = ask.given
          BY <2>1, <2>2, <3>3, <4>2 DEF Carried
        <4>5. c.step = "generate" => flow'.dirty /\ kept' \subseteq flow'.model.has
          BY <2>1, <2>2, <3>4, <4>1, <4>2 DEF Carried, Synced
        <4> QED
          BY <2>1, <3>1, <4>2, <4>3, <4>4, <4>5 DEF Carried, Generating, Synced
      <3>9. SaveHolds'
        BY <2>1, <3>8 DEF SaveHolds, Synced
      <3> QED
        BY <3>5, <3>6, <3>7, <3>9 DEF EditsInv
    <2>3. CASE flow.model # ask.given
      <3>1. flow' = flow /\ sync'.failure = sync.failure /\ ask'.kind = "none"
        BY <1>4, <2>3, GenerateAnsweredDoes
      <3>2. OneHand' /\ ModelHolds'
        BY <1>0, <2>1, <3>1 DEF OneHand, ModelHolds, Parsing, Generating, Synced
      <3>3. Filed' /\ NoEditLost' /\ SaveHolds'
        BY <1>0, <2>1, <3>1 DEF Filed, OnFile, NoEditLost, Effective, SaveHolds, Carried, Generating, Synced
      <3> QED
        BY <3>2, <3>3 DEF EditsInv
    <2> QED
      BY <2>2, <2>3
  <1>5. ASSUME AskFails PROVE EditsInv'
    <2>1. /\ Synced /\ flow' = flow /\ ask'.kind = "none" /\ sync'.parseDue = sync.parseDue
          /\ sync'.failure /\ sync'.conflict = sync.conflict
      BY <1>5, AskFailsDoes
    <2>2. OneHand' /\ ModelHolds' /\ Filed' /\ NoEditLost' /\ SaveHolds'
      BY <1>0, <2>1 DEF OneHand, ModelHolds, Generating, Filed, OnFile, NoEditLost, Effective, SaveHolds, Carried, Synced
    <2> QED
      BY <2>2 DEF EditsInv
  <1> QED
    BY <1>1, <1>2, <1>3, <1>4, <1>5 DEF Syncs

LEMMA EditsServes ==
    ASSUME EditorSound, EditsInv, NEW c \in calls, Serves(c)
    PROVE  EditsInv'
  <1>0. EditorTyped /\ Whole /\ c \in Calls /\ c.path \in Flows /\ Carried(c)
    BY DEF EditorSound, EditorTyped, Calls, EditsInv, SaveHolds
  <1>1. ASSUME Served, NEW d \in Calls, Becomes(c, d), Carried(d),
               d.step \in {"written", "answered"} => OnFile(d.path, d.stamp, d.text)',
               disk' = disk \/ \E t \in Texts : Grown(c.path, t)
        PROVE  EditsInv'
    <2>1. SameHands /\ sync'.conflict = sync.conflict
      BY <1>1 DEF Served, SameHands
    <2>2. \A g \in Flows, n \in Nat, x \in Sheets : OnFile(g, n, x) => OnFile(g, n, x)'
      <3>1. CASE disk' = disk
        BY <3>1 DEF OnFile
      <3>2. ASSUME NEW t \in Texts, Grown(c.path, t)
            PROVE  \A g \in Flows, n \in Nat, x \in Sheets : OnFile(g, n, x) => OnFile(g, n, x)'
        BY <1>0, <3>2, FileGrows
      <3> QED
        BY <1>1, <3>1, <3>2
    <2> QED
      BY <1>1, <2>1, <2>2, EditsIfSameHands DEF Becomes
  <1>2. ASSUME ServerWrites(c) PROVE EditsInv'
    <2>1. PICK d \in Calls :
             /\ Becomes(c, d)
             /\ IF c.stamp = Stamp(c.path)
                THEN /\ d.step = "written" /\ d.text = c.text /\ d.stamp = Stamp(c.path) + 1
                     /\ Grown(c.path, c.text)
                ELSE d.step = "refused" /\ disk' = disk
      BY <1>2, ServerWritesDoes
    <2>2. Served /\ c.step = "put" /\ c.text \in Texts
      BY <1>2, ServerWritesDoes
    <2>3. Carried(d)
      BY <1>0, <2>1, <2>2 DEF Carried, Becomes
    <2>4. CASE c.stamp = Stamp(c.path)
      <3>1. d.stamp = Stamp(c.path) + 1 /\ d.stamp \in Nat /\ d.path = c.path /\ d.text = c.text
        BY <2>1, <2>4 DEF Becomes, Calls
      <3>2. OnFile(d.path, d.stamp, d.text)'
        <4>1. \A n \in Nat : n = Stamp(c.path) + 1 => OnFile(c.path, n, c.text)'
          BY <1>0, <2>1, <2>2, <2>4, FileGrows
        <4> QED
          BY <3>1, <4>1
      <3> QED
        BY <1>1, <2>1, <2>2, <2>3, <2>4, <3>2
    <2>5. CASE c.stamp # Stamp(c.path)
      BY <1>1, <2>1, <2>2, <2>3, <2>5
    <2> QED
      BY <2>4, <2>5
  <1>3. ASSUME ServerReads(c) PROVE EditsInv'
    <2>1. PICK d \in Calls :
             Becomes(c, d) /\ d.step = "answered" /\ d.text = LastText(c.path) /\ d.stamp = Stamp(c.path)
      BY <1>3, ServerReadsDoes
    <2>2. Served /\ disk' = disk
      BY <1>3, ServerReadsDoes
    <2>3. Carried(d)
      BY <2>1 DEF Carried
    <2>4. OnFile(d.path, d.stamp, d.text)
      BY <1>0, <2>1, LastOnFile DEF Becomes
    <2>5. OnFile(d.path, d.stamp, d.text)'
      BY <2>2, <2>4 DEF OnFile
    <2> QED
      BY <1>1, <2>1, <2>2, <2>3, <2>5
  <1>4. ASSUME ServerRestores(c) PROVE EditsInv'
    <2>1. PICK d \in Calls :
             /\ Becomes(c, d) /\ d.step = "answered" /\ d.text \in Texts
             /\ Grown(c.path, d.text) /\ d.stamp = Stamp(c.path) + 1
      BY <1>4, ServerRestoresDoes
    <2>2. Served
      BY <1>4, ServerRestoresDoes
    <2>3. Carried(d)
      BY <2>1 DEF Carried
    <2>4. OnFile(d.path, d.stamp, d.text)'
      <3>1. \A n \in Nat : n = Stamp(c.path) + 1 => OnFile(c.path, n, d.text)'
        BY <1>0, <2>1, FileGrows
      <3>2. d.stamp \in Nat /\ d.path = c.path
        BY <2>1 DEF Calls, Becomes
      <3> QED
        BY <2>1, <3>1, <3>2
    <2> QED
      BY <1>1, <2>1, <2>2, <2>3, <2>4
  <1>5. ASSUME ServerLayout(c) PROVE EditsInv'
    <2>1. PICK d \in Calls : Becomes(c, d) /\ d.step = "laid"
      BY <1>5, ServerLayoutDoes
    <2>2. Served /\ disk' = disk
      BY <1>5, ServerLayoutDoes
    <2>3. Carried(d)
      BY <2>1 DEF Carried
    <2> QED
      BY <1>1, <2>1, <2>2, <2>3
  <1> QED
    BY <1>2, <1>3, <1>4, <1>5 DEF Serves

LEMMA EditsOthers ==
    ASSUME EditorSound, EditsInv, NEW f \in Flows, OtherWrites(f)
    PROVE  EditsInv'
  <1>1. Served /\ calls' = calls /\ FirstText(f) \in Texts /\ Grown(f, FirstText(f))
    BY OtherWritesDoes
  <1>2. SameHands /\ sync'.conflict = sync.conflict
    BY <1>1 DEF Served, SameHands
  <1>3. \A g \in Flows, n \in Nat, x \in Sheets : OnFile(g, n, x) => OnFile(g, n, x)'
    BY <1>1, FileGrows DEF EditorSound
  <1> QED
    BY <1>1, <1>2, <1>3, EditsIfSameHands

LEMMA EditsAnswers ==
    ASSUME EditorSound, ApartInv, SeenInv, EditsInv, NEW c \in calls, Answers(c) \/ CallFails(c)
    PROVE  EditsInv'
  <1>0. /\ EditorTyped /\ Whole /\ c \in Calls /\ c.path \in Flows /\ Carried(c)
        /\ c.step \in {"generate", "put", "written", "refused"} =>
              c.why # "open" /\ flow.path # NoFlow
        /\ c.why # "open" => calls = {c} /\ c.path = flow.path
        /\ flow.source \in Sheets /\ flow.model \in Sheets /\ flow.stale \in BOOLEAN
        /\ OneHand /\ Filed /\ SaveHolds /\ ModelHolds /\ NoEditLost
    <2>1. EditorTyped /\ Whole /\ c \in Calls /\ c.path \in Flows /\ Carried(c)
      BY DEF EditorSound, EditorTyped, Calls, EditsInv, SaveHolds
    <2>2. c.step \in {"generate", "put", "written", "refused"} => c.why # "open" /\ flow.path # NoFlow
      BY <2>1 DEF Whole, Steps
    <2> QED
      BY <2>1, <2>2, Alone DEF EditsInv, EditorTyped, OpenFlows
  <1>1. ASSUME SaveGenerated(c) PROVE EditsInv'
    <2>1. /\ Answered /\ kept' = kept /\ c.step = "generate" /\ Around(flow')
          /\ flow'.source = c.text /\ ~flow'.stale /\ flow'.model = flow.model
          /\ flow'.dirty = flow.dirty /\ flow'.modified = flow.modified
          /\ SyncKept /\ sync'.conflict = sync.conflict
      BY <1>1, SaveGeneratedDoes
    <2>2. PICK d \in Calls : Becomes(c, d) /\ d.step = "put" /\ d.text = c.text
      BY <1>1, SaveGeneratedDoes
    <2>3. calls' = {d} /\ d.why = c.why /\ c.why = "save"
      BY <1>0, <2>1, <2>2 DEF Becomes, Whole, Steps
    <2>4. /\ flow.dirty /\ (flow.model = Null \/ kept \subseteq flow.model.has)
          /\ Generating => c.text = ask.given
          /\ kept \subseteq c.text.has
      BY <1>0, <2>1 DEF Carried
    <2>5. OneHand' /\ Filed'
      BY <2>1, <2>2, <2>3, <2>4 DEF OneHand, Filed, Generating, Answered
    <2>6. Carried(d)'
      BY <2>1, <2>2, <2>3, <2>4 DEF Carried
    <2>7. SaveHolds'
      BY <2>3, <2>6 DEF SaveHolds
    <2>8. sync.conflict = NoConflict
      BY <2>3 DEF SeenInv, OneWriter
    <2>9. ModelHolds' /\ NoEditLost'
      BY <2>1, <2>4, <2>8 DEF ModelHolds, NoEditLost, Effective
    <2> QED
      BY <2>5, <2>7, <2>9 DEF EditsInv
  <1>2. ASSUME SaveAnswered(c) PROVE EditsInv'
    <2>1. /\ Answered /\ kept' = kept /\ c.step = "written" /\ c.why = "save" /\ Around(flow')
          /\ flow'.source = c.text /\ ~flow'.stale /\ flow'.model = flow.model
          /\ ~flow'.dirty /\ flow'.modified = c.stamp
          /\ SyncKept /\ sync'.conflict = sync.conflict
          /\ calls' = calls \ {c} \/ \E d \in Calls : Becomes(c, d) /\ d.step = "layout"
      BY <1>2, SaveAnsweredDoes
    <2>2. c.path = flow.path /\ c.text = flow.source /\ (~flow.stale \/ flow.model = Null)
      BY <1>0, <2>1 DEF Carried
    <2>3. \A d \in calls' : d.step = "layout"
      BY <1>0, <2>1 DEF Becomes
    <2>4. OneHand'
      BY <1>0, <2>1, <2>2 DEF OneHand, Generating, Answered, SyncKept, Whole
    <2>5. OnFile(c.path, c.stamp, c.text)
      BY <1>0, <2>1 DEF Filed
    <2>6. Filed'
      BY <2>1, <2>2, <2>3, <2>5 DEF Filed, OnFile, Answered, Around
    <2>7. SaveHolds'
      BY <2>3 DEF SaveHolds, Carried
    <2>8. sync.conflict = NoConflict
      BY <2>1 DEF SeenInv, OneWriter
    <2>9. ModelHolds' /\ NoEditLost'
      BY <1>0, <2>1, <2>2, <2>8 DEF ModelHolds, Parsing, NoEditLost, Effective, Answered, SyncKept, Around
    <2> QED
      BY <2>4, <2>6, <2>7, <2>9 DEF EditsInv
  <1>3. ASSUME LayoutAnswered(c) \/ KeepRefused(c) \/ CallFails(c) PROVE EditsInv'
    <2>1. SameHands /\ sync' = sync /\ disk' = disk /\ calls' = calls \ {c}
      BY <1>3, LayoutAnsweredDoes, KeepRefusedDoes, CallFailsDoes DEF SameHands, Around, Answered
    <2> QED
      BY <2>1, EditsIfSameHands DEF OnFile
  <1>4. ASSUME KeepAnswered(c) PROVE EditsInv'
    <2>1. /\ Answered /\ kept' = kept /\ c.step = "written" /\ Around(flow')
          /\ flow'.source = c.text /\ ~flow'.stale /\ flow'.model = Parsed(c.text)
          /\ ~flow'.dirty /\ flow'.modified = c.stamp /\ c.text \in Texts
          /\ sync'.conflict = NoConflict /\ calls' = calls \ {c}
      BY <1>4, KeepAnsweredDoes
    <2>2. calls' = {} /\ c.path = flow.path /\ kept \subseteq c.text.has
      BY <1>0, <2>1 DEF Carried
    <2>3. flow'.model \in {Null, c.text}
      BY <2>1, SheetFields
    <2>4. OneHand'
      BY <1>0, <2>1, <2>3 DEF OneHand, Generating, Answered, Whole
    <2>5. OnFile(c.path, c.stamp, c.text)
      BY <1>0, <2>1 DEF Filed
    <2>6. Filed' /\ SaveHolds'
      BY <2>1, <2>2, <2>5 DEF Filed, SaveHolds, OnFile, Answered, Around
    <2>7. ModelHolds' /\ NoEditLost'
      BY <2>1, <2>2, <2>3 DEF ModelHolds, NoEditLost, Effective
    <2> QED
      BY <2>4, <2>6, <2>7 DEF EditsInv
  <1>5. ASSUME SaveRefused(c) PROVE EditsInv'
    <2>1. /\ Answered /\ UNCHANGED <<kept, flow>> /\ c.step = "refused" /\ c.why = "save"
          /\ calls' = calls \ {c} /\ SyncKept /\ sync'.conflict.mine = flow.source
      BY <1>5, SaveRefusedDoes
    <2>2. calls' = {} /\ (~flow.stale \/ flow.model = Null)
      BY <1>0, <2>1 DEF Carried
    <2>3. OneHand' /\ Filed' /\ SaveHolds' /\ ModelHolds'
      BY <1>0, <2>1, <2>2 DEF OneHand, Generating, Filed, OnFile, SaveHolds, ModelHolds, Parsing, Answered, SyncKept
    <2>4. NoEditLost'
      BY <1>0, <2>1, <2>2 DEF NoEditLost, Effective
    <2> QED
      BY <2>3, <2>4 DEF EditsInv
  <1>6. ASSUME FlowAnswered(c) PROVE EditsInv'
    <2>1. /\ Answered /\ c.step = "answered" /\ c.text \in Texts
          /\ flow'.path = c.path /\ flow'.source = c.text /\ flow'.modified = c.stamp
          /\ flow'.model = Parsed(c.text) /\ ~flow'.dirty /\ ~flow'.stale /\ kept' = c.text.has
      BY <1>6, FlowAnsweredDoes
    <2>2. /\ sync'.conflict = NoConflict
          /\ \A d \in calls' : d \in calls /\ d.why = "open" /\ d.step \in {"asked", "answered"}
      BY <1>6, OpensAfresh
    <2>3. flow'.model \in {Null, c.text}
      BY <2>1, SheetFields
    <2>4. OneHand'
      BY <1>0, <2>1, <2>3 DEF OneHand, Generating, Answered, Whole
    <2>5. OnFile(c.path, c.stamp, c.text)
      BY <1>0, <2>1 DEF Filed
    <2>6. Filed'
      BY <1>0, <2>1, <2>2, <2>5 DEF Filed, OnFile, Answered
    <2>7. SaveHolds'
      BY <2>2 DEF SaveHolds, Carried
    <2>8. ModelHolds' /\ NoEditLost'
      BY <2>1, <2>2, <2>3 DEF ModelHolds, NoEditLost, Effective
    <2> QED
      BY <2>4, <2>6, <2>7, <2>8 DEF EditsInv
  <1> QED
    BY <1>1, <1>2, <1>3, <1>4, <1>5, <1>6 DEF Answers

LEMMA EditsStep ==
    ASSUME EditorSound, ApartInv, SeenInv, EditsInv, Patient, [Next]_vars
    PROVE  EditsInv'
  <1>1. ASSUME UNCHANGED vars PROVE EditsInv'
    BY <1>1, EditsIfSameHands DEF vars, SameHands, server, history, OnFile
  <1> QED
    BY <1>1, EditsPerson, EditsSyncs, EditsServes, EditsAnswers, EditsOthers
       DEF Next, Requests, Faults

\* The invariant of whoever is patient, from the first state on.
LEMMA EditsFirst == Patient /\ Init => EditorSound /\ ApartInv /\ SeenInv /\ EditsInv
  BY SoundAtFirst, ApartAtFirst, SeenAtFirst, EditsAtFirst

LEMMA EditsNext ==
    Patient /\ EditorSound /\ ApartInv /\ SeenInv /\ EditsInv /\ [Next]_vars =>
        EditorSound' /\ ApartInv' /\ SeenInv' /\ EditsInv'
  BY SoundStep, ApartStep, SeenStep, EditsStep, PatientWaits

\* A flow that is not shown as unsaved is the version of the file its stamp names,
\* letter for letter, whatever is in flight, as long as nobody edits one hand while
\* the other catches up, or during a save (flow.ts dirty and modified).
THEOREM CleanMeansSaved == Hurried \subseteq {"unverified"} => (Spec => []CleanIsOnDisk)
  <1> SUFFICES ASSUME Patient PROVE Spec => []CleanIsOnDisk
    BY DEF Patient
  <1>1. Init => EditorSound /\ ApartInv /\ SeenInv /\ EditsInv
    BY EditsFirst
  <1>2. EditorSound /\ ApartInv /\ SeenInv /\ EditsInv /\ [Next]_vars =>
           EditorSound' /\ ApartInv' /\ SeenInv' /\ EditsInv'
    BY EditsNext
  <1>3. EditsInv => CleanIsOnDisk
    BY DEF EditsInv, OneHand, Filed, OnFile, CleanIsOnDisk
  <1> QED
    BY <1>1, <1>2, <1>3, PTL DEF Spec

\* No edit of the open flow gets lost between the text and the model, whatever is
\* overtaken, lost, undone or written by others, and a conflict dialog holds them all
\* (flow.ts markSaved, ConflictDialog.tsx:5); of a person who neither changes hands
\* before the first has caught up nor edits during a save.
THEOREM EditsKept == Hurried \subseteq {"unverified"} => (Spec => []NoEditLost)
  <1> SUFFICES ASSUME Patient PROVE Spec => []NoEditLost
    BY DEF Patient
  <1>1. Init => EditorSound /\ ApartInv /\ SeenInv /\ EditsInv
    BY EditsFirst
  <1>2. EditorSound /\ ApartInv /\ SeenInv /\ EditsInv /\ [Next]_vars =>
           EditorSound' /\ ApartInv' /\ SeenInv' /\ EditsInv'
    BY EditsNext
  <1>3. EditsInv => NoEditLost
    BY DEF EditsInv
  <1> QED
    BY <1>1, <1>2, <1>3, PTL DEF Spec

-----------------------------------------------------------------------------
(* The two agree, or something is under way.                               *)

Unhurried == Hurried = {}

LEMMA UnhurriedWaits ==
    ASSUME EditorSound, Unhurried
    PROVE  /\ Patient
           /\ MayEdit => ~ask.verify
           /\ \A m \in Sheets : Waited("unverified", ~m.ok) => m.ok /\ m # Null
           /\ Waited("unverified", sync.verify \/ ask.verify) => ~sync.verify /\ ~ask.verify
  BY SheetFields DEF Unhurried, Patient, MayEdit, Waited

\* A step that only sends, serves or ends a request.
LEMMA SyncIfSameHands ==
    ASSUME SyncInv, SameHands, sync'.generateDue = sync.generateDue, sync'.verify = sync.verify,
           \A d \in calls' : d.why = "save" => \E c \in calls : c.why = "save"
    PROVE  SyncInv'
  <1>1. Catching'
    BY DEF SyncInv, Catching, SameHands, Generating, Parsing
  <1>2. Verified'
    BY DEF SyncInv, Verified, SameHands, Generating
  <1> QED
    BY <1>1, <1>2 DEF SyncInv

\* A text that comes with its model leaves nothing to do.
LEMMA SyncIfTogether ==
    ASSUME SyncInv, flow'.source \in Texts, flow'.model = Parsed(flow'.source), ~flow'.stale, ask' = ask,
           \A c \in calls' : c.why # "save"
    PROVE  SyncInv'
  <1>1. flow'.model # Null => flow'.model.ok
    BY SheetFields
  <1>2. Catching'
    BY DEF Catching, Parsed
  <1>3. Verified'
    BY <1>1 DEF SyncInv, Verified
  <1> QED
    BY <1>2, <1>3 DEF SyncInv

\* A changed model is to be generated, by the timer or by the request under way.
LEMMA SyncIfDrawn ==
    ASSUME EditorSound, SyncInv, Edited, ~Writing, ~sync.failure, flow.stale \in BOOLEAN,
           flow'.stale, flow'.model # Null,
           sync'.generateDue <=> sync.generateDue \/ ~flow.stale \/ flow'.model # flow.model,
           flow'.model.ok \/ sync'.verify
    PROVE  SyncInv'
  <1>1. ask' = ask /\ \A c \in calls' : c.why = "open"
    BY NobodyWrites DEF Edited
  <1>2. sync'.generateDue \/ Generating'
    BY <1>1 DEF SyncInv, Catching, Generating
  <1>3. Catching'
    BY <1>2 DEF Catching
  <1>4. Verified'
    BY <1>1 DEF SyncInv, Verified
  <1> QED
    BY <1>3, <1>4 DEF SyncInv

LEMMA SyncAtFirst == Init => SyncInv
  <1> SUFFICES ASSUME Init PROVE SyncInv
    OBVIOUS
  <1>1. flow.model = Null /\ flow.source = Null /\ ~flow.stale /\ ask.kind = "none"
    BY SheetFields DEF Init, Initial
  <1>2. \A c \in calls : c.why = "open"
    BY DEF Init, Opening, Call
  <1>3. Parsed(Null) = Null
    BY SheetFields DEF Parsed
  <1> QED
    BY <1>1, <1>2, <1>3 DEF SyncInv, Catching, Verified

LEMMA SyncPerson ==
    ASSUME EditorSound, ApartInv, SeenInv, EditsInv, SyncInv, Unhurried, Person
    PROVE  SyncInv'
  <1>0. /\ EditorTyped /\ Whole /\ flow.source \in Sheets /\ flow.model \in Sheets
        /\ flow.stale \in BOOLEAN /\ sync \in Syncing /\ Patient
    BY UnhurriedWaits DEF EditorSound, EditorTyped, OpenFlows
  <1>1. ASSUME NEW ok \in BOOLEAN, Type(ok) PROVE SyncInv'
    <2>1. /\ Edited /\ MayType /\ ~flow'.stale /\ flow'.model = flow.model
          /\ sync'.parseDue /\ sync'.verify = sync.verify
      BY <1>1, TypeDoes
    <2>2. ask' = ask /\ ask.kind # "generate" /\ \A c \in calls' : c.why = "open"
      BY <1>0, <2>1, PatientWaits, NobodyWrites DEF Edited
    <2>3. Catching' /\ Verified'
      BY <2>1, <2>2 DEF Catching, Verified
    <2> QED
      BY <2>3 DEF SyncInv
  <1>2. ASSUME NEW ok \in BOOLEAN, ApplyDraft(ok) PROVE SyncInv'
    <2>1. /\ Edited /\ MayEdit /\ ~flow'.stale /\ flow'.source \in Texts
          /\ flow'.model = Parsed(flow'.source)
      BY <1>2, ApplyDraftDoes
    <2>2. ask' = ask /\ \A c \in calls' : c.why = "open"
      BY <1>0, <2>1, PatientWaits, NobodyWrites DEF Edited
    <2> QED
      BY <2>1, <2>2, SyncIfTogether
  <1>3. ASSUME NEW body \in BOOLEAN, NEW ok \in BOOLEAN, Edit(body, ok) PROVE SyncInv'
    <2>1. /\ Edited /\ MayEdit /\ flow.model # Null /\ flow'.model # Null
          /\ flow'.model.ok = (IF body THEN ok ELSE flow.model.ok) /\ flow'.stale
          /\ sync'.generateDue <=> sync.generateDue \/ ~flow.stale \/ flow'.model # flow.model
          /\ IF body THEN sync'.verify ELSE sync'.verify = sync.verify
      BY <1>3, EditDoes
    <2>2. ~sync.parseDue /\ ask.kind # "parse" /\ ~sync.failure /\ ~Writing /\ ~ask.verify
      BY <1>0, <2>1, PatientWaits, UnhurriedWaits
    <2>3. flow.model.ok \/ sync.verify
      BY <2>1, <2>2 DEF SyncInv, Verified
    <2>4. flow'.model.ok \/ sync'.verify
      BY <2>1, <2>3
    <2> QED
      BY <1>0, <2>1, <2>2, <2>4, SyncIfDrawn
  <1>4. ASSUME Move PROVE SyncInv'
    <2>1. /\ SameHands /\ sync'.generateDue = sync.generateDue /\ sync'.verify = sync.verify
          /\ calls' = calls
      BY <1>4, MoveDoes DEF SameHands, Edited
    <2> QED
      BY <2>1, SyncIfSameHands
  <1>5. ASSUME Restack, NEW m \in Sheets, PutBack(m) PROVE SyncInv'
    <2>1. /\ Edited /\ MayEdit /\ Waited("unverified", ~m.ok) /\ flow'.model = m /\ flow'.stale
          /\ sync'.generateDue <=> m # Null /\ (sync.generateDue \/ ~flow.stale \/ m # flow.model)
      BY <1>5 DEF Restack, PutBack
    <2>2. ~sync.failure /\ ~Writing /\ m.ok /\ m # Null
      BY <1>0, <2>1, PatientWaits, UnhurriedWaits
    <2> QED
      BY <1>0, <2>1, <2>2, SyncIfDrawn
  <1>6. ASSUME Restack, NothingPutBack PROVE SyncInv'
    <2>1. /\ SameHands /\ sync'.generateDue = sync.generateDue /\ sync'.verify = sync.verify
          /\ calls' = calls
      BY <1>6 DEF SameHands, Edited, Restack, NothingPutBack
    <2> QED
      BY <2>1, SyncIfSameHands
  <1>7. ASSUME Undo \/ Redo PROVE SyncInv'
    BY <1>5, <1>6, <1>7, UndoDoes, RedoDoes
  <1>8. ASSUME Save PROVE SyncInv'
    <2>1. Sent /\ sync' = sync /\ ~sync.verify /\ ~ask.verify
      BY <1>8, SaveDoes, UnhurriedWaits
    <2>2. Catching'
      BY <2>1 DEF SyncInv, Catching, Sent, Generating, Parsing
    <2>3. Verified'
      BY <2>1 DEF SyncInv, Verified, Sent, Generating
    <2> QED
      BY <2>2, <2>3 DEF SyncInv
  <1>9. ASSUME NEW f \in Flows, Go(f) PROVE SyncInv'
    <2>1. PICK c \in Calls : calls' = {d \in calls : d.why # "open"} \cup {c} /\ c.why = "open"
      BY <1>9, GoDoes
    <2>2. SameHands /\ sync' = sync
      BY <1>9, GoDoes DEF SameHands, Sent
    <2> QED
      BY <2>1, <2>2, SyncIfSameHands
  <1>10. ASSUME Restore \/ TakeTheirs \/ KeepMine PROVE SyncInv'
    <2>1. PICK c \in Calls : calls' = calls \cup {c} /\ c.why \in {"restore", "theirs", "keep"}
      BY <1>10, RestoreDoes, TakeTheirsDoes, KeepMineDoes
    <2>2. SameHands /\ sync' = sync
      BY <1>10, RestoreDoes, TakeTheirsDoes, KeepMineDoes DEF SameHands, Sent
    <2> QED
      BY <2>1, <2>2, SyncIfSameHands
  <1>11. ASSUME CancelConflict PROVE SyncInv'
    <2>1. SameHands /\ calls' = calls /\ sync'.generateDue = sync.generateDue /\ sync'.verify = sync.verify
      BY <1>11, CancelConflictDoes DEF SameHands, Sent
    <2> QED
      BY <2>1, SyncIfSameHands
  <1> QED
    BY <1>1, <1>2, <1>3, <1>4, <1>7, <1>8, <1>9, <1>10, <1>11 DEF Person

LEMMA SyncSyncs ==
    ASSUME EditorSound, EditsInv, SyncInv, Syncs \/ AskFails
    PROVE  SyncInv'
  <1>0. /\ EditorTyped /\ Whole /\ flow.source \in Sheets /\ flow.model \in Sheets
        /\ flow.stale \in BOOLEAN /\ OneHand /\ Catching /\ Verified
        /\ ask.given \in Sheets /\ ask.verify \in BOOLEAN
    BY DEF EditorSound, EditorTyped, OpenFlows, EditsInv, SyncInv, Questions
  <1>1. ASSUME RunParse PROVE SyncInv'
    <2>1. /\ Synced /\ flow' = flow /\ sync.parseDue /\ sync'.verify = sync.verify
          /\ ask'.kind = "parse" /\ ask'.given = flow.source
      BY <1>1, RunParseDoes
    <2>2. ~flow.stale
      BY <1>0, <2>1 DEF OneHand
    <2>3. Catching' /\ Verified'
      BY <1>0, <2>1, <2>2 DEF Catching, Verified, Parsing, Synced
    <2> QED
      BY <2>3 DEF SyncInv
  <1>2. ASSUME ParseAnswered PROVE SyncInv'
    <2>1. /\ Synced /\ ask.kind = "parse" /\ ask'.kind = "none"
          /\ flow'.source = flow.source /\ flow'.stale = flow.stale
          /\ sync'.parseDue = sync.parseDue /\ sync'.verify = sync.verify
          /\ IF flow.source = ask.given
             THEN flow'.model = Parsed(flow.source)
             ELSE /\ flow'.model = flow.model /\ sync'.failure = sync.failure
                  /\ sync'.generateDue = sync.generateDue
      BY <1>2, ParseAnsweredDoes
    <2>2. ~flow.stale
      BY <1>0, <2>1 DEF OneHand
    <2>3. CASE flow.source = ask.given
      <3>1. flow'.model # Null => flow'.model.ok
        BY <1>0, <2>1, <2>3, SheetFields
      <3>2. Catching' /\ Verified'
        BY <1>0, <2>1, <2>2, <2>3, <3>1 DEF Catching, Verified, Synced
      <3> QED
        BY <3>2 DEF SyncInv
    <2>4. CASE flow.source # ask.given
      <3>1. ~Parsing
        BY <2>4 DEF Parsing
      <3>2. flow.model # Null /\ ~flow.model.ok => sync.parseDue \/ sync.failure
        <4>1. flow.model = Parsed(flow.source) => flow.model = Null \/ flow.model.ok
          BY <1>0, SheetFields
        <4> QED
          BY <1>0, <2>2, <3>1, <4>1 DEF Catching
      <3>3. ~sync.generateDue
        BY <1>0, <2>2 DEF Whole
      <3>4. Catching'
        BY <1>0, <2>1, <2>2, <2>4, <3>1 DEF Catching
      <3>5. Verified'
        BY <1>0, <2>1, <2>2, <2>4, <3>2, <3>3 DEF Verified, Synced
      <3> QED
        BY <3>4, <3>5 DEF SyncInv
    <2> QED
      BY <2>3, <2>4
  <1>3. ASSUME RunGenerate PROVE SyncInv'
    <2>1. /\ Synced /\ flow' = flow /\ sync.generateDue /\ ~sync'.generateDue /\ ~sync'.verify
          /\ ask'.kind = "generate" /\ ask'.given = flow.model /\ ask'.verify = sync.verify
      BY <1>3, RunGenerateDoes
    <2>2. flow.stale /\ flow.model # Null
      BY <1>0, <2>1 DEF Whole
    <2>3. Catching'
      BY <2>1, <2>2 DEF Catching, Generating
    <2>4. ~flow.model.ok => sync.verify
      BY <1>0, <2>1, <2>2 DEF Verified
    <2>5. Verified'
      BY <1>0, <2>1, <2>4 DEF Verified, Generating, Synced
    <2> QED
      BY <2>3, <2>5 DEF SyncInv
  <1>4. ASSUME GenerateAnswered PROVE SyncInv'
    <2>1. /\ Synced /\ ask.kind = "generate" /\ flow'.model = flow.model /\ ask.given # Null
          /\ sync'.parseDue = sync.parseDue /\ sync'.verify = sync.verify
      BY <1>4, GenerateAnsweredDoes
    <2>2. CASE flow.model = ask.given
      <3>1. /\ flow'.source = ask.given /\ ~flow'.stale
            /\ IF ask.verify THEN ask'.kind = "parse" /\ ask'.given = ask.given ELSE ask'.kind = "none"
        BY <1>4, <2>2, GenerateAnsweredDoes
      <3>2. ask.given.ok \/ ask.verify
        BY <1>0, <2>1 DEF Verified
      <3>3. Catching'
        BY <2>1, <2>2, <3>1, <3>2 DEF Catching, Parsing, Parsed
      <3>4. Verified'
        BY <1>0, <2>1, <2>2, <3>1, <3>2 DEF Verified, Synced
      <3> QED
        BY <3>3, <3>4 DEF SyncInv
    <2>3. CASE flow.model # ask.given
      <3>1. flow' = flow /\ sync'.failure = sync.failure /\ ask'.kind = "none"
            /\ sync'.generateDue = sync.generateDue
        BY <1>4, <2>3, GenerateAnsweredDoes
      <3>2. Catching'
        BY <1>0, <2>1, <2>3, <3>1 DEF Catching, Generating, Parsing
      <3>3. Verified'
        BY <1>0, <2>1, <2>3, <3>1 DEF Verified, Generating, Synced
      <3> QED
        BY <3>2, <3>3 DEF SyncInv
    <2> QED
      BY <2>2, <2>3
  <1>5. ASSUME AskFails PROVE SyncInv'
    <2>1. /\ Synced /\ flow' = flow /\ ask'.kind = "none" /\ sync'.failure
          /\ sync'.parseDue = sync.parseDue /\ sync'.verify = sync.verify
          /\ sync'.generateDue = sync.generateDue
      BY <1>5, AskFailsDoes
    <2>2. ~flow.stale => ~sync.generateDue
      BY <1>0 DEF Whole
    <2>3. Catching' /\ Verified'
      BY <1>0, <2>1, <2>2 DEF Catching, Verified, Generating, Synced
    <2> QED
      BY <2>3 DEF SyncInv
  <1> QED
    BY <1>1, <1>2, <1>3, <1>4, <1>5 DEF Syncs

LEMMA SyncServes ==
    ASSUME EditorSound, SyncInv, NEW c \in calls, Serves(c)
    PROVE  SyncInv'
  <1>1. Served /\ \E d : Becomes(c, d)
    BY ServerWritesDoes, ServerReadsDoes, ServerRestoresDoes, ServerLayoutDoes DEF Serves
  <1>2. SameHands /\ sync' = sync
    BY <1>1 DEF SameHands, Served
  <1>3. \A d \in calls' : d.why = "save" => \E e \in calls : e.why = "save"
    BY <1>1 DEF Becomes
  <1> QED
    BY <1>2, <1>3, SyncIfSameHands

LEMMA SyncOthers ==
    ASSUME EditorSound, SyncInv, NEW f \in Flows, OtherWrites(f)
    PROVE  SyncInv'
  <1>1. SameHands /\ sync' = sync /\ calls' = calls
    BY OtherWritesDoes DEF SameHands, Served
  <1> QED
    BY <1>1, SyncIfSameHands

LEMMA SyncAnswers ==
    ASSUME EditorSound, ApartInv, SeenInv, EditsInv, SyncInv, NEW c \in calls, Answers(c) \/ CallFails(c)
    PROVE  SyncInv'
  <1>0. /\ EditorTyped /\ Whole /\ Carried(c) /\ OneHand /\ Catching /\ Verified
        /\ flow.source \in Sheets /\ flow.model \in Sheets /\ flow.stale \in BOOLEAN
    BY DEF EditorSound, EditorTyped, OpenFlows, EditsInv, SaveHolds, SyncInv
  <1>1. ASSUME SaveGenerated(c) PROVE SyncInv'
    <2>1. /\ Answered /\ c.step = "generate" /\ flow'.source = c.text /\ ~flow'.stale
          /\ flow'.model = flow.model /\ SyncKept /\ ~sync'.generateDue
          /\ \E d \in Calls : Becomes(c, d)
      BY <1>1, SaveGeneratedDoes
    <2>2. c.why = "save"
      BY <1>0, <2>1 DEF Whole, Steps
    <2>3. ~sync.verify /\ ~(ask.kind = "generate" /\ ask.verify)
      BY <1>0, <2>2 DEF Verified
    <2>4. flow.model # Null /\ ~flow.model.ok =>
             \/ sync.failure /\ ask.kind # "generate"
             \/ ~flow.stale /\ (sync.parseDue \/ ask.kind = "parse")
      BY <1>0, <2>3 DEF Verified, Generating
    <2>5. Catching'
      <3>1. CASE flow.stale
        <4>1. flow.model # Null /\ c.text = flow.model
          BY <1>0, <2>1, <3>1 DEF Catching, Carried
        <4>2. flow.model.ok \/ sync.failure
          BY <2>4, <3>1, <4>1
        <4> QED
          BY <2>1, <4>1, <4>2 DEF Catching, Parsed, SyncKept
      <3>2. CASE ~flow.stale
        <4>1. c.text = flow.source
          BY <1>0, <2>1, <3>2 DEF Carried
        <4> QED
          BY <1>0, <2>1, <3>2, <4>1 DEF Catching, Parsing, SyncKept, Answered
      <3> QED
        BY <3>1, <3>2
    <2>6. Verified'
      BY <1>0, <2>1, <2>3, <2>4 DEF Verified, SyncKept, Answered
    <2> QED
      BY <2>5, <2>6 DEF SyncInv
  <1>2. ASSUME SaveAnswered(c) PROVE SyncInv'
    <2>1. /\ Answered /\ c.step = "written" /\ c.why = "save" /\ flow'.source = c.text /\ ~flow'.stale
          /\ flow'.model = flow.model /\ SyncKept /\ ~sync'.generateDue
      BY <1>2, SaveAnsweredDoes
    <2>2. c.text = flow.source /\ ~flow.stale
      BY <1>0, <2>1 DEF Carried, Catching
    <2>3. Catching'
      BY <1>0, <2>1, <2>2 DEF Catching, Parsing, SyncKept, Answered
    <2>4. ~sync.verify /\ ~(ask.kind = "generate" /\ ask.verify)
      BY <1>0, <2>1 DEF Verified
    <2>5. Verified'
      BY <1>0, <2>1, <2>2, <2>4 DEF Verified, Generating, SyncKept, Answered
    <2> QED
      BY <2>3, <2>5 DEF SyncInv
  <1>3. ASSUME LayoutAnswered(c) \/ KeepRefused(c) \/ CallFails(c) PROVE SyncInv'
    <2>1. SameHands /\ sync' = sync /\ calls' = calls \ {c}
      BY <1>3, LayoutAnsweredDoes, KeepRefusedDoes, CallFailsDoes DEF SameHands, Around, Answered
    <2> QED
      BY <2>1, SyncIfSameHands
  <1>4. ASSUME KeepAnswered(c) PROVE SyncInv'
    <2>1. /\ Answered /\ c.step = "written" /\ c.why = "keep" /\ flow'.source = c.text /\ ~flow'.stale
          /\ flow'.model = Parsed(c.text) /\ c.text \in Texts /\ calls' = calls \ {c}
      BY <1>4, KeepAnsweredDoes
    <2>2. calls' = {}
      BY <2>1, Alone
    <2> QED
      BY <2>1, <2>2, SyncIfTogether DEF Answered
  <1>5. ASSUME SaveRefused(c) PROVE SyncInv'
    <2>1. /\ SameHands /\ sync'.generateDue = sync.generateDue /\ sync'.verify = sync.verify
          /\ calls' = calls \ {c}
      BY <1>5, SaveRefusedDoes DEF SameHands, SyncKept, Answered
    <2> QED
      BY <2>1, SyncIfSameHands
  <1>6. ASSUME FlowAnswered(c) PROVE SyncInv'
    <2>1. /\ Answered /\ flow'.source = c.text /\ ~flow'.stale
          /\ flow'.model = Parsed(c.text) /\ c.text \in Texts
      BY <1>6, FlowAnsweredDoes
    <2>2. \A d \in calls' : d.why = "open"
      BY <1>6, OpensAfresh
    <2> QED
      BY <2>1, <2>2, SyncIfTogether DEF Answered
  <1> QED
    BY <1>1, <1>2, <1>3, <1>4, <1>5, <1>6 DEF Answers

LEMMA SyncStep ==
    ASSUME EditorSound, ApartInv, SeenInv, EditsInv, SyncInv, Unhurried, [Next]_vars
    PROVE  SyncInv'
  <1>1. ASSUME UNCHANGED vars PROVE SyncInv'
    BY <1>1, SyncIfSameHands DEF vars, SameHands, history
  <1> QED
    BY <1>1, SyncPerson, SyncSyncs, SyncServes, SyncAnswers, SyncOthers
       DEF Next, Requests, Faults

\* When the text and the model differ something is due or under way that brings
\* them together, or the view says so: `Canvas in sync' is true, and no request
\* overtaken by another leaves the two apart, for a person who lets each change
\* reach the other hand (sync.ts:4, sync.ts:16, statusOf).
THEOREM AlwaysUnderWay == Hurried = {} => (Spec => []SyncUnderWay)
  <1> SUFFICES ASSUME Unhurried PROVE Spec => []SyncUnderWay
    BY DEF Unhurried
  <1>1. Init => EditorSound /\ ApartInv /\ SeenInv /\ EditsInv /\ SyncInv
    BY SoundAtFirst, ApartAtFirst, SeenAtFirst, EditsAtFirst, SyncAtFirst
  <1>2. EditorSound /\ ApartInv /\ SeenInv /\ EditsInv /\ SyncInv /\ [Next]_vars =>
           EditorSound' /\ ApartInv' /\ SeenInv' /\ EditsInv' /\ SyncInv'
    BY EditsNext, SyncStep, UnhurriedWaits
  <1>3. SyncInv => SyncUnderWay
    BY DEF SyncInv, Catching, SyncUnderWay, Generating, Parsing
  <1> QED
    BY <1>1, <1>2, <1>3, PTL DEF Spec

-----------------------------------------------------------------------------
(* What is bounded: the stack of snapshots, and by what was begun the      *)
(* moves of cards, the versions of a file and the stamps that name them.   *)

Numbers == saves \in 0..MaxSaves /\ events \in 0..MaxEvents
ShortPast == Len(flow.past) <= HistoryLimit
MovesCounted ==
    /\ flow.layout.moved <= events /\ \A f \in Flows : sidecar[f].moved <= events
    /\ \A c \in calls : c.step \in {"layout", "answered"} => c.layout.moved <= events

\* Whoever will write a file has not yet: each version is one begun save, restore or event.
WillWrite(c) == c.step \in {"generate", "put"} \/ (c.why = "restore" /\ c.step = "asked")
Due(f) == {c \in calls : c.path = f /\ WillWrite(c)}
Versions == 1 + saves + events
FilesCounted ==
    /\ IsFiniteSet(calls)
    /\ \A f \in Flows : Stamp(f) + Cardinality(Due(f)) <= Versions
StampsCounted ==
    /\ flow.modified <= Versions
    /\ \A c \in calls : c.step \in {"written", "answered"} => c.stamp <= Versions

BoundsInv == Numbers /\ ShortPast /\ MovesCounted /\ FilesCounted /\ StampsCounted

LEMMA BoundsAtFirst == Init => BoundsInv
  <1> SUFFICES ASSUME Init PROVE BoundsInv
    OBVIOUS
  <1>1. Numbers
    BY EditorAssumption DEF Init, Numbers
  <1>2. flow.past = <<>> /\ flow.layout = NoLayout /\ flow.modified = 0
    BY DEF Init, Initial
  <1>3. calls = {Opening(route)} /\ Opening(route).step = "asked" /\ Opening(route).why = "open"
    BY DEF Init, Opening, Call
  <1>4. ShortPast
    BY <1>2, MaxEditsNat DEF ShortPast
  <1>5. MovesCounted
    BY <1>1, <1>2, <1>3 DEF MovesCounted, Init, NoLayout
  <1>6. IsFiniteSet(calls) /\ \A f \in Flows : Cardinality(Due(f)) = 0
    <2>1. \A f \in Flows : Due(f) = {}
      BY <1>3 DEF Due, WillWrite
    <2> QED
      BY <1>3, <2>1, FS_EmptySet, FS_Singleton
  <1>7. Versions = 1 /\ \A f \in Flows : Stamp(f) = 1
    BY DEF Init, Versions, Stamp
  <1>8. FilesCounted /\ StampsCounted
    BY <1>2, <1>3, <1>6, <1>7 DEF FilesCounted, StampsCounted
  <1> QED
    BY <1>1, <1>4, <1>5, <1>8 DEF BoundsInv

\* What is counted only grows, and stays below its bound.
LEMMA NumbersStep ==
    ASSUME Numbers, [Next]_vars
    PROVE  Numbers' /\ saves <= saves' /\ events <= events' /\ Versions \in Nat /\ Versions <= Versions'
  <1>1. MaxSaves \in Nat /\ MaxEvents \in Nat /\ saves \in 0..MaxSaves /\ events \in 0..MaxEvents
    BY EditorAssumption DEF Numbers
  <1>2. \/ saves' = saves /\ events' = events
        \/ saves < MaxSaves /\ saves' = saves + 1 /\ events' = events
        \/ events < MaxEvents /\ events' = events + 1 /\ saves' = saves
    <2>1. CASE Person
      BY <2>1 DEF Person, Type, ApplyDraft, Edit, Move, Undo, Redo, Save, Restore, Go, KeepMine,
         TakeTheirs, CancelConflict, counts
    <2>2. CASE Syncs
      BY <2>2 DEF Syncs, RunParse, ParseAnswered, RunGenerate, GenerateAnswered, counts
    <2>3. ASSUME NEW c \in calls, Serves(c) PROVE saves' = saves /\ events' = events
      BY <2>3 DEF Serves, ServerWrites, ServerReads, ServerRestores, ServerLayout, counts
    <2>4. ASSUME NEW c \in calls, Answers(c) PROVE saves' = saves /\ events' = events
      BY <2>4 DEF Answers, SaveGenerated, SaveAnswered, LayoutAnswered, SaveRefused, KeepAnswered,
         KeepRefused, FlowAnswered, counts
    <2>5. CASE Faults
      BY <2>5 DEF Faults, AskFails, CallFails, OtherWrites
    <2>6. CASE UNCHANGED vars
      BY <2>6 DEF vars, counts
    <2> QED
      BY <2>1, <2>2, <2>3, <2>4, <2>5, <2>6 DEF Next, Requests
  <1> QED
    BY <1>1, <1>2 DEF Numbers, Versions

-----------------------------------------------------------------------------

LEMMA PushedShort ==
    ASSUME EditorSound, ShortPast
    PROVE  Len(Pushed(flow)) <= HistoryLimit
  <1>1. flow.past \in Seq(Sheets) /\ flow.model \in Sheets
    BY DEF EditorSound, EditorTyped, OpenFlows
  <1>2. CASE flow.model = Null
    BY <1>2 DEF Pushed, ShortPast
  <1>3. CASE flow.model # Null
    <2> DEFINE all == Append(flow.past, flow.model)
               i == IF Len(all) > HistoryLimit THEN 2 ELSE 1
    <2>1. all \in Seq(Sheets) /\ Len(all) = Len(flow.past) + 1 /\ Len(flow.past) \in Nat
      BY <1>1, OneMoreSnapshot
    <2>2. Pushed(flow) = SubSeq(all, i, Len(all)) /\ i \in 1..2
      BY <1>3 DEF Pushed
    <2>3. i \in 1..(Len(all) + 1) /\ Len(all) \in (i - 1)..Len(all)
      BY <2>1
    <2>4. Len(all) - i + 1 <= HistoryLimit
      BY <2>1, MaxEditsNat DEF ShortPast
    <2> HIDE DEF all, i
    <2>5. Len(SubSeq(all, i, Len(all))) = Len(all) - i + 1
      BY <2>1, <2>3, SubSeqProperties
    <2> QED
      BY <2>2, <2>4, <2>5
  <1> QED
    BY <1>2, <1>3

LEMMA PastStep ==
    ASSUME EditorSound, ShortPast, [Next]_vars
    PROVE  ShortPast'
  <1>0. flow \in OpenFlows /\ flow.past \in Seq(Sheets) /\ Len(flow.past) \in Nat /\ Len(flow.past) <= HistoryLimit
    BY DEF EditorSound, EditorTyped, OpenFlows, ShortPast
  <1>1. ASSUME flow'.past = flow.past PROVE ShortPast'
    BY <1>1 DEF ShortPast
  <1>2. ASSUME flow'.past = Pushed(flow) PROVE ShortPast'
    BY <1>2, PushedShort DEF ShortPast
  <1>3. ASSUME flow' = flow \/ Around(flow') PROVE ShortPast'
    BY <1>1, <1>3 DEF Around
  <1>4. CASE Undo
    <2>1. flow.past # <<>> /\ flow'.past = Front(flow.past)
      <3> DEFINE m == Last(flow.past)
                 s == [Restored(flow, m) EXCEPT !.past = Front(@), !.future = Append(@, flow.model)]
      <3>1. flow' = s /\ flow.past # <<>>
        BY <1>4 DEF Undo, Effects
      <3>2. s.past = Front(flow.past)
        BY <1>0 DEF Restored, OpenFlows
      <3> QED
        BY <3>1, <3>2
    <2>2. Len(flow.past) # 0 /\ 1 \in 1..(Len(flow.past) + 1) /\ Len(flow.past) - 1 \in (1 - 1)..Len(flow.past)
      BY <1>0, <2>1
    <2>3. Len(SubSeq(flow.past, 1, Len(flow.past) - 1)) = Len(flow.past) - 1 - 1 + 1
      BY <1>0, <2>2, SubSeqProperties
    <2> QED
      BY <1>0, <2>1, <2>2, <2>3, MaxEditsNat DEF ShortPast, Front
  <1>5. CASE Redo
    <2> DEFINE all == Append(flow.past, flow.model)
               i == IF Len(flow.past) = HistoryLimit THEN 2 ELSE 1
               p == SubSeq(all, i, Len(flow.past) + 1)
               m == Last(flow.future)
               s == [flow EXCEPT !.past = SubSeq(Append(@, flow.model),
                     IF Len(@) = HistoryLimit THEN 2 ELSE 1, Len(@) + 1)]
               u == [Restored(s, m) EXCEPT !.future = Front(@)]
    <2>1. flow' = s \/ flow' = u
      BY <1>5 DEF Redo, Effects
    <2>2. s = [flow EXCEPT !.past = p]
      BY <1>0 DEF OpenFlows
    <2>3. all \in Seq(Sheets) /\ Len(all) = Len(flow.past) + 1
      BY <1>0, OneMoreSnapshot DEF OpenFlows
    <2>4. i \in 1..(Len(all) + 1) /\ Len(flow.past) + 1 \in (i - 1)..Len(all)
      BY <1>0, <2>3
    <2>5. Len(flow.past) + 1 - i + 1 <= HistoryLimit
      BY <1>0, MaxEditsNat
    <2> HIDE DEF i, all
    <2>6. Len(p) = Len(flow.past) + 1 - i + 1
      BY <2>3, <2>4, SubSeqProperties
    <2> HIDE DEF p, s, m
    <2>7. s.past = p
      BY <1>0, <2>2 DEF OpenFlows
    <2>8. u.past = p
      BY <1>0, <2>2 DEF Restored, OpenFlows
    <2> QED
      BY <2>1, <2>5, <2>6, <2>7, <2>8 DEF ShortPast
  <1>6. ASSUME Person PROVE ShortPast'
    <2>1. ASSUME NEW ok \in BOOLEAN, Type(ok) \/ ApplyDraft(ok) PROVE ShortPast'
      BY <1>1, <1>2, <2>1, TypeDoes, ApplyDraftDoes
    <2>2. ASSUME NEW body \in BOOLEAN, NEW ok \in BOOLEAN, Edit(body, ok) PROVE ShortPast'
      BY <1>2, <2>2, EditDoes
    <2>3. ASSUME Move PROVE ShortPast'
      BY <1>1, <2>3, MoveDoes
    <2>4. ASSUME \/ \E f \in Flows : Go(f)
                 \/ Save \/ Restore \/ KeepMine \/ TakeTheirs \/ CancelConflict
          PROVE  ShortPast'
      BY <1>3, <2>4 DEF Go, Save, Restore, KeepMine, TakeTheirs, CancelConflict
    <2> QED
      BY <1>4, <1>5, <1>6, <2>1, <2>2, <2>3, <2>4 DEF Person
  <1>7. ASSUME Syncs PROVE ShortPast'
    BY <1>3, <1>7, RunParseDoes, ParseAnsweredDoes, RunGenerateDoes, GenerateAnsweredDoes DEF Syncs
  <1>8. ASSUME NEW c \in calls, Serves(c) PROVE ShortPast'
    BY <1>3, <1>8 DEF Serves, ServerWrites, ServerReads, ServerRestores, ServerLayout
  <1>9. ASSUME NEW c \in calls, FlowAnswered(c) PROVE ShortPast'
    BY <1>9, FlowAnsweredDoes, MaxEditsNat DEF ShortPast
  <1>10. ASSUME NEW c \in calls, Answers(c) PROVE ShortPast'
    BY <1>3, <1>9, <1>10, SaveGeneratedDoes, SaveAnsweredDoes, LayoutAnsweredDoes, SaveRefusedDoes,
       KeepAnsweredDoes, KeepRefusedDoes DEF Answers
  <1>11. ASSUME Faults PROVE ShortPast'
    BY <1>3, <1>11 DEF Faults, AskFails, CallFails, OtherWrites
  <1>12. ASSUME UNCHANGED vars PROVE ShortPast'
    BY <1>3, <1>12 DEF vars
  <1> QED
    BY <1>6, <1>7, <1>8, <1>10, <1>11, <1>12 DEF Next, Requests

-----------------------------------------------------------------------------

LEMMA MovesStep ==
    ASSUME EditorSound, Numbers, MovesCounted, [Next]_vars
    PROVE  MovesCounted'
  <1>0. /\ flow \in OpenFlows /\ calls \subseteq Calls /\ sidecar \in [Flows -> Plans]
        /\ flow.layout.moved <= events /\ (\A f \in Flows : sidecar[f].moved <= events)
        /\ (\A c \in calls : c.step \in {"layout", "answered"} => c.layout.moved <= events)
    BY DEF EditorSound, EditorTyped, MovesCounted
  <1>1. events \in Nat /\ events' \in Nat /\ events <= events'
    BY NumbersStep, EditorAssumption DEF Numbers
  <1>2. flow.layout.moved \in Int /\ (\A f \in Flows : sidecar[f].moved \in Int)
        /\ \A c \in calls : c.layout.moved \in Int
    <2>1. \A l \in Plans \cup {NoLayout} : l.moved \in Int
      BY DEF Plans, NoLayout
    <2>2. \A c \in calls : c.layout \in Plans \cup {NoLayout}
      BY <1>0 DEF Calls
    <2> QED
      BY <1>0, <2>1, <2>2 DEF OpenFlows
  <1>3. \A m \in Int : m <= events => m <= events'
    BY <1>1
  <1>4. /\ flow.layout.moved <= events' /\ (\A f \in Flows : sidecar[f].moved <= events')
        /\ (\A c \in calls : c.step \in {"layout", "answered"} => c.layout.moved <= events')
    BY <1>0, <1>2, <1>3
  <1>5. ASSUME flow'.layout = flow.layout, sidecar' = sidecar,
               \A d \in calls' : d \in calls \/ d.step \notin {"layout", "answered"}
        PROVE  MovesCounted'
    BY <1>4, <1>5 DEF MovesCounted
  <1>6. ASSUME NEW c \in calls, NEW d, Becomes(c, d), flow'.layout = flow.layout, sidecar' = sidecar,
               d.step \in {"layout", "answered"} => d.layout.moved <= events'
        PROVE  MovesCounted'
    BY <1>4, <1>6 DEF MovesCounted, Becomes
  <1>7. ASSUME Person PROVE MovesCounted'
    <2>1. ASSUME NEW ok \in BOOLEAN, Type(ok) \/ ApplyDraft(ok) PROVE MovesCounted'
      BY <1>5, <2>1, TypeDoes, ApplyDraftDoes DEF Edited
    <2>2. ASSUME NEW body \in BOOLEAN, NEW ok \in BOOLEAN, Edit(body, ok) PROVE MovesCounted'
      BY <1>5, <2>2, EditDoes DEF Edited
    <2>3. CASE Move
      <3> DEFINE l == [flow.layout EXCEPT !.moved = @ + 1]
      <3>1. flow.layout \in Plans
        BY <1>0, <2>3 DEF Move, MayEdit, Attended, OpenFlows, EditorSound, Whole
      <3>2. l.moved = flow.layout.moved + 1
        BY <3>1 DEF Plans
      <3>3. flow' = [flow EXCEPT !.layout = l, !.layoutDirty = TRUE]
        <4>1. flow' = [flow EXCEPT !.layout.moved = @ + 1, !.layoutDirty = TRUE]
          BY <2>3 DEF Move, Effects
        <4> QED
          BY <1>0, <4>1 DEF OpenFlows
      <3> HIDE DEF l
      <3>4. flow'.layout = l
        BY <1>0, <3>3 DEF OpenFlows
      <3>5. events' = events + 1 /\ calls' = calls /\ sidecar' = sidecar
        BY <2>3 DEF Move, server
      <3> QED
        BY <1>0, <1>1, <1>2, <1>4, <3>2, <3>4, <3>5 DEF MovesCounted
    <2>4. ASSUME Undo \/ Redo PROVE MovesCounted'
      <3>1. Restack
        BY <2>4, UndoDoes, RedoDoes
      <3>2. flow'.layout = flow.layout /\ sidecar' = sidecar /\ calls' = calls
        BY <3>1 DEF Restack, Edited
      <3> QED
        BY <1>5, <3>2
    <2>5. ASSUME \/ \E f \in Flows : Go(f)
                 \/ Save \/ Restore \/ KeepMine \/ TakeTheirs \/ CancelConflict
          PROVE  MovesCounted'
      <3>1. flow'.layout = flow.layout /\ sidecar' = sidecar
        BY <2>5 DEF Go, Save, Restore, KeepMine, TakeTheirs, CancelConflict, server
      <3>2. \/ calls' = calls
            \/ \E d : calls' \subseteq calls \cup {d} /\ d.step \in {"generate", "put", "asked"}
        BY <2>5, GoDoes, SaveDoes, RestoreDoes, KeepMineDoes, TakeTheirsDoes, CancelConflictDoes
      <3> QED
        BY <1>5, <3>1, <3>2
    <2> QED
      BY <1>7, <2>1, <2>2, <2>3, <2>4, <2>5 DEF Person
  <1>8. ASSUME Syncs PROVE MovesCounted'
    BY <1>5, <1>8, RunParseDoes, ParseAnsweredDoes, RunGenerateDoes, GenerateAnsweredDoes
       DEF Syncs, Synced, Around
  <1>9. ASSUME NEW c \in calls, Serves(c) PROVE MovesCounted'
    <2>1. CASE ServerWrites(c)
      BY <1>6, <2>1, ServerWritesDoes DEF Served
    <2>2. CASE ServerReads(c)
      <3>1. c.path \in Flows
        BY <1>0 DEF Calls
      <3> QED
        BY <1>4, <1>6, <2>2, <3>1, ServerReadsDoes DEF Served
    <2>3. CASE ServerRestores(c)
      <3>1. PICK i \in 1..Stamp(c.path) : \E n \in 0..sidecar[c.path].moved :
               /\ sidecar' = [sidecar EXCEPT ![c.path] = [sidecar[c.path] EXCEPT !.moved = n]]
               /\ Goes(c, [c EXCEPT !.step = "answered", !.text = disk[c.path][i],
                                    !.stamp = Stamp(c.path) + 1,
                                    !.layout = [sidecar[c.path] EXCEPT !.moved = n]])
        BY <2>3 DEF ServerRestores
      <3>2. PICK n \in 0..sidecar[c.path].moved :
               /\ sidecar' = [sidecar EXCEPT ![c.path] = [sidecar[c.path] EXCEPT !.moved = n]]
               /\ Goes(c, [c EXCEPT !.step = "answered", !.text = disk[c.path][i],
                                    !.stamp = Stamp(c.path) + 1,
                                    !.layout = [sidecar[c.path] EXCEPT !.moved = n]])
        BY <3>1
      <3> DEFINE l == [sidecar[c.path] EXCEPT !.moved = n]
                 d == [c EXCEPT !.step = "answered", !.text = disk[c.path][i],
                                !.stamp = Stamp(c.path) + 1, !.layout = l]
      <3>3. c.path \in Flows /\ c \in Calls
        BY <1>0 DEF Calls
      <3>4. l.moved = n /\ n <= events'
        BY <1>1, <1>2, <1>4, <3>2, <3>3, <1>0 DEF Plans
      <3>5. d.layout = l /\ calls' = (calls \ {c}) \cup {d} /\ sidecar' = [sidecar EXCEPT ![c.path] = l]
        <4> HIDE DEF l
        <4>1. d.layout = l
          BY <3>3 DEF Calls
        <4> QED
          BY <3>2, <4>1 DEF Goes, l
      <3>6. flow' = flow
        BY <2>3 DEF ServerRestores
      <3> HIDE DEF l, d
      <3> QED
        BY <1>0, <1>4, <3>4, <3>5, <3>6 DEF MovesCounted
    <2>4. CASE ServerLayout(c)
      <3>1. c.layout.moved <= events' /\ c.path \in Flows /\ flow' = flow
            /\ sidecar' = [sidecar EXCEPT ![c.path] = c.layout]
        BY <1>4, <2>4, ServerLayoutDoes DEF Served
      <3>2. PICK d \in Calls : Becomes(c, d) /\ d.step = "laid"
        BY <2>4, ServerLayoutDoes
      <3> QED
        BY <1>0, <1>4, <3>1, <3>2 DEF MovesCounted, Becomes
    <2> QED
      BY <1>9, <2>1, <2>2, <2>3, <2>4 DEF Serves
  <1>10. ASSUME NEW c \in calls, Answers(c) PROVE MovesCounted'
    <2>1. CASE SaveGenerated(c)
      BY <1>6, <2>1, SaveGeneratedDoes DEF Answered, Around
    <2>2. CASE SaveAnswered(c)
      BY <1>4, <1>5, <1>6, <2>2, SaveAnsweredDoes DEF Answered, Around
    <2>3. CASE FlowAnswered(c)
      BY <1>4, <2>3, FlowAnsweredDoes DEF Answered, MovesCounted
    <2>4. CASE LayoutAnswered(c) \/ SaveRefused(c) \/ KeepAnswered(c) \/ KeepRefused(c)
      BY <1>5, <2>4, LayoutAnsweredDoes, SaveRefusedDoes, KeepAnsweredDoes, KeepRefusedDoes
         DEF Answered, Around
    <2> QED
      BY <1>10, <2>1, <2>2, <2>3, <2>4 DEF Answers
  <1>11. ASSUME Faults PROVE MovesCounted'
    BY <1>5, <1>11 DEF Faults, AskFails, CallFails, OtherWrites, server, Ends
  <1>12. ASSUME UNCHANGED vars PROVE MovesCounted'
    BY <1>5, <1>12 DEF vars, server
  <1> QED
    BY <1>7, <1>8, <1>9, <1>10, <1>11, <1>12 DEF Next, Requests

-----------------------------------------------------------------------------

\* What is due of a file is finite, and fewer wait when one of them has written.
LEMMA DueFinite ==
    ASSUME FilesCounted
    PROVE  \A f \in Flows : IsFiniteSet(Due(f)) /\ Cardinality(Due(f)) \in Nat
  <1>1. ASSUME NEW f \in Flows PROVE IsFiniteSet(Due(f)) /\ Cardinality(Due(f)) \in Nat
    <2>1. Due(f) \in SUBSET calls /\ IsFiniteSet(calls)
      BY DEF Due, FilesCounted
    <2>2. IsFiniteSet(Due(f))
      BY <2>1, FS_Subset
    <2> QED
      BY <2>2, FS_CardinalityType
  <1> QED
    BY <1>1

LEMMA FilesIfNoneMore ==
    ASSUME EditorSound, FilesCounted, Numbers, [Next]_vars, disk' = disk,
           IsFiniteSet(calls'), \A f \in Flows : Due(f)' \subseteq Due(f)
    PROVE  FilesCounted'
  <1>1. ASSUME NEW f \in Flows PROVE Stamp(f)' + Cardinality(Due(f)') <= Versions'
    <2>1. Stamp(f)' = Stamp(f) /\ Stamp(f) \in Nat
      BY DEF Stamp, EditorSound, EditorTyped
    <2>2. IsFiniteSet(Due(f)) /\ Cardinality(Due(f)) \in Nat /\ Due(f)' \in SUBSET Due(f)
      BY DueFinite
    <2>3. Cardinality(Due(f)') <= Cardinality(Due(f)) /\ IsFiniteSet(Due(f)')
      BY <2>2, FS_Subset
    <2>4. Cardinality(Due(f)') \in Nat
      BY <2>3, FS_CardinalityType
    <2>5. Versions \in Nat /\ Versions <= Versions' /\ Versions' \in Int
      BY NumbersStep, EditorAssumption DEF Numbers, Versions
    <2>6. Stamp(f) + Cardinality(Due(f)) <= Versions
      BY DEF FilesCounted
    <2> QED
      BY <2>1, <2>2, <2>3, <2>4, <2>5, <2>6
  <1> QED
    BY <1>1 DEF FilesCounted

LEMMA FilesIfBegun ==
    ASSUME EditorSound, FilesCounted, Numbers, [Next]_vars, disk' = disk, Versions' = Versions + 1,
           NEW d, calls' = calls \cup {d}
    PROVE  FilesCounted'
  <1>1. IsFiniteSet(calls')
    BY FS_AddElement DEF FilesCounted
  <1>2. ASSUME NEW f \in Flows PROVE Stamp(f)' + Cardinality(Due(f)') <= Versions'
    <2>1. Stamp(f)' = Stamp(f) /\ Stamp(f) \in Nat
      BY DEF Stamp, EditorSound, EditorTyped
    <2>2. IsFiniteSet(Due(f)) /\ Cardinality(Due(f)) \in Nat
      BY DueFinite
    <2>3. Due(f)' = Due(f) \/ Due(f)' = Due(f) \cup {d}
      BY DEF Due, WillWrite
    <2>4. Cardinality(Due(f)') \in {Cardinality(Due(f)), Cardinality(Due(f)) + 1}
      BY <2>2, <2>3, FS_AddElement
    <2>5. Versions \in Nat
      BY NumbersStep
    <2>6. Stamp(f) + Cardinality(Due(f)) <= Versions
      BY DEF FilesCounted
    <2> QED
      BY <2>1, <2>2, <2>4, <2>5, <2>6
  <1> QED
    BY <1>1, <1>2 DEF FilesCounted

LEMMA FilesIfWritten ==
    ASSUME EditorSound, FilesCounted, Numbers, [Next]_vars, NEW c \in calls, NEW d, Becomes(c, d),
           WillWrite(c), ~WillWrite(d), NEW t \in Texts, Grown(c.path, t)
    PROVE  FilesCounted'
  <1>0. c.path \in Flows
    BY DEF EditorSound, EditorTyped, Calls
  <1>1. IsFiniteSet(calls')
    BY FS_AddElement, FS_RemoveElement DEF FilesCounted, Becomes
  <1>2. ASSUME NEW f \in Flows PROVE Stamp(f)' + Cardinality(Due(f)') <= Versions'
    <2>1. IsFiniteSet(Due(f)) /\ Cardinality(Due(f)) \in Nat
      BY DueFinite
    <2>2. Versions \in Nat /\ Versions <= Versions' /\ Versions' \in Int
      BY NumbersStep, EditorAssumption DEF Numbers, Versions
    <2>3. Stamp(f) + Cardinality(Due(f)) <= Versions
      BY DEF FilesCounted
    <2>4. CASE f = c.path
      <3>1. Stamp(f)' = Stamp(f) + 1 /\ Stamp(f) \in Nat
        BY <1>0, <2>4, FileGrows DEF EditorSound
      <3>2. Due(f)' = Due(f) \ {c} /\ c \in Due(f)
        BY <2>4 DEF Due, Becomes, WillWrite
      <3>3. Cardinality(Due(f)') = Cardinality(Due(f)) - 1
        BY <2>1, <3>2, FS_RemoveElement
      <3> QED
        BY <2>1, <2>2, <2>3, <3>1, <3>3
    <2>5. CASE f # c.path
      <3>1. Stamp(f)' = Stamp(f) /\ Stamp(f) \in Nat
        BY <1>0, <2>5, FileGrows DEF EditorSound, Stamp
      <3>2. Due(f)' = Due(f)
        BY <2>5 DEF Due, Becomes, WillWrite
      <3> QED
        BY <2>1, <2>2, <2>3, <3>1, <3>2
    <2> QED
      BY <2>4, <2>5
  <1> QED
    BY <1>1, <1>2 DEF FilesCounted

LEMMA FilesIfByOther ==
    ASSUME EditorSound, FilesCounted, Numbers, NEW f \in Flows, OtherWrites(f)
    PROVE  FilesCounted'
  <1>1. calls' = calls /\ Grown(f, FirstText(f)) /\ FirstText(f) \in Texts
    BY OtherWritesDoes
  <1>2. Versions' = Versions + 1 /\ Versions \in Nat
    BY EditorAssumption DEF OtherWrites, Versions, Numbers
  <1>3. ASSUME NEW g \in Flows PROVE Stamp(g)' + Cardinality(Due(g)') <= Versions'
    <2>1. Cardinality(Due(g)) \in Nat /\ Due(g)' = Due(g)
      BY <1>1, DueFinite DEF Due, WillWrite
    <2>2. Stamp(g) + Cardinality(Due(g)) <= Versions
      BY DEF FilesCounted
    <2>3. Stamp(g) \in Nat /\ Stamp(g)' \in Nat /\ Stamp(g)' <= Stamp(g) + 1
      BY <1>1, FileGrows DEF EditorSound, Stamp
    <2> QED
      BY <1>2, <2>1, <2>2, <2>3
  <1> QED
    BY <1>1, <1>3 DEF FilesCounted

\* The text a save generated first is put in the place of its model.
LEMMA FilesIfGenerated ==
    ASSUME EditorSound, FilesCounted, Numbers, [Next]_vars, disk' = disk,
           NEW c \in calls, NEW d, Becomes(c, d), WillWrite(c)
    PROVE  FilesCounted'
  <1>1. IsFiniteSet(calls')
    BY FS_AddElement, FS_RemoveElement DEF FilesCounted, Becomes
  <1>2. ASSUME NEW f \in Flows PROVE Stamp(f)' + Cardinality(Due(f)') <= Versions'
    <2>1. IsFiniteSet(Due(f)) /\ Cardinality(Due(f)) \in Nat
      BY DueFinite
    <2>2. Stamp(f)' = Stamp(f) /\ Stamp(f) \in Nat
      BY DEF Stamp, EditorSound, EditorTyped
    <2>3. Versions \in Nat /\ Versions <= Versions' /\ Versions' \in Int
      BY NumbersStep, EditorAssumption DEF Numbers, Versions
    <2>4. Stamp(f) + Cardinality(Due(f)) <= Versions
      BY DEF FilesCounted
    <2>5. CASE f = c.path
      <3>1. c \in Due(f) /\ Due(f)' \in {Due(f) \ {c}, (Due(f) \ {c}) \cup {d}}
        BY <2>5 DEF Due, Becomes, WillWrite
      <3>2. IsFiniteSet(Due(f) \ {c}) /\ Cardinality(Due(f) \ {c}) = Cardinality(Due(f)) - 1
        BY <2>1, <3>1, FS_RemoveElement
      <3>3. Cardinality((Due(f) \ {c}) \cup {d}) \in {Cardinality(Due(f)) - 1, Cardinality(Due(f)) - 1 + 1}
        BY <3>2, FS_AddElement
      <3>4. Cardinality(Due(f)') \in {Cardinality(Due(f)) - 1, Cardinality(Due(f)) - 1 + 1}
        BY <3>1, <3>2, <3>3
      <3> QED
        BY <2>1, <2>2, <2>3, <2>4, <3>4
    <2>6. CASE f # c.path
      <3>1. Due(f)' = Due(f)
        BY <2>6 DEF Due, Becomes, WillWrite
      <3> QED
        BY <2>1, <2>2, <2>3, <2>4, <3>1
    <2> QED
      BY <2>5, <2>6
  <1> QED
    BY <1>1, <1>2 DEF FilesCounted

LEMMA FilesStep ==
    ASSUME EditorSound, Numbers, FilesCounted, [Next]_vars
    PROVE  FilesCounted'
  <1>0. IsFiniteSet(calls) /\ Versions \in Nat
    BY NumbersStep DEF FilesCounted
  <1>1. ASSUME calls' \subseteq calls, disk' = disk PROVE FilesCounted'
    <2>1. IsFiniteSet(calls')
      BY <1>0, <1>1, FS_Subset
    <2>2. \A f \in Flows : Due(f)' \subseteq Due(f)
      BY <1>1 DEF Due, WillWrite
    <2> QED
      BY <1>1, <2>1, <2>2, FilesIfNoneMore
  <1>2. ASSUME NEW d, calls' \subseteq calls \cup {d}, ~WillWrite(d), disk' = disk PROVE FilesCounted'
    <2>1. IsFiniteSet(calls')
      BY <1>0, <1>2, FS_AddElement, FS_Subset
    <2>2. \A f \in Flows : Due(f)' \subseteq Due(f)
      BY <1>2 DEF Due, WillWrite
    <2> QED
      BY <1>2, <2>1, <2>2, FilesIfNoneMore
  <1>3. ASSUME Person PROVE FilesCounted'
    <2>1. ASSUME \/ \E ok \in BOOLEAN : Type(ok) \/ ApplyDraft(ok)
                 \/ \E body, ok \in BOOLEAN : Edit(body, ok)
                 \/ Move \/ Undo \/ Redo \/ CancelConflict
          PROVE  FilesCounted'
      BY <1>1, <2>1 DEF Type, ApplyDraft, Edit, Move, Undo, Redo, CancelConflict, server
    <2>2. ASSUME Save \/ KeepMine \/ Restore PROVE FilesCounted'
      <3>1. /\ \/ saves' = saves + 1 /\ events' = events
               \/ events' = events + 1 /\ saves' = saves
            /\ disk' = disk
        BY <2>2 DEF Save, KeepMine, Restore, server
      <3>2. Versions' = Versions + 1
        BY <3>1, EditorAssumption DEF Versions, Numbers
      <3>3. \E d : calls' = calls \cup {d}
        BY <2>2, SaveDoes, KeepMineDoes, RestoreDoes
      <3> QED
        BY <3>1, <3>2, <3>3, FilesIfBegun
    <2>3. ASSUME NEW f \in Flows, Go(f) PROVE FilesCounted'
      BY <1>2, <2>3 DEF Go, server, Opening, Call, WillWrite
    <2>4. ASSUME TakeTheirs PROVE FilesCounted'
      BY <1>2, <2>4 DEF TakeTheirs, server, Call, WillWrite
    <2> QED
      BY <1>3, <2>1, <2>2, <2>3, <2>4 DEF Person
  <1>4. ASSUME Syncs PROVE FilesCounted'
    BY <1>1, <1>4 DEF Syncs, RunParse, ParseAnswered, RunGenerate, GenerateAnswered, server
  <1>5. ASSUME NEW c \in calls, Serves(c) PROVE FilesCounted'
    <2>1. CASE ServerWrites(c)
      <3>1. c.step = "put" /\ c.text \in Texts
        BY <2>1, ServerWritesDoes
      <3>2. PICK d \in Calls :
               /\ Becomes(c, d) /\ d.step \in {"written", "refused"}
               /\ disk' = disk \/ (d.step = "written" /\ Grown(c.path, c.text))
        BY <2>1, ServerWritesDoes
      <3>3. WillWrite(c) /\ ~WillWrite(d)
        BY <3>1, <3>2 DEF WillWrite
      <3> QED
        BY <1>2, <3>1, <3>2, <3>3, FilesIfWritten DEF Becomes
    <2>2. CASE ServerReads(c)
      <3>1. PICK d \in Calls : Becomes(c, d) /\ d.step = "answered"
        BY <2>2, ServerReadsDoes
      <3>2. disk' = disk /\ ~WillWrite(d) /\ calls' \subseteq calls \cup {d}
        BY <2>2, <3>1, ServerReadsDoes DEF WillWrite, Becomes
      <3> QED
        BY <1>2, <3>2
    <2>3. CASE ServerRestores(c)
      <3>1. PICK d \in Calls :
               Becomes(c, d) /\ d.step = "answered" /\ d.text \in Texts /\ Grown(c.path, d.text)
        BY <2>3, ServerRestoresDoes
      <3>2. WillWrite(c) /\ ~WillWrite(d)
        BY <2>3, <3>1, ServerRestoresDoes DEF WillWrite
      <3> QED
        BY <3>1, <3>2, FilesIfWritten
    <2>4. CASE ServerLayout(c)
      <3>1. PICK d \in Calls : Becomes(c, d) /\ d.step = "laid"
        BY <2>4, ServerLayoutDoes
      <3>2. disk' = disk /\ ~WillWrite(d) /\ calls' \subseteq calls \cup {d}
        BY <2>4, <3>1, ServerLayoutDoes DEF WillWrite, Becomes
      <3> QED
        BY <1>2, <3>2
    <2> QED
      BY <1>5, <2>1, <2>2, <2>3, <2>4 DEF Serves
  <1>6. ASSUME NEW c \in calls, Answers(c) PROVE FilesCounted'
    <2>1. CASE SaveGenerated(c)
      <3>1. PICK d \in Calls : Becomes(c, d)
        BY <2>1, SaveGeneratedDoes
      <3>2. disk' = disk /\ WillWrite(c)
        BY <2>1, SaveGeneratedDoes DEF Answered, WillWrite
      <3> QED
        BY <3>1, <3>2, FilesIfGenerated
    <2>2. CASE SaveAnswered(c)
      <3>1. disk' = disk
        BY <2>2, SaveAnsweredDoes DEF Answered
      <3>2. calls' = calls \ {c} \/ \E d \in Calls : Becomes(c, d) /\ d.step = "layout"
        BY <2>2, SaveAnsweredDoes
      <3>3. ASSUME NEW d \in Calls, Becomes(c, d), d.step = "layout" PROVE FilesCounted'
        <4>1. ~WillWrite(d) /\ calls' \subseteq calls \cup {d}
          BY <3>3 DEF WillWrite, Becomes
        <4> QED
          BY <1>2, <3>1, <4>1
      <3> QED
        BY <1>1, <3>1, <3>2, <3>3
    <2>3. CASE \/ LayoutAnswered(c) \/ SaveRefused(c) \/ KeepAnswered(c)
               \/ KeepRefused(c) \/ FlowAnswered(c)
      BY <1>1, <2>3 DEF LayoutAnswered, SaveRefused, KeepAnswered, KeepRefused, FlowAnswered, Ends, server
    <2> QED
      BY <1>6, <2>1, <2>2, <2>3 DEF Answers
  <1>7. ASSUME Faults PROVE FilesCounted'
    <2>1. ASSUME AskFails \/ \E c \in calls : CallFails(c) PROVE FilesCounted'
      BY <1>1, <2>1 DEF AskFails, CallFails, Ends, server
    <2> QED
      BY <1>7, <2>1, FilesIfByOther DEF Faults
  <1>8. ASSUME UNCHANGED vars PROVE FilesCounted'
    BY <1>1, <1>8 DEF vars, server
  <1> QED
    BY <1>3, <1>4, <1>5, <1>6, <1>7, <1>8 DEF Next, Requests

LEMMA FileWithin ==
    ASSUME EditorSound, Numbers, FilesCounted
    PROVE  \A f \in Flows : Stamp(f) \in Nat /\ Stamp(f) <= Versions
  <1>1. ASSUME NEW f \in Flows PROVE Stamp(f) \in Nat /\ Stamp(f) <= Versions
    <2>1. Stamp(f) \in Nat /\ Cardinality(Due(f)) \in Nat /\ Stamp(f) + Cardinality(Due(f)) <= Versions
      BY DueFinite DEF FilesCounted, Stamp, EditorSound, EditorTyped
    <2>2. Versions \in Int
      BY EditorAssumption DEF Versions, Numbers
    <2> QED
      BY <2>1, <2>2
  <1> QED
    BY <1>1

LEMMA StampsStep ==
    ASSUME EditorSound, Numbers, FilesCounted, FilesCounted', StampsCounted, [Next]_vars
    PROVE  StampsCounted'
  <1>0. /\ flow \in OpenFlows /\ calls \subseteq Calls /\ flow.modified \in Nat
        /\ \A c \in calls : c.stamp \in Nat /\ c.path \in Flows
    BY DEF EditorSound, EditorTyped, OpenFlows, Calls
  <1>1. EditorSound' /\ Numbers' /\ Versions \in Nat /\ Versions' \in Nat /\ Versions <= Versions'
    BY SoundStep, NumbersStep, EditorAssumption DEF Numbers, Versions
  <1>2. \A f \in Flows : Stamp(f) \in Nat /\ Stamp(f) <= Versions
    BY FileWithin
  <1>3. \A f \in Flows : Stamp(f)' \in Nat /\ Stamp(f)' <= Versions'
    <2>1. (EditorSound /\ Numbers /\ FilesCounted =>
              \A f \in Flows : Stamp(f) \in Nat /\ Stamp(f) <= Versions)'
      BY FileWithin, PTL
    <2> QED
      BY <1>1, <2>1
  <1>4. \A n \in Nat : n <= Versions => n <= Versions'
    BY <1>1
  <1>5. /\ flow.modified <= Versions'
        /\ \A c \in calls : c.step \in {"written", "answered"} => c.stamp <= Versions'
    BY <1>0, <1>4 DEF StampsCounted
  <1>6. ASSUME flow'.modified = flow.modified,
               \A d \in calls' : d \in calls \/ d.step \notin {"written", "answered"}
        PROVE  StampsCounted'
    BY <1>5, <1>6 DEF StampsCounted
  <1>7. ASSUME NEW c \in calls, NEW d, Becomes(c, d), flow'.modified = flow.modified,
               d.step \in {"written", "answered"} => d.stamp <= Versions'
        PROVE  StampsCounted'
    BY <1>5, <1>7 DEF StampsCounted, Becomes
  <1>8. ASSUME NEW c \in calls, c.step \in {"written", "answered"}, flow'.modified = c.stamp,
               \A d \in calls' : d \in calls \/ d.step \notin {"written", "answered"}
        PROVE  StampsCounted'
    BY <1>5, <1>8 DEF StampsCounted
  <1>9. ASSUME Person PROVE StampsCounted'
    <2>1. ASSUME NEW ok \in BOOLEAN, Type(ok) \/ ApplyDraft(ok) PROVE StampsCounted'
      BY <1>6, <2>1, TypeDoes, ApplyDraftDoes DEF Edited
    <2>2. ASSUME NEW body \in BOOLEAN, NEW ok \in BOOLEAN, Edit(body, ok) PROVE StampsCounted'
      BY <1>6, <2>2, EditDoes DEF Edited
    <2>3. ASSUME Move PROVE StampsCounted'
      BY <1>6, <2>3, MoveDoes DEF Edited
    <2>4. ASSUME Undo \/ Redo PROVE StampsCounted'
      <3>1. Restack
        BY <2>4, UndoDoes, RedoDoes
      <3>2. flow'.modified = flow.modified /\ calls' = calls
        BY <3>1 DEF Restack, Edited
      <3> QED
        BY <1>6, <3>2
    <2>5. ASSUME \/ \E f \in Flows : Go(f)
                 \/ Save \/ Restore \/ KeepMine \/ TakeTheirs \/ CancelConflict
          PROVE  StampsCounted'
      <3>1. flow'.modified = flow.modified
        BY <2>5 DEF Go, Save, Restore, KeepMine, TakeTheirs, CancelConflict
      <3>2. \/ calls' = calls
            \/ \E d : calls' \subseteq calls \cup {d} /\ d.step \in {"generate", "put", "asked"}
        BY <2>5, GoDoes, SaveDoes, RestoreDoes, KeepMineDoes, TakeTheirsDoes, CancelConflictDoes
      <3> QED
        BY <1>6, <3>1, <3>2
    <2> QED
      BY <1>9, <2>1, <2>2, <2>3, <2>4, <2>5 DEF Person
  <1>10. ASSUME Syncs PROVE StampsCounted'
    BY <1>6, <1>10, RunParseDoes, ParseAnsweredDoes, RunGenerateDoes, GenerateAnsweredDoes
       DEF Syncs, Synced
  <1>11. ASSUME NEW c \in calls, Serves(c) PROVE StampsCounted'
    <2>1. CASE ServerWrites(c)
      <3>1. PICK d \in Calls :
               /\ Becomes(c, d)
               /\ \/ d.step = "refused"
                  \/ d.stamp = Stamp(c.path) + 1 /\ Grown(c.path, c.text)
        BY <2>1, ServerWritesDoes
      <3>2. c.text \in Texts /\ flow' = flow
        BY <2>1, ServerWritesDoes DEF Served
      <3>3. d.step # "refused" => d.stamp <= Versions'
        BY <1>0, <1>3, <3>1, <3>2, FileGrows DEF EditorSound
      <3>4. d.step \in {"written", "answered"} => d.stamp <= Versions'
        BY <3>3
      <3> QED
        BY <1>7, <3>1, <3>2, <3>4
    <2>2. CASE ServerReads(c)
      <3>1. PICK d \in Calls : Becomes(c, d) /\ d.stamp = Stamp(c.path)
        BY <2>2, ServerReadsDoes
      <3>2. d.stamp <= Versions' /\ flow' = flow
        BY <1>0, <1>2, <1>4, <2>2, <3>1, ServerReadsDoes DEF Served
      <3> QED
        BY <1>7, <3>1, <3>2
    <2>3. CASE ServerRestores(c)
      <3>1. PICK d \in Calls :
               /\ Becomes(c, d) /\ d.text \in Texts /\ Grown(c.path, d.text)
               /\ d.stamp = Stamp(c.path) + 1
        BY <2>3, ServerRestoresDoes
      <3>2. d.stamp <= Versions'
        BY <1>0, <1>3, <3>1, FileGrows DEF EditorSound
      <3>3. flow' = flow
        BY <2>3, ServerRestoresDoes DEF Served
      <3> QED
        BY <1>7, <3>1, <3>2, <3>3
    <2>4. CASE ServerLayout(c)
      <3>1. PICK d \in Calls : Becomes(c, d) /\ d.step = "laid"
        BY <2>4, ServerLayoutDoes
      <3>2. flow' = flow
        BY <2>4, ServerLayoutDoes DEF Served
      <3> QED
        BY <1>7, <3>1, <3>2
    <2> QED
      BY <1>11, <2>1, <2>2, <2>3, <2>4 DEF Serves
  <1>12. ASSUME NEW c \in calls, Answers(c) PROVE StampsCounted'
    <2>1. CASE SaveGenerated(c)
      BY <1>7, <2>1, SaveGeneratedDoes
    <2>2. CASE SaveAnswered(c)
      <3>1. c.step = "written" /\ flow'.modified = c.stamp
        BY <2>2, SaveAnsweredDoes
      <3>2. calls' = calls \ {c} \/ \E d \in Calls : Becomes(c, d) /\ d.step = "layout"
        BY <2>2, SaveAnsweredDoes
      <3> QED
        BY <1>8, <3>1, <3>2 DEF Becomes
    <2>3. CASE FlowAnswered(c) \/ KeepAnswered(c)
      BY <1>8, <2>3, FlowAnsweredDoes, KeepAnsweredDoes
    <2>4. CASE LayoutAnswered(c) \/ SaveRefused(c) \/ KeepRefused(c)
      BY <1>6, <2>4, LayoutAnsweredDoes, SaveRefusedDoes, KeepRefusedDoes
    <2> QED
      BY <1>12, <2>1, <2>2, <2>3, <2>4 DEF Answers
  <1>13. ASSUME Faults PROVE StampsCounted'
    BY <1>6, <1>13 DEF Faults, AskFails, CallFails, OtherWrites, Ends
  <1>14. ASSUME UNCHANGED vars PROVE StampsCounted'
    BY <1>6, <1>14 DEF vars
  <1> QED
    BY <1>9, <1>10, <1>11, <1>12, <1>13, <1>14 DEF Next, Requests

LEMMA BoundsStep ==
    ASSUME EditorSound, BoundsInv, [Next]_vars
    PROVE  BoundsInv'
  <1>1. Numbers' /\ ShortPast' /\ MovesCounted' /\ FilesCounted'
    BY NumbersStep, PastStep, MovesStep, FilesStep DEF BoundsInv
  <1> QED
    BY <1>1, StampsStep DEF BoundsInv

LEMMA StackBounded ==
    ASSUME NEW s \in Seq(Sheets), Len(s) <= HistoryLimit
    PROVE  s \in BoundedSeq(Texts \cup {Null}, HistoryLimit)
  <1>1. Len(s) \in 0..HistoryLimit /\ s \in [1..Len(s) -> Sheets]
    BY MaxEditsNat
  <1>2. s \in UNION {[1..m -> Sheets] : m \in 0..HistoryLimit}
    BY <1>1
  <1> QED
    BY <1>2 DEF BoundedSeq, SeqOf, Sheets

LEMMA BoundsAreTypes == EditorSound /\ BoundsInv => TypeOK
  <1> SUFFICES ASSUME EditorSound, BoundsInv PROVE TypeOK
    OBVIOUS
  <1>0. EditorTyped /\ flow \in OpenFlows /\ sync \in Syncing /\ ask \in Questions
    BY DEF EditorSound, EditorTyped
  <1>1. /\ route \in Flows /\ flow.path \in Flows \union {NoFlow}
        /\ {flow.source, flow.model} \subseteq Texts \union {Null}
        /\ {flow.dirty, flow.layoutDirty, flow.stale} \subseteq BOOLEAN
        /\ flow.future \in Seq(Texts \union {Null})
    BY <1>0 DEF EditorTyped, OpenFlows, Sheets
  <1>2. /\ sync.phase \in {"idle", "parsing", "generating"}
        /\ {sync.parseDue, sync.generateDue, sync.verify, sync.failure} \subseteq BOOLEAN
        /\ ask.kind \in {"none", "parse", "generate"}
        /\ \A c \in calls : c.why \in {"save", "keep", "open", "theirs", "restore"}
        /\ kept \subseteq Edits
    BY <1>0 DEF EditorTyped, Syncing, Questions, Calls
  <1>3. flow.past \in BoundedSeq(Texts \union {Null}, HistoryLimit)
    BY <1>0, StackBounded DEF OpenFlows, BoundsInv, ShortPast
  <1>4. events \in Nat /\ events <= MaxEvents /\ MaxEvents \in Nat /\ MaxSaves \in Nat /\ saves \in 0..MaxSaves
    BY EditorAssumption DEF BoundsInv, Numbers
  <1>5. \A l \in Plans : l.moved <= events => l \in Layouts
    BY <1>4 DEF Plans, Layouts
  <1>6. flow.layout \in Layouts \union {NoLayout} /\ \A f \in Flows : sidecar[f] \in Layouts
    BY <1>0, <1>5 DEF OpenFlows, EditorTyped, BoundsInv, MovesCounted
  <1>7. Cardinality(Flows) \in Nat \ {0}
    BY EditorAssumption, FS_CardinalityType, FS_EmptySet
  <1>8. Versions \in Nat /\ Versions <= MaxStamp /\ MaxStamp \in Nat
    BY <1>4, <1>7 DEF Versions, MaxStamp
  <1>9. flow.modified \in 0..MaxStamp
    BY <1>0, <1>8 DEF OpenFlows, BoundsInv, StampsCounted
  <1>10. \A f \in Flows : Len(disk[f]) \in 1..MaxStamp
    <2>1. \A f \in Flows : Stamp(f) \in Nat /\ Stamp(f) <= Versions
      BY FileWithin DEF BoundsInv
    <2>2. \A f \in Flows : Stamp(f) \in Nat \ {0}
      BY <1>0, LastOnFile
    <2> QED
      BY <1>8, <2>1, <2>2 DEF Stamp
  <1> QED
    BY <1>1, <1>2, <1>3, <1>6, <1>9, <1>10 DEF TypeOK

\* The stack of snapshots is cut to its limit whatever is undone, redone and drafted, and
\* each version of a file, and each stamp that names one, is a save, a restore or a write
\* of somebody else: no request writes twice (flow.ts pushHistory, applyServerFlow).
THEOREM EditorBounded == Spec => []TypeOK
  <1>1. Spec => [](EditorSound /\ BoundsInv)
    <2>1. EditorSound /\ BoundsInv /\ [Next]_vars => (EditorSound /\ BoundsInv)'
      BY SoundStep, BoundsStep
    <2> QED
      BY SoundAtFirst, BoundsAtFirst, <2>1, PTL DEF Spec
  <1> QED
    BY <1>1, BoundsAreTypes, PTL
=============================================================================
