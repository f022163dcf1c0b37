-------------------------------- MODULE Blocks --------------------------------
(***************************************************************************)
(* The canvas of the editor: the tree of blocks, the edits a person makes  *)
(* to it, where its cards stand, which one is selected, undo and redo, and *)
(* what is drawn of it.                                                    *)
(*                                                                         *)
(* A tree is a function from paths to blocks, the root at the empty path.  *)
(* The code follows a card through an edit by the identity of its object;  *)
(* here a block has a number, `obj'.  An ancestor the code rebuilds keeps  *)
(* its number: its path never changes, and only changed paths matter.      *)
(***************************************************************************)
EXTENDS Integers, Sequences, FiniteSets, SequencesExt

CONSTANTS
    MaxChanges,   \* edits, drags and tidyings
    MaxBacks,     \* undos and redos
    Kinds         \* the palette's items that are used

BlocksAssumption == {MaxChanges, MaxBacks} \subseteq Nat
    /\ Kinds \subseteq {"source", "node", "sink", "raw", "farm", "comb", "feedback", "all2all"}
ASSUME BlocksAssumption

VARIABLES
    tree,       \* model.flow
    positions,  \* layout.positions: an object keeps the order its keys came in
    selected,   \* a path, or Nothing
    past, future,           \* the undo and redo stacks
    lastSelected, dropped,  \* Canvas's refs: the selection it has seen, where a block fell
    changes, backs          \* edits, drags and tidyings so far; undos and redos

blocksVars == <<tree, positions, selected, past, future, lastSelected, dropped, changes,
                backs>>

Nothing == <<<<"nothing">>>>
Root == <<>>

-----------------------------------------------------------------------------
(* Trees.                                                                  *)

Block(obj, type) ==
    [obj |-> obj, type |-> type, kind |-> "", emitter |-> "own", collector |-> "own",
     merge |-> FALSE]
RefBlock(obj, k) == [Block(obj, "ref") EXCEPT !.kind = k]
Leaf(b) == [p \in {Root} |-> b]

\* a block over sub-trees, each under its key
Node(b, kids) ==
    [p \in {Root} \union UNION {{<<k>> \o q : q \in DOMAIN kids[k]} : k \in DOMAIN kids} |->
        IF p = Root THEN b ELSE kids[Head(p)][Tail(p)]]

Under(t, p) == {q \in DOMAIN t : IsPrefix(p, q)}
Sub(t, p) ==                                          \* getAt
    [q \in {SubSeq(r, Len(p) + 1, Len(r)) : r \in Under(t, p)} |-> t[p \o q]]
Keys(t) == {Head(p) : p \in DOMAIN t \ {Root}}        \* children
KeysAt(t, p) == {q[Len(p) + 1] : q \in Under(t, p) \ {p}}

\* the tree with another sub-tree at p
Graft(t, p, u) ==
    [q \in (DOMAIN t \ Under(t, p)) \union {p \o r : r \in DOMAIN u} |->
        IF IsPrefix(p, q) THEN u[SubSeq(q, Len(p) + 1, Len(q))] ELSE t[q]]

\* updateAt: nothing happens when the path names nothing
UpdateAt(t, p, Op(_)) == IF p \in DOMAIN t THEN Graft(t, p, Op(Sub(t, p))) ELSE t

Listed(name, subs) == [k \in {<<name, i - 1>> : i \in DOMAIN subs} |-> subs[k[2] + 1]]
Items(t, name) ==           \* the sub-trees kept as a list: stages, or several workers
    LET of == {k \in Keys(t) : k[1] = name /\ Len(k) = 2}
    IN  [i \in 1..Cardinality(of) |-> Sub(t, <<<<name, i - 1>>>>)]

Stages(t) == Items(t, "stages")
Workers(t) ==               \* farmWorkers
    IF <<"worker">> \in Keys(t) THEN <<Sub(t, <<<<"worker">>>>)>> ELSE Items(t, "worker")

PipelineBlock(obj, stages) == Node(Block(obj, "pipeline"), Listed("stages", stages))
FarmBlock(obj, worker) == Node(Block(obj, "farm"), (<<"worker">> :> worker))
FeedbackBlock(obj, inner) == Node(Block(obj, "feedback"), (<<"inner">> :> inner))
CombBlock(obj, first, second) ==
    Node(Block(obj, "comb"), (<<"first">> :> first) @@ (<<"second">> :> second))
All2AllBlock(obj, left, right) ==
    Node(Block(obj, "all2all"), (<<"left">> :> left) @@ (<<"right">> :> right))

\* the kind of node a block starts or ends with; an expression can be anything
RECURSIVE TerminalKind(_, _)
TerminalKind(t, end) ==
    LET type == t[Root].type
        At(key) == TerminalKind(Sub(t, <<key>>), end)
        Side(a, b) == At(IF end = "first" THEN a ELSE b)
        stages == Stages(t)
    IN  CASE type = "ref" -> t[Root].kind
          [] type = "start" -> "source"
          [] type = "pipeline" ->
                IF stages = <<>> THEN "unknown"
                ELSE TerminalKind(IF end = "first" THEN Head(stages) ELSE Last(stages), end)
          [] type = "farm" -> TerminalKind(Head(Workers(t)), end)
          [] type = "comb" -> Side(<<"first">>, <<"second">>)
          [] type = "feedback" -> At(<<"inner">>)
          [] type = "all2all" -> Side(<<"left">>, <<"right">>)
          [] OTHER -> "unknown"

-----------------------------------------------------------------------------
(* The edits (model/edits.ts): a tree in, a tree out.                      *)

\* the parent with the child under this key taken out; some children must stay
\* mutant: any child can be taken out
WithoutAny(t, key) == Node(t[Root], [k \in Keys(t) \ {key} |-> Sub(t, <<k>>)])
Without(t, key) ==
    LET name == key[1]
        at == key[2] + 1
        rest(list) == [k \in {j \in Keys(t) : j[1] # name} |-> Sub(t, <<k>>)]
                      @@ Listed(name, RemoveAt(list, at))
        others == [k \in Keys(t) \ {key} |-> Sub(t, <<k>>)]
    IN  CASE name = "stages" -> Node(t[Root], rest(Stages(t)))
          [] name = "worker" /\ Len(key) = 2 ->
                IF Len(Workers(t)) = 1 THEN t ELSE Node(t[Root], rest(Workers(t)))
          [] name = "emitter" -> Node([t[Root] EXCEPT !.emitter = "own"], others)
          [] name = "collector" -> Node([t[Root] EXCEPT !.collector = "own"], others)
          [] name \in {"key", "R", "G"} -> Node(t[Root], others)
          [] OTHER -> t

\* removeAt: a pipeline left with nothing goes too, unless it is the root
RECURSIVE RemoveBlockAt(_, _, _)
RemoveBlockAt(t, p, obj) ==
    IF p = Root THEN PipelineBlock(obj, <<>>)
    ELSE IF p \notin DOMAIN t THEN t
    ELSE LET parent == Front(p)
             next == Graft(t, parent, Without(Sub(t, parent), Last(p)))
         IN  IF parent # Root /\ next[parent].type = "pipeline" /\ Stages(Sub(next, parent)) = <<>>
             THEN RemoveBlockAt(next, parent, obj)
             ELSE next

InsertStage(t, i, u) ==      \* in the root pipeline
    Node(t[Root], Listed("stages", InsertAt(Stages(t), i + 1, u)))
AppendStage(t, u, obj) == PipelineBlock(obj, <<t, u>>)    \* the root is a single block

\* unwrap: a container gives way to what it holds
Unwrapped(t, obj) ==
    LET At(key) == Sub(t, <<key>>)
    IN  CASE t[Root].type = "farm" -> Head(Workers(t))
          [] t[Root].type = "feedback" -> At(<<"inner">>)
          [] t[Root].type = "comb" -> PipelineBlock(obj, <<At(<<"first">>), At(<<"second">>)>>)
          [] t[Root].type = "all2all" -> PipelineBlock(obj, <<At(<<"left">>), At(<<"right">>)>>)
          [] t[Root].type = "pipeline" -> IF Len(Stages(t)) = 1 THEN Head(Stages(t)) ELSE t
          [] OTHER -> t

\* setFarmOptions of an end: the farm's own, none, or a node
WithEnd(t, end, how, u) ==
    LET kids == [k \in Keys(t) \ {<<end>>} |-> Sub(t, <<k>>)]
        b == IF end = "emitter" THEN [t[Root] EXCEPT !.emitter = how]
                                ELSE [t[Root] EXCEPT !.collector = how]
    IN  Node(b, IF how = "custom" THEN kids @@ (<<end>> :> u) ELSE kids)

\* setCrossBlock: a node, or none
WithCross(t, which, some, u) ==
    LET kids == [k \in Keys(t) \ {<<which>>} |-> Sub(t, <<k>>)]
    IN  Node(t[Root], IF some THEN kids @@ (<<which>> :> u) ELSE kids)

\* what the palette drops: a block, and the nodes it names
Template(k, o) ==
    LET work(i) == Leaf(RefBlock(o + i, "node"))
    IN  CASE k = "farm" -> FarmBlock(o, work(1))
          [] k = "comb" -> CombBlock(o, work(1), work(2))
          [] k = "feedback" ->
                FeedbackBlock(o, PipelineBlock(o + 1, <<work(2), work(3)>>))
          [] k = "all2all" ->
                All2AllBlock(o, FarmBlock(o + 1, work(2)), FarmBlock(o + 3, work(4)))
          [] OTHER -> Leaf(RefBlock(o, k))

-----------------------------------------------------------------------------
(* The sidecar's positions and the selection follow an edit.               *)

\* pathRenames: where the block at p has moved to, if it has
Movers(before, after, p) ==
    IF p \notin DOMAIN before THEN {}
    ELSE {q \in DOMAIN after : after[q].obj = before[p].obj} \ {p}

At(list, p) == {i \in DOMAIN list : list[i].path = p}
Put(list, p, place) ==          \* assigning to a key of an object
    IF At(list, p) = {} THEN Append(list, [path |-> p, place |-> place])
    ELSE [i \in DOMAIN list |-> IF list[i].path = p THEN [list[i] EXCEPT !.place = place]
                                                    ELSE list[i]]
PutAll(list, more) == FoldLeft(LAMBDA acc, e : Put(acc, e.path, e.place), list, more)
PlaceOf(list, p) == (list[CHOOSE i \in At(list, p) : TRUE]).place

\* a block wrapped in another stays where the wrapper now stands
PathsAfterEdit(before, after, list) ==
    LET step(acc, e) ==
          LET moved == Movers(before, after, e.path)
              now == CHOOSE q \in moved : TRUE
              alive == e.path \in DOMAIN after
              swallowed == alive /\ IsPrefix(e.path, now)
          IN  IF moved # {} /\ ~swallowed THEN Put(acc, now, e.place)
              ELSE IF alive THEN Put(acc, e.path, e.place) ELSE acc
    IN  FoldLeft(step, <<>>, list)

Follow(before, after) ==
    LET moved == Movers(before, after, selected)
    IN  IF selected = Nothing THEN Nothing
        ELSE IF moved # {} THEN CHOOSE q \in moved : TRUE
        ELSE IF selected \in DOMAIN after THEN selected ELSE Nothing

Snapshot == [tree |-> tree, positions |-> positions, selected |-> selected]
NoPlace == <<"none", 0>>

\* topStages, and where dagre would put each
TopStages(t) ==
    IF t[Root].type # "pipeline" THEN <<Root>>
    ELSE [i \in DOMAIN Stages(t) |-> <<<<"stages", i - 1>>>>]
AutoLayout(t) == [i \in DOMAIN TopStages(t) |->
                    [path |-> TopStages(t)[i], place |-> <<"dagre", i>>]]

(* The canvas's effects run after every change: cards without a place make *)
(* dagre lay out the whole row; then a block that was dropped goes to the  *)
(* place it was dropped at, once the selection has come to it.             *)
Filled(t, list) ==
    IF \E i \in DOMAIN TopStages(t) : At(list, TopStages(t)[i]) = {}
    THEN PutAll(list, AutoLayout(t)) ELSE list

Render(t, list, sel, fell) ==
    LET settles == sel \notin {Nothing, lastSelected}
    IN  /\ tree' = t /\ selected' = sel
        /\ lastSelected' = IF settles THEN sel ELSE lastSelected
        /\ dropped' = IF settles THEN NoPlace ELSE fell
        /\ positions' = IF settles /\ fell # NoPlace
                        THEN Put(Filled(t, list), sel, fell) ELSE Filled(t, list)

\* store.edit
Edit(after, sel, fell) ==
    /\ Render(after, PathsAfterEdit(tree, after, positions), sel, fell)
    /\ past' = Append(past, Snapshot) /\ future' = <<>>
    /\ changes' = changes + 1 /\ UNCHANGED backs

MayChange == changes < MaxChanges
Fresh == 1 + 10 * (changes + 1)          \* numbers no block has

-----------------------------------------------------------------------------
(* What is drawn (editor/buildGraph.ts).                                   *)

\* which of a farm's ends are drawn, and how many cards one worker gets
ViewOf(t, p) ==
    LET b == t[p]
        side == IF p # Root /\ t[Front(p)].type = "all2all" THEN Last(p)[1] ELSE "alone"
    IN  [emitter |-> side # "right" /\ (side = "left" => b.emitter # "off"),
         collector |-> side # "left" /\ (side = "right" => b.collector # "off"),
         reps |-> IF side = "alone" THEN 1 ELSE 2]

\* a block of the tree that `place' reaches: not inside a comb, not a farm's key or
\* end, not the R and G of an all-to-all
Shows(b, key) ==
    b.type \in {"pipeline", "farm", "feedback", "all2all"} /\ key[1] \notin {"emitter", "collector", "key", "R", "G"}
Drawn(t) == {p \in DOMAIN t : \A i \in 1..Len(p) : Shows(t[SubSeq(p, 1, i - 1)], p[i])}

Card(id, path) == [id |-> id, path |-> path]
Extra(p, what) == p \o <<<<"#", what>>>>
Copy(p, i) == p \o <<<<"copy", i>>>>

\* the end of a farm: a custom one is a block of its own, else it belongs to the farm
EndCard(t, p, end) ==
    IF <<end>> \in KeysAt(t, p) THEN Card(p \o <<<<end>>>>, p \o <<<<end>>>>)
    ELSE Card(Extra(p, end), p)

\* the ids of a farm's workers, the one worker drawn several times in an all-to-all
WorkerIds(t, p) ==
    LET w == p \o <<<<"worker">>>>
    IN  IF Len(Workers(Sub(t, p))) > 1
        THEN {p \o <<<<"worker", i - 1>>>> : i \in DOMAIN Workers(Sub(t, p))}
        ELSE {w} \union {Copy(w, i) : i \in 1..ViewOf(t, p).reps - 1}

Middle(t, p) == t[p].merge /\ KeysAt(t, p) \intersect {<<"R">>, <<"G">>} # {}

FarmCards(t, p) ==
    {EndCard(t, p, end) : end \in {e \in {"emitter", "collector"} : ViewOf(t, p)[e]}} \union
    {Card(w, p \o <<<<"worker">>>>) : w \in {Copy(p \o <<<<"worker">>>>, i) :
                                      i \in 1..ViewOf(t, p).reps - 1} \intersect WorkerIds(t, p)}
\* mutant: the card stands for R, whether there is one or not
MiddleAtR(t, p) ==
    IF ~Middle(t, p) THEN {} ELSE {Card(Extra(p, "middle"), p \o <<<<"R">>>>)}
MiddleCards(t, p) ==
    IF ~Middle(t, p) THEN {}
    ELSE {Card(Extra(p, "middle"),
               p \o <<IF <<"R">> \in KeysAt(t, p) THEN <<"R">> ELSE <<"G">>>>)}

\* a list of one worker is drawn at the path of a single one
DrawnPath(t, p) ==
    IF p # Root /\ Last(p) = <<"worker", 0>> /\ Len(Workers(Sub(t, Front(p)))) = 1
    THEN Front(p) \o <<<<"worker">>>> ELSE p

Cards(t) ==
    {Card(DrawnPath(t, p), DrawnPath(t, p)) : p \in Drawn(t)
        \ (IF t[Root].type = "pipeline" THEN {Root} ELSE {})}
    \union UNION {FarmCards(t, p) : p \in {q \in Drawn(t) : t[q].type = "farm"}}
    \union UNION {MiddleCards(t, p) : p \in {q \in Drawn(t) : t[q].type = "all2all"}}

\* the cards an all-to-all's cross edges leave from, or arrive at
EndsOfSide(t, p) == IF t[p].type = "farm" THEN WorkerIds(t, p) ELSE {p}
FarmLinks(t, p) ==
    UNION {{<<EndCard(t, p, "emitter").id, w>> : w \in {v \in WorkerIds(t, p) : ViewOf(t, p).emitter}}
           \union {<<w, EndCard(t, p, "collector").id>> :
                      w \in {v \in WorkerIds(t, p) : ViewOf(t, p).collector}}}
CrossLinks(t, p) ==
    LET left == EndsOfSide(t, p \o <<<<"left">>>>)
        right == EndsOfSide(t, p \o <<<<"right">>>>)
    IN  IF Middle(t, p)
        THEN (left \X {Extra(p, "middle")}) \union ({Extra(p, "middle")} \X right)
        ELSE left \X right
Links(t) ==
    LET of(type) == {p \in Drawn(t) : t[p].type = type}
    IN  UNION {{<<p \o <<<<"stages", i - 1>>>>, p \o <<<<"stages", i>>>>>> :
                    i \in 1..Len(Stages(Sub(t, p))) - 1} : p \in of("pipeline")}
        \union UNION {FarmLinks(t, p) : p \in of("farm")}
        \union UNION {CrossLinks(t, p) : p \in of("all2all")}
        \union {<<p \o <<<<"inner">>>>, p \o <<<<"inner">>>>>> : p \in of("feedback")}

-----------------------------------------------------------------------------
(* What a person does.  The blocks are shown, not the threads, and the     *)
(* file can be modelled.                                                   *)

Plain(o, k) == Leaf(RefBlock(o, k))
Samples ==
    {PipelineBlock(1, <<Plain(2, "source"), FarmBlock(3, Plain(4, "node")), Plain(5, "sink")>>),
     FeedbackBlock(1, PipelineBlock(2, <<Plain(3, "node"), Plain(4, "node")>>)),
     PipelineBlock(1, <<Leaf(Block(2, "start")),
                        WithCross(All2AllBlock(3, Node(Block(4, "farm"),
                                      Listed("worker", <<Plain(5, "node"), Plain(6, "raw")>>)),
                                      FarmBlock(7, Plain(8, "sink"))), "G", TRUE, Plain(9, "node"))>>)}

Type(p) == tree[p].type

\* applyServerFlow, with a sidecar or without one
BlocksInit ==
    /\ tree \in Samples
    /\ positions = IF Type(Root) = "feedback" THEN Filled(tree, <<>>)
                   ELSE [i \in DOMAIN TopStages(tree) |->
                            [path |-> TopStages(tree)[i], place |-> <<"hand", i>>]]
    /\ selected = Nothing /\ lastSelected = Nothing /\ dropped = NoPlace
    /\ past = <<>> /\ future = <<>> /\ changes = 0 /\ backs = 0

Picked == selected # Nothing /\ selected \in DOMAIN tree     \* the panel shows a block

\* bound: a click while a change is left to make, and before anything is undone
MayClick == MayChange /\ backs = 0
Click ==
    /\ MayClick
    /\ \E c \in Cards(tree) : c.path # selected /\ Render(tree, positions, c.path, dropped)
    /\ UNCHANGED <<past, future, changes, backs>>
ClickPane ==
    /\ MayClick /\ selected # Nothing /\ Render(tree, positions, Nothing, dropped)
    /\ UNCHANGED <<past, future, changes, backs>>

\* only the cards at the top can be dragged; beginChange, then setPosition
Drag ==
    /\ MayChange
    /\ \E i \in DOMAIN TopStages(tree) :
          Render(tree, Put(positions, TopStages(tree)[i], <<"hand", Fresh>>), selected, dropped)
    /\ past' = Append(past, Snapshot) /\ future' = <<>>
    /\ changes' = changes + 1 /\ UNCHANGED backs

Tidy ==
    /\ MayChange /\ TopStages(tree) # <<>>
    /\ Render(tree, PutAll(positions, AutoLayout(tree)), selected, dropped)
    /\ past' = Append(past, Snapshot) /\ future' = <<>>
    /\ changes' = changes + 1 /\ UNCHANGED backs

\* appendBlock: a source first, a sink last, the rest in front of a last sink
\* mutant: the sink at the end is looked for in the last block itself
AppendIndexShallow(u) ==
    LET stages == IF Type(Root) = "pipeline" THEN Stages(tree) ELSE <<tree>>
        n == Len(stages)
        tailIsSink == n > 0 /\ stages[n][Root].kind = "sink"
    IN  IF TerminalKind(u, "first") = "source" THEN 0
        ELSE IF tailIsSink /\ TerminalKind(u, "last") # "sink" THEN n - 1 ELSE n
AppendIndex(u) ==
    LET stages == IF Type(Root) = "pipeline" THEN Stages(tree) ELSE <<tree>>
        n == Len(stages)
        tailIsSink == n > 0 /\ TerminalKind(stages[n], "last") = "sink"
    IN  IF TerminalKind(u, "first") = "source" THEN 0
        ELSE IF tailIsSink /\ TerminalKind(u, "last") # "sink" THEN n - 1 ELSE n

\* the palette: a click, or a drop at a place
AppendBlock(k, fell) ==
    LET u == Template(k, Fresh)
        i == AppendIndex(u)
    IN  /\ MayChange
        /\ Edit(IF Type(Root) = "pipeline" THEN InsertStage(tree, i, u)
                                           ELSE AppendStage(tree, u, Fresh + 9),
                <<<<"stages", i>>>>, fell)

Palette == \E k \in Kinds : AppendBlock(k, dropped)
Drop == \E k \in Kinds : AppendBlock(k, <<"hand", Fresh>>)

\* the Delete key, and the panel's button
\* mutant: what is deleted stays selected
DeleteKeeps ==
    /\ MayChange /\ Picked
    /\ Edit(RemoveBlockAt(tree, selected, Fresh), selected, dropped)
Delete ==
    /\ MayChange /\ Picked
    /\ Edit(RemoveBlockAt(tree, selected, Fresh), Nothing, dropped)

Wrap ==
    /\ MayChange /\ Picked
    /\ \/ Edit(UpdateAt(tree, selected, LAMBDA u : FarmBlock(Fresh, u)), selected, dropped)
       \/ Edit(UpdateAt(tree, selected, LAMBDA u : FeedbackBlock(Fresh, u)), selected, dropped)

Unwrap ==
    /\ MayChange /\ Picked /\ Type(selected) \in {"farm", "feedback", "pipeline"}
    /\ LET after == UpdateAt(tree, selected, LAMBDA u : Unwrapped(u, Fresh))
       IN  after # tree /\ Edit(after, selected, dropped)

\* the node pickers: of a node, of a comb's two, of R and G, of a farm's ends
Redefine ==
    /\ MayChange /\ Picked /\ Type(selected) = "ref"
    /\ \E k \in {"node", "sink"} :
          LET after == Graft(tree, selected, Plain(Fresh, k))
          IN  Edit(after, Follow(tree, after), dropped)

SetComb ==
    /\ MayChange /\ Picked /\ Type(selected) = "comb"
    /\ \E side \in {"first", "second"} :
          LET after == Graft(tree, selected \o <<<<side>>>>, Plain(Fresh, "node"))
          IN  Edit(after, Follow(tree, after), dropped)

SetEnd ==
    /\ MayChange /\ Picked /\ Type(selected) = "farm"
    /\ \E end \in {"emitter", "collector"}, how \in {"own", "off", "custom"} :
          LET after == Graft(tree, selected, WithEnd(Sub(tree, selected), end, how, Plain(Fresh, "node")))
          IN  Edit(after, Follow(tree, after), dropped)

SetCross ==
    /\ MayChange /\ Picked /\ Type(selected) = "all2all"
    /\ \E after \in {Graft(tree, selected, WithCross(Sub(tree, selected), which, some, Plain(Fresh, "node"))) :
                        which \in {"R", "G"}, some \in BOOLEAN}
                    \union {[tree EXCEPT ![selected].merge = ~@]} :
          Edit(after, Follow(tree, after), dropped)

Restore(s) == Render(s.tree, s.positions, s.selected, dropped)
UndoChange ==
    /\ backs < MaxBacks /\ backs' = backs + 1
    /\ past # <<>> /\ Restore(Last(past))
    /\ past' = Front(past) /\ future' = Append(future, Snapshot) /\ UNCHANGED changes
RedoChange ==
    /\ backs < MaxBacks /\ backs' = backs + 1
    /\ future # <<>> /\ Restore(Last(future))
    /\ future' = Front(future) /\ past' = Append(past, Snapshot) /\ UNCHANGED changes

BlocksNext ==
    \/ Click \/ ClickPane \/ Drag \/ Tidy \/ Palette \/ Drop \/ Delete \/ Wrap \/ Unwrap
    \/ Redefine \/ SetComb \/ SetEnd \/ SetCross \/ UndoChange \/ RedoChange

BlocksSpec == BlocksInit /\ [][BlocksNext]_blocksVars

-----------------------------------------------------------------------------
(* Properties.                                                             *)

Holds(type) ==          \* the children a block of this type always has
    CASE type = "comb" -> {<<"first">>, <<"second">>}
      [] type = "feedback" -> {<<"inner">>}
      [] type = "all2all" -> {<<"left">>, <<"right">>}
      [] OTHER -> {}

\* After any sequence of edits, undone and redone, the tree is one the code's types
\* allow: no block under a missing one, no gap in a list, every container with the
\* children it cannot be without, no block twice; and every card of the top row has
\* exactly one place, so that none lies in a pile at the origin (Canvas.tsx:196).
TreeSound ==
    /\ \A p \in DOMAIN tree : p # Root => Front(p) \in DOMAIN tree
    /\ \A p \in DOMAIN tree :
          LET t == Sub(tree, p)
          IN  /\ Holds(Type(p)) \subseteq Keys(t)
              /\ Type(p) = "farm" => Workers(t) # <<>>
              /\ \A k \in Keys(t) : Len(k) = 2 => k[2] < Len(Items(t, k[1]))
              /\ tree[p].emitter = "custom" <=> <<"emitter">> \in Keys(t)
              /\ tree[p].collector = "custom" <=> <<"collector">> \in Keys(t)
    /\ Cardinality({tree[p].obj : p \in DOMAIN tree}) = Cardinality(DOMAIN tree)
    /\ \A i \in DOMAIN TopStages(tree) : Cardinality(At(positions, TopStages(tree)[i])) = 1

\* A farm left with a list of one worker: its card has no block (buildGraph.ts:434).
ListOfOne ==
    \E p \in DOMAIN tree : Type(p) = "farm" /\ <<"worker", 0>> \in KeysAt(tree, p)
                           /\ Len(Workers(Sub(tree, p))) = 1

\* What is selected, by a click, by an edit, by following a card that moved, or by an
\* undo, is a block of the tree, and its panel can edit it (flow.ts:383, Properties.tsx:75).
SelectionSound == ~ListOfOne => selected \in DOMAIN tree \union {Nothing}

\* Every edge that is drawn joins two cards, and every card has an id of its own and
\* stands for a block (buildGraph.ts:5).
DrawnWhole ==
    ~ListOfOne =>
        LET cards == Cards(tree)
            ids == {c.id : c \in cards}
        IN  /\ \A l \in Links(tree) : {l[1], l[2]} \subseteq ids
            /\ \A c \in cards : c.path \in DOMAIN tree
            /\ Cardinality(ids) = Cardinality(cards)

\* what validate.ts says about the order of a row
InOrder(t) ==
    \A p \in DOMAIN t : t[p].type = "pipeline" =>
        LET stages == Stages(Sub(t, p))
        IN  \A i \in DOMAIN stages :
               /\ i < Len(stages) => TerminalKind(stages[i], "last") # "sink"
               /\ i > 1 => TerminalKind(stages[i], "first") # "source"

\* What the code leaves out of order: a second source or sink; and all that comes to a root
\* that is one block, which appendStageEdit puts behind it, a source too, even behind a sink.
OutOfPlace(u) ==
    LET first == TerminalKind(tree, "first") = "source"
        last == TerminalKind(tree, "last") = "sink"
        single == Type(Root) # "pipeline"
    IN  \/ TerminalKind(u, "last") = "sink" /\ last
        \/ TerminalKind(u, "first") = "source" /\ (first \/ single)
        \/ single /\ last

\* A block from the palette leaves a flow that can run one that can run: a source comes
\* first, a sink last, the rest in front of the sink at the end, however deep that sink
\* is, and whatever the row has become.  The code says so of every click (flow.ts:457);
\* OutOfPlace names the clicks it does not hold for.
AppendedInOrder ==
    [][changes' > changes /\ InOrder(tree) =>
          \A k \in Kinds :
             \/ OutOfPlace(Template(k, Fresh)) \/ InOrder(tree')
             \/ ~AppendBlock(k, dropped) /\ ~AppendBlock(k, <<"hand", Fresh>>)]_blocksVars
=============================================================================
