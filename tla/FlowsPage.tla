-------------------------------- MODULE FlowsPage -------------------------------
(***************************************************************************)
(* The Flows page: the flow files of the workspace, and the dialogs that   *)
(* create one (from a template, or to be described to the AI builder),     *)
(* rename one and delete one.  A flow is known by the number it was made   *)
(* under, its layout sidecar by the flow it was drawn for.  An editor, and *)
(* somebody else, may be at work on the same files.                        *)
(***************************************************************************)
EXTENDS Integers, FiniteSets

CONSTANTS
    MaxMade,      \* flows ever made, the one there at first included
    MaxDeeds,     \* files created, renamed and deleted from this page
    MaxElsewhere, \* and elsewhere
    Lingers       \* whether an editor saves a layout after its flow has been moved away

ASSUME FlowsPageAssumption ==
    /\ MaxMade \in Nat \ {0} /\ MaxDeeds \in Nat /\ MaxElsewhere \in Nat
    /\ Lingers \in BOOLEAN

Paths == {"a", "b"}

VARIABLES
    flowAt,       \* the flow at each path of the workspace, 0 where there is none
    sidecars,    \* the flow each layout sidecar was drawn for, 0 where there is none
    made,        \* flows made so far
    deleted,     \* flows that somebody deleted
    listedFlows, \* the page's rows: [known, has]
    asksFlows,   \* the request for the list that counts: [step, got]
    flowDialog,  \* the dialog on screen: [kind, path]
    flowDeed,    \* the request under way: [what, path, to, step]
    deeds,       \* the bounds' counters: here and elsewhere
    onPage,      \* whether the page is the one on screen
    drawing,     \* the flow an editor has open: [path, flow]
    toldApart    \* what the page cannot know: changes made elsewhere, answers lost

flowsVars == <<flowAt, sidecars, made, deleted, listedFlows, asksFlows, flowDialog, flowDeed,
               deeds, onPage, drawing, toldApart>>
workspace == <<flowAt, sidecars, made, deleted>>
listOfFlows == <<listedFlows, asksFlows>>

NoFlows == [known |-> FALSE, has |-> {}]
NoDialog == [kind |-> "none", path |-> "a"]
NoDeed == [what |-> "none", path |-> "a", to |-> "a", step |-> "none"]
NotAskedFor == [step |-> "none", got |-> {}]
AskFlows == asksFlows' = [step |-> "asked", got |-> {}]

FlowsInit ==
    /\ flowAt = [p \in Paths |-> IF p = "a" THEN 1 ELSE 0]
    /\ sidecars = [p \in Paths |-> 0] /\ made = 1 /\ deleted = {}
    /\ listedFlows = NoFlows /\ asksFlows = [step |-> "asked", got |-> {}]
    /\ flowDialog = NoDialog /\ flowDeed = NoDeed /\ deeds = [here |-> 0, elsewhere |-> 0]
    /\ onPage = TRUE /\ drawing = [path |-> "a", flow |-> 1] /\ toldApart = FALSE

-----------------------------------------------------------------------------
(* The server: a handler runs to its end before another begins.            *)

There(p) == flowAt[p] # 0

\* what the handler of a deed makes of the workspace; refused, it touches nothing
Create(p) ==
    /\ ~There(p) /\ made < MaxMade
    /\ made' = made + 1 /\ flowAt' = [flowAt EXCEPT ![p] = made + 1]
    /\ UNCHANGED <<sidecars, deleted>>

\* mutant: the sidecar stays behind
RenameFileOnly(p, to) ==
    /\ There(p) /\ ~There(to)
    /\ flowAt' = [flowAt EXCEPT ![p] = 0, ![to] = flowAt[p]]
    /\ UNCHANGED <<sidecars, made, deleted>>
\* the file, and the sidecar if there is one
Rename(p, to) ==
    /\ There(p) /\ ~There(to)
    /\ flowAt' = [flowAt EXCEPT ![p] = 0, ![to] = flowAt[p]]
    /\ sidecars' = [sidecars EXCEPT ![p] = 0, ![to] = IF sidecars[p] = 0 THEN @ ELSE sidecars[p]]
    /\ UNCHANGED <<made, deleted>>

DeleteFlow(p) ==
    /\ There(p) /\ deleted' = deleted \union {flowAt[p]}
    /\ flowAt' = [flowAt EXCEPT ![p] = 0] /\ sidecars' = [sidecars EXCEPT ![p] = 0]
    /\ UNCHANGED made

Does(what, p, to) ==
    \/ what = "create" /\ Create(p)
    \/ what = "rename" /\ Rename(p, to)
    \/ what = "delete" /\ DeleteFlow(p)

ServerDoes ==
    /\ flowDeed.step = "asked" /\ Does(flowDeed.what, flowDeed.path, flowDeed.to)
    /\ flowDeed' = [flowDeed EXCEPT !.step = "done"]
    /\ UNCHANGED <<listOfFlows, flowDialog, deeds, onPage, drawing, toldApart>>

\* another browser, or the command line on a workspace the server checks alike
DoneElsewhere(what, p, to) ==
    /\ deeds.elsewhere < MaxElsewhere /\ deeds' = [deeds EXCEPT !.elsewhere = @ + 1]
    /\ Does(what, p, to) /\ toldApart' = TRUE
    /\ UNCHANGED <<listOfFlows, flowDialog, flowDeed, onPage, drawing>>

\* an editor somewhere opens a flow, and saves its layout to the path it opened it at
EditorOpens(p) ==
    /\ There(p) /\ drawing.flow # flowAt[p] /\ drawing' = [path |-> p, flow |-> flowAt[p]]
    /\ UNCHANGED <<workspace, listOfFlows, flowDialog, flowDeed, deeds, onPage, toldApart>>

\* the source is saved to that path too: with no file there, a flow of that name begins
SaveSource ==
    /\ ~There(drawing.path) /\ Create(drawing.path)
    /\ drawing' = [drawing EXCEPT !.flow = made'] /\ toldApart' = TRUE
    /\ UNCHANGED <<listOfFlows, flowDialog, flowDeed, deeds, onPage>>

SaveLayout ==
    /\ There(drawing.path) /\ (Lingers \/ flowAt[drawing.path] = drawing.flow)
    /\ sidecars' = [sidecars EXCEPT ![drawing.path] = drawing.flow]
    /\ UNCHANGED <<flowAt, made, deleted, listOfFlows, flowDialog, flowDeed, deeds, onPage,
                   drawing, toldApart>>

ServerListsFlows ==
    /\ asksFlows.step = "asked" /\ toldApart' = FALSE
    /\ asksFlows' = [step |-> "answered", got |-> {p \in Paths : There(p)}]
    /\ UNCHANGED <<workspace, listedFlows, flowDialog, flowDeed, deeds, onPage, drawing>>

-----------------------------------------------------------------------------
(* The page.                                                               *)

FlowsLand ==
    /\ asksFlows.step = "answered" /\ asksFlows' = NotAskedFor
    /\ listedFlows' = [known |-> TRUE, has |-> asksFlows.got]
    /\ UNCHANGED <<workspace, flowDialog, flowDeed, deeds, onPage, drawing, toldApart>>

FlowsFail ==
    /\ asksFlows.step # "none" /\ asksFlows' = NotAskedFor /\ listedFlows' = NoFlows
    /\ UNCHANGED <<workspace, flowDialog, flowDeed, deeds, onPage, drawing, toldApart>>

ListAgain ==
    /\ onPage /\ ~listedFlows.known /\ asksFlows.step = "none" /\ AskFlows
    /\ UNCHANGED <<workspace, listedFlows, flowDialog, flowDeed, deeds, onPage, drawing, toldApart>>

Dialog(kind, p) ==
    /\ onPage /\ flowDialog.kind = "none" /\ flowDialog' = [kind |-> kind, path |-> p]
    /\ UNCHANGED <<workspace, listOfFlows, flowDeed, deeds, onPage, drawing, toldApart>>

\* `New flow', `Build with AI' and the palette, whatever is under way
NewFlow == Dialog("new", "a")
\* a row's buttons are held while anything is
RenameRow(p) == p \in listedFlows.has /\ flowDeed = NoDeed /\ Dialog("rename", p)
DeleteRow(p) == p \in listedFlows.has /\ flowDeed = NoDeed /\ Dialog("delete", p)

\* Cancel, or Escape while the request goes on
CloseDialog ==
    /\ flowDialog.kind # "none" /\ flowDialog' = NoDialog
    /\ UNCHANGED <<workspace, listOfFlows, flowDeed, deeds, onPage, drawing, toldApart>>

Deed(what, p, to) ==
    /\ flowDeed = NoDeed /\ deeds.here < MaxDeeds /\ deeds' = [deeds EXCEPT !.here = @ + 1]
    /\ flowDeed' = [what |-> what, path |-> p, to |-> to, step |-> "asked"]
    /\ UNCHANGED <<workspace, listOfFlows, flowDialog, onPage, drawing, toldApart>>

\* the paths the page knows of are refused before they are asked for
SubmitNew(p) == flowDialog.kind = "new" /\ p \notin listedFlows.has /\ Deed("create", p, p)
SubmitRename(to) ==
    /\ flowDialog.kind = "rename" /\ (to = flowDialog.path \/ to \notin listedFlows.has)
    /\ Deed("rename", flowDialog.path, to)
SubmitDelete ==
    flowDialog.kind = "delete" /\ Deed("delete", flowDialog.path, flowDialog.path)

\* a new flow is opened in the editor, wherever the user is by now; its description, if it
\* has one, is primed for the AI panel there (Prime, in AiThread)
CreateDone ==
    /\ flowDeed.step = "done" /\ flowDeed.what = "create" /\ flowDeed' = NoDeed
    /\ onPage' = FALSE /\ flowDialog' = NoDialog /\ drawing' = [path |-> flowDeed.path,
                                                              flow |-> flowAt[flowDeed.path]]
    /\ listedFlows' = NoFlows /\ asksFlows' = NotAskedFor
    /\ UNCHANGED <<workspace, deeds, toldApart>>

\* a reload, and the dialog of that kind is closed, whichever row it is about by now
RenameOrDeleteDone ==
    /\ flowDeed.step = "done" /\ flowDeed.what # "create" /\ flowDeed' = NoDeed /\ AskFlows
    /\ flowDialog' = IF flowDialog.kind = flowDeed.what THEN NoDialog ELSE flowDialog
    /\ UNCHANGED <<workspace, listedFlows, deeds, onPage, drawing, toldApart>>

\* refused, or the answer was lost: the dialog says so
DeedFails ==
    /\ flowDeed # NoDeed /\ flowDeed' = NoDeed
    /\ toldApart' = (toldApart \/ flowDeed.step = "done")
    /\ UNCHANGED <<workspace, listOfFlows, flowDialog, deeds, onPage, drawing>>

\* back from the editor: the page begins anew
ComeBack ==
    /\ ~onPage /\ onPage' = TRUE /\ AskFlows
    /\ UNCHANGED <<workspace, listedFlows, flowDialog, flowDeed, deeds, drawing, toldApart>>

FlowsNext ==
    \/ ServerDoes \/ SaveSource \/ SaveLayout \/ ServerListsFlows \/ FlowsLand \/ FlowsFail \/ ListAgain
    \/ NewFlow \/ CloseDialog \/ SubmitDelete \/ CreateDone \/ RenameOrDeleteDone \/ DeedFails
    \/ ComeBack
    \/ \E p \in Paths : EditorOpens(p) \/ RenameRow(p) \/ DeleteRow(p) \/ SubmitRename(p) \/ SubmitNew(p)
    \/ \E p, q \in Paths, what \in {"create", "rename", "delete"} : DoneElsewhere(what, p, q)

FlowsSpec == FlowsInit /\ [][FlowsNext]_flowsVars

-----------------------------------------------------------------------------
\* Whatever is renamed, created and deleted here and elsewhere, from lists that are out of
\* date: a flow stays in the workspace until somebody deletes it, `the layout sidecar moves
\* with the file' (NewFlowDialog.tsx:217) so that no flow is drawn by another's, and once
\* the answers are in the page lists the files there are.
FlowsKept ==
    /\ {flowAt[p] : p \in Paths} \ {0} = (1..made) \ deleted
    /\ \A p \in Paths : sidecars[p] \in {0, flowAt[p]}
    /\ flowDeed = NoDeed /\ asksFlows = NotAskedFor /\ listedFlows.known /\ ~toldApart =>
          listedFlows.has = {p \in Paths : There(p)}
=============================================================================
