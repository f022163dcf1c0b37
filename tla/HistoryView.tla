------------------------------- MODULE HistoryView ------------------------------
(***************************************************************************)
(* What the editor knows of the open flow's history: the store two places  *)
(* read, the numbered questions that fill it, and the History panel, which *)
(* shows one version at a time and restores it.  A file's history is how   *)
(* many commits touched it, and whether it differs from the last of them.  *)
(***************************************************************************)
EXTENDS Integers, FiniteSets

CONSTANTS
    MaxWrites,     \* times a file is saved, restored or committed from a terminal
    MaxQuestions,  \* questions the store asks
    Wanders        \* whether another flow is opened while this one waits for git

ASSUME HistoryViewAssumption ==
    MaxWrites \in Nat /\ MaxQuestions \in Nat \ {0} /\ Wanders \in BOOLEAN

HistoryFlows == {"a", "b"}
NoHistory == [commits |-> 0, uncommitted |-> FALSE]

VARIABLES
    repo,       \* the workspace is a repository
    files,      \* each file's history
    writes,     \* the bound's counter
    editing,    \* the flow the editor page shows
    known,      \* the store: [path, status, has, loading, error]
    sequence,   \* the number of its last question
    inquiries,  \* those under way: [n, path, step, repo, has]
    changing,   \* saves, restores and initialisations under way: [what, path, step]
    reading,    \* versions the panel has asked for
    showing,    \* the one it shows, 0 for none
    unheard     \* the open flow was committed elsewhere, or changed by a request whose
                \* answer was lost, and has not been asked about since

historyVars == <<repo, files, writes, editing, known, sequence, inquiries, changing, reading,
                 showing, unheard>>
gitServer == <<repo, files, writes>>
historyPanel == <<reading, showing>>

\* refresh: what is shown of another flow goes at once
AskAgain(p) ==
    /\ sequence' = sequence + 1
    /\ inquiries' = inquiries \union {[n |-> sequence + 1, path |-> p, step |-> "status",
                                       repo |-> FALSE, has |-> NoHistory]}
    /\ known' = [known EXCEPT !.path = p, !.loading = TRUE, !.error = FALSE,
                              !.has = IF known.path = p THEN @ ELSE NoHistory]
    /\ unheard' = (unheard /\ p # editing)

HistoryInit ==
    /\ repo \in BOOLEAN /\ writes = 0 /\ editing = "a"
    /\ files \in [HistoryFlows -> IF repo THEN {[commits |-> 1, uncommitted |-> FALSE],
                                               [commits |-> 0, uncommitted |-> TRUE]}
                                 ELSE {NoHistory}]
    /\ known = [path |-> "a", status |-> "unknown", has |-> NoHistory, loading |-> TRUE,
                error |-> FALSE]
    /\ sequence = 1
    /\ inquiries = {[n |-> 1, path |-> "a", step |-> "status", repo |-> FALSE,
                     has |-> NoHistory]}
    /\ changing = {} /\ reading = {} /\ showing = 0 /\ unheard = FALSE

-----------------------------------------------------------------------------
(* The inquiries: the workspace's status, then the flow's commits.         *)

Moves(q, r) == inquiries' = (inquiries \ {q}) \union {r}

GitSaysStatus(q) ==
    /\ q.step = "status" /\ Moves(q, [q EXCEPT !.step = "status known", !.repo = repo])
    /\ UNCHANGED <<gitServer, editing, known, sequence, changing, historyPanel, unheard>>

GitLists(q) ==
    /\ q.step = "list" /\ Moves(q, [q EXCEPT !.step = "listed", !.has = files[q.path]])
    /\ UNCHANGED <<gitServer, editing, known, sequence, changing, historyPanel, unheard>>

\* mutant: an answer is taken for being about the flow that is open
CurrentByPath(q) == q.path = known.path
Current(q) == q.n = sequence

StatusLands(q) ==
    /\ q.step = "status known"
    /\ IF ~Current(q) THEN inquiries' = inquiries \ {q} /\ UNCHANGED known
       ELSE IF ~q.repo
       THEN /\ inquiries' = inquiries \ {q}
            /\ known' = [known EXCEPT !.status = "none", !.has = NoHistory, !.loading = FALSE]
       ELSE Moves(q, [q EXCEPT !.step = "list"]) /\ known' = [known EXCEPT !.status = "repo"]
    /\ UNCHANGED <<gitServer, editing, sequence, changing, historyPanel, unheard>>

HistoryLands(q) ==
    /\ q.step = "listed" /\ inquiries' = inquiries \ {q}
    /\ known' = IF Current(q) THEN [known EXCEPT !.has = q.has, !.loading = FALSE, !.error = FALSE]
                ELSE known
    /\ UNCHANGED <<gitServer, editing, sequence, changing, historyPanel, unheard>>

QuestionFails(q) ==
    /\ inquiries' = inquiries \ {q}
    /\ known' = IF Current(q) THEN [known EXCEPT !.loading = FALSE, !.error = TRUE] ELSE known
    /\ UNCHANGED <<gitServer, editing, sequence, changing, historyPanel, unheard>>

-----------------------------------------------------------------------------
(* The reader: another flow, a save, and the panel.                        *)

\* a fresh panel, and the store pointed at the flow now open
OpenFlow(p) ==
    /\ p # editing /\ (Wanders \/ \A c \in changing : c.what = "save")
    /\ sequence < MaxQuestions
    /\ editing' = p /\ reading' = {} /\ showing' = 0
    /\ sequence' = sequence + 1
    /\ inquiries' = inquiries \union {[n |-> sequence + 1, path |-> p, step |-> "status",
                                       repo |-> FALSE, has |-> NoHistory]}
    /\ known' = [path |-> p, status |-> known.status, has |-> NoHistory, loading |-> TRUE,
                 error |-> FALSE]
    /\ unheard' = FALSE
    /\ UNCHANGED <<gitServer, changing>>

\* the panel opening, and its refresh button
RefreshHistory ==
    /\ sequence < MaxQuestions /\ AskAgain(editing)
    /\ UNCHANGED <<gitServer, editing, changing, historyPanel>>

\* one of each at a time; a restore and an initialisation are the panel's own
Change(what) ==
    /\ \A c \in changing : c.what # what
    /\ what = "restore" => (repo /\ showing # 0)
    /\ what = "init" => (known.status = "none" /\ ~known.loading)
    /\ changing' = changing \union {[what |-> what, path |-> editing, step |-> "asked"]}
    /\ UNCHANGED <<gitServer, editing, known, sequence, inquiries, historyPanel, unheard>>

\* a save may commit; a restore writes the file and commits nothing; git init leaves
\* every file uncommitted
ServerChanges(c) ==
    /\ c.step = "asked" /\ writes < MaxWrites /\ writes' = writes + 1
    /\ changing' = (changing \ {c}) \union {[c EXCEPT !.step = "answered"]}
    /\ CASE c.what = "init" ->
              /\ repo' = TRUE
              /\ files' = [p \in HistoryFlows |->
                            IF repo THEN files[p] ELSE [commits |-> 0, uncommitted |-> TRUE]]
         [] c.what = "restore" ->
              \E dirty \in BOOLEAN : files' = [files EXCEPT ![c.path].uncommitted = dirty]
                                     /\ UNCHANGED repo
         [] c.what = "save" ->
              /\ UNCHANGED repo
              /\ \/ ~repo /\ UNCHANGED files
                 \/ repo /\ files' = [files EXCEPT ![c.path].uncommitted = TRUE]
                 \/ repo /\ files' = [files EXCEPT ![c.path] =
                                        [commits |-> @.commits + 1, uncommitted |-> FALSE]]
    /\ UNCHANGED <<editing, known, sequence, inquiries, historyPanel, unheard>>

\* a save asks about the flow the page shows (useFlowHistory); the panel about the flow
\* its button was pressed for, whether or not that is still open
ChangeLands(c) ==
    /\ c.step = "answered" /\ sequence < MaxQuestions /\ changing' = changing \ {c}
    /\ AskAgain(IF c.what = "save" THEN editing ELSE c.path)
    /\ reading' = reading
    /\ showing' = IF c.what = "restore" /\ c.path = editing THEN 0 ELSE showing
    /\ UNCHANGED <<gitServer, editing>>

\* refused, or never answered: the server may have done it, and nothing is asked about it
ChangeFails(c) ==
    /\ changing' = changing \ {c}
    /\ unheard' = (unheard \/ (c.step = "answered" /\ (c.path = editing \/ c.what = "init")))
    /\ UNCHANGED <<gitServer, editing, known, sequence, inquiries, historyPanel>>

CommitsElsewhere(p) ==
    /\ repo /\ writes < MaxWrites /\ writes' = writes + 1
    /\ files' = [files EXCEPT ![p] = [commits |-> @.commits + 1, uncommitted |-> FALSE]]
    /\ unheard' = (unheard \/ p = editing)
    /\ UNCHANGED <<repo, editing, known, sequence, inquiries, changing, historyPanel>>

ReadVersion(v) ==
    /\ v \in 1..known.has.commits /\ v \notin reading /\ reading' = reading \union {v}
    /\ UNCHANGED <<gitServer, editing, known, sequence, inquiries, changing, showing, unheard>>

\* answers land in any order: the last to land is the version shown
VersionLands(v) ==
    /\ v \in reading /\ reading' = reading \ {v} /\ showing' \in {v, showing}
    /\ UNCHANGED <<gitServer, editing, known, sequence, inquiries, changing, unheard>>

AllVersions ==
    /\ showing # 0 /\ showing' = 0
    /\ UNCHANGED <<gitServer, editing, known, sequence, inquiries, changing, reading, unheard>>

HistoryNext ==
    \/ \E q \in inquiries :
          GitSaysStatus(q) \/ GitLists(q) \/ StatusLands(q) \/ HistoryLands(q) \/ QuestionFails(q)
    \/ \E c \in changing : ServerChanges(c) \/ ChangeLands(c) \/ ChangeFails(c)
    \/ \E p \in HistoryFlows : OpenFlow(p) \/ CommitsElsewhere(p)
    \/ \E w \in {"save", "restore", "init"} : Change(w)
    \/ \E v \in 1..(MaxWrites + 1) : ReadVersion(v) \/ VersionLands(v)
    \/ RefreshHistory \/ AllVersions

HistorySpec == HistoryInit /\ [][HistoryNext]_historyVars

-----------------------------------------------------------------------------
\* The dot on Save and the list tell the truth about the flow that is open, once every
\* answer is in: `answers are numbered so a slow one for the flow that was open a moment
\* ago cannot land on top of the flow that is open now' (history/store.ts:66-67), nor a
\* slow one for this flow on top of what a save has changed since.  Left out until the
\* store asks again: a commit made elsewhere, and a save, a restore or an initialisation
\* the server has done and could not say so; those the editor takes for not done.
DotTruthful ==
    (inquiries = {} /\ changing = {} /\ ~known.error /\ ~unheard) =>
        /\ known.path = editing
        /\ known.has = IF repo THEN files[editing] ELSE NoHistory
=============================================================================
