-------------------------------- MODULE RunView ---------------------------------
(***************************************************************************)
(* A run as the editor watches it: the Run button, which saves, starts and *)
(* cancels; the socket that replays a run from its first event every time  *)
(* it connects; and the store in which the console, the problems and the   *)
(* report accumulate.  The server's runs are as the socket shows them.     *)
(***************************************************************************)
EXTENDS Integers, Sequences, SequencesExt

CONSTANTS
    MaxRuns,        \* runs asked for
    MaxPrints,      \* lines the first run prints; the n-th prints an n-th of them
    ConsoleLimit,   \* lines the console keeps: CONSOLE_LIMIT, 5000 in the code
    MayReturn       \* whether the editor is left and opened again on a run it has shown

ASSUME RunViewAssumption ==
    /\ MaxRuns \in Nat \ {0} /\ MaxPrints \in Nat
    /\ ConsoleLimit \in Nat \ {0} /\ MayReturn \in BOOLEAN

RunFlows == {"a", "b"}
Endings == {"done", "failed", "cancelled"}

VARIABLES
    page,      \* the flow the editor shows, or "away" on another page
    asked,     \* presses of Run not yet answered: [n, path, saved, mine]
    begun,     \* how many there were
    cancels,   \* cancellings asked for: [run, mine]; `mine' is this button's
    runs,      \* the server's runs: [flow, events, cancel, status]
    shown,     \* the run store
    watch      \* the hook's socket: [run, phase, at, finished, retried]

runViewVars == <<page, asked, begun, cancels, runs, shown, watch>>

NoRun == [id |-> 0, path |-> "none", status |-> "idle", lines |-> <<>>,
          problems |-> 0, connection |-> "idle"]
NoWatch == [run |-> 0, phase |-> "none", at |-> 0, finished |-> FALSE, retried |-> FALSE]

RunViewInit ==
    /\ page = "a" /\ asked = {} /\ begun = 0 /\ cancels = {} /\ runs = <<>>
    /\ shown = NoRun /\ watch = NoWatch

-----------------------------------------------------------------------------
(* The server: a run prints or fails, and has `done' for its last event.   *)
(* `final' is the progress snapshot that carries the last phase.            *)

Prints(r) == Len(SelectSeq(runs[r].events, LAMBDA e : e = "line"))
Ended(r) == "done" \in ToSet(runs[r].events)

Emits(r, es) == runs' = [runs EXCEPT ![r].events = @ \o es]
EndsWith(r, es, s) == runs' = [runs EXCEPT ![r].events = @ \o es, ![r].status = s]

RunGoesOn(r) ==
    /\ ~Ended(r)
    /\ IF runs[r].events = <<>> THEN Emits(r, <<"start">>)
       ELSE \/ Prints(r) < MaxPrints \div r /\ ~runs[r].cancel /\ Emits(r, <<"line">>)
            \/ ~runs[r].cancel /\ EndsWith(r, <<"final", "done">>, "done")
            \/ ~runs[r].cancel /\ EndsWith(r, <<"problem", "done">>, "failed")
            \/ runs[r].cancel /\ EndsWith(r, <<"done">>, "cancelled")
    /\ UNCHANGED <<page, asked, begun, cancels, shown, watch>>

-----------------------------------------------------------------------------
(* The store (store/run.ts).                                               *)

\* appendLines: the oldest lines give way
Appended(s, line) ==
    LET all  == Append(s.lines, line)
        over == Len(all) - ConsoleLimit
    IN  IF over > 0
        THEN [s EXCEPT !.lines = SubSeq(all, over + 1, Len(all))]
        ELSE [s EXCEPT !.lines = all]

\* mutant: the end of a run only reaches the status through a progress snapshot
AppliedByProgress(s, run, at) ==
    CASE run.events[at] = "start" -> [s EXCEPT !.status = "running"]
      [] run.events[at] = "line" -> Appended(s, at)
      [] run.events[at] = "final" ->
            IF s.status = "running" THEN [s EXCEPT !.status = run.status] ELSE s
      [] run.events[at] = "problem" -> [s EXCEPT !.problems = @ + 1]
      [] OTHER -> s

\* applyEvent; a line is known by its place in the run
Applied(s, run, at) ==
    CASE run.events[at] = "start" -> [s EXCEPT !.status = "running"]
      [] run.events[at] = "line" -> Appended(s, at)
      [] run.events[at] = "final" ->
            IF s.status = "running" THEN [s EXCEPT !.status = run.status] ELSE s
      [] run.events[at] = "problem" -> [s EXCEPT !.problems = @ + 1]
      [] run.events[at] = "done" -> [s EXCEPT !.status = run.status]

\* mutant: the console is kept when the socket comes back
RewoundKeeping(s) == [s EXCEPT !.problems = 0]
Rewound(s) == [s EXCEPT !.lines = <<>>, !.problems = 0]

Started(id, path) ==
    [NoRun EXCEPT !.id = id, !.path = path, !.status = "running", !.connection = "connecting"]

ClearConsole ==
    /\ page # "away" /\ shown.lines # <<>>
    /\ shown' = [shown EXCEPT !.lines = <<>>]
    /\ UNCHANGED <<page, asked, begun, cancels, runs, watch>>

-----------------------------------------------------------------------------
(* The socket (hooks/useRunEvents.ts), alive while the button is mounted.  *)

\* what the hook's effect does when the run it watches is another one
Watching(id) == IF id = 0 THEN NoWatch ELSE [NoWatch EXCEPT !.run = id, !.phase = "open"]

EventArrives ==
    /\ watch.phase = "open" /\ watch.at < Len(runs[watch.run].events)
    /\ LET at == watch.at + 1
       IN  /\ shown' = [Applied(shown, runs[watch.run], at) EXCEPT !.connection = "open"]
           /\ watch' = [watch EXCEPT !.at = at,
                           !.finished = @ \/ runs[watch.run].events[at] = "done"]
    /\ UNCHANGED <<page, asked, begun, cancels, runs>>

\* the server's end of the run, or a drop: one is retried, the next is not
SocketCloses ==
    /\ watch.phase = "open"
    /\ watch' = IF watch.finished \/ watch.retried
                THEN [watch EXCEPT !.phase = "over"]
                ELSE [watch EXCEPT !.phase = "waiting", !.retried = TRUE]
    /\ shown' = [shown EXCEPT !.connection = "closed"]
    /\ UNCHANGED <<page, asked, begun, cancels, runs>>

\* connect(true): the console is emptied, and the run arrives from its start
Reconnects ==
    /\ watch.phase = "waiting"
    /\ watch' = [watch EXCEPT !.phase = "open", !.at = 0]
    /\ shown' = [Rewound(shown) EXCEPT !.connection = "connecting"]
    /\ UNCHANGED <<page, asked, begun, cancels, runs>>

-----------------------------------------------------------------------------
(* The button (run/RunButton.tsx).                                         *)

Busy == (\E a \in asked : a.mine) \/ (\E c \in cancels : c.mine)

\* the button, Cmd/Ctrl+Enter or the palette, whose `run' does not ask whether a run
\* is going; an unsaved flow is saved first
Begin ==
    /\ page # "away" /\ ~Busy /\ begun < MaxRuns /\ begun' = begun + 1
    /\ \E saved \in BOOLEAN :
          asked' = asked \union
                     {[n |-> begun + 1, path |-> page, saved |-> saved, mine |-> TRUE]}
    /\ UNCHANGED <<page, cancels, runs, shown, watch>>

\* a flow still dirty was not saved, and is not run
SaveEnds ==
    \E a \in asked :
        /\ ~a.saved
        /\ \/ asked' = (asked \ {a}) \union {[a EXCEPT !.saved = TRUE]}
           \/ asked' = asked \ {a}
        /\ UNCHANGED <<page, begun, cancels, runs, shown, watch>>

\* the run is put in the store whatever the editor shows by now; its socket opens
\* if a button is there to open it
StartAnswered ==
    \E a \in asked :
        /\ a.saved /\ asked' = asked \ {a}
        /\ runs' = Append(runs, [flow |-> a.path, events |-> <<>>, cancel |-> FALSE,
                                 status |-> "running"])
        /\ shown' = Started(Len(runs) + 1, a.path)
        /\ watch' = IF page = "away" THEN NoWatch ELSE Watching(Len(runs) + 1)
        /\ UNCHANGED <<page, begun, cancels>>

\* too many runs, a broken file or no server
StartRefused ==
    \E a \in asked :
        /\ a.saved /\ asked' = asked \ {a}
        /\ UNCHANGED <<page, begun, cancels, runs, shown, watch>>

Stop ==
    /\ page # "away" /\ ~Busy /\ shown.id # 0 /\ shown.status = "running"
    /\ cancels' = cancels \union {[run |-> shown.id, mine |-> TRUE]}
    /\ UNCHANGED <<page, asked, begun, runs, shown, watch>>

\* the run's own `done' event is what moves the button
StopAnswered ==
    \E c \in cancels :
        /\ cancels' = cancels \ {c}
        /\ runs' = IF Ended(c.run) THEN runs ELSE [runs EXCEPT ![c.run].cancel = TRUE]
        /\ UNCHANGED <<page, asked, begun, shown, watch>>

\* Another flow: the run on screen is not its own.  The page is the same, so what the
\* button was doing goes on, for the flow it was pressed for.
Switch(p) ==
    /\ page \in RunFlows \ {p} /\ page' = p
    /\ IF shown.path \in {"none", p} THEN UNCHANGED <<shown, watch>>
       ELSE shown' = NoRun /\ watch' = NoWatch
    /\ UNCHANGED <<asked, begun, cancels, runs>>

LeaveEditor ==
    /\ page # "away" /\ page' = "away"
    /\ watch' = NoWatch /\ shown' = [shown EXCEPT !.connection = "idle"]
    /\ asked' = {[a EXCEPT !.mine = FALSE] : a \in asked}
    /\ cancels' = {[c EXCEPT !.mine = FALSE] : c \in cancels}
    /\ UNCHANGED <<begun, runs>>

\* the button is mounted anew: its socket connects, and nothing is rewound
OpenEditor(p) ==
    /\ page = "away" /\ page' = p
    /\ MayReturn \/ shown.path # p \/ (shown.lines = <<>> /\ shown.problems = 0)
    /\ IF shown.path \in {"none", p}
       THEN watch' = Watching(shown.id) /\ UNCHANGED shown
       ELSE shown' = NoRun /\ watch' = NoWatch
    /\ UNCHANGED <<asked, begun, cancels, runs>>

RunViewNext ==
    \/ \E r \in DOMAIN runs : RunGoesOn(r)
    \/ EventArrives \/ SocketCloses \/ Reconnects \/ ClearConsole
    \/ Begin \/ SaveEnds \/ StartAnswered \/ StartRefused \/ Stop \/ StopAnswered
    \/ LeaveEditor
    \/ \E p \in RunFlows : Switch(p) \/ OpenEditor(p)

\* a run goes on to its end, what it says arrives, and a timer fires
RunViewFairness ==
    /\ \A r \in 1..MaxRuns : WF_runViewVars(r \in DOMAIN runs /\ RunGoesOn(r))
    /\ WF_runViewVars(EventArrives) /\ WF_runViewVars(Reconnects)

RunViewSpec == RunViewInit /\ [][RunViewNext]_runViewVars /\ RunViewFairness

-----------------------------------------------------------------------------
(* What watching a run promises.                                           *)

\* the lines among the run's events that came to this page after the first `from' of them
LinesAfter(from) == {i \in from + 1..watch.at : runs[watch.run].events[i] = "line"}

\* The console and the problems are what the run has said since its start, each once
\* and in order; the oldest lines may have given way, or been cleared.  Not claimed of a
\* reader who comes back to a run the store still holds (MayReturn), whose console the
\* first connection does not empty.  The socket
\* `replays a run from its first event whenever it reconnects, so the console, the
\* problems and the report are emptied first and arrive again in order, rather than
\* twice' (store/run.ts:400-404).
ConsoleOnce ==
    watch.run # 0 =>
        /\ \E from \in 0..watch.at : ToSet(shown.lines) = LinesAfter(from)
        /\ \A i, j \in DOMAIN shown.lines : i < j => shown.lines[i] < shown.lines[j]
        /\ shown.problems <= 1

\* A run on screen does not go on saying `running' for ever: its end reaches the
\* button, unless the socket dropped twice, in which case the drawer says so
\* (useRunEvents.ts:10-12), or the reader has gone to something else.
RunSettles ==
    \A r \in 1..MaxRuns :
        (watch.run = r /\ shown.status = "running")
            ~> \/ watch.run # r
               \/ shown.status # "running"
               \/ watch.phase = "over" /\ ~watch.finished
=============================================================================
