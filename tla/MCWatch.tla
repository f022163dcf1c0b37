--------------------------------- MODULE MCWatch ---------------------------------
(***************************************************************************)
(* The two places a run is watched from, the editor and the Runs page:     *)
(* pages of one application of which one is open at a time.                *)
(***************************************************************************)
EXTENDS RunView, RunsList

VARIABLE part      \* the page that is open

watchVars == <<part, runViewVars, runsListVars>>

WatchInit == part \in {"editor", "runs"} /\ RunViewInit /\ RunsListInit

WatchNext ==
    \/ part = "editor" /\ RunViewNext /\ UNCHANGED <<part, runsListVars>>
    \/ part = "runs" /\ RunsListNext /\ UNCHANGED <<part, runViewVars>>

\* RunViewFairness and RunsListFairness, each in the behaviours of its page
WatchFairness ==
    /\ \A r \in 1..MaxRuns :
          WF_runViewVars(part = "editor" /\ r \in DOMAIN runs /\ RunGoesOn(r))
    /\ WF_runViewVars(part = "editor" /\ EventArrives)
    /\ WF_runViewVars(part = "editor" /\ Reconnects)
    /\ WF_runsListVars(part = "runs" /\ Poll)
    /\ SF_runsListVars(part = "runs" /\ ServerLists)
    /\ SF_runsListVars(part = "runs" /\ ListLands)

WatchSpec == WatchInit /\ [][WatchNext]_watchVars /\ WatchFairness
=============================================================================
