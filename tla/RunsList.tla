-------------------------------- MODULE RunsList --------------------------------
(***************************************************************************)
(* The Runs page: the list it asks for again and again while something in  *)
(* it is going, the fuller row it asks for when one is opened, and the     *)
(* buttons that start a run again and stop one.  The server's runs go on   *)
(* by themselves, and may be started from elsewhere.                       *)
(***************************************************************************)
EXTENDS Integers, Sequences, FiniteSets

CONSTANTS
    MaxListed,     \* runs the server comes to have
    MaxListFails   \* lists it fails to give

ASSUME RunsListAssumption == MaxListed \in Nat \ {0} /\ MaxListFails \in Nat

VARIABLES
    ran,        \* the server's runs, by number: going, stopping or ended
    rows,       \* the page's: [known, has], `has' a function from numbers
    listing,    \* the request for the list that counts: [step, got]
    opened,     \* the run in the dialog, 0 for none
    detail,     \* the request for its row
    acting,     \* the buttons' requests: [what, run]
    reloads,    \* a reload asked for 400 ms after a run was stopped
    fails       \* the bound's counter

runsListVars == <<ran, rows, listing, opened, detail, acting, reloads, fails>>

NoList == [known |-> FALSE, has |-> <<>>]
Idle == [step |-> "none", got |-> <<>>]
Requested == [step |-> "asked", got |-> <<>>]
RequestedRow(r) == [step |-> "asked", run |-> r, got |-> "none"]
NoDetail == [step |-> "none", run |-> 0, got |-> "none"]

\* what GET /api/runs says of a run
StatusOf(r) == IF ran[r] = "ended" THEN "ended" ELSE "running"

RunsListInit ==
    /\ ran = <<>> /\ rows = NoList /\ listing = Requested /\ opened = 0
    /\ detail = NoDetail /\ acting = {} /\ reloads = FALSE /\ fails = 0

-----------------------------------------------------------------------------
(* The server.                                                             *)

\* from the editor, a schedule or another browser
StartsElsewhere ==
    /\ Len(ran) < MaxListed /\ ran' = Append(ran, "going")
    /\ UNCHANGED <<rows, listing, opened, detail, acting, reloads, fails>>

RunEnds(r) ==
    /\ r \in DOMAIN ran /\ ran[r] # "ended" /\ ran' = [ran EXCEPT ![r] = "ended"]
    /\ UNCHANGED <<rows, listing, opened, detail, acting, reloads, fails>>

ServerLists ==
    /\ listing.step = "asked"
    /\ listing' = [step |-> "answered", got |-> [r \in DOMAIN ran |-> StatusOf(r)]]
    /\ UNCHANGED <<ran, rows, opened, detail, acting, reloads, fails>>

ServerGivesRow ==
    /\ detail.step = "asked"
    /\ detail' = [detail EXCEPT !.step = "answered", !.got = StatusOf(detail.run)]
    /\ UNCHANGED <<ran, rows, listing, opened, acting, reloads, fails>>

-----------------------------------------------------------------------------
(* The list.  A reload cancels the request before it, whose answer is then *)
(* ignored.                                                                *)

ListLands ==
    /\ listing.step = "answered" /\ listing' = Idle
    /\ rows' = [known |-> TRUE, has |-> listing.got]
    /\ UNCHANGED <<ran, opened, detail, acting, reloads, fails>>

\* the rows go, and with them the dialog and the polling; `Try again' is Refresh
ListFails ==
    /\ listing.step # "none" /\ fails < MaxListFails /\ fails' = fails + 1
    /\ listing' = Idle /\ rows' = NoList
    /\ UNCHANGED <<ran, opened, detail, acting, reloads>>

Live == \E r \in DOMAIN rows.has : rows.has[r] = "running"

\* mutant: no polling while a run is open in the dialog
PollUnlessOpened ==
    /\ Live /\ opened = 0 /\ listing' = Requested
    /\ UNCHANGED <<ran, rows, opened, detail, acting, reloads, fails>>

Poll ==
    /\ Live /\ listing' = Requested
    /\ UNCHANGED <<ran, rows, opened, detail, acting, reloads, fails>>

Refresh ==
    /\ listing' = Requested
    /\ UNCHANGED <<ran, rows, opened, detail, acting, reloads, fails>>

-----------------------------------------------------------------------------
(* The dialog and the buttons.                                             *)

Open(r) ==
    /\ r \in DOMAIN rows.has /\ opened # r /\ opened' = r /\ detail' = RequestedRow(r)
    /\ UNCHANGED <<ran, rows, listing, acting, reloads, fails>>

Close ==
    /\ opened \in DOMAIN rows.has /\ opened' = 0 /\ detail' = NoDetail
    /\ UNCHANGED <<ran, rows, listing, acting, reloads, fails>>

\* the row with the log takes the place of the one of that number, if there is one:
\* it may be older than the list it lands in
DetailLands ==
    /\ detail.step = "answered" /\ detail' = NoDetail
    /\ rows' = [rows EXCEPT
                  !.known = TRUE,
                  !.has = [r \in DOMAIN @ |-> IF r = detail.run THEN detail.got ELSE @[r]]]
    /\ UNCHANGED <<ran, listing, opened, acting, reloads, fails>>

DetailFails ==
    /\ detail.step # "none" /\ detail' = NoDetail
    /\ UNCHANGED <<ran, rows, listing, opened, acting, reloads, fails>>

\* One request of the buttons at a time, which is a bound: the page holds those of the row
\* pressed last (`busyId'), and another row's could be pressed meanwhile.
PressRerun(r) ==
    /\ r \in DOMAIN rows.has /\ acting = {}
    /\ acting' = {[what |-> "rerun", run |-> r]}
    /\ UNCHANGED <<ran, rows, listing, opened, detail, reloads, fails>>

RerunAnswered ==
    \E a \in acting :
        /\ a.what = "rerun" /\ acting' = {}
        /\ \/ /\ Len(ran) < MaxListed /\ ran' = Append(ran, "going")
              /\ opened' = 0 /\ detail' = NoDetail /\ listing' = Requested
           \/ UNCHANGED <<ran, opened, detail, listing>>
        /\ UNCHANGED <<rows, reloads, fails>>

PressStop(r) ==
    /\ r \in DOMAIN rows.has /\ rows.has[r] = "running" /\ acting = {}
    /\ acting' = {[what |-> "stop", run |-> r]}
    /\ UNCHANGED <<ran, rows, listing, opened, detail, reloads, fails>>

\* a run that is over is returned as it is, and the reload asked for all the same, unless
\* the request failed, before or after the server had it
StopRunAnswered ==
    \E a \in acting :
        /\ a.what = "stop" /\ acting' = {}
        /\ ran' \in {ran, [ran EXCEPT ![a.run] = IF @ = "ended" THEN @ ELSE "stopping"]}
        /\ reloads' \in {reloads, TRUE}
        /\ UNCHANGED <<rows, listing, opened, detail, fails>>

ReloadAfterStop ==
    /\ reloads /\ reloads' = FALSE /\ listing' = Requested
    /\ UNCHANGED <<ran, rows, opened, detail, acting, fails>>

RunsListNext ==
    \/ StartsElsewhere \/ ServerLists \/ ServerGivesRow
    \/ ListLands \/ ListFails \/ Poll \/ Refresh \/ Close \/ DetailLands \/ DetailFails
    \/ RerunAnswered \/ StopRunAnswered \/ ReloadAfterStop
    \/ \E r \in 1..MaxListed : RunEnds(r) \/ Open(r) \/ PressRerun(r) \/ PressStop(r)

\* The timer fires and the server answers; and it is not slower than the poll for ever,
\* which cancels the answer it has not had.
RunsListFairness ==
    /\ WF_runsListVars(Poll)
    /\ SF_runsListVars(ServerLists) /\ SF_runsListVars(ListLands)

RunsListSpec == RunsListInit /\ [][RunsListNext]_runsListVars /\ RunsListFairness

-----------------------------------------------------------------------------
\* A run that has ended is shown to have: what the page says is going, when it is over,
\* is corrected without the reader, unless a list could not be had, and then
\* the page says so.  `While something is going, keep asking; when nothing is, stop
\* entirely' (RunsPage.tsx:95): stopping must never leave a row behind.
EndedShown ==
    \A r \in 1..MaxListed :
        (r \in DOMAIN ran /\ ran[r] = "ended" /\ r \in DOMAIN rows.has
            /\ rows.has[r] = "running")
        ~> (r \notin DOMAIN rows.has \/ rows.has[r] = "ended")
=============================================================================
