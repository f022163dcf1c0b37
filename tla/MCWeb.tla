---------------------------------- MODULE MCWeb ----------------------------------
(***************************************************************************)
(* The browser's parts side by side, each a small instance of its own.     *)
(* They are parts of one page that share no state, so one of them moves in *)
(* a behaviour and the others stay where they begin: the interleavings of  *)
(* two of them would say nothing either one does not.                      *)
(***************************************************************************)
EXTENDS Blocks, FarmPanel, AiThread, Session, SettingsForm, HistoryView, ScheduleForm,
        UsersPage, FlowsPage

VARIABLE part      \* the part that moves

webVars == <<part, blocksVars, farm, aiThreadVars, sessionVars, settingsFormVars, historyVars,
             scheduleVars, usersVars, flowsVars>>

\* a flow of one node, which nobody edits
BlocksStill ==
    /\ tree = Plain(1, "node") /\ positions = Filled(tree, <<>>)
    /\ selected = Nothing /\ lastSelected = Nothing /\ dropped = NoPlace
    /\ past = <<>> /\ future = <<>> /\ changes = 0 /\ backs = 0

\* a part that does not move has one state to be in
WebInit ==
    /\ part \in {"blocks", "farm panel", "conversation", "session", "settings", "history",
                "schedules", "users", "flows"}
    /\ IF part = "blocks" THEN BlocksInit ELSE BlocksStill
    /\ FarmInit /\ AiThreadInit /\ SessionInit /\ SettingsFormInit /\ HistoryInit
    /\ ScheduleInit /\ UsersInit /\ FlowsInit
    /\ part # "farm panel" => farm = DefaultFarm("node")
    /\ part # "session" => accounts /\ route = "pages"
    /\ part # "history" => repo = FALSE

Still(p, vars) == part # p => UNCHANGED vars

WebNext ==
    /\ UNCHANGED part
    /\ Still("blocks", blocksVars) /\ Still("farm panel", farm)
    /\ Still("conversation", aiThreadVars) /\ Still("session", sessionVars)
    /\ Still("settings", settingsFormVars) /\ Still("history", historyVars)
    /\ Still("schedules", scheduleVars) /\ Still("users", usersVars) /\ Still("flows", flowsVars)
    /\ \/ part = "blocks" /\ BlocksNext
       \/ part = "farm panel" /\ FarmNext
       \/ part = "conversation" /\ AiThreadNext
       \/ part = "session" /\ SessionNext
       \/ part = "settings" /\ SettingsFormNext
       \/ part = "history" /\ HistoryNext
       \/ part = "schedules" /\ ScheduleNext
       \/ part = "users" /\ UsersNext
       \/ part = "flows" /\ FlowsNext

WebSpec == WebInit /\ [][WebNext]_webVars
=============================================================================
