------------------------------ MODULE ScheduleForm ------------------------------
(***************************************************************************)
(* The Schedules page: the list, its switch and buttons, and the one form  *)
(* that makes and changes a schedule.  The form asks for the parameters of *)
(* the flow it has chosen.  Parameters are known by who declares them, and *)
(* by the flow their values were set for, the file's own if by none; an    *)
(* expression is one the server can read or one it cannot.  What a         *)
(* schedule holds besides goes with them and is left out.                  *)
(***************************************************************************)
EXTENDS Integers, Sequences

CONSTANTS
    MaxSchedules,   \* schedules the server comes to have
    MaxForms,       \* times the form is opened
    MaxTouches,     \* flows chosen, values and expressions typed in all
    MaxWorks,       \* saves, switches and deletions under way at once
    Early           \* whether it is saved before its flow's parameters have come

ASSUME ScheduleFormAssumption ==
    /\ MaxSchedules \in Nat \ {0} /\ MaxForms \in Nat /\ MaxTouches \in Nat
    /\ MaxWorks \in Nat \ {0}
    /\ Early \in BOOLEAN

ScheduledFlows == {"a", "b"}
Crons == {"daily", "unreadable"}
NoParams == [of |-> "none", from |-> "none"]
Declared(f) == [of |-> f, from |-> "file"]

Schedule(f, p) == [flow |-> f, params |-> p]
NewSchedule == Schedule("a", NoParams)
Gone == Schedule("none", NoParams)
NoForm == [open |-> FALSE, n |-> 0, id |-> 0, initial |-> NewSchedule, flow |-> "a",
           params |-> NoParams, cron |-> "daily"]

VARIABLES
    schedules,   \* the server's, by number
    scheduled,   \* the page's rows: [known, has]
    asksList,    \* the request for the list that counts: [step, got]
    form,        \* the form, its fields and the row it was opened on
    params,      \* flows whose parameters are being asked for
    works,       \* requests under way: [slot, what, id, step, values, legible]
    busyRow,     \* the row whose buttons are held
    confirmed,   \* the row about to be deleted, 0 for none
    touches      \* the bound's counter

scheduleVars == <<schedules, scheduled, asksList, form, params, works,
                  busyRow, confirmed, touches>>
formVars == <<form, params>>
pageVars == <<scheduled, asksList, busyRow, confirmed>>

NoRows == [known |-> FALSE, has |-> <<>>]
NotAsked == [step |-> "none", got |-> <<>>]
AskedAgain == [step |-> "asked", got |-> <<>>]

ScheduleInit ==
    /\ schedules = <<Schedule("a", [of |-> "a", from |-> "a"])>>
    /\ scheduled = NoRows /\ asksList = AskedAgain /\ form = NoForm
    /\ params = {} /\ works = {} /\ busyRow = 0 /\ confirmed = 0 /\ touches = 0

-----------------------------------------------------------------------------
(* The list: a reload makes the request before it count no more.           *)

\* a row for every schedule that is still there
Kept(s) == {i \in DOMAIN s : s[i] # Gone}

ServerListsSchedules ==
    /\ asksList.step = "asked"
    /\ asksList' = [step |-> "answered", got |-> [i \in Kept(schedules) |-> schedules[i]]]
    /\ UNCHANGED <<schedules, scheduled, formVars, works, busyRow, confirmed, touches>>

RowsLand ==
    /\ asksList.step = "answered" /\ asksList' = NotAsked
    /\ scheduled' = [known |-> TRUE, has |-> asksList.got]
    /\ UNCHANGED <<schedules, formVars, works, busyRow, confirmed, touches>>

RowsFail ==
    /\ asksList.step # "none" /\ asksList' = NotAsked /\ scheduled' = NoRows
    /\ UNCHANGED <<schedules, formVars, works, busyRow, confirmed, touches>>

\* Refresh, and Try again
ReloadRows ==
    /\ asksList.step = "none" /\ asksList' = AskedAgain
    /\ UNCHANGED <<schedules, scheduled, formVars, works, busyRow, confirmed, touches>>

-----------------------------------------------------------------------------
(* Requests of the form, and of the rows.                                  *)

\* a request goes out beside those under way, alike or not
Sends(what, id, values, legible) ==
    \E k \in 1..MaxWorks :
        /\ \A w \in works : w.slot # k
        /\ works' = works \union {[slot |-> k, what |-> what, id |-> id, step |-> "asked",
                                  values |-> values, legible |-> legible]}

-----------------------------------------------------------------------------
(* The form (ScheduleDialog, ScheduleCronEditor).                          *)

\* mutant: the answer for the flow chosen before is put in the fields as well
AskParamsBeside(f) == params' = params \union {f}
\* the effect of `flow': the request before it is ignored
AskParams(f) == params' = {f}

OpensForm(id, row) ==
    /\ ~form.open /\ form.n < MaxForms
    /\ form' = [NoForm EXCEPT !.open = TRUE, !.n = form.n + 1, !.id = id, !.initial = row,
                       !.flow = row.flow]
    /\ AskParams(row.flow)
    /\ UNCHANGED <<schedules, scheduled, asksList, works, busyRow, touches>>

\* `New schedule', or `Schedule this flow...' of the palette
CreateForm(f) == OpensForm(0, Schedule(f, NoParams)) /\ UNCHANGED confirmed

EditForm(id) ==
    /\ id \in DOMAIN scheduled.has /\ busyRow # id /\ confirmed = 0
    /\ OpensForm(id, scheduled.has[id]) /\ UNCHANGED confirmed

\* its requests count no more, and a save goes on
CloseForm ==
    /\ form.open /\ form' = [NoForm EXCEPT !.n = form.n] /\ params' = {}
    /\ UNCHANGED <<schedules, pageVars, works, touches>>

Touches == form.open /\ touches < MaxTouches /\ touches' = touches + 1

ChooseFlow(f) ==
    /\ Touches /\ f # form.flow /\ form' = [form EXCEPT !.flow = f] /\ AskParams(f)
    /\ UNCHANGED <<schedules, pageVars, works>>

\* a field is the one on screen, whichever flow is chosen by now
TypeValue ==
    /\ Touches /\ form.params.of # "none"
    /\ form' = [form EXCEPT !.params.from = form.params.of]
    /\ UNCHANGED <<schedules, pageVars, params, works>>

\* typed, or made by a preset
TypeCron(c) ==
    /\ Touches /\ c # form.cron /\ form' = [form EXCEPT !.cron = c]
    /\ UNCHANGED <<schedules, pageVars, params, works>>

\* the values stored win over the file's own, for the flow they were saved against
ReadFrom(f) ==
    IF form.id # 0 /\ form.initial.flow = f /\ form.initial.params # NoParams
    THEN [of |-> f, from |-> form.initial.params.from]
    ELSE Declared(f)

ParamsLand(f) ==
    /\ params' = params \ {f} /\ form' = [form EXCEPT !.params = ReadFrom(f)]
    /\ UNCHANGED <<schedules, pageVars, works, touches>>

\* no answer, or a flow that cannot be modelled: it takes none
ParamsFail(f) ==
    /\ params' = params \ {f} /\ form' = [form EXCEPT !.params = NoParams]
    /\ UNCHANGED <<schedules, pageVars, works, touches>>

\* Enter sends the form though it is being saved: only the button is held
SubmitForm ==
    /\ form.open /\ (Early \/ params = {})
    /\ Sends("save", form.id, Schedule(form.flow, form.params), form.cron # "unreadable")
    /\ UNCHANGED <<schedules, pageVars, formVars, touches>>

-----------------------------------------------------------------------------
(* The row's switch and buttons (ScheduleList); one row is held at a time. *)

Press(id, what) ==
    /\ id \in DOMAIN scheduled.has /\ busyRow # id /\ ~form.open /\ confirmed = 0
    /\ busyRow' = id /\ Sends(what, id, NewSchedule, TRUE)
    /\ UNCHANGED <<schedules, scheduled, asksList, formVars, confirmed, touches>>

SwitchOn(id) == Press(id, "switch")
RunNow(id) == Press(id, "run")

Confirm(id) ==
    /\ id \in DOMAIN scheduled.has /\ busyRow # id /\ ~form.open /\ confirmed = 0
    /\ confirmed' = id
    /\ UNCHANGED <<schedules, scheduled, asksList, formVars, works, busyRow, touches>>

CancelConfirm ==
    /\ confirmed # 0 /\ confirmed' = 0
    /\ UNCHANGED <<schedules, scheduled, asksList, formVars, works, busyRow, touches>>

ConfirmDelete ==
    /\ confirmed # 0 /\ \A w \in works : w.what # "delete"
    /\ Sends("delete", confirmed, NewSchedule, TRUE)
    /\ UNCHANGED <<schedules, scheduled, asksList, formVars, busyRow, confirmed, touches>>

-----------------------------------------------------------------------------
(* The server's handlers and their answers.                                *)

Become(w, r) == works' = (works \ {w}) \union {r}

\* a save sends every field of the form, the switch one; nothing is stored of an
\* expression that cannot be read, nor for a schedule that is gone
ServerWorks(w) ==
    LET refused == \/ w.id # 0 /\ schedules[w.id] = Gone
                   \/ w.id = 0 /\ Len(schedules) = MaxSchedules
                   \/ ~w.legible
    IN  /\ w.step = "asked"
        /\ Become(w, IF refused THEN [w EXCEPT !.step = "refused"]
                     ELSE IF w.what = "switch" THEN [w EXCEPT !.step = "done",
                                                             !.values = schedules[w.id]]
                     ELSE [w EXCEPT !.step = "done"])
        /\ schedules' =
             IF refused \/ w.what \in {"switch", "run"} THEN schedules
             ELSE IF w.what = "delete" THEN [schedules EXCEPT ![w.id] = Gone]
             ELSE IF w.id = 0 THEN Append(schedules, w.values)
             ELSE [schedules EXCEPT ![w.id] = w.values]
        /\ UNCHANGED <<pageVars, formVars, touches>>

\* whichever form is open by now is closed
SaveLands(w) ==
    /\ w.what = "save" /\ w.step = "done" /\ works' = works \ {w}
    /\ form' = [NoForm EXCEPT !.n = form.n] /\ params' = {}
    /\ asksList' = AskedAgain
    /\ UNCHANGED <<schedules, scheduled, busyRow, confirmed, touches>>

\* the row is what the server says it is now
SwitchLands(w) ==
    /\ w.what = "switch" /\ w.step = "done" /\ works' = works \ {w} /\ busyRow' = 0
    /\ scheduled' = [known |-> TRUE,
                     has |-> [i \in DOMAIN scheduled.has |->
                                IF i = w.id THEN w.values ELSE scheduled.has[i]]]
    /\ UNCHANGED <<schedules, asksList, confirmed, formVars, touches>>

\* a run has been started; the list says it is the last one
RunLands(w) ==
    /\ w.what = "run" /\ w.step = "done" /\ works' = works \ {w} /\ busyRow' = 0
    /\ asksList' = AskedAgain
    /\ UNCHANGED <<schedules, scheduled, confirmed, formVars, touches>>

DeleteLands(w) ==
    /\ w.what = "delete" /\ w.step = "done" /\ works' = works \ {w}
    /\ confirmed' = 0 /\ asksList' = AskedAgain
    /\ UNCHANGED <<schedules, scheduled, busyRow, formVars, touches>>

\* refused, or the answer was lost: the form, the row or the question says so
WorkFails(w) ==
    /\ works' = works \ {w}
    /\ busyRow' = IF w.what \in {"switch", "run"} THEN 0 ELSE busyRow
    /\ UNCHANGED <<schedules, scheduled, asksList, confirmed, formVars, touches>>

ScheduleNext ==
    \/ ServerListsSchedules \/ RowsLand \/ RowsFail \/ ReloadRows
    \/ \E f \in ScheduledFlows : CreateForm(f) \/ ChooseFlow(f)
    \/ \E id \in 1..MaxSchedules : EditForm(id) \/ SwitchOn(id) \/ RunNow(id) \/ Confirm(id)
    \/ CloseForm \/ TypeValue \/ SubmitForm \/ CancelConfirm \/ ConfirmDelete
    \/ \E c \in Crons : TypeCron(c)
    \/ \E f \in params : ParamsLand(f) \/ ParamsFail(f)
    \/ \E w \in works :
          ServerWorks(w) \/ SaveLands(w) \/ SwitchLands(w) \/ RunLands(w) \/ DeleteLands(w) \/ WorkFails(w)

ScheduleSpec == ScheduleInit /\ [][ScheduleNext]_scheduleVars

-----------------------------------------------------------------------------
\* A schedule calls its flow with that flow's own parameters: `the values already on the
\* schedule win over the file's own defaults, but only for the flow they were saved
\* against' (ScheduleDialog.tsx:151-152), in whatever order the flows chosen in the form
\* are read, and whatever is saved meanwhile.  And once they are read the form shows
\* them.
OwnParameters ==
    /\ \A i \in DOMAIN schedules :
          /\ schedules[i].params.of \in {schedules[i].flow, "none"}
          /\ schedules[i].params.from \in {schedules[i].flow, "file", "none"}
    /\ form.open /\ params = {} =>
          /\ form.params.of \in {form.flow, "none"}
          /\ form.params.from \in {form.flow, "file", "none"}
=============================================================================
