------------------------------- MODULE UsersPage --------------------------------
(***************************************************************************)
(* The Users page of an administrator: the accounts it lists, the changes  *)
(* asked for on their rows, and the temporary passwords it makes, shows    *)
(* once and keeps nowhere.  Another administrator may be changing accounts *)
(* too, this one's included.  An account is known by its id, a password by *)
(* the number of the order that set it.                                    *)
(***************************************************************************)
EXTENDS Integers, Sequences, FiniteSets

CONSTANTS
    MaxOrders,     \* changes asked for, here or by another administrator
    Hops           \* whether a password is reset again before the answer to the last

ASSUME UsersPageAssumption == MaxOrders \in Nat /\ Hops \in BOOLEAN

Ids == 1..3            \* the third is the next account the server makes
Me == 1
Nobody == [role |-> "none", disabled |-> FALSE, secret |-> 0]
Removed == [role |-> "removed", disabled |-> FALSE, secret |-> 0]

VARIABLES
    people,       \* the server's accounts: [role, disabled, secret]
    listedPeople, \* the page's: [known, has]
    asksPeople,   \* the request for the list that counts: [step, got]
    orders,       \* changes under way: [what, n, who, value, step]
    ordered,      \* how many there were
    busyPerson,   \* the row whose controls are held
    removing,     \* the person about to be deleted
    adding,       \* AddUserDialog: closed, or the number of the first order it may send
    secretsShown, \* the temporary passwords on screen, of a reset and of a new person
    doubtful      \* what the page cannot know: changes made elsewhere, answers lost

usersVars == <<people, listedPeople, asksPeople, orders, ordered, busyPerson, removing,
               adding, secretsShown, doubtful>>
listOfPeople == <<listedPeople, asksPeople>>
dialogs == <<removing, adding, secretsShown>>

Closed == 0
NoSecret == [who |-> 0, n |-> 0]
NoSecrets == [reset |-> NoSecret, made |-> NoSecret]
NoPeople == [known |-> FALSE, has |-> [p \in {} |-> Nobody]]
NoAnswer == [step |-> "none", got |-> <<>>]
\* mutant: a list that is already on its way will do
AskPeopleOnce ==
    asksPeople' = IF asksPeople = NoAnswer THEN [step |-> "asked", got |-> <<>>] ELSE asksPeople
\* the answer to the request before it is ignored
AskPeople == asksPeople' = [step |-> "asked", got |-> <<>>]

UsersInit ==
    /\ people = [p \in Ids |->
                   IF p = 3 THEN Nobody
                   ELSE [role |-> IF p = Me THEN "admin" ELSE "member",
                         disabled |-> FALSE, secret |-> 0]]
    /\ listedPeople = NoPeople /\ asksPeople = [step |-> "asked", got |-> <<>>]
    /\ orders = {} /\ ordered = 0 /\ busyPerson = 0 /\ removing = 0
    /\ adding = Closed /\ secretsShown = NoSecrets /\ doubtful = FALSE

-----------------------------------------------------------------------------
(* The server: a handler runs to its end before another begins.            *)

Present(all) == {p \in Ids : all[p] \notin {Nobody, Removed}}
Enabled(all) == {p \in Ids : all[p].role = "admin" /\ ~all[p].disabled}
Row(p) == [role |-> people[p].role, disabled |-> people[p].disabled]

\* keep_an_admin: somebody can still sign in and put it back
KeepAnAdmin(p, now) ==
    Enabled(people) \ {p} # {} \/ (now.role = "admin" /\ ~now.disabled)

\* what becomes of the account an order is about
Changed(o) ==
    CASE o.what = "role" -> [people[o.who] EXCEPT !.role = o.value]
      [] o.what = "disabled" -> [people[o.who] EXCEPT !.disabled = (o.value = "yes")]
      [] o.what = "password" -> [people[o.who] EXCEPT !.secret = o.n]
      [] o.what = "add" -> [role |-> o.value, disabled |-> FALSE, secret |-> o.n]
      [] o.what = "delete" -> Removed

Permits(o) ==
    IF o.what = "add" THEN people[o.who] = Nobody
    ELSE o.who \in Present(people) /\ KeepAnAdmin(o.who, Changed(o))

ServerObeys(o) ==
    LET refused == Me \notin Enabled(people) \/ ~Permits(o)
                      \/ (o.what = "delete" /\ o.who = Me)
    IN  /\ o.step = "asked"
        /\ orders' = (orders \ {o}) \union
                       {[o EXCEPT !.step = IF refused THEN "refused" ELSE "done"]}
        /\ people' = IF refused THEN people ELSE [people EXCEPT ![o.who] = Changed(o)]
        /\ UNCHANGED <<listOfPeople, ordered, busyPerson, dialogs, doubtful>>

\* another administrator, or the command line
AnotherAdministrator(p, what, value) ==
    /\ ordered < MaxOrders /\ ordered' = ordered + 1
    /\ LET o == [what |-> what, n |-> ordered + 1, who |-> p, value |-> value]
       IN  /\ Permits(o) /\ Changed(o) # people[p] /\ people' = [people EXCEPT ![p] = Changed(o)]
    /\ doubtful' = TRUE
    /\ UNCHANGED <<listOfPeople, orders, busyPerson, dialogs>>

ServerListsPeople ==
    /\ asksPeople.step = "asked" /\ Me \in Enabled(people)
    /\ asksPeople' = [step |-> "answered",
                      got |-> [p \in Present(people) |-> Row(p)]]
    /\ doubtful' = FALSE
    /\ UNCHANGED <<people, listedPeople, orders, ordered, busyPerson, dialogs>>

-----------------------------------------------------------------------------
(* The page.                                                               *)

PeopleLand ==
    /\ asksPeople.step = "answered" /\ asksPeople' = NoAnswer
    /\ listedPeople' = [known |-> TRUE, has |-> asksPeople.got]
    /\ UNCHANGED <<people, orders, ordered, busyPerson, dialogs, doubtful>>

\* no answer, or not an administrator's any more
PeopleFail ==
    /\ asksPeople.step # "none" /\ asksPeople' = NoAnswer /\ listedPeople' = NoPeople
    /\ UNCHANGED <<people, orders, ordered, busyPerson, dialogs, doubtful>>

TryAgain ==
    /\ ~listedPeople.known /\ asksPeople.step = "none" /\ AskPeople
    /\ UNCHANGED <<people, listedPeople, orders, ordered, busyPerson, dialogs, doubtful>>

Order(what, p, value) ==
    /\ ordered < MaxOrders /\ ordered' = ordered + 1
    /\ orders' = orders \union {[what |-> what, n |-> ordered + 1, who |-> p, value |-> value,
                                 step |-> "asked"]}
    /\ UNCHANGED <<people, listOfPeople, secretsShown, doubtful>>

\* a dialog covers the page
Uncovered == removing = 0 /\ adding = Closed /\ secretsShown = NoSecrets
OnRow(p) == Uncovered /\ p \in DOMAIN listedPeople.has /\ busyPerson # p

ChangeRole(p) ==
    /\ OnRow(p) /\ busyPerson' = p
    /\ Order("role", p, IF listedPeople.has[p].role = "admin" THEN "member" ELSE "admin")
    /\ UNCHANGED <<removing, adding>>

ChangeDisabled(p) ==
    /\ OnRow(p) /\ busyPerson' = p
    /\ Order("disabled", p, IF listedPeople.has[p].disabled THEN "no" ELSE "yes")
    /\ UNCHANGED <<removing, adding>>

\* a new password each time
ResetPassword(p) ==
    /\ OnRow(p) /\ busyPerson' = p
    /\ Hops \/ \A o \in orders : o.what = "password" => o.who # p
    /\ Order("password", p, "new")
    /\ UNCHANGED <<removing, adding>>

AskRemove(p) ==
    /\ OnRow(p) /\ removing' = p
    /\ UNCHANGED <<people, listOfPeople, orders, ordered, busyPerson, adding, secretsShown,
                   doubtful>>

\* Cancel, or Escape while it is being done
KeepThem ==
    /\ removing # 0 /\ removing' = 0
    /\ UNCHANGED <<people, listOfPeople, orders, ordered, busyPerson, adding, secretsShown,
                   doubtful>>

RemovePerson ==
    /\ removing # 0 /\ busyPerson # removing /\ busyPerson' = removing
    /\ Order("delete", removing, "gone")
    /\ UNCHANGED <<removing, adding>>

AskAdd ==
    /\ Uncovered /\ adding' = ordered + 1
    /\ UNCHANGED <<people, listOfPeople, orders, ordered, busyPerson, removing, secretsShown,
                   doubtful>>

\* the dialog makes the password itself, another each time: Enter in the name sends the
\* order again while the first is on its way
AddUser ==
    /\ adding # Closed /\ secretsShown.made = NoSecret
    /\ \E role \in {"member", "admin"} : Order("add", 3, role)
    /\ UNCHANGED <<busyPerson, removing, adding>>

\* Cancel, or Escape while it is being done
CloseAdd ==
    /\ adding # Closed /\ adding' = Closed /\ secretsShown' = [secretsShown EXCEPT !.made = NoSecret]
    /\ UNCHANGED <<people, listOfPeople, orders, ordered, busyPerson, removing, doubtful>>

CloseReset ==
    /\ secretsShown' = [secretsShown EXCEPT !.reset = NoSecret] /\ secretsShown # secretsShown'
    /\ UNCHANGED <<people, listOfPeople, orders, ordered, busyPerson, removing, adding, doubtful>>

Shown(o) == [who |-> o.who, n |-> o.n]
\* the dialog that sent the order is still open
OfDialog(o) == o.what = "add" /\ adding # Closed /\ adding <= o.n

\* the answer, whichever row it is of: the list is asked for again
OrderDone(o) ==
    /\ o.step = "done" /\ orders' = orders \ {o} /\ AskPeople
    /\ busyPerson' = IF o.what = "add" THEN busyPerson ELSE 0
    /\ removing' = IF o.what = "delete" THEN 0 ELSE removing
    /\ secretsShown' = [reset |-> IF o.what = "password" THEN Shown(o) ELSE secretsShown.reset,
                        made |-> IF OfDialog(o) THEN Shown(o)
                                 ELSE secretsShown.made]
    /\ UNCHANGED <<people, listedPeople, ordered, adding, doubtful>>

\* refused, or the answer was lost: the row or the dialog says so
OrderFails(o) ==
    /\ orders' = orders \ {o} /\ doubtful' = (doubtful \/ o.step = "done")
    /\ busyPerson' = IF o.what = "add" THEN busyPerson ELSE 0
    /\ removing' = IF o.what = "delete" THEN 0 ELSE removing
    /\ UNCHANGED <<people, listOfPeople, ordered, adding, secretsShown>>

UsersNext ==
    \/ ServerListsPeople \/ PeopleLand \/ PeopleFail \/ TryAgain
    \/ KeepThem \/ RemovePerson \/ AskAdd \/ AddUser \/ CloseAdd \/ CloseReset
    \/ \E p \in Ids : ChangeRole(p) \/ ChangeDisabled(p) \/ ResetPassword(p) \/ AskRemove(p)
    \/ \E p \in Ids : \/ \E r \in {"member", "admin"} : AnotherAdministrator(p, "role", r)
                      \/ \E d \in {"yes", "no"} : AnotherAdministrator(p, "disabled", d)
                      \/ AnotherAdministrator(p, "delete", "gone")
    \/ \E o \in orders : ServerObeys(o) \/ OrderDone(o) \/ OrderFails(o)

UsersSpec == UsersInit /\ [][UsersNext]_usersVars

-----------------------------------------------------------------------------
\* Once every answer is in, the page shows the accounts as they are, unless somebody else
\* has changed them or an answer was lost; and the password on screen, which is `shown
\* once' and handed to its owner (UsersPage.tsx:27-29), is the one that opens the account.
UsersTruthful ==
    orders = {} /\ asksPeople = NoAnswer =>
        /\ listedPeople.known /\ ~doubtful => listedPeople.has = [p \in Present(people) |-> Row(p)]
        /\ \A from \in DOMAIN secretsShown :
              LET s == secretsShown[from]
              IN  s # NoSecret /\ s.who \in Present(people) => people[s.who].secret = s.n
=============================================================================
