------------------------------ MODULE FormsProofs ------------------------------
(***************************************************************************)
(* What the forms and lists of the browser promise their reader, for any   *)
(* number of values, saves, questions and orders under way.                *)
(***************************************************************************)
EXTENDS SettingsForm, HistoryView, ScheduleForm, UsersPage, FarmPanel, TLAPS

(***************************************************************************)
(* SettingsForm: a save carries what its own section holds.                *)
(***************************************************************************)
Values == [Sections -> 0..typed]

Patches == UNION {[{s} -> Nat] : s \in Sections}
Saves == [n : Nat, section : Sections, step : {"asked", "answered"}, got : Values,
          gone : BOOLEAN, patch : Patches]

SettingsTyped ==
    /\ typed \in Nat /\ broken \subseteq 1..typed
    /\ stored \in Values /\ settings \in Values /\ draft \in Values /\ unsaved \in Values
    /\ loading \in [step : {"none", "asked", "answered"}, got : Values]
    /\ DOMAIN state = Sections /\ DOMAIN wished = Sections
    /\ puts \subseteq Saves

\* A save holds a value of its section that Save was pressed for, and that may be stored.
Stores(s, v) == v \in 0..typed /\ v \in wished[s] /\ v \notin broken
SavesApart ==
    /\ \A p \in puts : DOMAIN p.patch = {p.section} /\ Stores(p.section, p.patch[p.section])
    /\ \A s \in Sections : Stores(s, stored[s])

\* A save somebody waits for is its section's only one, and its fields hold what it sent.
Awaited(p) ==
    /\ drawn /\ state[p.section] = "saving" /\ unsaved[p.section] = 0
    /\ draft[p.section] = p.patch[p.section]
FieldsHold ==
    /\ drawn <=> loading.step = "none"
    /\ ~drawn => unsaved = Defaults
    /\ \A p \in puts : ~p.gone => Awaited(p)
    /\ \A p, q \in puts : ~p.gone /\ ~q.gone /\ p.section = q.section => p = q
    /\ \A s \in Sections : unsaved[s] # 0 => draft[s] = unsaved[s]

SettingsInv == SettingsTyped /\ SavesApart /\ FieldsHold

\* One more value typed leaves those there are as they were.
LEMMA OneMoreValue ==
    ASSUME SettingsTyped, typed' = typed + 1
    PROVE  /\ typed + 1 \in Nat /\ typed + 1 \notin broken /\ typed + 1 \in 0..typed' /\ typed + 1 # 0
           /\ 0..typed \subseteq 0..typed' /\ Values \subseteq Values' /\ Saves \subseteq Saves'
           /\ \A f \in Values, s \in Sections :
                 f[s] \in 0..typed /\ f[s] # typed + 1
                 /\ [f EXCEPT ![s] = typed + 1] \in Values'
  <1>1. typed \in Nat /\ broken \subseteq 1..typed
    BY DEF SettingsTyped
  <1>2. typed + 1 \in Nat /\ typed + 1 \notin broken /\ typed + 1 \in 0..typed' /\ typed + 1 # 0
    BY <1>1
  <1>3. 0..typed \subseteq 0..typed' /\ typed + 1 \notin 0..typed
    BY <1>1
  <1>4. Values \subseteq Values'
    BY <1>3 DEF Values
  <1>5. Saves \subseteq Saves'
    BY <1>4 DEF Saves
  <1> QED
    BY <1>2, <1>3, <1>4, <1>5 DEF Values

LEMMA SettingsInitial == SettingsFormInit => SettingsInv
  <1> SUFFICES ASSUME SettingsFormInit  PROVE SettingsInv
    OBVIOUS
  <1>1. typed = 0 /\ 0 \in 0..typed /\ Defaults \in Values
    BY DEF SettingsFormInit, Defaults, Values
  <1>2. SettingsTyped
    <2>1. DOMAIN wished = Sections /\ DOMAIN state = Sections
      BY DEF SettingsFormInit
    <2> QED
      BY <1>1, <2>1 DEF SettingsFormInit, SettingsTyped
  <1>3. SavesApart
    BY <1>1 DEF SettingsFormInit, SavesApart, Stores, Defaults
  <1>4. FieldsHold
    BY <1>1 DEF SettingsFormInit, FieldsHold, Defaults
  <1> QED
    BY <1>2, <1>3, <1>4 DEF SettingsInv

LEMMA SettingsStep == ~TypesOn => (SettingsInv /\ [SettingsFormNext]_settingsFormVars => SettingsInv')
  <1> SUFFICES ASSUME ~TypesOn, SettingsInv, [SettingsFormNext]_settingsFormVars  PROVE SettingsInv'
    OBVIOUS
  <1>0. SettingsTyped /\ SavesApart /\ FieldsHold
    BY DEF SettingsInv
  <1>00. typed' = typed => Values' = Values /\ Saves' = Saves
    BY DEF Values, Saves
  <1>01. \A p \in puts : p \in Saves /\ p.section \in Sections /\ p.got \in Values
    BY <1>0 DEF SettingsTyped, Saves
  <1>000. Defaults \in Values /\ \A s \in Sections : Defaults[s] = 0
    BY <1>0 DEF SettingsTyped, Defaults, Values
  <1>0000. \A f, g \in Values, s \in Sections : [f EXCEPT ![s] = g[s]] \in Values
                                              /\ [f EXCEPT ![s] = 0] \in Values
    BY <1>0 DEF SettingsTyped, Values
  <1>1. CASE ServerGivesSettings
    BY <1>0, <1>00, <1>1 DEF ServerGivesSettings, SettingsInv, SettingsTyped, SavesApart, Stores,
       FieldsHold, Awaited
  <1>2. CASE SettingsLoaded
    BY <1>0, <1>00, <1>000, <1>2 DEF SettingsLoaded, SettingsInv, SettingsTyped, SavesApart, Stores,
       FieldsHold, Awaited
  <1>3. CASE LoadFails
    BY <1>0, <1>00, <1>3 DEF LoadFails, SettingsInv, SettingsTyped, SavesApart, Stores,
       FieldsHold, Awaited
  <1>4. ASSUME NEW s \in Sections, NEW breaks \in BOOLEAN, EditField(s, breaks)
        PROVE  SettingsInv'
    <2>0. typed' = typed + 1 /\ drawn /\ \A p \in puts : p.gone \/ p.section # s
      BY <1>4 DEF EditField
    <2>1. SettingsTyped'
      <3>1. draft' \in Values' /\ unsaved' \in Values'
        BY <1>0, <1>4, <2>0, OneMoreValue DEF EditField, SettingsTyped
      <3>2. broken' \subseteq 1..typed'
        <4>1. broken' \subseteq broken \cup {typed + 1}
          BY <1>4 DEF EditField
        <4>2. typed \in Nat /\ broken \subseteq 1..typed
          BY <1>0 DEF SettingsTyped
        <4> QED
          BY <2>0, <4>1, <4>2
      <3>3. loading' \in [step : {"none", "asked", "answered"}, got : Values']
        BY <1>0, <1>4, <2>0, OneMoreValue DEF EditField, SettingsTyped
      <3> HIDE DEF Values, Saves
      <3> QED
        BY <1>0, <1>4, <2>0, <3>1, <3>2, <3>3, OneMoreValue DEF EditField, SettingsTyped
    <2>2. SavesApart'
      BY <1>0, <1>4, <2>0, OneMoreValue DEF EditField, SettingsTyped, SavesApart, Stores
    <2>3. FieldsHold'
      BY <1>0, <1>4, <2>0, OneMoreValue DEF EditField, SettingsTyped, FieldsHold, Awaited, Values
    <2> QED
      BY <2>1, <2>2, <2>3 DEF SettingsInv
  <1>5. ASSUME NEW s \in Sections, SaveSection(s)
        PROVE  SettingsInv'
    <2> DEFINE r == [n |-> typed, section |-> s, step |-> "asked", got |-> Defaults,
                     gone |-> FALSE, patch |-> [k \in Patch(s) |-> draft[k]]]
    <2>0. draft[s] \in 0..typed /\ draft[s] \notin broken /\ drawn /\ state[s] # "saving"
      BY <1>0, <1>5 DEF SaveSection, MaySave, Dirty, Fits, SettingsTyped, Values
    <2>1. puts' = puts \cup {r}
      BY <1>5 DEF SaveSection
    <2>2. DOMAIN r.patch = {s} /\ r.patch[s] = draft[s] /\ r.section = s /\ ~r.gone
      BY DEF Patch
    <2>3. r \in Saves
      <3>1. r.patch \in [{s} -> Nat] /\ typed \in Nat
        BY <1>0, <2>0 DEF Patch, SettingsTyped
      <3>2. r.patch \in Patches
        BY <3>1 DEF Patches
      <3> QED
        BY <1>000, <3>1, <3>2 DEF Saves
    <2> HIDE DEF r
    <2>4. SettingsTyped'
      <3>1. unsaved' \in Values /\ DOMAIN state' = Sections /\ DOMAIN wished' = Sections
        BY <1>0, <1>0000, <1>5 DEF SaveSection, SettingsTyped
      <3> QED
        BY <1>0, <1>00, <1>5, <2>1, <2>3, <3>1 DEF SaveSection, SettingsTyped
    <2>5. wished' = [wished EXCEPT ![s] = @ \cup {draft[s]}] /\ UNCHANGED <<typed, broken, stored>>
      BY <1>5 DEF SaveSection
    <2>6. SavesApart'
      BY <1>0, <1>01, <2>0, <2>1, <2>2, <2>5 DEF SettingsTyped, SavesApart, Stores
    <2>7. \A p \in puts : p.section = s => p.gone
      BY <1>0, <1>01, <2>0 DEF FieldsHold, Awaited
    <2>8. /\ state' = [state EXCEPT ![s] = "saving"] /\ unsaved' = [unsaved EXCEPT ![s] = 0]
          /\ UNCHANGED <<loading, draft, drawn>>
      BY <1>5 DEF SaveSection
    <2>9. FieldsHold'
      <3>1. unsaved'[s] = 0 /\ state'[s] = "saving" /\ \A k \in Sections \ {s} : unsaved'[k] = unsaved[k] /\ state'[k] = state[k]
        BY <1>0, <2>8 DEF SettingsTyped, Values
      <3>2. \A p \in puts' : ~p.gone => Awaited(p)'
        BY <1>0, <1>01, <2>0, <2>1, <2>2, <2>7, <2>8, <3>1 DEF FieldsHold, Awaited
      <3>3. \A p, q \in puts' : ~p.gone /\ ~q.gone /\ p.section = q.section => p = q
        BY <1>0, <2>1, <2>2, <2>7 DEF FieldsHold
      <3> QED
        BY <1>0, <2>0, <2>8, <3>1, <3>2, <3>3 DEF FieldsHold
    <2> QED
      BY <2>4, <2>6, <2>9 DEF SettingsInv
  <1>6. ASSUME NEW s \in Sections, ResetSection(s)
        PROVE  SettingsInv'
    <2>1. SettingsTyped'
      <3>1. draft' \in Values /\ unsaved' \in Values /\ DOMAIN state' = Sections
        BY <1>0, <1>0000, <1>6 DEF ResetSection, SettingsTyped
      <3> QED
        BY <1>0, <1>00, <1>6, <3>1 DEF ResetSection, SettingsTyped
    <2>2. SavesApart'
      BY <1>0, <1>6 DEF ResetSection, SavesApart, Stores
    <2>3. FieldsHold'
      BY <1>0, <1>6 DEF ResetSection, SettingsTyped, FieldsHold, Awaited, Dirty, Values
    <2> QED
      BY <2>1, <2>2, <2>3 DEF SettingsInv
  <1>7. ASSUME NEW s \in Sections, AnotherSaves(s)
        PROVE  SettingsInv'
    <2>0. typed' = typed + 1
      BY <1>7 DEF AnotherSaves
    <2>1. SettingsTyped'
      <3>1. stored' \in Values' /\ DOMAIN wished' = Sections
        BY <1>0, <1>7, <2>0, OneMoreValue DEF AnotherSaves, SettingsTyped
      <3>2. broken' \subseteq 1..typed'
        BY <1>0, <1>7, <2>0 DEF AnotherSaves, SettingsTyped
      <3>3. loading' \in [step : {"none", "asked", "answered"}, got : Values']
        BY <1>0, <1>7, <2>0, OneMoreValue DEF AnotherSaves, SettingsTyped
      <3> QED
        BY <1>0, <1>7, <2>0, <3>1, <3>2, <3>3, OneMoreValue DEF AnotherSaves, SettingsTyped
    <2>2. SavesApart'
      BY <1>0, <1>7, <2>0, OneMoreValue DEF AnotherSaves, SettingsTyped, SavesApart, Stores, Values
    <2>3. FieldsHold'
      BY <1>0, <1>7 DEF AnotherSaves, FieldsHold, Awaited
    <2> QED
      BY <2>1, <2>2, <2>3 DEF SettingsInv
  <1>8. ASSUME NEW p \in puts, ServerPuts(p)
        PROVE  SettingsInv'
    <2> DEFINE r == [p EXCEPT !.step = "answered", !.got = stored']
    <2>0. p \in Saves /\ p.section \in Sections
      BY <1>01
    <2>1. puts' = (puts \ {p}) \cup {r} /\ stored' = [s \in Sections |-> IF s \in DOMAIN p.patch THEN p.patch[s] ELSE stored[s]]
          /\ UNCHANGED <<loading, settings, draft, drawn, state, typed, broken, wished, unsaved>>
      BY <1>8 DEF ServerPuts
    <2>2. DOMAIN p.patch = {p.section} /\ Stores(p.section, p.patch[p.section])
      BY <1>0 DEF SavesApart
    <2>3. \A s \in Sections : Stores(s, stored'[s])
      BY <1>0, <2>1, <2>2 DEF SavesApart
    <2>4. stored' \in Values
      BY <2>1, <2>3 DEF Stores, Values
    <2>5. r \in Saves /\ r.section = p.section /\ r.gone = p.gone /\ r.patch = p.patch
      BY <2>0, <2>4 DEF Saves
    <2> HIDE DEF r
    <2>6. SettingsTyped'
      BY <1>0, <1>00, <2>1, <2>4, <2>5 DEF SettingsTyped
    <2>7. SavesApart'
      BY <1>0, <2>1, <2>2, <2>3, <2>5 DEF SavesApart, Stores
    <2>8. FieldsHold'
      <3>1. \A q \in puts' : ~q.gone => Awaited(q)'
        BY <1>0, <2>1, <2>5 DEF FieldsHold, Awaited
      <3>2. \A q, u \in puts' : ~q.gone /\ ~u.gone /\ q.section = u.section => q = u
        BY <1>0, <2>1, <2>5 DEF FieldsHold
      <3> QED
        BY <1>0, <2>1, <3>1, <3>2 DEF FieldsHold
    <2> QED
      BY <2>6, <2>7, <2>8 DEF SettingsInv
  <1>9. ASSUME NEW p \in puts, SectionSaved(p)
        PROVE  SettingsInv'
    <2>1. SettingsTyped'
      <3>1. p.section \in Sections /\ p.got \in Values
        BY <1>01
      <3>2. draft' \in Values /\ settings' \in Values /\ DOMAIN state' = Sections
        BY <1>0, <1>0000, <1>9, <3>1 DEF SectionSaved, SettingsTyped
      <3> QED
        BY <1>0, <1>00, <1>9, <3>2 DEF SectionSaved, SettingsTyped
    <2>2. SavesApart'
      BY <1>0, <1>9 DEF SectionSaved, SavesApart, Stores
    <2>3. FieldsHold'
      BY <1>0, <1>9 DEF SectionSaved, SettingsTyped, FieldsHold, Awaited, Values
    <2> QED
      BY <2>1, <2>2, <2>3 DEF SettingsInv
  <1>10. ASSUME NEW p \in puts, SaveFails(p)
         PROVE  SettingsInv'
    <2>1. SettingsTyped'
      <3>1. p.section \in Sections /\ p.patch[p.section] \in 0..typed
        BY <1>0, <1>01 DEF SavesApart, Stores
      <3>2. unsaved' \in Values /\ DOMAIN state' = Sections
        BY <1>0, <1>10, <3>1 DEF SaveFails, SettingsTyped, Values
      <3> QED
        BY <1>0, <1>00, <1>10, <3>2 DEF SaveFails, SettingsTyped
    <2>2. SavesApart'
      BY <1>0, <1>10 DEF SaveFails, SavesApart, Stores
    <2>3. FieldsHold'
      BY <1>0, <1>10 DEF SaveFails, SettingsTyped, FieldsHold, Awaited, Values
    <2> QED
      BY <2>1, <2>2, <2>3 DEF SettingsInv
  <1>11. CASE UseToken
    <2>1. /\ drawn' = FALSE /\ loading' = [loading EXCEPT !.step = "asked"]
          /\ puts' = {[p EXCEPT !.gone = TRUE] : p \in puts}
          /\ state' = [s \in Sections |-> "idle"] /\ unsaved' = Defaults
          /\ UNCHANGED <<stored, settings, draft, typed, broken, wished>>
      BY <1>11 DEF UseToken
    <2>2. \A p \in puts : /\ [p EXCEPT !.gone = TRUE] \in Saves /\ [p EXCEPT !.gone = TRUE].gone
                           /\ [p EXCEPT !.gone = TRUE].section = p.section
                           /\ [p EXCEPT !.gone = TRUE].patch = p.patch
      BY <1>01 DEF Saves
    <2>3. SettingsTyped'
      BY <1>0, <1>00, <1>000, <2>1, <2>2 DEF SettingsTyped
    <2>4. SavesApart'
      <3>1. \A q \in puts' : \E p \in puts : q.section = p.section /\ q.patch = p.patch
        BY <2>1, <2>2
      <3>2. UNCHANGED <<stored, typed, broken, wished>>
        BY <2>1
      <3> QED
        BY <1>0, <3>1, <3>2 DEF SavesApart, Stores
    <2>5. FieldsHold'
      <3>1. \A p \in puts' : p.gone
        BY <2>1, <2>2
      <3>2. loading'.step = "asked"
        BY <1>0, <2>1 DEF SettingsTyped
      <3> QED
        BY <1>000, <2>1, <3>1, <3>2 DEF FieldsHold
    <2> QED
      BY <2>3, <2>4, <2>5 DEF SettingsInv
  <1>12. ASSUME NEW p \in puts, AnswerUnread(p)
         PROVE  SettingsInv'
    BY <1>0, <1>00, <1>12 DEF AnswerUnread, SettingsInv, SettingsTyped, SavesApart, Stores,
       FieldsHold, Awaited
  <1>13. CASE UNCHANGED settingsFormVars
    BY <1>0, <1>00, <1>13 DEF settingsFormVars, SettingsInv, SettingsTyped, SavesApart, Stores,
       FieldsHold, Awaited
  <1>14. CASE EditRuns \/ EditNotifications \/ EditAi
    BY <1>4, <1>14 DEF EditRuns, EditNotifications, EditAi, Sections
  <1> QED
    BY <1>1, <1>2, <1>3, <1>5, <1>6, <1>7, <1>8, <1>9, <1>10, <1>11, <1>12, <1>13, <1>14
       DEF SettingsFormNext

\* Whatever is typed, saved and reset, in whatever order the saves are answered: unless a
\* section is typed in while it is being saved (see TypesOn), what is typed stays in its
\* fields until its own section is saved or reset, and the server holds only values whose
\* own Save was pressed and that break no rule (save and patchOf of SettingsPage.tsx).
THEOREM SectionsSavedApart == ~TypesOn => (SettingsFormSpec => []SectionsApart)
  <1> SUFFICES ASSUME ~TypesOn  PROVE SettingsFormSpec => []SectionsApart
    OBVIOUS
  <1>1. SettingsInv /\ [SettingsFormNext]_settingsFormVars => SettingsInv'
    BY SettingsStep
  <1>2. SettingsInv => SectionsApart
    BY DEF SettingsInv, SavesApart, Stores, FieldsHold, SectionsApart
  <1> QED
    BY <1>1, <1>2, SettingsInitial, PTL DEF SettingsFormSpec
-----------------------------------------------------------------------------
(***************************************************************************)
(* HistoryView: the question that counts is the last one asked, and it is  *)
(* about the flow that is open.                                            *)
(***************************************************************************)
Histories == [commits : Int, uncommitted : BOOLEAN]
Inquiries == [n : Nat, path : HistoryFlows, repo : BOOLEAN, has : Histories,
              step : {"status", "status known", "list", "listed"}]
Changes == [what : {"save", "restore", "init"}, path : HistoryFlows, step : {"asked", "answered"}]

HistoryTyped ==
    /\ repo \in BOOLEAN /\ files \in [HistoryFlows -> Histories]
    /\ editing \in HistoryFlows /\ sequence \in Nat
    /\ known \in [path : HistoryFlows, status : {"unknown", "none", "repo"}, has : Histories,
                  loading : BOOLEAN, error : BOOLEAN]
    /\ inquiries \subseteq Inquiries /\ changing \subseteq Changes

\* Only the page's own flow is restored or put under git while another is not opened.
OpenFlowAsked ==
    /\ known.path = editing
    /\ \A c \in changing : c.what # "save" => c.path = editing
    /\ \A q \in inquiries : q.n <= sequence /\ (q.n = sequence => q.path = editing)
    /\ \A q, r \in inquiries : q.n = r.n => q = r

\* With nothing done that the store has yet to ask about, what git said to the last
\* question, and what the store has taken from it, is how it is.
TrueHistory == IF repo THEN files[editing] ELSE NoHistory
Concerns(c) == c.step = "answered" /\ (c.path = editing \/ c.what = "init")
Unheard == unheard \/ \E c \in changing : Concerns(c)
LastTruthful ==
    /\ \A q \in inquiries :
          q.n = sequence /\ ~Unheard =>
              /\ q.step = "status known" => q.repo = repo
              /\ q.step \in {"list", "listed"} => repo
              /\ q.step = "listed" => q.has = files[editing]
    /\ ~Unheard => \/ known.error \/ known.has = TrueHistory
                   \/ \E q \in inquiries : q.n = sequence

HistoryInv == HistoryTyped /\ OpenFlowAsked /\ LastTruthful

LEMMA HistoryInitial == HistoryInit => HistoryInv
  <1> SUFFICES ASSUME HistoryInit  PROVE HistoryInv
    OBVIOUS
  <1>1. NoHistory \in Histories /\ [commits |-> 1, uncommitted |-> FALSE] \in Histories
        /\ [commits |-> 0, uncommitted |-> TRUE] \in Histories
    BY DEF NoHistory, Histories
  <1>2. files \in [HistoryFlows -> Histories]
    BY <1>1 DEF HistoryInit
  <1>3. inquiries \subseteq Inquiries
    BY <1>1 DEF HistoryInit, Inquiries, HistoryFlows
  <1>4. HistoryTyped
    BY <1>1, <1>2, <1>3 DEF HistoryInit, HistoryTyped, HistoryFlows
  <1>5. OpenFlowAsked
    BY DEF HistoryInit, OpenFlowAsked
  <1>6. LastTruthful
    BY DEF HistoryInit, LastTruthful
  <1> QED
    BY <1>4, <1>5, <1>6 DEF HistoryInv

\* A new question about the flow that is, or is now, open makes every other one idle.
LEMMA AskedAnew ==
    ASSUME HistoryInv, NEW p \in HistoryFlows, editing' = p, sequence' = sequence + 1,
           inquiries' = inquiries \cup {[n |-> sequence + 1, path |-> p, step |-> "status",
                                         repo |-> FALSE, has |-> NoHistory]},
           known'.path = p,
           known' \in [path : HistoryFlows, status : {"unknown", "none", "repo"},
                       has : Histories, loading : BOOLEAN, error : BOOLEAN],
           changing' \subseteq changing, \A c \in changing' : c.what # "save" => c.path = p,
           UNCHANGED <<repo, files>>
    PROVE  HistoryInv'
  <1> DEFINE u == [n |-> sequence + 1, path |-> p, step |-> "status", repo |-> FALSE,
                   has |-> NoHistory]
  <1>1. HistoryTyped /\ OpenFlowAsked /\ LastTruthful
    BY DEF HistoryInv
  <1>2. u \in Inquiries
    <2>1. sequence + 1 \in Nat
      BY <1>1 DEF HistoryTyped
    <2>2. NoHistory \in Histories
      BY DEF NoHistory, Histories
    <2> QED
      BY <2>1, <2>2 DEF Inquiries
  <1>3. u.n = sequence + 1 /\ u.path = p /\ u.step = "status"
    OBVIOUS
  <1>4. inquiries' = inquiries \cup {u}
    OBVIOUS
  <1> HIDE DEF u
  <1>5. sequence \in Nat /\ \A q \in inquiries : q.n \in Nat /\ q.n <= sequence /\ q.n # sequence'
    <2>1. sequence \in Nat /\ sequence' = sequence + 1
      BY <1>1 DEF HistoryTyped
    <2>2. \A q \in inquiries : q.n \in Nat /\ q.n <= sequence
      BY <1>1 DEF HistoryTyped, OpenFlowAsked, Inquiries
    <2> QED
      BY <2>1, <2>2
  <1>6. HistoryTyped'
    BY <1>1, <1>2, <1>4, <1>5 DEF HistoryTyped
  <1>7. OpenFlowAsked'
    <2>1. \A q \in inquiries' : q.n <= sequence' /\ (q.n = sequence' => q.path = editing')
      BY <1>3, <1>4, <1>5
    <2>2. \A q, r \in inquiries' : q.n = r.n => q = r
      BY <1>1, <1>3, <1>4, <1>5 DEF OpenFlowAsked
    <2> QED
      BY <2>1, <2>2 DEF OpenFlowAsked
  <1>8. LastTruthful'
    BY <1>3, <1>4, <1>5 DEF LastTruthful
  <1> QED
    BY <1>6, <1>7, <1>8 DEF HistoryInv

LEMMA AskedAboutOpen ==
    ASSUME HistoryInv, AskAgain(editing), editing' = editing, changing' \subseteq changing,
           UNCHANGED <<repo, files>>
    PROVE  HistoryInv'
  <1>1. HistoryTyped /\ OpenFlowAsked
    BY DEF HistoryInv
  <1>2. known' = [known EXCEPT !.path = editing, !.loading = TRUE, !.error = FALSE,
                               !.has = IF known.path = editing THEN @ ELSE NoHistory]
    BY DEF AskAgain
  <1>3. /\ known'.path = editing
        /\ known' \in [path : HistoryFlows, status : {"unknown", "none", "repo"},
                       has : Histories, loading : BOOLEAN, error : BOOLEAN]
    BY <1>1, <1>2 DEF HistoryTyped, OpenFlowAsked
  <1>4. editing \in HistoryFlows
    BY <1>1 DEF HistoryTyped
  <1> QED
    BY <1>1, <1>3, <1>4, AskedAnew DEF AskAgain, OpenFlowAsked

\* A question that is not the last is let go, whatever came of it.
LEMMA QuestionMoves ==
    ASSUME HistoryInv, NEW q \in inquiries, NEW r \in Inquiries,
           r.n = q.n, r.path = q.path, inquiries' = (inquiries \ {q}) \cup {r},
           UNCHANGED <<gitServer, editing, sequence, changing, unheard>>,
           known' \in [path : HistoryFlows, status : {"unknown", "none", "repo"},
                       has : Histories, loading : BOOLEAN, error : BOOLEAN],
           known'.path = known.path, known'.has = known.has, known'.error = known.error,
           q.n = sequence /\ ~Unheard =>
              /\ r.step = "status known" => r.repo = repo
              /\ r.step \in {"list", "listed"} => repo
              /\ r.step = "listed" => r.has = files[editing]
    PROVE  HistoryInv'
  <1>1. HistoryTyped /\ OpenFlowAsked /\ LastTruthful
    BY DEF HistoryInv
  <1>2. HistoryTyped'
    BY <1>1 DEF HistoryTyped, gitServer
  <1>3. OpenFlowAsked'
    <2>1. \A u, v \in inquiries' : u.n = v.n => u = v
      <3>1. \A u, v \in inquiries : u.n = v.n => u = v
        BY <1>1 DEF OpenFlowAsked
      <3>2. \A u \in inquiries \ {q} : u.n # r.n
        BY <3>1
      <3> QED
        BY <3>1, <3>2
    <2>2. \A u \in inquiries' : \E v \in inquiries : u.n = v.n /\ u.path = v.path
      OBVIOUS
    <2> QED
      BY <1>1, <2>1, <2>2 DEF OpenFlowAsked
  <1>4. Unheard' = Unheard /\ TrueHistory' = TrueHistory /\ files' = files /\ repo' = repo
    BY DEF Unheard, Concerns, TrueHistory, gitServer
  <1>5. LastTruthful'
    <2>1. ASSUME NEW u \in inquiries', u.n = sequence, ~Unheard
          PROVE  /\ u.step = "status known" => u.repo = repo
                 /\ u.step \in {"list", "listed"} => repo
                 /\ u.step = "listed" => u.has = files[editing]
      BY <1>1, <2>1 DEF LastTruthful
    <2>2. (\E u \in inquiries : u.n = sequence) => (\E u \in inquiries' : u.n = sequence)
      OBVIOUS
    <2>3. sequence' = sequence /\ editing' = editing
      OBVIOUS
    <2> QED
      BY <1>1, <1>4, <2>1, <2>2, <2>3 DEF LastTruthful
  <1> QED
    BY <1>2, <1>3, <1>5 DEF HistoryInv

LEMMA QuestionOver ==
    ASSUME HistoryInv, NEW q \in inquiries, inquiries' = inquiries \ {q},
           UNCHANGED <<gitServer, editing, sequence, changing, unheard>>,
           known' \in [path : HistoryFlows, status : {"unknown", "none", "repo"},
                       has : Histories, loading : BOOLEAN, error : BOOLEAN],
           known'.path = known.path,
           q.n # sequence => known' = known,
           q.n = sequence /\ ~Unheard => known'.error \/ known'.has = TrueHistory
    PROVE  HistoryInv'
  <1>1. HistoryTyped /\ OpenFlowAsked /\ LastTruthful
    BY DEF HistoryInv
  <1>2. HistoryTyped'
    BY <1>1 DEF HistoryTyped, gitServer
  <1>3. OpenFlowAsked'
    BY <1>1 DEF OpenFlowAsked
  <1>4. Unheard' = Unheard /\ TrueHistory' = TrueHistory /\ files' = files /\ repo' = repo
    BY DEF Unheard, Concerns, TrueHistory, gitServer
  <1>5. LastTruthful'
    BY <1>1, <1>4 DEF LastTruthful
  <1> QED
    BY <1>2, <1>3, <1>5 DEF HistoryInv

LEMMA HistoryStep == ~Wanders => (HistoryInv /\ [HistoryNext]_historyVars => HistoryInv')
  <1> SUFFICES ASSUME ~Wanders, HistoryInv, [HistoryNext]_historyVars  PROVE HistoryInv'
    OBVIOUS
  <1> DEFINE Stores0 == [path : HistoryFlows, status : {"unknown", "none", "repo"},
                         has : Histories, loading : BOOLEAN, error : BOOLEAN]
  <1>0. HistoryTyped /\ OpenFlowAsked /\ LastTruthful /\ known \in Stores0
    BY DEF HistoryInv, HistoryTyped
  <1>00. NoHistory \in Histories /\ files \in [HistoryFlows -> Histories]
    BY <1>0 DEF NoHistory, Histories, HistoryTyped
  <1>01. \A q \in inquiries : q \in Inquiries /\ q.path \in HistoryFlows /\ q.has \in Histories
    BY <1>0 DEF HistoryTyped, Inquiries
  <1>02. \A c \in changing : c \in Changes /\ c.path \in HistoryFlows
    BY <1>0 DEF HistoryTyped, Changes
  <1>1. ASSUME NEW q \in inquiries, GitSaysStatus(q)
        PROVE  HistoryInv'
    <2> DEFINE r == [q EXCEPT !.step = "status known", !.repo = repo]
    <2>1. r \in Inquiries /\ r.n = q.n /\ r.path = q.path /\ r.step = "status known" /\ r.repo = repo
      BY <1>0, <1>01 DEF Inquiries, HistoryTyped
    <2>2. inquiries' = (inquiries \ {q}) \cup {r}
      BY <1>1 DEF GitSaysStatus, Moves
    <2> HIDE DEF r
    <2> QED
      BY <1>0, <1>1, <2>1, <2>2, QuestionMoves DEF GitSaysStatus
  <1>2. ASSUME NEW q \in inquiries, GitLists(q)
        PROVE  HistoryInv'
    <2> DEFINE r == [q EXCEPT !.step = "listed", !.has = files[q.path]]
    <2>1. r \in Inquiries /\ r.n = q.n /\ r.path = q.path /\ r.step = "listed" /\ r.has = files[q.path]
      BY <1>00, <1>01 DEF Inquiries
    <2>2. inquiries' = (inquiries \ {q}) \cup {r} /\ q.step = "list"
      BY <1>2 DEF GitLists, Moves
    <2>3. q.n = sequence /\ ~Unheard => repo /\ q.path = editing
      BY <1>0, <2>2 DEF OpenFlowAsked, LastTruthful
    <2> HIDE DEF r
    <2> QED
      BY <1>0, <1>2, <2>1, <2>2, <2>3, QuestionMoves DEF GitLists
  <1>3. ASSUME NEW q \in inquiries, StatusLands(q)
        PROVE  HistoryInv'
    <2>0. UNCHANGED <<gitServer, editing, sequence, changing, unheard>> /\ q.step = "status known"
      BY <1>3 DEF StatusLands
    <2>1. CASE ~Current(q)
      BY <1>0, <1>3, <2>0, <2>1, QuestionOver DEF StatusLands, Current
    <2>2. CASE Current(q) /\ ~q.repo
      <3>1. inquiries' = inquiries \ {q}
            /\ known' = [known EXCEPT !.status = "none", !.has = NoHistory, !.loading = FALSE]
        BY <1>3, <2>2 DEF StatusLands
      <3>2. known' \in Stores0 /\ known'.path = known.path /\ known'.has = NoHistory
        BY <1>0, <1>00, <3>1
      <3>3. ~Unheard => TrueHistory = NoHistory
        BY <1>0, <2>0, <2>2 DEF LastTruthful, Current, TrueHistory
      <3> QED
        BY <2>0, <2>2, <3>1, <3>2, <3>3, QuestionOver DEF Current
    <2>3. CASE Current(q) /\ q.repo
      <3> DEFINE r == [q EXCEPT !.step = "list"]
      <3>1. inquiries' = (inquiries \ {q}) \cup {r} /\ known' = [known EXCEPT !.status = "repo"]
        BY <1>3, <2>3 DEF StatusLands, Moves
      <3>2. r \in Inquiries /\ r.n = q.n /\ r.path = q.path /\ r.step = "list"
        BY <1>01 DEF Inquiries
      <3>3. known' \in Stores0 /\ known'.path = known.path /\ known'.has = known.has
            /\ known'.error = known.error
        BY <1>0, <3>1
      <3>4. ~Unheard => repo
        BY <1>0, <2>0, <2>3 DEF LastTruthful, Current
      <3> HIDE DEF r
      <3> QED
        BY <2>0, <3>1, <3>2, <3>3, <3>4, QuestionMoves
    <2> QED
      BY <2>1, <2>2, <2>3
  <1>4. ASSUME NEW q \in inquiries, HistoryLands(q)
        PROVE  HistoryInv'
    <2>0. UNCHANGED <<gitServer, editing, sequence, changing, unheard>> /\ q.step = "listed"
          /\ inquiries' = inquiries \ {q}
      BY <1>4 DEF HistoryLands
    <2>1. CASE ~Current(q)
      BY <1>0, <1>4, <2>0, <2>1, QuestionOver DEF HistoryLands, Current
    <2>2. CASE Current(q)
      <3>1. known' = [known EXCEPT !.has = q.has, !.loading = FALSE, !.error = FALSE]
        BY <1>4, <2>2 DEF HistoryLands
      <3>2. known' \in Stores0 /\ known'.path = known.path /\ known'.has = q.has
        BY <1>0, <1>01, <3>1
      <3>3. ~Unheard => TrueHistory = q.has
        BY <1>0, <2>0, <2>2 DEF LastTruthful, Current, TrueHistory
      <3> QED
        BY <2>0, <2>2, <3>2, <3>3, QuestionOver DEF Current
    <2> QED
      BY <2>1, <2>2
  <1>5. ASSUME NEW q \in inquiries, QuestionFails(q)
        PROVE  HistoryInv'
    <2>0. UNCHANGED <<gitServer, editing, sequence, changing, unheard>> /\ inquiries' = inquiries \ {q}
      BY <1>5 DEF QuestionFails
    <2>1. CASE ~Current(q)
      BY <1>0, <1>5, <2>0, <2>1, QuestionOver DEF QuestionFails, Current
    <2>2. CASE Current(q)
      <3>1. known' = [known EXCEPT !.loading = FALSE, !.error = TRUE]
        BY <1>5, <2>2 DEF QuestionFails
      <3>2. known' \in Stores0 /\ known'.path = known.path /\ known'.error
        BY <1>0, <3>1
      <3> QED
        BY <2>0, <2>2, <3>2, QuestionOver DEF Current
    <2> QED
      BY <2>1, <2>2
  <1>6. ASSUME NEW c \in changing, ServerChanges(c)
        PROVE  HistoryInv'
    <2> DEFINE d == [c EXCEPT !.step = "answered"]
    <2>1. d \in Changes /\ d.what = c.what /\ d.path = c.path /\ d.step = "answered"
      BY <1>02 DEF Changes
    <2>2. changing' = (changing \ {c}) \cup {d}
          /\ UNCHANGED <<editing, known, sequence, inquiries, historyPanel, unheard>>
      BY <1>6 DEF ServerChanges
    <2>3. repo' \in BOOLEAN /\ files' \in [HistoryFlows -> Histories]
      <3>0. c.what \in {"save", "restore", "init"} /\ c.path \in HistoryFlows /\ repo \in BOOLEAN
        BY <1>0, <1>02 DEF Changes, HistoryTyped
      <3>1. CASE c.what = "init"
        <4>1. [commits |-> 0, uncommitted |-> TRUE] \in Histories
          BY DEF Histories
        <4>2. repo' = TRUE /\ files' = [p \in HistoryFlows |->
                                        IF repo THEN files[p] ELSE [commits |-> 0, uncommitted |-> TRUE]]
          BY <1>6, <3>1 DEF ServerChanges
        <4> QED
          BY <1>00, <4>1, <4>2
      <3>2. CASE c.what = "restore"
        <4>1. PICK dirty \in BOOLEAN : files' = [files EXCEPT ![c.path].uncommitted = dirty] /\ repo' = repo
          BY <1>6, <3>2 DEF ServerChanges
        <4>2. files[c.path] \in Histories
          BY <1>00, <3>0
        <4>3. [files[c.path] EXCEPT !.uncommitted = dirty] \in Histories
          BY <4>2 DEF Histories
        <4> QED
          BY <1>00, <3>0, <4>1, <4>3
      <3>3. CASE c.what = "save"
        <4>1. files[c.path] \in Histories
          BY <1>00, <3>0
        <4>2. [files[c.path] EXCEPT !.uncommitted = TRUE] \in Histories
              /\ [commits |-> files[c.path].commits + 1, uncommitted |-> FALSE] \in Histories
          <5>1. files[c.path].commits + 1 \in Int
            BY <4>1 DEF Histories
          <5> QED
            BY <4>1, <5>1 DEF Histories
        <4>3. repo' = repo /\ \/ files' = files
                              \/ files' = [files EXCEPT ![c.path].uncommitted = TRUE]
                              \/ files' = [files EXCEPT ![c.path] =
                                             [commits |-> @.commits + 1, uncommitted |-> FALSE]]
          BY <1>6, <3>3 DEF ServerChanges
        <4> QED
          BY <1>00, <3>0, <4>2, <4>3
      <3> QED
        BY <3>0, <3>1, <3>2, <3>3
    <2> HIDE DEF d
    <2>4. HistoryTyped'
      BY <1>0, <2>1, <2>2, <2>3 DEF HistoryTyped
    <2>5. OpenFlowAsked'
      BY <1>0, <2>1, <2>2 DEF OpenFlowAsked
    <2>6. CASE d.path = editing \/ d.what = "init"
      <3>1. Unheard'
        BY <2>1, <2>2, <2>6 DEF Unheard, Concerns
      <3> QED
        BY <2>4, <2>5, <3>1 DEF HistoryInv, LastTruthful
    <2>7. CASE ~(d.path = editing \/ d.what = "init")
      <3>1. c.what = "save" /\ c.path # editing /\ c.path \in HistoryFlows
        BY <1>0, <1>02, <2>1, <2>7 DEF OpenFlowAsked, Changes
      <3>2. repo' = repo /\ files'[editing] = files[editing]
        <4>1. repo' = repo /\ \/ files' = files
                              \/ files' = [files EXCEPT ![c.path].uncommitted = TRUE]
                              \/ files' = [files EXCEPT ![c.path] =
                                             [commits |-> @.commits + 1, uncommitted |-> FALSE]]
          BY <1>6, <3>1 DEF ServerChanges
        <4> QED
          BY <1>0, <1>00, <3>1, <4>1 DEF HistoryTyped
      <3>3. Unheard' <=> Unheard
        <4>1. ~Concerns(c) /\ ~Concerns(d)
          BY <2>1, <2>7 DEF Concerns
        <4>2. editing' = editing /\ unheard' = unheard
          BY <2>2
        <4> QED
          BY <2>2, <4>1, <4>2 DEF Unheard, Concerns
      <3>4. TrueHistory' = TrueHistory
        BY <2>2, <3>2 DEF TrueHistory
      <3>5. LastTruthful'
        BY <1>0, <2>2, <3>2, <3>3, <3>4 DEF LastTruthful
      <3> QED
        BY <2>4, <2>5, <3>5 DEF HistoryInv
    <2> QED
      BY <2>6, <2>7
  <1>7. ASSUME NEW c \in changing, ChangeLands(c)
        PROVE  HistoryInv'
    <2>1. AskAgain(editing) /\ changing' = changing \ {c} /\ UNCHANGED <<gitServer, editing>>
      BY <1>0, <1>7 DEF ChangeLands, OpenFlowAsked
    <2> QED
      BY <2>1, AskedAboutOpen DEF gitServer
  <1>8. CASE RefreshHistory
    BY <1>8, AskedAboutOpen DEF RefreshHistory, gitServer
  <1>9. ASSUME NEW p \in HistoryFlows, OpenFlow(p)
        PROVE  HistoryInv'
    <2>1. \A c \in changing : c.what = "save"
      BY <1>9 DEF OpenFlow
    <2>2. known' = [path |-> p, status |-> known.status, has |-> NoHistory, loading |-> TRUE,
                    error |-> FALSE]
          /\ editing' = p /\ sequence' = sequence + 1 /\ UNCHANGED <<repo, files, changing>>
      BY <1>9 DEF OpenFlow, gitServer
    <2>3. known' \in Stores0 /\ known'.path = p
      BY <1>0, <1>00, <2>2
    <2> QED
      BY <1>9, <2>1, <2>2, <2>3, AskedAnew DEF OpenFlow
  <1>10. ASSUME NEW what \in {"save", "restore", "init"}, Change(what)
         PROVE  HistoryInv'
    <2> DEFINE d == [what |-> what, path |-> editing, step |-> "asked"]
    <2>1. changing' = changing \cup {d}
          /\ UNCHANGED <<repo, files, editing, known, sequence, inquiries, unheard>>
      BY <1>10 DEF Change, gitServer
    <2>2. d \in Changes /\ d.path = editing /\ d.step = "asked"
      BY <1>0 DEF HistoryTyped, Changes
    <2> HIDE DEF d
    <2>3. HistoryTyped'
      BY <1>0, <2>1, <2>2 DEF HistoryTyped
    <2>4. OpenFlowAsked'
      BY <1>0, <2>1, <2>2 DEF OpenFlowAsked
    <2>5. (Unheard' <=> Unheard) /\ TrueHistory' = TrueHistory
      BY <2>1, <2>2 DEF Unheard, Concerns, TrueHistory
    <2>6. LastTruthful'
      BY <1>0, <2>1, <2>5 DEF LastTruthful
    <2> QED
      BY <2>3, <2>4, <2>6 DEF HistoryInv
  <1>11. ASSUME NEW c \in changing, ChangeFails(c)
         PROVE  HistoryInv'
    <2>1. changing' = changing \ {c} /\ (unheard' <=> unheard \/ Concerns(c))
          /\ UNCHANGED <<repo, files, editing, known, sequence, inquiries>>
      BY <1>11 DEF ChangeFails, Concerns, gitServer
    <2>2. (Unheard' <=> Unheard) /\ TrueHistory' = TrueHistory
      <3>1. \A b \in changing : Concerns(b)' <=> Concerns(b)
        BY <2>1 DEF Concerns
      <3> QED
        BY <2>1, <3>1 DEF Unheard, Concerns, TrueHistory
    <2>3. HistoryTyped' /\ OpenFlowAsked'
      BY <1>0, <2>1 DEF HistoryTyped, OpenFlowAsked
    <2>4. LastTruthful'
      BY <1>0, <2>1, <2>2 DEF LastTruthful
    <2> QED
      BY <2>3, <2>4 DEF HistoryInv
  <1>12. ASSUME NEW p \in HistoryFlows, CommitsElsewhere(p)
         PROVE  HistoryInv'
    <2>1. /\ repo /\ files' = [files EXCEPT ![p] = [commits |-> @.commits + 1, uncommitted |-> FALSE]]
          /\ unheard' = (unheard \/ p = editing)
          /\ UNCHANGED <<repo, editing, known, sequence, inquiries, changing>>
      BY <1>12 DEF CommitsElsewhere
    <2>2. files[p] \in Histories
      BY <1>00
    <2>3. [commits |-> files[p].commits + 1, uncommitted |-> FALSE] \in Histories
      BY <2>2 DEF Histories
    <2>4. files' \in [HistoryFlows -> Histories] /\ (p # editing => files'[editing] = files[editing])
      BY <1>0, <1>00, <2>1, <2>3 DEF HistoryTyped
    <2>5. HistoryTyped' /\ OpenFlowAsked'
      BY <1>0, <2>1, <2>4 DEF HistoryTyped, OpenFlowAsked
    <2>6. ~Unheard' => ~Unheard /\ TrueHistory' = TrueHistory /\ files'[editing'] = files[editing]
      BY <2>1, <2>4 DEF Unheard, Concerns, TrueHistory
    <2>7. LastTruthful'
      BY <1>0, <2>1, <2>6 DEF LastTruthful
    <2> QED
      BY <2>5, <2>7 DEF HistoryInv
  <1>13. CASE \/ \E v \in 1..(MaxWrites + 1) : ReadVersion(v) \/ VersionLands(v)
              \/ AllVersions \/ UNCHANGED historyVars
    <2>1. UNCHANGED <<repo, files, editing, known, sequence, inquiries, changing, unheard>>
      BY <1>13 DEF ReadVersion, VersionLands, AllVersions, historyVars, gitServer
    <2> QED
      BY <1>0, <2>1 DEF HistoryInv, HistoryTyped, OpenFlowAsked, LastTruthful, Unheard, Concerns, TrueHistory
  <1> QED
    BY <1>1, <1>2, <1>3, <1>4, <1>5, <1>6, <1>7, <1>8, <1>9, <1>10, <1>11, <1>12, <1>13
       DEF HistoryNext

\* Whatever is saved, restored and committed, for any number of questions answered in any
\* order: unless another flow is opened while this one waits for git (see Wanders), once
\* every answer is in, what the editor says of a flow's history is how it is, and of the
\* flow that is open, but for what it was not told of: a commit made elsewhere and a
\* change whose answer was lost, until it asks again (refresh of history/store.ts).
THEOREM HistoryTold == ~Wanders => (HistorySpec => []DotTruthful)
  <1> SUFFICES ASSUME ~Wanders  PROVE HistorySpec => []DotTruthful
    OBVIOUS
  <1>1. HistoryInv /\ [HistoryNext]_historyVars => HistoryInv'
    BY HistoryStep
  <1>2. HistoryInv => DotTruthful
    BY DEF HistoryInv, OpenFlowAsked, LastTruthful, Unheard, Concerns, TrueHistory, DotTruthful
  <1> QED
    BY <1>1, <1>2, HistoryInitial, PTL DEF HistorySpec
-----------------------------------------------------------------------------
(***************************************************************************)
(* ScheduleForm: what is listed, filled in, sent and stored are values of  *)
(* the flow they are for.                                                  *)
(***************************************************************************)
FlowNames == {"a", "b", "none"}
ParamValues == [of : FlowNames, from : FlowNames \cup {"file"}]
OwnValues(flow, p) == p.of \in {flow, "none"} /\ p.from \in {flow, "file", "none"}
OwnSchedules == {x \in [flow : FlowNames, params : ParamValues] : OwnValues(x.flow, x.params)}

Forms == [open : BOOLEAN, n : Int, id : Nat, initial : OwnSchedules, flow : FlowNames,
          params : ParamValues, cron : Crons]
Works == [slot : 1..MaxWorks, what : {"save", "switch", "run", "delete"}, id : Nat,
          step : {"asked", "refused", "done"}, values : OwnSchedules, legible : BOOLEAN]

OwnRows(rows) ==
    /\ DOMAIN rows \subseteq 1..Len(schedules)
    /\ \A i \in DOMAIN rows : rows[i] \in OwnSchedules
ScheduleTyped ==
    /\ schedules \in Seq(OwnSchedules) /\ form \in Forms /\ works \subseteq Works
    /\ OwnRows(scheduled.has) /\ OwnRows(asksList.got)
    /\ confirmed \in 0..Len(schedules)
\* A request from a row is about a schedule there is, or was.
RowsOnly == \A w \in works : w.what # "save" => w.id \in 1..Len(schedules)
\* The parameters asked for are the chosen flow's; once they have come the fields hold them.
FilledIn ==
    /\ params \subseteq {form.flow}
    /\ params = {} => OwnValues(form.flow, form.params)

ScheduleInv == ScheduleTyped /\ RowsOnly /\ FilledIn

LEMMA EmptyForm ==
    /\ NoParams \in ParamValues /\ NewSchedule \in OwnSchedules /\ Gone \in OwnSchedules
    /\ \A f \in ScheduledFlows : f \in FlowNames /\ Schedule(f, NoParams) \in OwnSchedules
                                 /\ Declared(f) \in ParamValues
    /\ \A f \in FlowNames : OwnValues(f, NoParams)
    /\ NoForm \in Forms
    /\ \A n \in Int : [NoForm EXCEPT !.n = n] \in Forms
                       /\ [NoForm EXCEPT !.n = n].flow = "a" /\ [NoForm EXCEPT !.n = n].params = NoParams
  <1>1. NoParams \in ParamValues
    BY DEF NoParams, ParamValues, FlowNames
  <1>2. \A f \in FlowNames : OwnValues(f, NoParams)
    BY DEF NoParams, OwnValues
  <1>3. \A f \in FlowNames : Schedule(f, NoParams) \in OwnSchedules
    BY <1>1, <1>2 DEF Schedule, OwnSchedules
  <1>4. \A f \in ScheduledFlows : f \in FlowNames /\ Declared(f) \in ParamValues
    BY DEF ScheduledFlows, FlowNames, Declared, ParamValues
  <1>5. NewSchedule \in OwnSchedules /\ Gone \in OwnSchedules
    BY <1>3 DEF NewSchedule, Gone, FlowNames
  <1>6. NoForm \in Forms /\ NoForm.flow = "a" /\ NoForm.params = NoParams
    BY <1>1, <1>5 DEF NoForm, Forms, FlowNames, Crons
  <1>7. \A n \in Int : [NoForm EXCEPT !.n = n] \in Forms
                        /\ [NoForm EXCEPT !.n = n].flow = "a" /\ [NoForm EXCEPT !.n = n].params = NoParams
    BY <1>6 DEF Forms
  <1> QED
    BY <1>1, <1>2, <1>3, <1>4, <1>5, <1>6, <1>7

LEMMA ScheduleInitial == ScheduleInit => ScheduleInv
  <1> SUFFICES ASSUME ScheduleInit  PROVE ScheduleInv
    OBVIOUS
  <1> DEFINE x == Schedule("a", [of |-> "a", from |-> "a"])
  <1>1. x \in OwnSchedules
    BY DEF Schedule, OwnSchedules, OwnValues, FlowNames, ParamValues
  <1>2. schedules = <<x>> /\ Len(schedules) = 1
    BY DEF ScheduleInit
  <1> HIDE DEF x
  <1>3. schedules \in Seq(OwnSchedules)
    BY <1>1, <1>2
  <1>4. OwnRows(<<>>)
    BY DEF OwnRows
  <1>5. ScheduleTyped
    BY <1>2, <1>3, <1>4, EmptyForm DEF ScheduleInit, ScheduleTyped, NoRows, AskedAgain
  <1>6. FilledIn
    BY EmptyForm DEF ScheduleInit, FilledIn, FlowNames, NoForm
  <1> QED
    BY <1>5, <1>6 DEF ScheduleInit, ScheduleInv, RowsOnly

\* With the server's schedules as they were, the page's own state is what is left to see.
LEMMA PageMoves ==
    ASSUME ScheduleInv, schedules' = schedules, form' \in Forms, works' \subseteq Works,
           OwnRows(scheduled'.has), OwnRows(asksList'.got), confirmed' \in 0..Len(schedules),
           \A w \in works' : w.what # "save" => w.id \in 1..Len(schedules),
           params' \subseteq {form'.flow}, params' = {} => OwnValues(form'.flow, form'.params)
    PROVE  ScheduleInv'
  BY DEF ScheduleInv, ScheduleTyped, RowsOnly, FilledIn, OwnRows

\* A request sent is of its kind, from its row; those under way stay.
LEMMA SentWorks ==
    ASSUME works \subseteq Works, NEW what \in {"save", "switch", "run", "delete"}, NEW id \in Nat,
           NEW values \in OwnSchedules, NEW legible \in BOOLEAN, Sends(what, id, values, legible)
    PROVE  /\ works' \subseteq Works
           /\ \A w \in works' : w \in works \/ (w.what = what /\ w.id = id)
  <1>1. PICK k \in 1..MaxWorks :
           works' = works \cup {[slot |-> k, what |-> what, id |-> id, step |-> "asked",
                                values |-> values, legible |-> legible]}
    BY DEF Sends
  <1> DEFINE w == [slot |-> k, what |-> what, id |-> id, step |-> "asked",
                   values |-> values, legible |-> legible]
  <1>2. w \in Works /\ w.what = what /\ w.id = id
    BY DEF Works
  <1>3. works' = works \cup {w}
    BY <1>1
  <1> HIDE DEF w
  <1> QED
    BY <1>2, <1>3

LEMMA ScheduleStep == ~Early => (ScheduleInv /\ [ScheduleNext]_scheduleVars => ScheduleInv')
  <1> SUFFICES ASSUME ~Early, ScheduleInv, [ScheduleNext]_scheduleVars  PROVE ScheduleInv'
    OBVIOUS
  <1>0. ScheduleTyped /\ RowsOnly /\ FilledIn
    BY DEF ScheduleInv
  <1>01. /\ schedules \in Seq(OwnSchedules) /\ Len(schedules) \in Nat /\ form \in Forms
         /\ works \subseteq Works /\ OwnRows(scheduled.has) /\ OwnRows(asksList.got)
         /\ confirmed \in 0..Len(schedules)
    BY <1>0 DEF ScheduleTyped
  <1>02. \A w \in works : w \in Works /\ w.values \in OwnSchedules
                          /\ (w.what # "save" => w.id \in 1..Len(schedules))
    BY <1>0, <1>01 DEF RowsOnly, Works
  <1>03. params \subseteq {form.flow} /\ (params = {} => OwnValues(form.flow, form.params))
    BY <1>0 DEF FilledIn
  <1>04. /\ form.flow \in FlowNames /\ form.params \in ParamValues /\ form.initial \in OwnSchedules
         /\ form.n \in Int /\ form.id \in Nat
    BY <1>01 DEF Forms
  <1>05. \A f \in FlowNames, p \in ParamValues :
            OwnValues(f, p) => Schedule(f, p) \in OwnSchedules
    BY DEF Schedule, OwnSchedules
  <1>06. OwnRows(<<>>) /\ 0 \in 0..Len(schedules)
    BY <1>01 DEF OwnRows
  <1>1. CASE ServerListsSchedules \/ RowsLand \/ RowsFail \/ ReloadRows
    <2>0. UNCHANGED <<schedules, form, params, works, confirmed>>
      BY <1>1 DEF ServerListsSchedules, RowsLand, RowsFail, ReloadRows, formVars
    <2>1. CASE ServerListsSchedules
      <3> DEFINE rows == [i \in Kept(schedules) |-> schedules[i]]
      <3>1. asksList'.got = rows /\ scheduled' = scheduled
        BY <2>1 DEF ServerListsSchedules
      <3>2. OwnRows(rows)
        BY <1>01 DEF Kept, OwnRows
      <3> HIDE DEF rows
      <3> QED
        BY <1>01, <1>02, <1>03, <2>0, <3>1, <3>2, PageMoves
    <2>2. CASE RowsLand \/ RowsFail \/ ReloadRows
      <3>1. OwnRows(scheduled'.has) /\ OwnRows(asksList'.got)
        BY <1>01, <1>06, <2>2 DEF RowsLand, RowsFail, ReloadRows, NotAsked, AskedAgain, NoRows
      <3> QED
        BY <1>01, <1>02, <1>03, <2>0, <3>1, PageMoves
    <2> QED
      BY <1>1, <2>1, <2>2
  <1>2. ASSUME NEW id \in Nat, NEW row \in OwnSchedules, OpensForm(id, row), confirmed' = confirmed
        PROVE  ScheduleInv'
    <2> DEFINE g == [NoForm EXCEPT !.open = TRUE, !.n = form.n + 1, !.id = id, !.initial = row,
                                   !.flow = row.flow]
    <2>1. form' = g /\ params' = {row.flow} /\ UNCHANGED <<schedules, scheduled, asksList, works>>
      BY <1>2 DEF OpensForm, AskParams
    <2>2. g \in Forms /\ g.flow = row.flow
      <3>1. row.flow \in FlowNames /\ form.n + 1 \in Int
        BY <1>04 DEF OwnSchedules
      <3> QED
        BY <3>1, EmptyForm DEF Forms
    <2> HIDE DEF g
    <2> QED
      BY <1>01, <1>02, <1>2, <2>1, <2>2, PageMoves
  <1>3. ASSUME NEW f \in ScheduledFlows, CreateForm(f)
        PROVE  ScheduleInv'
    BY <1>2, <1>3, EmptyForm DEF CreateForm
  <1>4. ASSUME NEW id \in 1..MaxSchedules, EditForm(id)
        PROVE  ScheduleInv'
    <2>1. id \in Nat /\ scheduled.has[id] \in OwnSchedules
      BY <1>01, <1>4 DEF EditForm, OwnRows
    <2> QED
      BY <1>2, <1>4, <2>1 DEF EditForm
  <1>5. CASE CloseForm
    BY <1>01, <1>02, <1>04, <1>5, EmptyForm, PageMoves DEF CloseForm, pageVars, FlowNames
  <1>6. ASSUME NEW f \in ScheduledFlows, ChooseFlow(f)
        PROVE  ScheduleInv'
    <2>1. form' = [form EXCEPT !.flow = f] /\ params' = {f}
          /\ UNCHANGED <<schedules, scheduled, asksList, works, confirmed>>
      BY <1>6 DEF ChooseFlow, AskParams, pageVars
    <2>2. form' \in Forms /\ form'.flow = f
      BY <1>01, <2>1, EmptyForm DEF Forms
    <2> QED
      BY <1>01, <1>02, <2>1, <2>2, PageMoves
  <1>7. CASE TypeValue
    <2>1. form' = [form EXCEPT !.params.from = form.params.of]
          /\ UNCHANGED <<schedules, scheduled, asksList, works, confirmed, params>>
      BY <1>7 DEF TypeValue, pageVars
    <2>2. [form.params EXCEPT !.from = form.params.of] \in ParamValues
          /\ (OwnValues(form.flow, form.params) =>
                OwnValues(form.flow, [form.params EXCEPT !.from = form.params.of]))
      BY <1>04 DEF ParamValues, OwnValues
    <2>3. form' \in Forms /\ form'.flow = form.flow
          /\ form'.params = [form.params EXCEPT !.from = form.params.of]
      BY <1>01, <2>1, <2>2 DEF Forms
    <2> QED
      BY <1>01, <1>02, <1>03, <2>1, <2>2, <2>3, PageMoves
  <1>8. ASSUME NEW c \in Crons, TypeCron(c)
        PROVE  ScheduleInv'
    <2>1. form' = [form EXCEPT !.cron = c]
          /\ UNCHANGED <<schedules, scheduled, asksList, works, confirmed, params>>
      BY <1>8 DEF TypeCron, pageVars
    <2>2. form' \in Forms /\ form'.flow = form.flow /\ form'.params = form.params
      BY <1>01, <2>1 DEF Forms
    <2> QED
      BY <1>01, <1>02, <1>03, <2>1, <2>2, PageMoves
  <1>9. ASSUME NEW f \in params, ParamsLand(f) \/ ParamsFail(f)
        PROVE  ScheduleInv'
    <2>1. f = form.flow /\ params' = {}
          /\ UNCHANGED <<schedules, scheduled, asksList, works, confirmed>>
      BY <1>03, <1>9 DEF ParamsLand, ParamsFail, pageVars
    <2> DEFINE read == IF ParamsLand(f) THEN ReadFrom(f) ELSE NoParams
    <2>2. form' = [form EXCEPT !.params = read]
      BY <1>9 DEF ParamsLand, ParamsFail
    <2>3. NoParams \in ParamValues /\ OwnValues(f, NoParams)
      BY <1>04, <2>1, EmptyForm
    <2>4. ReadFrom(f) \in ParamValues /\ OwnValues(f, ReadFrom(f))
      <3>1. CASE form.initial.flow = f
        <4>1. form.initial.params.from \in {f, "file", "none"}
              /\ form.initial.params.from \in FlowNames \cup {"file"} /\ f \in FlowNames
          BY <1>04, <2>1, <3>1 DEF OwnSchedules, OwnValues, ParamValues
        <4> QED
          BY <4>1 DEF ReadFrom, Declared, ParamValues, OwnValues
      <3>2. CASE form.initial.flow # f
        BY <1>04, <2>1, <3>2 DEF ReadFrom, Declared, ParamValues, OwnValues
      <3> QED
        BY <3>1, <3>2
    <2>5. read \in ParamValues /\ OwnValues(f, read)
      BY <2>3, <2>4
    <2> HIDE DEF read
    <2>6. form' \in Forms /\ form'.flow = f /\ form'.params = read
      BY <1>01, <2>1, <2>2, <2>5 DEF Forms
    <2> QED
      BY <1>01, <1>02, <2>1, <2>5, <2>6, PageMoves
  <1>10. CASE SubmitForm
    <2> DEFINE v == Schedule(form.flow, form.params)
               c == form.cron # "unreadable"
    <2>1. params = {} /\ Sends("save", form.id, v, c)
          /\ UNCHANGED <<schedules, scheduled, asksList, confirmed, params, form>>
      BY <1>10 DEF SubmitForm, pageVars, formVars
    <2>2. v \in OwnSchedules /\ c \in BOOLEAN
      BY <1>03, <1>04, <1>05, <2>1
    <2> HIDE DEF v, c
    <2>3. works' \subseteq Works /\ \A w \in works' : w \in works \/ w.what = "save"
      BY <1>01, <1>04, <2>1, <2>2, SentWorks
    <2> QED
      BY <1>01, <1>02, <1>03, <2>1, <2>3, PageMoves
  <1>11. ASSUME NEW id \in 1..MaxSchedules, SwitchOn(id) \/ RunNow(id) \/ Confirm(id)
         PROVE  ScheduleInv'
    <2>0. id \in 1..Len(schedules) /\ UNCHANGED <<schedules, scheduled, asksList, form, params>>
      BY <1>01, <1>11 DEF SwitchOn, RunNow, Press, Confirm, OwnRows, formVars
    <2>1. CASE Confirm(id)
      BY <1>01, <1>02, <1>03, <2>0, <2>1, PageMoves DEF Confirm
    <2>2. CASE \E what \in {"switch", "run"} : Press(id, what)
      <3>1. PICK what \in {"switch", "run"} : Press(id, what)
        BY <2>2
      <3>2. Sends(what, id, NewSchedule, TRUE) /\ confirmed' = confirmed
        BY <3>1 DEF Press
      <3>3. what \in {"save", "switch", "run", "delete"} /\ id \in Nat
        BY <3>1
      <3>4. works' \subseteq Works /\ \A w \in works' : w \in works \/ w.id = id
        BY <1>01, <3>2, <3>3, EmptyForm, SentWorks
      <3> QED
        BY <1>01, <1>02, <1>03, <2>0, <3>2, <3>3, <3>4, PageMoves
    <2> QED
      BY <1>11, <2>1, <2>2 DEF SwitchOn, RunNow
  <1>12. CASE CancelConfirm
    BY <1>01, <1>02, <1>03, <1>06, <1>12, PageMoves DEF CancelConfirm, formVars
  <1>13. CASE ConfirmDelete
    <2>1. /\ Sends("delete", confirmed, NewSchedule, TRUE) /\ confirmed # 0
          /\ UNCHANGED <<schedules, scheduled, asksList, form, params, confirmed>>
      BY <1>13 DEF ConfirmDelete, formVars
    <2>2. confirmed \in Nat /\ confirmed \in 1..Len(schedules)
      BY <1>01, <2>1
    <2>3. works' \subseteq Works /\ \A w \in works' : w \in works \/ w.id = confirmed
      BY <1>01, <2>1, <2>2, EmptyForm, SentWorks
    <2> QED
      BY <1>01, <1>02, <1>03, <2>1, <2>2, <2>3, PageMoves
  <1>14. ASSUME NEW w \in works, SaveLands(w)
         PROVE  ScheduleInv'
    BY <1>01, <1>02, <1>04, <1>06, <1>14, EmptyForm, PageMoves DEF SaveLands, AskedAgain, FlowNames
  <1>15. ASSUME NEW w \in works, SwitchLands(w)
         PROVE  ScheduleInv'
    <2> DEFINE rows == [i \in DOMAIN scheduled.has |->
                           IF i = w.id THEN w.values ELSE scheduled.has[i]]
    <2>1. OwnRows(rows)
      BY <1>01, <1>02 DEF OwnRows
    <2>2. scheduled'.has = rows /\ works' = works \ {w}
          /\ UNCHANGED <<schedules, asksList, confirmed, form, params>>
      BY <1>15 DEF SwitchLands, formVars
    <2> HIDE DEF rows
    <2> QED
      BY <1>01, <1>02, <1>03, <2>1, <2>2, PageMoves
  <1>16. ASSUME NEW w \in works, RunLands(w) \/ DeleteLands(w)
         PROVE  ScheduleInv'
    BY <1>01, <1>02, <1>03, <1>06, <1>16, PageMoves DEF RunLands, DeleteLands, AskedAgain, formVars
  <1>17. ASSUME NEW w \in works, WorkFails(w)
         PROVE  ScheduleInv'
    <2>1. works' = works \ {w} /\ UNCHANGED <<schedules, scheduled, asksList, confirmed, params, form>>
      BY <1>17 DEF WorkFails, formVars
    <2> QED
      BY <1>01, <1>02, <1>03, <2>1, PageMoves
  <1>18. ASSUME NEW w \in works, ServerWorks(w)
         PROVE  ScheduleInv'
    <2>0. UNCHANGED <<scheduled, asksList, confirmed, form, params>>
      BY <1>18 DEF ServerWorks, pageVars, formVars
    <2>1. schedules' \in Seq(OwnSchedules) /\ Len(schedules) <= Len(schedules')
      <3>1. \/ schedules' = schedules
            \/ schedules' = [schedules EXCEPT ![w.id] = Gone]
            \/ schedules' = Append(schedules, w.values)
            \/ schedules' = [schedules EXCEPT ![w.id] = w.values]
        BY <1>18 DEF ServerWorks
      <3>2. Gone \in OwnSchedules /\ w.values \in OwnSchedules
        BY <1>02, EmptyForm
      <3>3. \A v \in OwnSchedules : /\ [schedules EXCEPT ![w.id] = v] \in Seq(OwnSchedules)
                                    /\ Len([schedules EXCEPT ![w.id] = v]) = Len(schedules)
        <4> SUFFICES ASSUME NEW v \in OwnSchedules
                     PROVE  /\ [schedules EXCEPT ![w.id] = v] \in Seq(OwnSchedules)
                            /\ Len([schedules EXCEPT ![w.id] = v]) = Len(schedules)
          OBVIOUS
        <4>1. CASE w.id \in 1..Len(schedules)
          BY <1>01, <4>1
        <4>2. CASE w.id \notin 1..Len(schedules)
          <5>1. [schedules EXCEPT ![w.id] = v] = schedules
            BY <1>01, <4>2
          <5> QED
            BY <1>01, <5>1
        <4> QED
          BY <4>1, <4>2
      <3>4. \A v \in OwnSchedules : /\ Append(schedules, v) \in Seq(OwnSchedules)
                                    /\ Len(schedules) <= Len(Append(schedules, v))
        BY <1>01
      <3> QED
        BY <1>01, <3>1, <3>2, <3>3, <3>4
    <2>2. PICK r \in {[w EXCEPT !.step = "refused"], [w EXCEPT !.step = "done"]}
                     \cup {[w EXCEPT !.step = "done", !.values = schedules[w.id]]} :
             /\ works' = (works \ {w}) \cup {r}
             /\ r = [w EXCEPT !.step = "done", !.values = schedules[w.id]] =>
                   w.what = "switch" \/ r = [w EXCEPT !.step = "done"]
      BY <1>18 DEF ServerWorks, Become
    <2>3. r \in Works /\ r.what = w.what /\ r.id = w.id
      <3>1. w.what = "switch" => schedules[w.id] \in OwnSchedules
        BY <1>01, <1>02
      <3> QED
        BY <1>02, <2>2, <3>1 DEF Works
    <2>4. 1..Len(schedules) \subseteq 1..Len(schedules') /\ 0..Len(schedules) \subseteq 0..Len(schedules')
      BY <1>01, <2>1
    <2>5. OwnRows(scheduled.has)' /\ OwnRows(asksList.got)'
      BY <1>01, <2>0, <2>4 DEF OwnRows
    <2>6. ScheduleTyped'
      BY <1>01, <2>0, <2>1, <2>2, <2>3, <2>4, <2>5 DEF ScheduleTyped
    <2>7. RowsOnly'
      BY <1>02, <2>2, <2>3, <2>4 DEF RowsOnly
    <2>8. FilledIn'
      BY <1>03, <2>0 DEF FilledIn
    <2> QED
      BY <2>6, <2>7, <2>8 DEF ScheduleInv
  <1>19. CASE UNCHANGED scheduleVars
    BY <1>01, <1>02, <1>03, <1>19, PageMoves DEF scheduleVars
  <1> QED
    BY <1>1, <1>3, <1>4, <1>5, <1>6, <1>7, <1>8, <1>9, <1>10, <1>11, <1>12, <1>13, <1>14, <1>15,
       <1>16, <1>17, <1>18, <1>19 DEF ScheduleNext

\* Whatever flows are chosen in the form, and whatever is saved, switched and deleted
\* meanwhile: unless the form is saved before its flow's parameters have come (see Early), a
\* schedule has no parameters but those of the flow it runs, and once they have come the
\* form shows them (readParams and submit of ScheduleDialog.tsx).
THEOREM ParametersOwn == ~Early => (ScheduleSpec => []OwnParameters)
  <1> SUFFICES ASSUME ~Early  PROVE ScheduleSpec => []OwnParameters
    OBVIOUS
  <1>1. ScheduleInv /\ [ScheduleNext]_scheduleVars => ScheduleInv'
    BY ScheduleStep
  <1>2. ScheduleInv => OwnParameters
    <2> SUFFICES ASSUME ScheduleInv  PROVE OwnParameters
      OBVIOUS
    <2>1. \A i \in DOMAIN schedules : schedules[i] \in OwnSchedules
      BY DEF ScheduleInv, ScheduleTyped
    <2> QED
      BY <2>1 DEF ScheduleInv, FilledIn, OwnSchedules, OwnValues, OwnParameters
  <1> QED
    BY <1>1, <1>2, ScheduleInitial, PTL DEF ScheduleSpec
-----------------------------------------------------------------------------
(***************************************************************************)
(* UsersPage: the list asked for after an order is the one that counts,    *)
(* and a password is shown only while it is its owner's last one.          *)
(***************************************************************************)
Accounts == [role : {"none", "removed", "member", "admin"}, disabled : BOOLEAN, secret : Nat]
Orders == [what : {"role", "disabled", "password", "add", "delete"}, n : Nat, who : Ids,
           value : {"member", "admin", "yes", "no", "new", "gone"},
           step : {"asked", "refused", "done"}]
Secrets == [who : 0..3, n : Nat]

UsersTyped ==
    /\ people \in [Ids -> Accounts] /\ \A p \in Ids : people[p].role = "none" => people[p] = Nobody
    /\ orders \subseteq Orders /\ ordered \in Nat
    /\ adding \in Nat /\ removing \in 0..3
    /\ secretsShown \in [reset : Secrets, made : Secrets]

\* An order is numbered, and no two are to set one password.
Numbered ==
    /\ \A o \in orders : /\ o.n \in 1..ordered
                         /\ o.what \in {"role", "add"} => o.value \in {"member", "admin"}
                         /\ o.what = "add" => o.who = 3
    /\ \A o, r \in orders : o.n = r.n => o = r
    /\ \A o, r \in orders :
          o.what = "password" /\ r.what = "password" /\ o.who = r.who => o = r
\* Nothing but being made is asked for somebody who is yet to be.
NotYet ==
    people[3] = Nobody =>
        /\ 3 \notin DOMAIN listedPeople.has /\ 3 \notin DOMAIN asksPeople.got /\ removing # 3
        /\ \A o \in orders : o.who = 3 => o.what = "add"

\* The rows that are asked for or shown are the accounts there are, unless an order is done
\* that the page has yet to hear of, or something was done elsewhere.
Rows == [p \in Present(people) |-> Row(p)]
Untold == doubtful \/ \E o \in orders : o.step = "done"
PeopleTruthful ==
    ~Untold => /\ asksPeople.step = "answered" => asksPeople.got = Rows
               /\ asksPeople.step = "none" /\ listedPeople.known => listedPeople.has = Rows

\* Number n is the last that was to set this password, and it has.
Opens(p, n) == people[p] # Nobody /\ (p \in Present(people) => people[p].secret = n)
NoReset(p) == \A o \in orders : o.what = "password" => o.who # p
SecretsOpen ==
    /\ \A o \in orders : o.what = "password" /\ o.step = "done" => Opens(o.who, o.n)
    /\ \A o \in orders : o.step = "done" /\ OfDialog(o) => Opens(3, o.n) /\ NoReset(3)
    /\ secretsShown.reset # NoSecret =>
          /\ secretsShown.reset.who \in Ids /\ NoReset(secretsShown.reset.who)
          /\ Opens(secretsShown.reset.who, secretsShown.reset.n)
    /\ secretsShown.made # NoSecret =>
          /\ secretsShown.made.who = 3 /\ Opens(3, secretsShown.made.n) /\ NoReset(3)

UsersInv == UsersTyped /\ Numbered /\ NotYet /\ PeopleTruthful /\ SecretsOpen

LEMMA UsersInitial == UsersInit => UsersInv
  <1> SUFFICES ASSUME UsersInit  PROVE UsersInv
    OBVIOUS
  <1>1. /\ people \in [Ids -> Accounts] /\ people[3] = Nobody
        /\ \A p \in Ids : people[p].role = "none" => people[p] = Nobody
    <2> DEFINE first(p) == IF p = 3 THEN Nobody
                           ELSE [role |-> IF p = Me THEN "admin" ELSE "member",
                                 disabled |-> FALSE, secret |-> 0]
    <2>1. \A p \in Ids : first(p) \in Accounts /\ (first(p).role = "none" => first(p) = Nobody)
      BY DEF Nobody, Accounts
    <2>2. people = [p \in Ids |-> first(p)]
      BY DEF UsersInit
    <2>3. 3 \in Ids /\ first(3) = Nobody
      BY DEF Ids
    <2> HIDE DEF first
    <2> QED
      BY <2>1, <2>2, <2>3
  <1>2. orders = {} /\ ordered = 0 /\ adding = 0 /\ removing = 0 /\ secretsShown = NoSecrets
        /\ asksPeople.step = "asked" /\ asksPeople.got = <<>> /\ listedPeople = NoPeople
    BY DEF UsersInit, Closed
  <1>3. UsersTyped
    BY <1>1, <1>2 DEF UsersTyped, NoSecrets, NoSecret, Secrets
  <1>4. NotYet
    BY <1>2 DEF NotYet, NoPeople
  <1>5. PeopleTruthful
    BY <1>2 DEF PeopleTruthful
  <1>6. SecretsOpen
    BY <1>2 DEF SecretsOpen, NoSecrets
  <1> QED
    BY <1>2, <1>3, <1>4, <1>5, <1>6 DEF UsersInv, Numbered

\* What an order that is permitted makes of its account.
LEMMA ChangedAccount ==
    ASSUME UsersTyped, NEW o, o.who \in Ids, o.n \in Nat, Permits(o),
           o.what \in {"role", "disabled", "password", "add", "delete"},
           o.what \in {"role", "add"} => o.value \in {"member", "admin"}
    PROVE  /\ Changed(o) \in Accounts /\ Changed(o).role # "none"
           /\ o.what \in {"role", "disabled"} => Changed(o).secret = people[o.who].secret
           /\ o.what \in {"password", "add"} => Changed(o).secret = o.n
           /\ o.what = "delete" => Changed(o) = Removed
           /\ IF o.what = "add" THEN people[o.who] = Nobody ELSE o.who \in Present(people)
  <1>1. people[o.who] \in Accounts /\ (people[o.who].role = "none" => people[o.who] = Nobody)
    BY DEF UsersTyped
  <1>2. IF o.what = "add" THEN people[o.who] = Nobody ELSE o.who \in Present(people)
    BY DEF Permits
  <1>3. o.what # "add" => people[o.who].role # "none"
    BY <1>1, <1>2 DEF Present
  <1>4. CASE o.what = "role"
    BY <1>1, <1>2, <1>4 DEF Changed, Accounts
  <1>5. CASE o.what = "disabled"
    BY <1>1, <1>2, <1>3, <1>5 DEF Changed, Accounts
  <1>6. CASE o.what = "password"
    BY <1>1, <1>2, <1>3, <1>6 DEF Changed, Accounts
  <1>7. CASE o.what = "add"
    BY <1>2, <1>7 DEF Changed, Accounts
  <1>8. CASE o.what = "delete"
    BY <1>2, <1>8 DEF Changed, Accounts, Removed
  <1> QED
    BY <1>4, <1>5, <1>6, <1>7, <1>8

\* No order but one for a password, and one that makes the account, sets its secret.
LEMMA OpensKept ==
    ASSUME UsersTyped, NEW o, o.who \in Ids, o.n \in Nat, Permits(o),
           o.what \in {"role", "disabled", "password", "add", "delete"},
           o.what \in {"role", "add"} => o.value \in {"member", "admin"},
           people' = [people EXCEPT ![o.who] = Changed(o)]
    PROVE  /\ people' \in [Ids -> Accounts]
           /\ \A p \in Ids : people'[p].role = "none" => people'[p] = Nobody
           /\ people'[3] = Nobody => people[3] = Nobody
           /\ people'[o.who] # Nobody
           /\ \A p \in Ids, n \in Nat : Opens(p, n) /\ (o.what = "password" => o.who # p) => Opens(p, n)'
           /\ o.what \in {"password", "add"} => Opens(o.who, o.n)'
  <1>1. /\ Changed(o) \in Accounts /\ Changed(o).role # "none"
        /\ o.what \in {"role", "disabled"} => Changed(o).secret = people[o.who].secret
        /\ o.what \in {"password", "add"} => Changed(o).secret = o.n
        /\ o.what = "delete" => Changed(o) = Removed
        /\ IF o.what = "add" THEN people[o.who] = Nobody ELSE o.who \in Present(people)
    BY ChangedAccount
  <1>2. /\ people' \in [Ids -> Accounts] /\ people'[o.who] = Changed(o)
        /\ \A p \in Ids \ {o.who} : people'[p] = people[p]
    <2>1. people \in [Ids -> Accounts]
      BY DEF UsersTyped
    <2>2. Changed(o) \in Accounts
      BY <1>1
    <2> QED
      BY <2>1, <2>2
  <1>3. people'[o.who].role # "none" /\ people'[o.who] # Nobody
    BY <1>1, <1>2 DEF Nobody
  <1>4. \A p \in Ids : people'[p].role = "none" => people'[p] = Nobody
    BY <1>2, <1>3 DEF UsersTyped
  <1>5. people'[3] = Nobody => people[3] = Nobody
    BY <1>2, <1>3 DEF Ids
  <1>6. ASSUME NEW p \in Ids, NEW n \in Nat, Opens(p, n), o.what = "password" => o.who # p
        PROVE  Opens(p, n)'
    <2>1. CASE p # o.who
      BY <1>2, <1>6, <2>1 DEF Opens, Present
    <2>2. CASE p = o.who
      <3>1. o.what # "add" /\ people[p].secret = n
        BY <1>1, <1>6, <2>2 DEF Opens
      <3> QED
        BY <1>1, <1>2, <1>3, <1>6, <2>2, <3>1 DEF Opens, Present
    <2> QED
      BY <2>1, <2>2
  <1>7. o.what \in {"password", "add"} => Opens(o.who, o.n)'
    BY <1>1, <1>2, <1>3 DEF Opens
  <1> QED
    BY <1>2, <1>3, <1>4, <1>5, <1>6, <1>7

LEMMA OrderGiven ==
    ASSUME UsersInv, NEW what \in {"role", "disabled", "password", "add", "delete"},
           NEW p \in Ids, NEW value \in {"member", "admin", "yes", "no", "new", "gone"},
           Order(what, p, value), removing' = removing,
           what \in {"role", "add"} => value \in {"member", "admin"},
           adding' = adding, what = "add" => p = 3,
           what # "add" => (people[3] = Nobody => p # 3),
           what = "password" => Uncovered /\ NoReset(p)
    PROVE  UsersInv'
  <1> DEFINE u == [what |-> what, n |-> ordered + 1, who |-> p, value |-> value, step |-> "asked"]
  <1>0. UsersTyped /\ Numbered /\ NotYet /\ PeopleTruthful /\ SecretsOpen
    BY DEF UsersInv
  <1>1. ordered' = ordered + 1 /\ orders' = orders \cup {u}
        /\ UNCHANGED <<people, listedPeople, asksPeople, secretsShown, doubtful>>
    BY DEF Order, listOfPeople
  <1>2. ordered \in Nat /\ ordered' \in Nat /\ ordered < ordered' /\ ordered' \in 1..ordered' /\ 1..ordered \subseteq 1..ordered'
    BY <1>0, <1>1 DEF UsersTyped
  <1>3. u \in Orders /\ u.what = what /\ u.n = ordered' /\ u.who = p /\ u.value = value /\ u.step = "asked"
    BY <1>1, <1>2 DEF Orders
  <1> HIDE DEF u
  <1>4. \A o \in orders : o.n \in Nat /\ o.n <= ordered /\ 1 <= o.n /\ o.n # ordered'
    BY <1>0, <1>1, <1>2 DEF Numbered
  <1>5. UsersTyped'
    BY <1>0, <1>1, <1>2, <1>3 DEF UsersTyped
  <1>6. Numbered'
    <2>1. \A o \in orders' : /\ o.n \in 1..ordered'
                             /\ o.what \in {"role", "add"} => o.value \in {"member", "admin"}
                             /\ o.what = "add" => o.who = 3
      BY <1>0, <1>1, <1>2, <1>3 DEF Numbered
    <2>2. \A o, r \in orders' : o.n = r.n => o = r
      BY <1>0, <1>1, <1>3, <1>4 DEF Numbered
    <2>3. \A o, r \in orders' :
             o.what = "password" /\ r.what = "password" /\ o.who = r.who => o = r
      BY <1>0, <1>1, <1>3 DEF Numbered, NoReset
    <2> QED
      BY <2>1, <2>2, <2>3 DEF Numbered
  <1>7. NotYet'
    BY <1>0, <1>1, <1>3 DEF NotYet
  <1>8. PeopleTruthful'
    <2>1. Rows' = Rows
      BY <1>1 DEF Rows, Row, Present
    <2>2. Untold' = Untold
      BY <1>1, <1>3 DEF Untold
    <2> QED
      BY <1>0, <1>1, <2>1, <2>2 DEF PeopleTruthful
  <1>9. SecretsOpen'
    <2>1. \A q \in Ids, n \in Nat : Opens(q, n)' <=> Opens(q, n)
      BY <1>1 DEF Opens, Present
    <2>2. \A o \in orders : o.who \in Ids /\ o.n \in Nat
      BY <1>0 DEF UsersTyped, Orders
    <2>3. \A o \in orders' : o.what = "password" /\ o.step = "done" => Opens(o.who, o.n)'
      BY <1>0, <1>1, <1>3, <2>1, <2>2 DEF SecretsOpen
    <2>4. what # "password" => \A q \in Ids : NoReset(q) => NoReset(q)'
      BY <1>1, <1>3 DEF NoReset
    <2>5. what = "password" => secretsShown = NoSecrets /\ adding = Closed
      BY DEF Uncovered
    <2>6. \A o \in orders' : o.step = "done" /\ OfDialog(o)' => Opens(3, o.n)' /\ NoReset(3)'
      <3> SUFFICES ASSUME NEW o \in orders', o.step = "done", OfDialog(o)'
                   PROVE  Opens(3, o.n)' /\ NoReset(3)'
        OBVIOUS
      <3>1. o \in orders /\ OfDialog(o) /\ what # "password"
        BY <1>1, <1>3, <2>5 DEF OfDialog
      <3> QED
        BY <1>0, <2>1, <2>2, <2>4, <3>1 DEF SecretsOpen, Ids
    <2>7. secretsShown.reset # NoSecret =>
             /\ secretsShown.reset.who \in Ids /\ NoReset(secretsShown.reset.who)'
             /\ Opens(secretsShown.reset.who, secretsShown.reset.n)'
      <3> SUFFICES ASSUME secretsShown.reset # NoSecret
                   PROVE  /\ secretsShown.reset.who \in Ids /\ NoReset(secretsShown.reset.who)'
                          /\ Opens(secretsShown.reset.who, secretsShown.reset.n)'
        OBVIOUS
      <3>1. what # "password"
        BY <2>5 DEF NoSecrets
      <3>2. secretsShown.reset.n \in Nat
        BY <1>0 DEF UsersTyped, Secrets
      <3> QED
        BY <1>0, <1>1, <2>1, <2>4, <3>1, <3>2 DEF SecretsOpen
    <2>8. secretsShown.made # NoSecret =>
             /\ secretsShown.made.who = 3 /\ Opens(3, secretsShown.made.n)' /\ NoReset(3)'
      <3> SUFFICES ASSUME secretsShown.made # NoSecret
                   PROVE  /\ secretsShown.made.who = 3 /\ Opens(3, secretsShown.made.n)' /\ NoReset(3)'
        OBVIOUS
      <3>1. what # "password"
        BY <1>0, <2>5 DEF NoSecrets, SecretsOpen
      <3>2. secretsShown.made.n \in Nat /\ 3 \in Ids
        BY <1>0 DEF UsersTyped, Secrets, Ids
      <3> QED
        BY <1>0, <1>1, <2>1, <2>4, <3>1, <3>2 DEF SecretsOpen
    <2> QED
      BY <1>1, <2>3, <2>6, <2>7, <2>8 DEF SecretsOpen
  <1> QED
    BY <1>5, <1>6, <1>7, <1>8, <1>9 DEF UsersInv

\* With the accounts and the orders as they were, what is left to see is the page.
LEMMA OrdersAsTheyWere ==
    ASSUME UsersInv, UNCHANGED <<people, orders, ordered>>,
           adding' \in Nat, removing' \in 0..3,
           secretsShown' \in [reset : Secrets, made : Secrets],
           people[3] = Nobody => /\ 3 \notin DOMAIN listedPeople'.has
                                 /\ 3 \notin DOMAIN asksPeople'.got /\ removing' # 3,
           PeopleTruthful',
           secretsShown'.reset \in {secretsShown.reset, NoSecret},
           \/ adding' = adding /\ secretsShown'.made \in {secretsShown.made, NoSecret}
           \/ adding' \in {Closed, ordered + 1} /\ secretsShown'.made = NoSecret
    PROVE  UsersInv'
  <1>0. UsersTyped /\ Numbered /\ NotYet /\ SecretsOpen
    BY DEF UsersInv
  <1>1. UsersTyped'
    BY <1>0 DEF UsersTyped
  <1>2. Numbered' /\ NotYet'
    BY <1>0 DEF Numbered, NotYet
  <1>3. \A p \in Ids : (NoReset(p)' <=> NoReset(p)) /\ \A n \in Nat : Opens(p, n)' <=> Opens(p, n)
    BY DEF NoReset, Opens, Present
  <1>4. \A o \in orders : o.who \in Ids /\ o.n \in Nat /\ ~(ordered + 1 <= o.n)
    <2>1. ordered \in Nat /\ \A o \in orders : o.who \in Ids /\ o.n \in Nat /\ o.n <= ordered
      BY <1>0 DEF UsersTyped, Orders, Numbered
    <2> QED
      BY <2>1
  <1>5. secretsShown.reset.n \in Nat /\ secretsShown.made.n \in Nat /\ 3 \in Ids
    BY <1>0 DEF UsersTyped, Secrets, Ids
  <1>6. SecretsOpen'
    <2>1. \A o \in orders' : o.what = "password" /\ o.step = "done" => Opens(o.who, o.n)'
      BY <1>0, <1>3, <1>4 DEF SecretsOpen
    <2>2. \A o \in orders' : o.step = "done" /\ OfDialog(o)' => Opens(3, o.n)' /\ NoReset(3)'
      <3>1. \A o \in orders : OfDialog(o)' => OfDialog(o)
        BY <1>4 DEF OfDialog
      <3> QED
        BY <1>0, <1>3, <1>4, <1>5, <3>1 DEF SecretsOpen
    <2>3. (secretsShown.reset # NoSecret =>
             /\ secretsShown.reset.who \in Ids /\ NoReset(secretsShown.reset.who)
             /\ Opens(secretsShown.reset.who, secretsShown.reset.n))'
      <3> SUFFICES ASSUME secretsShown'.reset # NoSecret
                   PROVE  (/\ secretsShown.reset.who \in Ids /\ NoReset(secretsShown.reset.who)
                           /\ Opens(secretsShown.reset.who, secretsShown.reset.n))'
        OBVIOUS
      <3>1. secretsShown'.reset = secretsShown.reset
        OBVIOUS
      <3>2. /\ secretsShown.reset.who \in Ids /\ NoReset(secretsShown.reset.who)
            /\ Opens(secretsShown.reset.who, secretsShown.reset.n)
        BY <1>0, <3>1 DEF SecretsOpen
      <3> QED
        BY <3>1, <3>2 DEF NoReset, Opens, Present
    <2>4. (secretsShown.made # NoSecret =>
             /\ secretsShown.made.who = 3 /\ Opens(3, secretsShown.made.n) /\ NoReset(3))'
      <3> SUFFICES ASSUME secretsShown'.made # NoSecret
                   PROVE  (/\ secretsShown.made.who = 3 /\ Opens(3, secretsShown.made.n) /\ NoReset(3))'
        OBVIOUS
      <3>1. secretsShown'.made = secretsShown.made
        OBVIOUS
      <3>2. /\ secretsShown.made.who = 3 /\ Opens(3, secretsShown.made.n) /\ NoReset(3)
        BY <1>0, <3>1 DEF SecretsOpen
      <3> QED
        BY <3>1, <3>2 DEF NoReset, Opens, Present
    <2> QED
      BY <2>1, <2>2, <2>3, <2>4 DEF SecretsOpen
  <1> QED
    BY <1>1, <1>2, <1>6 DEF UsersInv

\* The server takes an order, or refuses it.
LEMMA OrderTaken ==
    ASSUME UsersInv, NEW o \in orders, ServerObeys(o)
    PROVE  UsersInv'
  <1>0. UsersTyped /\ Numbered /\ NotYet /\ PeopleTruthful /\ SecretsOpen
    BY DEF UsersInv
  <1>1. /\ o.who \in Ids /\ o.n \in Nat /\ o \in Orders
        /\ o.what \in {"role", "disabled", "password", "add", "delete"}
        /\ o.what \in {"role", "add"} => o.value \in {"member", "admin"}
    BY <1>0 DEF UsersTyped, Orders, Numbered
  <1>2. UNCHANGED <<listedPeople, asksPeople, ordered, removing, adding, secretsShown, doubtful>>
        /\ o.step = "asked"
    BY DEF ServerObeys, listOfPeople, dialogs
  <1>3. PICK r \in {[o EXCEPT !.step = "refused"], [o EXCEPT !.step = "done"]} :
           /\ orders' = (orders \ {o}) \cup {r}
           /\ IF r.step = "refused" THEN people' = people
              ELSE Permits(o) /\ people' = [people EXCEPT ![o.who] = Changed(o)]
    BY <1>1 DEF ServerObeys, Orders
  <1>4. /\ r \in Orders /\ r.n = o.n /\ r.what = o.what /\ r.who = o.who /\ r.value = o.value
        /\ r.step \in {"refused", "done"}
    BY <1>1, <1>3 DEF Orders
  <1>5. /\ people' \in [Ids -> Accounts]
        /\ \A p \in Ids : people'[p].role = "none" => people'[p] = Nobody
        /\ people'[3] = Nobody => people[3] = Nobody
        /\ \A p \in Ids, n \in Nat :
              Opens(p, n) /\ (r.step = "done" /\ o.what = "password" => o.who # p) => Opens(p, n)'
        /\ r.step = "done" /\ o.what \in {"password", "add"} => Opens(o.who, o.n)'
        /\ r.step = "done" /\ o.what = "add" => people[3] = Nobody
    <2>1. CASE r.step = "refused"
      <3>1. people' = people
        BY <1>3, <2>1
      <3>2. \A p \in Ids, n \in Nat : Opens(p, n)' <=> Opens(p, n)
        BY <3>1 DEF Opens, Present
      <3> QED
        BY <1>0, <2>1, <3>1, <3>2 DEF UsersTyped
    <2>2. CASE r.step = "done"
      <3>1. Permits(o) /\ people' = [people EXCEPT ![o.who] = Changed(o)]
        BY <1>3, <2>2
      <3>2. o.what = "add" => people[3] = Nobody
        BY <1>0, <3>1 DEF Permits, Numbered
      <3> QED
        BY <1>0, <1>1, <2>2, <3>1, <3>2, OpensKept
    <2> QED
      BY <1>4, <2>1, <2>2
  <1>6. UsersTyped'
    BY <1>0, <1>2, <1>3, <1>4, <1>5 DEF UsersTyped
  <1>7. Numbered'
    <2>1. \A q \in orders' : \E v \in orders : /\ q.n = v.n /\ q.what = v.what /\ q.who = v.who
                                                /\ q.value = v.value
      BY <1>3, <1>4
    <2>2. \A q \in orders' : /\ q.n \in 1..ordered
                             /\ q.what \in {"role", "add"} => q.value \in {"member", "admin"}
                             /\ q.what = "add" => q.who = 3
      BY <1>0, <2>1 DEF Numbered
    <2>3. \A u \in orders \ {o} : u.n # o.n /\ ~(u.what = "password" /\ o.what = "password" /\ u.who = o.who)
      BY <1>0 DEF Numbered
    <2>4. \A u, v \in orders' : u.n = v.n => u = v
      BY <1>0, <1>3, <1>4, <2>3 DEF Numbered
    <2>5. \A u, v \in orders' :
             u.what = "password" /\ v.what = "password" /\ u.who = v.who => u = v
      BY <1>0, <1>3, <1>4, <2>3 DEF Numbered
    <2> QED
      BY <1>2, <2>2, <2>4, <2>5 DEF Numbered
  <1>8. NotYet'
    BY <1>0, <1>2, <1>3, <1>4, <1>5 DEF NotYet
  <1>9. PeopleTruthful'
    <2>1. CASE r.step = "done"
      BY <1>3, <2>1 DEF PeopleTruthful, Untold
    <2>2. CASE r.step = "refused"
      <3>1. people' = people /\ o.step # "done"
        BY <1>2, <1>3, <2>2
      <3>2. Rows' = Rows
        BY <3>1 DEF Rows, Row, Present
      <3>3. Untold' = Untold
        BY <1>2, <1>3, <2>2, <3>1 DEF Untold
      <3> QED
        BY <1>0, <1>2, <3>2, <3>3 DEF PeopleTruthful
    <2> QED
      BY <1>4, <2>1, <2>2
  <1>10. SecretsOpen'
    <2>0. \A p \in Ids : NoReset(p)' <=> NoReset(p)
      BY <1>3, <1>4 DEF NoReset
    <2>00. 3 \in Ids /\ \A q \in orders : q.who \in Ids /\ q.n \in Nat
      BY <1>0 DEF UsersTyped, Orders, Ids
    <2>1. ASSUME NEW q \in orders', q.what = "password", q.step = "done"
          PROVE  Opens(q.who, q.n)'
      <3>1. CASE q = r
        BY <1>4, <1>5, <2>1, <3>1
      <3>2. CASE q # r
        <4>1. q \in orders \ {o} /\ Opens(q.who, q.n)
          BY <1>0, <1>3, <2>1, <3>2 DEF SecretsOpen
        <4>2. o.what = "password" => q.who # o.who
          BY <1>0, <2>1, <4>1 DEF Numbered
        <4> QED
          BY <1>5, <2>00, <4>1, <4>2
      <3> QED
        BY <3>1, <3>2
    <2>2. ASSUME NEW q \in orders', q.step = "done", OfDialog(q)'
          PROVE  Opens(3, q.n)' /\ NoReset(3)'
      <3>1. CASE q = r
        <4>1. o.who = 3 /\ o.what = "add" /\ people[3] = Nobody /\ Opens(3, q.n)'
          BY <1>0, <1>4, <1>5, <2>2, <3>1 DEF Numbered, OfDialog
        <4>2. NoReset(3)
          BY <1>0, <4>1 DEF NotYet, NoReset
        <4> QED
          BY <2>0, <2>00, <4>1, <4>2
      <3>2. CASE q # r
        <4>1. q \in orders \ {o} /\ OfDialog(q)
          BY <1>2, <1>3, <2>2, <3>2 DEF OfDialog
        <4>2. Opens(3, q.n) /\ NoReset(3)
          BY <1>0, <2>2, <4>1 DEF SecretsOpen
        <4> QED
          BY <1>5, <2>0, <2>00, <4>1, <4>2 DEF NoReset
      <3> QED
        BY <3>1, <3>2
    <2>3. (secretsShown.reset # NoSecret =>
             /\ secretsShown.reset.who \in Ids /\ NoReset(secretsShown.reset.who)
             /\ Opens(secretsShown.reset.who, secretsShown.reset.n))'
      <3> DEFINE p == secretsShown.reset.who
                 n == secretsShown.reset.n
      <3>1. p' = p /\ n' = n /\ n \in Nat
        BY <1>0, <1>2 DEF UsersTyped, Secrets
      <3>2. secretsShown.reset # NoSecret => p \in Ids /\ NoReset(p) /\ Opens(p, n)
        BY <1>0 DEF SecretsOpen
      <3>3. secretsShown.reset # NoSecret => (p \in Ids /\ NoReset(p) /\ Opens(p, n))'
        <4> SUFFICES ASSUME secretsShown.reset # NoSecret
                     PROVE  p \in Ids /\ NoReset(p)' /\ Opens(p, n)'
          BY <3>1
        <4>1. o.what = "password" => o.who # p
          BY <3>2 DEF NoReset
        <4> QED
          BY <1>5, <2>0, <3>1, <3>2, <4>1
      <3> QED
        BY <1>2, <3>3
    <2>4. (secretsShown.made # NoSecret =>
             /\ secretsShown.made.who = 3 /\ Opens(3, secretsShown.made.n) /\ NoReset(3))'
      <3> SUFFICES ASSUME secretsShown.made # NoSecret
                   PROVE  /\ secretsShown.made.who = 3 /\ Opens(3, secretsShown.made.n)' /\ NoReset(3)'
        BY <1>2
      <3>1. /\ secretsShown.made.who = 3 /\ Opens(3, secretsShown.made.n) /\ NoReset(3)
        BY <1>0 DEF SecretsOpen
      <3>2. secretsShown.made.n \in Nat /\ secretsShown' = secretsShown
        BY <1>0, <1>2 DEF UsersTyped, Secrets
      <3>3. o.what = "password" => o.who # 3
        BY <3>1 DEF NoReset
      <3>4. Opens(3, secretsShown.made.n)'
        BY <1>5, <2>00, <3>1, <3>2, <3>3
      <3> QED
        BY <1>3, <1>4, <2>0, <2>00, <3>1, <3>4
    <2> QED
      BY <2>1, <2>2, <2>3, <2>4 DEF SecretsOpen
  <1> QED
    BY <1>6, <1>7, <1>8, <1>9, <1>10 DEF UsersInv

\* An account is changed elsewhere; nothing there sets a password.
LEMMA ChangedElsewhere ==
    ASSUME UsersInv, NEW p \in Ids, NEW what \in {"role", "disabled", "delete"},
           NEW value \in {"member", "admin", "yes", "no", "gone"},
           what = "role" => value \in {"member", "admin"}, AnotherAdministrator(p, what, value)
    PROVE  UsersInv'
  <1> DEFINE o == [what |-> what, n |-> ordered + 1, who |-> p, value |-> value]
  <1>0. UsersTyped /\ Numbered /\ NotYet /\ SecretsOpen
    BY DEF UsersInv
  <1>1. /\ Permits(o) /\ people' = [people EXCEPT ![o.who] = Changed(o)] /\ ordered' = ordered + 1
        /\ doubtful' = TRUE
        /\ UNCHANGED <<listedPeople, asksPeople, orders, removing, adding, secretsShown>>
    BY DEF AnotherAdministrator, listOfPeople, dialogs
  <1>2. o.who = p /\ o.n = ordered + 1 /\ o.what = what /\ o.value = value
    OBVIOUS
  <1> HIDE DEF o
  <1>3. ordered \in Nat /\ ordered + 1 \in Nat /\ ordered <= ordered' /\ 1..ordered \subseteq 1..ordered'
    BY <1>0, <1>1 DEF UsersTyped
  <1>4. /\ people' \in [Ids -> Accounts]
        /\ \A q \in Ids : people'[q].role = "none" => people'[q] = Nobody
        /\ people'[3] = Nobody => people[3] = Nobody
        /\ \A q \in Ids, n \in Nat : Opens(q, n) => Opens(q, n)'
    BY <1>0, <1>1, <1>2, <1>3, OpensKept
  <1>5. UsersTyped'
    BY <1>0, <1>1, <1>3, <1>4 DEF UsersTyped
  <1>6. Numbered'
    BY <1>0, <1>1, <1>3 DEF Numbered
  <1>7. NotYet'
    BY <1>0, <1>1, <1>4 DEF NotYet
  <1>8. PeopleTruthful'
    BY <1>1 DEF PeopleTruthful, Untold
  <1>9. SecretsOpen'
    <2>1. \A q \in Ids : NoReset(q)' <=> NoReset(q)
      BY <1>1 DEF NoReset
    <2>2. 3 \in Ids /\ (\A q \in orders : q.who \in Ids /\ q.n \in Nat)
          /\ secretsShown.reset.n \in Nat /\ secretsShown.made.n \in Nat
      BY <1>0 DEF UsersTyped, Orders, Ids, Secrets
    <2>3. secretsShown.reset # NoSecret =>
             /\ secretsShown.reset.who \in Ids /\ NoReset(secretsShown.reset.who)'
             /\ Opens(secretsShown.reset.who, secretsShown.reset.n)'
      BY <1>0, <1>1, <1>4, <2>1, <2>2 DEF SecretsOpen
    <2>4. secretsShown.made # NoSecret => Opens(3, secretsShown.made.n)' /\ NoReset(3)'
      BY <1>0, <1>1, <1>4, <2>1, <2>2 DEF SecretsOpen
    <2>5. \A q \in orders' : q.what = "password" /\ q.step = "done" => Opens(q.who, q.n)'
      BY <1>0, <1>1, <1>4, <2>2 DEF SecretsOpen
    <2>6. \A q \in orders' : q.step = "done" /\ OfDialog(q)' => Opens(3, q.n)' /\ NoReset(3)'
      <3>1. \A q \in orders : OfDialog(q)' => OfDialog(q)
        BY <1>1 DEF OfDialog
      <3> QED
        BY <1>0, <1>1, <1>4, <2>1, <2>2, <3>1 DEF SecretsOpen
    <2> QED
      BY <1>0, <1>1, <2>3, <2>4, <2>5, <2>6 DEF SecretsOpen
  <1> QED
    BY <1>5, <1>6, <1>7, <1>8, <1>9 DEF UsersInv

\* An order is heard of: done, refused, or lost.
LEMMA OrderOver ==
    ASSUME UsersInv, NEW o \in orders, OrderDone(o) \/ OrderFails(o)
    PROVE  UsersInv'
  <1>0. UsersTyped /\ Numbered /\ NotYet /\ PeopleTruthful /\ SecretsOpen
    BY DEF UsersInv
  <1>1. o.who \in Ids /\ o.n \in Nat
    BY <1>0 DEF UsersTyped, Orders
  <1>2. orders' = orders \ {o} /\ UNCHANGED <<people, listedPeople, ordered, adding>>
        /\ removing' \in {removing, 0}
    BY DEF OrderDone, OrderFails, listOfPeople
  <1>3. Shown(o) \in Secrets /\ Shown(o).who = o.who /\ Shown(o).n = o.n
    BY <1>1 DEF Shown, Secrets, Ids
  <1>4. secretsShown.reset \in Secrets /\ secretsShown.made \in Secrets /\ 3 \in Ids
        /\ secretsShown.reset.n \in Nat /\ secretsShown.made.n \in Nat
    BY <1>0 DEF UsersTyped, Secrets, Ids
  <1>5. /\ secretsShown'.reset \in {secretsShown.reset, Shown(o)}
        /\ \/ secretsShown'.reset = secretsShown.reset
           \/ o.what = "password" /\ o.step = "done"
        /\ secretsShown'.made \in {secretsShown.made, Shown(o)}
        /\ \/ secretsShown'.made = secretsShown.made
           \/ o.step = "done" /\ OfDialog(o)
        /\ secretsShown' \in [reset : Secrets, made : Secrets]
    <2>1. CASE OrderDone(o)
      BY <1>3, <1>4, <2>1 DEF OrderDone
    <2>2. CASE OrderFails(o)
      <3>1. secretsShown' = secretsShown
        BY <2>2 DEF OrderFails
      <3>2. secretsShown \in [reset : Secrets, made : Secrets]
        BY <1>0 DEF UsersTyped
      <3> QED
        BY <3>1, <3>2
    <2> QED
      BY <2>1, <2>2
  <1>7. adding' \in Nat /\ removing' \in 0..3 /\ (people[3] = Nobody => removing' # 3)
    BY <1>0, <1>2 DEF UsersTyped, NotYet
  <1>8. UsersTyped'
    BY <1>0, <1>2, <1>5, <1>7 DEF UsersTyped
  <1>9. Numbered'
    BY <1>0, <1>2 DEF Numbered
  <1>10. NotYet' /\ PeopleTruthful'
    <2>1. CASE OrderDone(o)
      <3>1. asksPeople' = [step |-> "asked", got |-> <<>>]
        BY <2>1 DEF OrderDone, AskPeople
      <3> QED
        BY <1>0, <1>2, <1>7, <3>1 DEF NotYet, PeopleTruthful
    <2>2. CASE OrderFails(o)
      <3>1. asksPeople' = asksPeople /\ doubtful' = (doubtful \/ o.step = "done")
        BY <2>2 DEF OrderFails, listOfPeople
      <3>2. Rows' = Rows
        BY <1>2 DEF Rows, Row, Present
      <3>3. Untold => Untold'
        BY <1>2, <3>1 DEF Untold
      <3> QED
        BY <1>0, <1>2, <1>7, <3>1, <3>2, <3>3 DEF NotYet, PeopleTruthful
    <2> QED
      BY <2>1, <2>2
  <1>11. SecretsOpen'
    <2>0. \A p \in Ids : (NoReset(p) => NoReset(p)') /\ \A n \in Nat : Opens(p, n)' <=> Opens(p, n)
      BY <1>2 DEF NoReset, Opens, Present
    <2>00. \A q \in orders : q.who \in Ids /\ q.n \in Nat
      BY <1>0 DEF UsersTyped, Orders
    <2>1. \A q \in orders' : q.what = "password" /\ q.step = "done" => Opens(q.who, q.n)'
      BY <1>0, <1>2, <2>0, <2>00 DEF SecretsOpen
    <2>2. \A q \in orders' : q.step = "done" /\ OfDialog(q)' => Opens(3, q.n)' /\ NoReset(3)'
      <3>1. \A q \in orders : OfDialog(q)' => OfDialog(q)
        BY <1>2 DEF OfDialog
      <3> QED
        BY <1>0, <1>2, <1>4, <2>0, <2>00, <3>1 DEF SecretsOpen
    <2>3. (secretsShown.reset # NoSecret =>
             /\ secretsShown.reset.who \in Ids /\ NoReset(secretsShown.reset.who)
             /\ Opens(secretsShown.reset.who, secretsShown.reset.n))'
      <3>1. CASE secretsShown'.reset = secretsShown.reset
        <4>1. secretsShown.reset # NoSecret =>
                 /\ secretsShown.reset.who \in Ids /\ NoReset(secretsShown.reset.who)
                 /\ Opens(secretsShown.reset.who, secretsShown.reset.n)
          BY <1>0 DEF SecretsOpen
        <4> QED
          BY <1>2, <3>1, <4>1 DEF NoReset, Opens, Present
      <3>2. CASE secretsShown'.reset = Shown(o) /\ o.what = "password" /\ o.step = "done"
        <4>1. Opens(o.who, o.n)
          BY <1>0, <3>2 DEF SecretsOpen
        <4>2. \A q \in orders' : q.what = "password" => q.who # o.who
          BY <1>0, <1>2, <3>2 DEF Numbered
        <4>3. secretsShown'.reset.who = o.who /\ secretsShown'.reset.n = o.n
          BY <1>3, <3>2
        <4> QED
          BY <1>1, <1>2, <4>1, <4>2, <4>3 DEF NoReset, Opens, Present
      <3> QED
        BY <1>5, <3>1, <3>2
    <2>4. (secretsShown.made # NoSecret =>
             /\ secretsShown.made.who = 3 /\ Opens(3, secretsShown.made.n) /\ NoReset(3))'
      <3>1. CASE secretsShown'.made = secretsShown.made
        <4>1. secretsShown.made # NoSecret =>
                 /\ secretsShown.made.who = 3 /\ Opens(3, secretsShown.made.n) /\ NoReset(3)
          BY <1>0 DEF SecretsOpen
        <4> QED
          BY <1>2, <3>1, <4>1 DEF NoReset, Opens, Present
      <3>2. CASE secretsShown'.made = Shown(o) /\ o.step = "done" /\ OfDialog(o)
        <4>1. Opens(3, o.n) /\ NoReset(3) /\ o.who = 3
          BY <1>0, <3>2 DEF SecretsOpen, Numbered, OfDialog
        <4>2. secretsShown'.made.who = 3 /\ secretsShown'.made.n = o.n
          BY <1>3, <3>2, <4>1
        <4> QED
          BY <1>1, <1>2, <4>1, <4>2 DEF NoReset, Opens, Present
      <3> QED
        BY <1>5, <3>1, <3>2
    <2> QED
      BY <2>1, <2>2, <2>3, <2>4 DEF SecretsOpen
  <1> QED
    BY <1>8, <1>9, <1>10, <1>11 DEF UsersInv

\* The steps of the page, and the lists that come and go.
LEMMA PeopleListed ==
    ASSUME UsersInv, ServerListsPeople \/ PeopleLand \/ PeopleFail \/ TryAgain
    PROVE  UsersInv'
  <1>0. UsersTyped /\ NotYet /\ PeopleTruthful
    BY DEF UsersInv
  <1>1. UNCHANGED <<people, orders, ordered, removing, adding, secretsShown>>
    BY DEF ServerListsPeople, PeopleLand, PeopleFail, TryAgain, dialogs
  <1>2. Rows' = Rows
    BY <1>1 DEF Rows, Row, Present
  <1>3. 3 \notin DOMAIN <<>> /\ 3 \notin DOMAIN NoPeople.has
    BY DEF NoPeople
  <1>4. /\ people[3] = Nobody => /\ 3 \notin DOMAIN listedPeople'.has
                                 /\ 3 \notin DOMAIN asksPeople'.got
        /\ PeopleTruthful'
    <2>1. CASE ServerListsPeople
      <3>1. /\ asksPeople'.step = "answered" /\ asksPeople'.got = Rows
            /\ listedPeople' = listedPeople
        BY <2>1 DEF ServerListsPeople, Rows
      <3>2. people[3] = Nobody => 3 \notin DOMAIN Rows
        BY DEF Rows, Present
      <3> QED
        BY <1>0, <1>2, <3>1, <3>2 DEF NotYet, PeopleTruthful
    <2>2. CASE PeopleLand
      <3>1. /\ asksPeople.step = "answered" /\ asksPeople'.step = "none" /\ asksPeople'.got = <<>>
            /\ listedPeople'.has = asksPeople.got /\ doubtful' = doubtful
        BY <2>2 DEF PeopleLand, NoAnswer
      <3>2. Untold' = Untold
        BY <1>1, <3>1 DEF Untold
      <3> QED
        BY <1>0, <1>2, <1>3, <3>1, <3>2 DEF NotYet, PeopleTruthful
    <2>3. CASE PeopleFail
      <3>1. /\ asksPeople'.step = "none" /\ asksPeople'.got = <<>>
            /\ listedPeople' = NoPeople /\ ~listedPeople'.known
        BY <2>3 DEF PeopleFail, NoAnswer, NoPeople
      <3> QED
        BY <1>3, <3>1 DEF PeopleTruthful
    <2>4. CASE TryAgain
      <3>1. asksPeople'.step = "asked" /\ asksPeople'.got = <<>> /\ listedPeople' = listedPeople
        BY <2>4 DEF TryAgain, AskPeople
      <3> QED
        BY <1>0, <1>3, <3>1 DEF NotYet, PeopleTruthful
    <2> QED
      BY <2>1, <2>2, <2>3, <2>4
  <1>5. /\ adding' \in Nat /\ removing' \in 0..3
        /\ secretsShown' \in [reset : Secrets, made : Secrets]
        /\ people[3] = Nobody => removing' # 3
    BY <1>0, <1>1 DEF UsersTyped, NotYet
  <1> QED
    BY <1>1, <1>4, <1>5, OrdersAsTheyWere

LEMMA DialogsOpenAndClose ==
    ASSUME UsersInv,
           \/ KeepThem \/ AskAdd \/ CloseAdd \/ CloseReset \/ UNCHANGED usersVars
           \/ \E p \in Ids : AskRemove(p)
    PROVE  UsersInv'
  <1>0. UsersTyped /\ NotYet /\ PeopleTruthful
    BY DEF UsersInv
  <1>1. UNCHANGED <<people, orders, ordered, listedPeople, asksPeople, doubtful>>
    BY DEF KeepThem, AskAdd, CloseAdd, CloseReset, AskRemove, usersVars, listOfPeople
  <1>2. PeopleTruthful'
    <2>1. Rows' = Rows /\ Untold' = Untold
      BY <1>1 DEF Rows, Row, Present, Untold
    <2> QED
      BY <1>0, <1>1, <2>1 DEF PeopleTruthful
  <1>3. /\ removing' \in 0..3
        /\ people[3] = Nobody => removing' # 3
    <2>1. CASE removing' = removing \/ removing' = 0
      BY <1>0, <2>1 DEF UsersTyped, NotYet
    <2>2. CASE \E p \in Ids : AskRemove(p)
      BY <1>0, <2>2 DEF AskRemove, OnRow, NotYet, Ids
    <2> QED
      BY <2>1, <2>2 DEF KeepThem, AskAdd, CloseAdd, CloseReset, usersVars, dialogs
  <1>4. NoSecret \in Secrets /\ secretsShown \in [reset : Secrets, made : Secrets]
    BY <1>0 DEF UsersTyped, NoSecret, Secrets
  <1>5. /\ adding' \in Nat
        /\ secretsShown' \in [reset : Secrets, made : Secrets]
        /\ secretsShown'.reset \in {secretsShown.reset, NoSecret}
        /\ \/ adding' = adding /\ secretsShown'.made \in {secretsShown.made, NoSecret}
           \/ adding' \in {Closed, ordered + 1} /\ secretsShown'.made = NoSecret
    <2>0. ordered \in Nat /\ ordered + 1 \in Nat /\ adding \in Nat
      BY <1>0 DEF UsersTyped
    <2>1. CASE UNCHANGED <<adding, secretsShown>>
      BY <1>4, <2>0, <2>1
    <2>2. CASE AskAdd
      BY <1>4, <2>0, <2>2 DEF AskAdd, Uncovered, NoSecrets
    <2>3. CASE CloseAdd
      BY <1>4, <2>0, <2>3 DEF CloseAdd, Closed
    <2>4. CASE CloseReset
      BY <1>4, <2>0, <2>4 DEF CloseReset
    <2> QED
      BY <2>1, <2>2, <2>3, <2>4 DEF KeepThem, AskRemove, usersVars
  <1> QED
    BY <1>0, <1>1, <1>2, <1>3, <1>5, OrdersAsTheyWere DEF NotYet

\* A change is asked for: never of an account that is yet to be, and a password only when no
\* other is on its way (the habit ~Hops).
LEMMA ChangeAsked ==
    ASSUME ~Hops, UsersInv,
           \/ RemovePerson \/ AddUser
           \/ \E p \in Ids : ChangeRole(p) \/ ChangeDisabled(p) \/ ResetPassword(p)
    PROVE  UsersInv'
  <1>0. UsersTyped /\ NotYet
    BY DEF UsersInv
  <1>1. CASE RemovePerson
    <2>1. removing \in Ids /\ (people[3] = Nobody => removing # 3)
      BY <1>0, <1>1 DEF RemovePerson, UsersTyped, NotYet, Ids
    <2>2. Order("delete", removing, "gone") /\ UNCHANGED <<removing, adding>>
      BY <1>1 DEF RemovePerson
    <2> QED
      BY <2>1, <2>2, OrderGiven
  <1>2. CASE AddUser
    <2>1. 3 \in Ids /\ adding' = adding /\ removing' = removing
      BY <1>2 DEF AddUser, Ids
    <2>2. PICK role \in {"member", "admin"} : Order("add", 3, role)
      BY <1>2 DEF AddUser
    <2> QED
      BY <2>1, <2>2, OrderGiven
  <1>3. ASSUME NEW p \in Ids, ChangeRole(p) \/ ChangeDisabled(p) \/ ResetPassword(p)
        PROVE  UsersInv'
    <2>1. UNCHANGED <<removing, adding>> /\ (people[3] = Nobody => p # 3) /\ Uncovered
      BY <1>0, <1>3 DEF ChangeRole, ChangeDisabled, ResetPassword, OnRow, NotYet
    <2>2. CASE ChangeRole(p)
      <3>1. PICK value \in {"member", "admin"} : Order("role", p, value)
        BY <2>2 DEF ChangeRole
      <3> QED
        BY <2>1, <3>1, OrderGiven
    <2>3. CASE ChangeDisabled(p)
      <3>1. PICK value \in {"yes", "no"} : Order("disabled", p, value)
        BY <2>3 DEF ChangeDisabled
      <3> QED
        BY <2>1, <3>1, OrderGiven
    <2>4. CASE ResetPassword(p)
      <3>1. Order("password", p, "new") /\ NoReset(p)
        BY <2>4 DEF ResetPassword, NoReset
      <3> QED
        BY <2>1, <3>1, OrderGiven
    <2> QED
      BY <1>3, <2>2, <2>3, <2>4
  <1> QED
    BY <1>1, <1>2, <1>3

LEMMA UsersStep == ~Hops => (UsersInv /\ [UsersNext]_usersVars => UsersInv')
  <1> SUFFICES ASSUME ~Hops, UsersInv, [UsersNext]_usersVars
               PROVE  UsersInv'
    OBVIOUS
  <1>1. CASE ServerListsPeople \/ PeopleLand \/ PeopleFail \/ TryAgain
    BY <1>1, PeopleListed
  <1>2. CASE \/ KeepThem \/ AskAdd \/ CloseAdd \/ CloseReset \/ UNCHANGED usersVars
             \/ \E p \in Ids : AskRemove(p)
    BY <1>2, DialogsOpenAndClose
  <1>3. CASE \/ RemovePerson \/ AddUser
             \/ \E p \in Ids : ChangeRole(p) \/ ChangeDisabled(p) \/ ResetPassword(p)
    BY <1>3, ChangeAsked
  <1>4. ASSUME NEW p \in Ids,
               \/ \E r \in {"member", "admin"} : AnotherAdministrator(p, "role", r)
               \/ \E d \in {"yes", "no"} : AnotherAdministrator(p, "disabled", d)
               \/ AnotherAdministrator(p, "delete", "gone")
        PROVE  UsersInv'
    BY <1>4, ChangedElsewhere
  <1>5. ASSUME NEW o \in orders, ServerObeys(o) \/ OrderDone(o) \/ OrderFails(o)
        PROVE  UsersInv'
    BY <1>5, OrderTaken, OrderOver
  <1> QED
    BY <1>1, <1>2, <1>3, <1>4, <1>5 DEF UsersNext

\* For any number of changes, made here or by another administrator: once every answer is
\* in, the page lists the accounts as they are, unless it cannot know, and a temporary
\* password on screen is the one that opens its owner's account (UsersPage.tsx's run, which
\* asks for the list again after each answer; AddUserDialog, which shows the password only
\* while it is open for that answer).  Of somebody who does not reset a password again
\* before the answer to the last reset.
THEOREM PeopleTold == ~Hops => (UsersSpec => []UsersTruthful)
  <1> SUFFICES ASSUME ~Hops  PROVE UsersSpec => []UsersTruthful
    OBVIOUS
  <1>1. UsersInv /\ [UsersNext]_usersVars => UsersInv'
    BY UsersStep
  <1>2. UsersInv => UsersTruthful
    <2> SUFFICES ASSUME UsersInv, orders = {}, asksPeople = NoAnswer
                 PROVE  /\ listedPeople.known /\ ~doubtful =>
                              listedPeople.has = [p \in Present(people) |-> Row(p)]
                        /\ \A from \in DOMAIN secretsShown :
                              LET s == secretsShown[from]
                              IN  s # NoSecret /\ s.who \in Present(people) =>
                                     people[s.who].secret = s.n
      BY DEF UsersTruthful
    <2>0. UsersTyped /\ PeopleTruthful /\ SecretsOpen
      BY DEF UsersInv
    <2>1. listedPeople.known /\ ~doubtful => listedPeople.has = Rows
      BY <2>0 DEF PeopleTruthful, Untold, NoAnswer
    <2>2. DOMAIN secretsShown = {"reset", "made"}
      BY <2>0 DEF UsersTyped
    <2>3. /\ secretsShown.reset # NoSecret =>
                Opens(secretsShown.reset.who, secretsShown.reset.n)
          /\ secretsShown.made # NoSecret =>
                Opens(secretsShown.made.who, secretsShown.made.n)
      BY <2>0 DEF SecretsOpen
    <2> QED
      BY <2>1, <2>2, <2>3 DEF Rows, Opens
  <1> QED
    BY UsersInitial, <1>1, <1>2, PTL DEF UsersSpec

(***************************************************************************)
(* FarmPanel: the browser's reading of a farm and the library's.           *)
(***************************************************************************)
\* What the controls can make of a farm, and what its workers can be: nothing else is
\* known of the options, so the panel and the library are compared on every one of them.
Farms ==
    [worker : {"node", "raw", "source", "comb", "block"}, workers : Nat \ {0},
     emit : EmitPolicies, collect : CollectPolicies \union {"none"}, ordered : BOOLEAN,
     emitter : Ends, collector : Ends, key : BOOLEAN, prefetch : Int,
     window : {"none", "zero"}, capacity : {"none", "zero"}, runtime : {"threads", "processes"}]

FarmTyped == farm \in Farms

LEMMA FarmsBegin == FarmInit => FarmTyped
  BY DEF FarmTyped, FarmInit, DefaultFarm, Farms, EmitPolicies, Ends

LEMMA FarmsKept == FarmTyped /\ [FarmNext]_farm => FarmTyped'
  <1> SUFFICES ASSUME farm \in Farms, [FarmNext]_farm  PROVE farm' \in Farms
    BY DEF FarmTyped
  <1> USE DEF Farms, EmitPolicies, CollectPolicies, Ends
  <1>1. CASE SetFarmWorkers
    BY <1>1, FarmAssumption DEF SetFarmWorkers
  <1>2. CASE SetEmit \/ SetKey
    BY <1>2 DEF SetEmit, SetKey
  <1>3. CASE SetPrefetch
    BY <1>3, FarmAssumption DEF SetPrefetch
  <1>4. CASE SetOrdered \/ SetCollect
    BY <1>4 DEF SetOrdered, SetCollect
  <1>5. CASE SetFarmEnd \/ SetRuntime \/ SetCapacity \/ SetWindow
    BY <1>5 DEF SetFarmEnd, SetRuntime, SetCapacity, SetWindow
  <1>6. CASE UNCHANGED farm
    BY <1>6
  <1> QED
    BY <1>1, <1>2, <1>3, <1>4, <1>5, <1>6 DEF FarmNext

\* The library's `collect', once a key has become the policy, is the browser's.
LEMMA SameCollect ==
    ASSUME NEW f \in Farms, f.key => f.emit \in {"round_robin", "key"}
    PROVE  CollectOf(f) =
              IF f.collect # "none" THEN f.collect
              ELSE IF f.ordered THEN "ordered"
              ELSE IF (IF f.key THEN "key" ELSE f.emit) = "scatter" THEN "gather" ELSE "first_come"
  BY DEF CollectOf

LEMMA ProblemsTell ==
    ASSUME NEW f \in Farms
    PROVE  FarmProblems(f) # {} <=>
              \/ f.worker = "source" \/ f.workers < 1
              \/ f.key /\ f.emit \notin {"round_robin", "key"}
              \/ f.emit = "key" /\ ~f.key
              \/ f.ordered /\ f.collect \notin {"none", "ordered"}
              \/ f.collect = "gather" /\ f.emit # "scatter"
              \/ Tagged(f) /\ f.worker \in {"comb", "block"}
              \/ EndsMissing(f)
              \/ Tagged(f) /\ f.worker = "raw"
              \/ f.prefetch < 1 \/ f.window = "zero" \/ f.capacity = "zero"
              \/ f.runtime = "processes" /\ f.worker \in {"comb", "block"}
  <1> DEFINE Told(p) == p \in FarmProblems(f)
  <1>1. /\ Told("source") <=> f.worker = "source"
        /\ Told("workers") <=> f.workers < 1
        /\ Told("key") <=> f.key /\ f.emit \notin {"round_robin", "key"}
        /\ Told("no key") <=> f.emit = "key" /\ ~f.key
        /\ Told("twice") <=> f.ordered /\ f.collect \notin {"none", "ordered"}
        /\ Told("gather") <=> f.collect = "gather" /\ f.emit # "scatter"
    BY DEF FarmProblems
  <1>2. /\ Told("tagged block") <=> Tagged(f) /\ f.worker \in {"comb", "block"}
        /\ Told("ends") <=> EndsMissing(f)
        /\ Told("tagged raw") <=> Tagged(f) /\ f.worker = "raw"
        /\ Told("prefetch") <=> f.prefetch < 1
        /\ Told("window") <=> f.window = "zero"
        /\ Told("capacity") <=> f.capacity = "zero"
        /\ Told("processes") <=> f.runtime = "processes" /\ f.worker \in {"comb", "block"}
    BY DEF FarmProblems
  <1>3. FarmProblems(f) # {} <=>
            \E p \in {"source", "workers", "key", "no key", "twice", "gather", "tagged block",
                      "ends", "tagged raw", "prefetch", "window", "capacity", "processes"} : Told(p)
    BY DEF FarmProblems
  <1> HIDE DEF Told
  <1> QED
    BY <1>1, <1>2, <1>3

\* Whatever the controls of a farm are set to, in whatever order and with any numbers in
\* its fields, a farm the library refuses has a problem on its card; and one that has a
\* problem is refused, but for a fused pair as the worker, a window below 1 and a capacity
\* below 1, where the browser alone objects (validate.ts's farmProblems, against
\* Farm.__init__).
THEOREM PanelTells == FarmInit /\ [][FarmNext]_farm => []PanelAgrees
  <1>1. FarmTyped => PanelAgrees
    <2> SUFFICES ASSUME farm \in Farms  PROVE PanelAgrees
      BY DEF FarmTyped
    <2>1. PICK f \in Farms : f = farm
      OBVIOUS
    <2>2. CASE f.key /\ f.emit \notin {"round_robin", "key"}
      BY <2>1, <2>2, ProblemsTell DEF PanelAgrees, AloneObjected, LibraryRefuses
    <2>3. CASE f.key => f.emit \in {"round_robin", "key"}
      <3>1. CollectOf(f) =
              IF f.collect # "none" THEN f.collect
              ELSE IF f.ordered THEN "ordered"
              ELSE IF (IF f.key THEN "key" ELSE f.emit) = "scatter" THEN "gather" ELSE "first_come"
        BY <2>3, SameCollect
      <3>2. LibraryRefuses(f) <=>
              \/ f.workers < 1 \/ f.worker = "source"
              \/ f.worker = "block" /\ f.runtime = "processes"
              \/ (IF f.key THEN "key" ELSE f.emit) = "key" /\ ~f.key
              \/ f.ordered /\ CollectOf(f) # "ordered"
              \/ CollectOf(f) = "gather" /\ (IF f.key THEN "key" ELSE f.emit) # "scatter"
              \/ Tagged(f) /\ (f.worker \in {"block", "raw"} \/ EndsOff(f))
              \/ f.prefetch < 1
        BY <2>3, <3>1 DEF LibraryRefuses, Tagged
      <3>3. f.ordered /\ CollectOf(f) # "ordered" <=> f.ordered /\ f.collect \notin {"none", "ordered"}
        BY DEF CollectOf
      <3>4. CollectOf(f) = "gather" /\ (IF f.key THEN "key" ELSE f.emit) # "scatter"
            => (f.collect = "gather" /\ f.emit # "scatter") \/ (f.key /\ f.emit = "scatter")
        BY <3>1 DEF CollectOf
      <3>5. f.collect = "gather" /\ f.emit # "scatter"
            => CollectOf(f) = "gather" /\ (IF f.key THEN "key" ELSE f.emit) # "scatter"
        BY <3>1 DEF CollectOf
      <3> QED
        BY <2>1, <2>3, <3>2, <3>3, <3>4, <3>5, ProblemsTell DEF PanelAgrees, AloneObjected, EndsMissing
    <2> QED
      BY <2>2, <2>3
  <1> QED
    BY FarmsBegin, FarmsKept, <1>1, PTL
=============================================================================
