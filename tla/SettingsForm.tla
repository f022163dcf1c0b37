------------------------------ MODULE SettingsForm ------------------------------
(***************************************************************************)
(* The Settings page: sections edited and saved one by one, each save a    *)
(* request of its own whose answer is the settings of every section.       *)
(* Another administrator may be saving too.  A section's value is a number *)
(* no other value has; 0 is what the server began with.  Three of the six  *)
(* sections are here: two whose fields have rules and one that has none.   *)
(***************************************************************************)
EXTENDS Integers, FiniteSets

CONSTANTS
    MaxTyped,      \* values typed, here or by another administrator
    TypesOn        \* whether a section is typed in while its save is under way

ASSUME SettingsFormAssumption == MaxTyped \in Nat /\ TypesOn \in BOOLEAN

Sections == {"runs", "notifications", "ai"}
Defaults == [s \in Sections |-> 0]

VARIABLES
    stored,     \* the server's settings
    loading,    \* the page's request for them: none, asked, or their answer
    settings,   \* the last ones it was given
    draft,      \* what its fields hold
    drawn,      \* whether it has them at all
    state,      \* of each section: idle, saving, saved or error
    puts,       \* saves under way: [n, section, patch, step, got, gone]
    typed,      \* a counter of values
    broken,     \* those of them that break their field's rule
    wished,     \* the values each section's Save was pressed for
    unsaved     \* the reader's last word in a section since its Save or Reset, or 0

settingsFormVars ==
    <<stored, loading, settings, draft, drawn, state, puts, typed, broken, wished, unsaved>>

SettingsFormInit ==
    /\ stored = Defaults /\ loading = [step |-> "asked", got |-> Defaults]
    /\ settings = Defaults /\ draft = Defaults /\ drawn = FALSE
    /\ state = [s \in Sections |-> "idle"] /\ puts = {} /\ typed = 0 /\ broken = {}
    /\ wished = [s \in Sections |-> {0}] /\ unsaved = Defaults

ServerGivesSettings ==
    /\ loading.step = "asked" /\ loading' = [step |-> "answered", got |-> stored]
    /\ UNCHANGED <<stored, settings, draft, drawn, state, puts, typed, broken, wished, unsaved>>

SettingsLoaded ==
    /\ loading.step = "answered" /\ loading' = [loading EXCEPT !.step = "none"]
    /\ settings' = loading.got /\ draft' = loading.got /\ drawn' = TRUE
    /\ UNCHANGED <<stored, state, puts, typed, broken, wished, unsaved>>

\* the server did not answer: Try again
LoadFails ==
    /\ loading.step # "none" /\ loading' = [loading EXCEPT !.step = "asked"]
    /\ drawn' = FALSE
    /\ UNCHANGED <<stored, settings, draft, state, puts, typed, broken, wished, unsaved>>

\* the field holds what was typed, and the section says nothing of an earlier save
EditField(s, breaks) ==
    /\ drawn /\ typed < MaxTyped
    /\ TypesOn \/ \A p \in puts : p.gone \/ p.section # s
    /\ typed' = typed + 1 /\ draft' = [draft EXCEPT ![s] = typed + 1]
    /\ broken' = IF breaks THEN broken \union {typed + 1} ELSE broken
    /\ state' = [state EXCEPT ![s] = "idle"] /\ unsaved' = [unsaved EXCEPT ![s] = typed + 1]
    /\ UNCHANGED <<stored, loading, settings, drawn, puts, wished>>

\* a number has a range, and a port when there is a server to send through
EditRuns == \E breaks \in BOOLEAN : EditField("runs", breaks)
EditNotifications == \E breaks \in BOOLEAN : EditField("notifications", breaks)
EditAi == EditField("ai", FALSE)

Dirty(s) == drawn /\ draft[s] # settings[s]

\* mutant: a save sends the whole form
PatchWhole(s) == Sections
\* patchOf: the keys of one section
Patch(s) == {s}

Fits(s) == draft[s] \notin broken
MaySave(s) == Dirty(s) /\ state[s] # "saving" /\ Fits(s)

SaveSection(s) ==
    /\ MaySave(s)
    /\ state' = [state EXCEPT ![s] = "saving"]
    /\ puts' = puts \union {[n |-> typed, section |-> s, step |-> "asked", got |-> Defaults,
                             gone |-> FALSE, patch |-> [k \in Patch(s) |-> draft[k]]]}
    /\ wished' = [wished EXCEPT ![s] = @ \union {draft[s]}]
    /\ unsaved' = [unsaved EXCEPT ![s] = 0]
    /\ UNCHANGED <<stored, loading, settings, draft, drawn, typed, broken>>

ServerPuts(p) ==
    /\ p.step = "asked"
    /\ stored' = [s \in Sections |-> IF s \in DOMAIN p.patch THEN p.patch[s] ELSE stored[s]]
    /\ puts' = (puts \ {p}) \union {[p EXCEPT !.step = "answered", !.got = stored']}
    /\ UNCHANGED <<loading, settings, draft, drawn, state, typed, broken, wished, unsaved>>

\* the whole answer is what the page now knows; one section's fields are set from it
SectionSaved(p) ==
    /\ p.step = "answered" /\ ~p.gone /\ puts' = puts \ {p} /\ settings' = p.got
    /\ draft' = [draft EXCEPT ![p.section] = p.got[p.section]]
    /\ state' = [state EXCEPT ![p.section] = "saved"]
    /\ UNCHANGED <<stored, loading, drawn, typed, broken, wished, unsaved>>

\* refused, or the answer was lost: what was typed stays in its field
SaveFails(p) ==
    /\ ~p.gone /\ puts' = puts \ {p} /\ state' = [state EXCEPT ![p.section] = "error"]
    /\ unsaved' = [unsaved EXCEPT ![p.section] = p.patch[p.section]]
    /\ UNCHANGED <<stored, loading, settings, draft, drawn, typed, broken, wished>>

ResetSection(s) ==
    /\ Dirty(s) /\ state[s] # "saving"
    /\ draft' = [draft EXCEPT ![s] = settings[s]] /\ state' = [state EXCEPT ![s] = "idle"]
    /\ unsaved' = [unsaved EXCEPT ![s] = 0]
    /\ UNCHANGED <<stored, loading, settings, drawn, puts, typed, broken, wished>>

\* Your token: the shell mounts the page anew, with everything typed in it gone
UseToken ==
    /\ drawn /\ drawn' = FALSE
    /\ loading' = [loading EXCEPT !.step = "asked"]
    /\ puts' = {[p EXCEPT !.gone = TRUE] : p \in puts}
    /\ state' = [s \in Sections |-> "idle"] /\ unsaved' = Defaults
    /\ UNCHANGED <<stored, settings, draft, typed, broken, wished>>

\* nobody waits for it any more
AnswerUnread(p) ==
    /\ p.gone /\ p.step = "answered" /\ puts' = puts \ {p}
    /\ UNCHANGED <<stored, loading, settings, draft, drawn, state, typed, broken, wished, unsaved>>

AnotherSaves(s) ==
    /\ typed < MaxTyped /\ typed' = typed + 1
    /\ stored' = [stored EXCEPT ![s] = typed + 1]
    /\ wished' = [wished EXCEPT ![s] = @ \union {typed + 1}]
    /\ UNCHANGED <<loading, settings, draft, drawn, state, puts, broken, unsaved>>

SettingsFormNext ==
    \/ ServerGivesSettings \/ SettingsLoaded \/ LoadFails \/ UseToken
    \/ EditRuns \/ EditNotifications \/ EditAi
    \/ \E s \in Sections : SaveSection(s) \/ ResetSection(s) \/ AnotherSaves(s)
    \/ \E p \in puts : ServerPuts(p) \/ SectionSaved(p) \/ SaveFails(p) \/ AnswerUnread(p)

SettingsFormSpec == SettingsFormInit /\ [][SettingsFormNext]_settingsFormVars

-----------------------------------------------------------------------------
\* Sections are saved apart: whatever saves are under way, in whatever order they are
\* answered and whoever else is saving, what is typed in one section stays in its fields
\* until that section is saved or reset, and the server holds nothing in a section whose
\* own Save was not pressed for it, nor anything that breaks the rule of its field.  A
\* reader who goes on typing in a section while it is being saved is left out: its answer
\* puts back what was sent (SettingsPage.tsx:437).
SectionsApart ==
    \A s \in Sections :
        /\ unsaved[s] # 0 => draft[s] = unsaved[s]
        /\ stored[s] \in wished[s] \ broken
=============================================================================
