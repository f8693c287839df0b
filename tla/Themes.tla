------------------------------- MODULE Themes -------------------------------
(***************************************************************************)
(* Imported themes, the selected one and the tours: commands/theme.rs,     *)
(* commands/tour.rs, services/settings.rs and services/tour.rs of          *)
(* src-tauri/src.  The documents are in the encrypted settings blob, the   *)
(* selection and the tours in plaintext app_state; a command that touches  *)
(* both does so in two statements, between which it may fail or the        *)
(* process may die.                                                        *)
(*                                                                         *)
(* Abstractions: a document is an id and the strictest build whose         *)
(* `validate' admits it: the grammar tightens from build to build.  A blob *)
(* that another build has stored may decode or not, whatever the fields    *)
(* the two differ in; that it decodes to other values is left out.  The    *)
(* rest of the blob is in Preferences and RevealGate.                      *)
(***************************************************************************)
EXTENDS Integers, Sequences, Subsequences

CONSTANTS
    ThemeIds,
    MAX_IMPORTED_THEMES,
    Grammars,         \* bound: builds differ in the grammar, 1..Grammars
    MaxThemeCuts      \* bound: crashes and failing statements

ASSUME ThemesAssumption ==
    /\ "builtin" \notin ThemeIds
    /\ MAX_IMPORTED_THEMES \in Nat /\ Grammars \in Nat \ {0} /\ MaxThemeCuts \in Nat

VARIABLES
    themes,      \* Settings.themes: the documents, in the blob
    selected,    \* app_state ThemeId, or "builtin"
    mode,        \* app_state ThemeMode
    seen,        \* app_state TourUnlockSeen and TourAppSeen
    grammar,     \* the build installed
    unsealed,    \* the vault is unlocked
    themeStep,   \* the second statement of the command in progress
    themeCuts,
    asked,       \* ghost: the pair of the last theme_set that began, or
                 \* what a delete has made of it
    cutShort,    \* ghost: a command was cut between its statements, and no
                 \* selection has been stored whole since
    legible,     \* the build installed can decode the settings blob
    erased       \* ghost: a build that could not has saved over documents, and no
                 \* selection has been stored whole since

themeVars == <<themes, selected, mode, seen, grammar, unsealed, themeStep, themeCuts, asked, cutShort, legible, erased>>

themeWorld == <<seen, grammar, unsealed>>

Documents == [id: ThemeIds, until: 1..Grammars]
NoStep == [do |-> "none"]
Modes == {"light", "dark", "system"}

\* validate.
Valid(d) == d.until >= grammar

\* Settings::decode: a blob that does not decode is the defaults.
Known == IF legible THEN themes ELSE <<>>

\* The blob is written by this build, over what it made of the one there was.
Encoded == legible' = TRUE /\ erased' = (erased \/ Known # themes)

\* valid_themes, theme.
Selectable(id) == \E k \in DOMAIN Known : Valid(Known[k]) /\ Known[k].id = id

-----------------------------------------------------------------------------
\* upsert_theme: the first document of this id that this build admits gives way.
Imported(list, d) ==
    LET match == {k \in DOMAIN list : Valid(list[k]) /\ list[k].id = d.id}
    IN  IF match = {} THEN Append(list, d)
        ELSE [list EXCEPT ![CHOOSE k \in match : \A j \in match : k <= j] = d]

\* theme_import and theme_import_file, refused if the list would grow too long.
ThemeImport(d) ==
    /\ themeStep = NoStep /\ unsealed
    /\ Valid(d)
    /\ Len(Imported(Known, d)) <= MAX_IMPORTED_THEMES
    /\ themes' = Imported(Known, d)
    /\ Encoded
    /\ UNCHANGED <<selected, mode, themeWorld, themeStep, themeCuts, asked, cutShort>>

\* settings_set, its encrypted half: another field is changed, and the blob written.
SettingsSet ==
    /\ themeStep = NoStep /\ unsealed
    /\ themes' = Known
    /\ Encoded
    /\ UNCHANGED <<selected, mode, themeWorld, themeStep, themeCuts, asked, cutShort>>

\* theme_delete: remove_theme, in the blob; refused if there is nothing to remove.
ThemeDelete(id) ==
    /\ themeStep = NoStep /\ unsealed
    /\ Selectable(id)
    /\ themes' = Only(themes, {k \in DOMAIN themes : ~(Valid(themes[k]) /\ themes[k].id = id)})
    /\ themeStep' = [do |-> "deselect", id |-> id]
    /\ asked' = [asked EXCEPT !.id = IF @ = id THEN "builtin" ELSE @]
    /\ UNCHANGED <<selected, mode, themeWorld, themeCuts, cutShort, legible, erased>>

\* Mutant: the selection is left as it is.
DeselectNot ==
    /\ themeStep.do = "deselect"
    /\ themeStep' = NoStep
    /\ UNCHANGED <<themes, selected, mode, themeWorld, themeCuts, asked, cutShort, legible, erased>>

\* theme_delete: the selection, if it named the theme.
Deselect ==
    /\ themeStep.do = "deselect"
    /\ selected' = IF selected = themeStep.id THEN "builtin" ELSE selected
    /\ themeStep' = NoStep
    /\ UNCHANGED <<themes, mode, themeWorld, themeCuts, asked, cutShort, legible, erased>>

\* Mutant: an id is taken as it comes.
ThemeSetUnchecked(id, m) ==
    /\ themeStep = NoStep
    /\ mode' = m
    /\ themeStep' = [do |-> "select", id |-> id]
    /\ asked' = [id |-> id, mode |-> m]
    /\ UNCHANGED <<themes, selected, themeWorld, themeCuts, cutShort, legible, erased>>

\* theme_set: the mode.  An id is verified, which takes an unlocked vault.
ThemeSet(id, m) ==
    /\ themeStep = NoStep
    /\ id # "builtin" => unsealed /\ Selectable(id)
    /\ mode' = m
    /\ themeStep' = [do |-> "select", id |-> id]
    /\ asked' = [id |-> id, mode |-> m]
    /\ UNCHANGED <<themes, selected, themeWorld, themeCuts, cutShort, legible, erased>>

\* theme_set: the id.
Select ==
    /\ themeStep.do = "select"
    /\ selected' = themeStep.id
    /\ themeStep' = NoStep
    /\ cutShort' = FALSE /\ erased' = FALSE
    /\ UNCHANGED <<themes, mode, themeWorld, themeCuts, asked, legible>>

\* tour_mark_seen.
TourMarkSeen(which) ==
    /\ themeStep = NoStep
    /\ seen' = seen \cup {which}
    /\ UNCHANGED <<themes, selected, mode, grammar, unsealed, themeStep, themeCuts, asked, cutShort, legible, erased>>

\* tour_reset: two statements.
TourReset ==
    /\ themeStep = NoStep /\ unsealed
    /\ seen' = seen \ {"unlock"}
    /\ themeStep' = [do |-> "reset"]
    /\ UNCHANGED <<themes, selected, mode, grammar, unsealed, themeCuts, asked, cutShort, legible, erased>>

TourResetApp ==
    /\ themeStep.do = "reset"
    /\ seen' = seen \ {"app"}
    /\ themeStep' = NoStep
    /\ UNCHANGED <<themes, selected, mode, grammar, unsealed, themeCuts, asked, cutShort, legible, erased>>

-----------------------------------------------------------------------------
\* Unlock, lock or quit.
SealOrUnseal ==
    /\ themeStep = NoStep
    /\ unsealed' = ~unsealed
    /\ UNCHANGED <<themes, selected, mode, seen, grammar, themeStep, themeCuts, asked, cutShort, legible, erased>>

\* Another build is installed: another grammar, other fields in the blob.
BuildChanges ==
    /\ themeStep = NoStep /\ ~unsealed
    /\ grammar' \in 1..Grammars /\ legible' \in BOOLEAN
    /\ UNCHANGED <<themes, selected, mode, seen, unsealed, themeStep, themeCuts, asked, cutShort, erased>>

\* The second statement is not executed.
ThemeCut ==
    /\ themeStep # NoStep /\ themeCuts < MaxThemeCuts
    /\ themeCuts' = themeCuts + 1
    /\ unsealed' \in {unsealed, FALSE}
    /\ themeStep' = NoStep
    /\ cutShort' = (cutShort \/ themeStep.do # "reset")
    /\ UNCHANGED <<themes, selected, mode, seen, grammar, asked, legible, erased>>

ThemeInit ==
    /\ themes = <<>> /\ selected = "builtin" /\ mode = "system" /\ seen = {}
    /\ grammar = 1 /\ unsealed = FALSE /\ themeStep = NoStep /\ themeCuts = 0
    /\ asked = [id |-> "builtin", mode |-> "system"]
    /\ cutShort = FALSE /\ legible = TRUE /\ erased = FALSE

ThemeNext ==
    \/ \E d \in Documents : ThemeImport(d)
    \/ SettingsSet
    \/ \E id \in ThemeIds : ThemeDelete(id)
    \/ Deselect
    \/ \E id \in ThemeIds \cup {"builtin"}, m \in Modes : ThemeSet(id, m)
    \/ Select
    \/ \E which \in {"unlock", "app"} : TourMarkSeen(which)
    \/ TourReset \/ TourResetApp
    \/ SealOrUnseal \/ BuildChanges \/ ThemeCut

ThemeSpec == ThemeInit /\ [][ThemeNext]_themeVars

-----------------------------------------------------------------------------
(* Properties.                                                             *)

ThemeTypeOK ==
    /\ themes \in Seq(Documents) /\ Len(themes) <= MAX_IMPORTED_THEMES
    /\ selected \in ThemeIds \cup {"builtin"} /\ mode \in Modes
    /\ seen \subseteq {"unlock", "app"}
    /\ grammar \in 1..Grammars /\ unsealed \in BOOLEAN
    /\ themeStep.do \in {"none", "deselect", "select", "reset"}
    /\ themeCuts \in 0..MaxThemeCuts /\ legible \in BOOLEAN

\* "A dangling selection would render the built-in theme while the settings screen
\* claimed something else was active", and "both app_state writes happen together,
\* so the pair cannot end up half-applied": the pair stored is the one last asked
\* for, and names a document that is stored, through imports, deletions, other
\* builds and locks; unless a command was cut between its two statements, which
\* nothing holds together, or a build that could not decode the settings has saved
\* them, which leaves the name and not the document.  (The document may be one this
\* build no longer admits or cannot decode.)
SelectionHolds ==
    themeStep = NoStep /\ ~cutShort =>
        /\ [id |-> selected, mode |-> mode] = asked
        /\ selected # "builtin" /\ ~erased => \E k \in DOMAIN themes : themes[k].id = selected
=============================================================================
