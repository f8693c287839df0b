------------------------------- MODULE MCApp -------------------------------
(***************************************************************************)
(* The parts of the application that share no state, for one run of TLC.   *)
(* A behaviour exercises one part, chosen at the start; the others keep an *)
(* initial state.  What is checked of a part is what a run of its own      *)
(* would check.                                                            *)
(***************************************************************************)
EXTENDS RevealGate, Backup, Preferences, Themes, BreachCheck, UpdateCheck,
        GeneratorHistory, MCItemPayloads, HealthReport, TLC

VARIABLE part

Symmetry ==
    Permutations(Machines) \cup Permutations(Accounts) \cup Permutations(Vaults)

\* Only the part that runs begins in each of its initial states.
Settled(name, start) == part # name => start

AppInit ==
    /\ part \in {"reveal", "backup", "preferences", "themes", "breach", "update",
                 "history", "payloads", "health"}
    /\ RevealInit /\ Settled("reveal", strict)
    /\ IF part = "backup" THEN BackupInit
       ELSE /\ copy = [m \in Machines |-> NoVault] /\ main = copy
            /\ unlocked = [m \in Machines |-> FALSE] /\ memSig = [m \in Machines |-> {}]
            /\ container = NoContainer /\ job = NoJob
            /\ edits = 0 /\ backupCuts = 0 /\ torn = [m \in Machines |-> FALSE]
    /\ PrefInit /\ Settled("preferences", account = "none" /\ kind = "Windows" /\ sensor)
    /\ ThemeInit
    /\ BreachInit
    /\ UpdateInit /\ Settled("update", current = 1)
    /\ HistoryInit
    /\ PayloadInit /\ Settled("payloads", item = NoItem)
    /\ HealthInit

otherThanReveal == <<part, backupVars, prefVars, themeVars, breachVars, updateVars, historyVars, payloadVars, healthVars>>
otherThanBackup == <<part, revealVars, prefVars, themeVars, breachVars, updateVars, historyVars, payloadVars, healthVars>>
otherThanPref == <<part, revealVars, backupVars, themeVars, breachVars, updateVars, historyVars, payloadVars, healthVars>>
otherThanTheme == <<part, revealVars, backupVars, prefVars, breachVars, updateVars, historyVars, payloadVars, healthVars>>
otherThanBreach == <<part, revealVars, backupVars, prefVars, themeVars, updateVars, historyVars, payloadVars, healthVars>>
otherThanUpdate == <<part, revealVars, backupVars, prefVars, themeVars, breachVars, historyVars, payloadVars, healthVars>>
otherThanHistory == <<part, revealVars, backupVars, prefVars, themeVars, breachVars, updateVars, payloadVars, healthVars>>
otherThanPayload == <<part, revealVars, backupVars, prefVars, themeVars, breachVars, updateVars, historyVars, healthVars>>
otherThanHealth == <<part, revealVars, backupVars, prefVars, themeVars, breachVars, updateVars, historyVars, payloadVars>>

AppNext ==
    \/ part = "reveal" /\ RevealNext /\ UNCHANGED otherThanReveal
    \/ part = "backup" /\ BackupNext /\ UNCHANGED otherThanBackup
    \/ part = "preferences" /\ PrefNext /\ UNCHANGED otherThanPref
    \/ part = "themes" /\ ThemeNext /\ UNCHANGED otherThanTheme
    \/ part = "breach" /\ BreachNext /\ UNCHANGED otherThanBreach
    \/ part = "update" /\ UpdateNext /\ UNCHANGED otherThanUpdate
    \/ part = "history" /\ HistoryNext /\ UNCHANGED otherThanHistory
    \/ part = "payloads" /\ PayloadNext /\ UNCHANGED otherThanPayload
    \/ part = "health" /\ HealthNext /\ UNCHANGED otherThanHealth

AppVars == <<part, revealVars, backupVars, prefVars, themeVars, breachVars, updateVars, historyVars, payloadVars, healthVars>>

AppSpec == AppInit /\ [][AppNext]_AppVars

\* Every variable of every part has its type.
AppTypeOK ==
    /\ RevealTypeOK /\ BackupTypeOK /\ PrefTypeOK /\ ThemeTypeOK
    /\ BreachTypeOK /\ UpdateTypeOK /\ HistoryTypeOK /\ PayloadTypeOK /\ HealthTypeOK
=============================================================================
