----------------------------- MODULE AppProofs -----------------------------
(***************************************************************************)
(* Proofs about MCApp, from those about its parts: a behaviour of the      *)
(* application is a behaviour of each of its parts, of which all but one   *)
(* stand still.                                                            *)
(***************************************************************************)
EXTENDS MCApp, ConfirmationProofs, BackupProofs, ChecksProofs, RecordsProofs

\* Whichever part runs, every other part but Backup is in one of its initial
\* states, and a step is a step of one part and a stutter of the rest.
LEMMA PartsOfApp ==
    AppSpec => /\ RevealSpec /\ PrefSpec /\ ThemeSpec /\ BreachSpec /\ UpdateSpec
               /\ HistorySpec /\ PayloadSpec /\ HealthSpec
<1>1. AppInit => /\ RevealInit /\ PrefInit /\ ThemeInit /\ BreachInit /\ UpdateInit
                 /\ HistoryInit /\ PayloadInit /\ HealthInit
  BY DEF AppInit
<1>2. [AppNext]_AppVars =>
          /\ [RevealNext]_revealVars /\ [PrefNext]_prefVars /\ [ThemeNext]_themeVars
          /\ [BreachNext]_breachVars /\ [UpdateNext]_updateVars /\ [HistoryNext]_historyVars
          /\ [PayloadNext]_payloadVars /\ [HealthNext]_healthVars
  BY DEF AppNext, AppVars, otherThanReveal, otherThanBackup, otherThanPref, otherThanTheme,
         otherThanBreach, otherThanUpdate, otherThanHistory, otherThanPayload, otherThanHealth
<1> QED
  BY <1>1, <1>2, PTL DEF AppSpec, RevealSpec, PrefSpec, ThemeSpec, BreachSpec, UpdateSpec,
                         HistorySpec, PayloadSpec, HealthSpec

\* Where backups are not what is checked, no machine has a vault.
LEMMA NoVaultsGood ==
    ASSUME copy = [m \in Machines |-> NoVault], main = copy,
           unlocked = [m \in Machines |-> FALSE], memSig = [m \in Machines |-> {}],
           container = NoContainer, job = NoJob,
           edits = 0, backupCuts = 0, torn = [m \in Machines |-> FALSE]
    PROVE  (\E f : Good(f)) /\ BackupTyped
<1>1. /\ \A m \in Machines : ~Exists(m) /\ main[m] = NoVault
      /\ ~Whole /\ job.step = "none"
  BY DEF Exists, Whole, NoContainer, NoJob
<1>2. Orderly
  BY <1>1 DEF Orderly
<1>3. \A f : Good(f)
  BY <1>1, <1>2 DEF Good, Kept, SignedThrough
<1>4. 0 \in 0..MaxEdits /\ 0 \in 0..MaxBackupCuts
  BY BackupAssumption
<1>5. BackupTyped
  BY <1>1, <1>4 DEF BackupTyped, AllTyped
<1> QED
  BY <1>3, <1>5

\* Backup keeps its invariant there too.
LEMMA BackupInApp == AppSpec => []BackupTypeOK
<1>1. AppInit => (\E f : Good(f)) /\ BackupTyped
  <2> SUFFICES ASSUME AppInit PROVE (\E f : Good(f)) /\ BackupTyped
    OBVIOUS
  <2>1. CASE part = "backup"
    <3>1. BackupInit
      BY <2>1 DEF AppInit
    <3> QED
      BY <3>1, GoodInit, BackupTypedInit
  <2>2. CASE part # "backup"
    <3>1. /\ copy = [m \in Machines |-> NoVault] /\ main = copy
          /\ unlocked = [m \in Machines |-> FALSE] /\ memSig = [m \in Machines |-> {}]
          /\ container = NoContainer /\ job = NoJob
          /\ edits = 0 /\ backupCuts = 0 /\ torn = [m \in Machines |-> FALSE]
      BY <2>2 DEF AppInit
    <3> QED
      BY <3>1, NoVaultsGood
  <2> QED
    BY <2>1, <2>2
<1>2. [AppNext]_AppVars => [BackupNext]_backupVars
  BY DEF AppNext, AppVars, otherThanReveal, otherThanBackup, otherThanPref, otherThanTheme,
         otherThanBreach, otherThanUpdate, otherThanHistory, otherThanPayload, otherThanHealth
<1>3. ((\E f : Good(f)) /\ BackupTyped) /\ [BackupNext]_backupVars
      => ((\E f : Good(f)) /\ BackupTyped)'
  <2> SUFFICES ASSUME \E f : Good(f), BackupTyped, [BackupNext]_backupVars
               PROVE  (\E f : Good(f))' /\ BackupTyped'
    OBVIOUS
  <2>1. PICK f : Good(f)
    OBVIOUS
  <2> QED
    BY <2>1, GoodStep, BackupTypedStep
<1>4. (\E f : Good(f)) /\ BackupTyped => BackupTypeOK
  BY BackupTypedOK
<1> QED
  BY <1>1, <1>2, <1>3, <1>4, PTL DEF AppSpec

\* Every variable of every part has its type, whichever part runs.
THEOREM AppTypes == AppSpec => []AppTypeOK
<1>1. /\ RevealTypeOK /\ PrefTypeOK /\ ThemeTypeOK /\ BreachTypeOK /\ UpdateTypeOK
      /\ HistoryTypeOK /\ PayloadTypeOK /\ HealthTypeOK /\ BackupTypeOK
      => AppTypeOK
  BY DEF AppTypeOK
<1> QED
  BY <1>1, PartsOfApp, BackupInApp, RevealTypes, PreferenceTypes, ThemeTypes, BreachTypes,
     UpdateTypes, HistoryTypes, PayloadTypes, HealthTypesAlways, PTL
=============================================================================
