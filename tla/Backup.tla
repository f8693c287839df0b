------------------------------- MODULE Backup -------------------------------
(***************************************************************************)
(* Backup and restore: keyring-store/src/backup.rs and the commands of     *)
(* src-tauri/src/commands/backup.rs, on two machines that pass one         *)
(* container to and fro, with what users do to their items in between.     *)
(*                                                                         *)
(* Abstractions: what an upsert writes is identified by a stamp, which its *)
(* history event shares; a history row is the vault whose key seals it.    *)
(* Every vault exists on all machines of an account, so the vault rows of  *)
(* a container are never new and, being DO NOTHING, never overwrite.  A    *)
(* signature is the set of live contents it was made over.  A transaction  *)
(* is one step, its COMMIT.  Passphrases are right, and a container is     *)
(* authentic or torn.  The application is restarted before it unlocks a    *)
(* restored file (SessionManager shows what happens if it is not), and a   *)
(* move meets only history it can open (VaultStore has the other case).  A *)
(* file with another's -wal beside it is one that does not open, though    *)
(* SQLite may as well bring the old vault back from it whole.              *)
(***************************************************************************)
EXTENDS Integers, FiniteSets, Functions

CONSTANTS
    Machines, Accounts,
    Items, Vaults,    \* identities; two accounts have no item in common
    MaxEdits,         \* bound: what users do
    MaxBackupCuts     \* bound: crashes and failing statements

ASSUME BackupAssumption == MaxEdits \in Nat /\ MaxBackupCuts \in Nat

VARIABLES
    copy,        \* per machine: the vault at vault_path with its -wal, or NoVault
    main,        \* per machine: the same without the -wal
    unlocked,    \* per machine: a session is open
    memSig,      \* per machine: header.manifest_sig in memory
    container,   \* the .tryntabak file
    job,         \* the operation in progress
    edits, backupCuts,   \* counters of the bounds
    torn         \* ghost: per machine, rows were committed and not signed
                 \* since, or were restored from such rows, or lost their -wal,
                 \* or got another file's

backupVars == <<copy, main, unlocked, memSig, container, job, edits, backupCuts, torn>>

NoRow == [rev |-> 0, live |-> FALSE]
NoVault == [acct |-> "none"]
NoContainer == [state |-> "none"]
TornContainer == [state |-> "torn"]
NoJob == [step |-> "none"]
Garbled == {<<>>}     \* the signature of no set of rows

Exists(m) == copy[m] # NoVault
Whole == container.state = "whole"
Idle == job = NoJob

\* manifest_entries: revision and contents of the live rows, not their vault.
Signed(rows) ==
    {<<i, rows[i].rev, rows[i].stamp>> : i \in {j \in Items : rows[j].live}}
Opens(v) == v.sig = Signed(v.rows)

\* A method that resealed (VaultStore shows the statements).
Written(m, v) ==
    LET s == Signed(v.rows)
    IN  /\ copy' = [copy EXCEPT ![m] = [v EXCEPT !.sig = s]]
        /\ memSig' = [memSig EXCEPT ![m] = s]
        /\ torn' = [torn EXCEPT ![m] = FALSE]

-----------------------------------------------------------------------------
(* What users do: the methods of VaultStore, as far as backups tell them   *)
(* apart.                                                                  *)

Edit(m) ==
    /\ Idle /\ unlocked[m] /\ edits < MaxEdits
    /\ edits' = edits + 1
    /\ UNCHANGED <<main, unlocked, container, job>>

\* What item_upsert and its event leave of v, with item i in vault w.
Upserted(v, i, w) ==
    [v EXCEPT !.rows[i] = [rev |-> @.rev + 1, stamp |-> edits', vault |-> w, live |-> TRUE],
              !.history[i] = [e \in DOMAIN @ \cup {edits'} |-> IF e = edits' THEN w ELSE @[e]]]

\* No file and no container knows of item i.
Unheard(i) ==
    /\ \A m \in Machines : Exists(m) => copy[m].rows[i] = NoRow
    /\ Whole => container.vault.rows[i] = NoRow

Upsertable(m, i, w) ==
    Unheard(i) \/ (copy[m].rows[i].live /\ w = copy[m].rows[i].vault)

\* item_upsert, of a new item or a live one.
Upsert(m, i, w) ==
    /\ Edit(m) /\ Upsertable(m, i, w)
    /\ Written(m, Upserted(copy[m], i, w))
    /\ UNCHANGED backupCuts

\* The same with a reseal that fails, the signature in memory replaced or not.
UpsertUnsealed(m, i, w) ==
    /\ Edit(m) /\ Upsertable(m, i, w)
    /\ backupCuts < MaxBackupCuts /\ backupCuts' = backupCuts + 1
    /\ copy' = [copy EXCEPT ![m] = Upserted(@, i, w)]
    /\ memSig' \in {memSig, [memSig EXCEPT ![m] = Signed(copy'[m].rows)]}
    /\ torn' = [torn EXCEPT ![m] = TRUE]

\* item_delete and item_restore: the revision stays.
Toggle(m, i) ==
    /\ Edit(m) /\ copy[m].rows[i] # NoRow
    /\ Written(m, [copy[m] EXCEPT !.rows[i].live = ~@])
    /\ UNCHANGED backupCuts

\* item_move: the revision stays, the history is rewrapped.
Move(m, i, w) ==
    /\ Edit(m)
    /\ LET r == copy[m].rows[i]
       IN  r.live /\ r.vault # w /\ Range(copy[m].history[i]) \subseteq {r.vault}
    /\ Written(m, [copy[m] EXCEPT !.rows[i].vault = w,
                                  !.history[i] = [e \in DOMAIN @ |-> w]])
    /\ UNCHANGED backupCuts

\* purge_expired, 30 days later.
Purge(m, i) ==
    /\ Edit(m) /\ copy[m].rows[i] # NoRow /\ ~copy[m].rows[i].live
    /\ copy' = [copy EXCEPT ![m].rows[i] = NoRow, ![m].history[i] = <<>>]
    /\ UNCHANGED <<memSig, torn, backupCuts>>

\* unlock_with, for which any file but one that opens is tampered with.
UnlockVault(m) ==
    /\ Idle /\ Exists(m) /\ ~unlocked[m] /\ Opens(copy[m])
    /\ unlocked' = [unlocked EXCEPT ![m] = TRUE]
    /\ memSig' = [memSig EXCEPT ![m] = copy[m].sig]
    /\ UNCHANGED <<copy, main, container, job, edits, backupCuts, torn>>

LockVault(m) ==
    /\ Idle /\ unlocked[m]
    /\ unlocked' = [unlocked EXCEPT ![m] = FALSE]
    /\ UNCHANGED <<copy, main, memSig, container, job, edits, backupCuts, torn>>

\* SQLite copies the -wal into the main file.
Checkpoint(m) ==
    /\ main[m] # copy[m]
    /\ main' = [main EXCEPT ![m] = copy[m]]
    /\ UNCHANGED <<copy, unlocked, memSig, container, job, edits, backupCuts, torn>>

-----------------------------------------------------------------------------
(* backup_export.                                                          *)

\* read_body: the rows of the file, the header in memory.
ExportBody(m) == [copy[m] EXCEPT !.sig = memSig[m]]

\* The container is sealed in memory; then fs::write truncates the file.
Truncate(m) ==
    /\ Idle /\ unlocked[m]
    /\ job' = [step |-> "fill", m |-> m,
               vault |-> ExportBody(m), torn |-> torn[m]]
    /\ container' = TornContainer
    /\ UNCHANGED <<copy, main, unlocked, memSig, edits, backupCuts, torn>>

\* fs::write writes it.
Fill ==
    /\ job.step = "fill"
    /\ container' = [state |-> "whole", vault |-> job.vault, torn |-> job.torn]
    /\ job' = NoJob
    /\ UNCHANGED <<copy, main, unlocked, memSig, edits, backupCuts, torn>>

-----------------------------------------------------------------------------
(* backup_restore into a vault of the same account: backup_merge.          *)

\* Mutant: a deletion is recovered from a backup of any age.
WinsOverDeleted(c, r) == c.rev > r.rev \/ (~r.live /\ c.live)

\* Mutant: of two rows of one revision, a live one does not win.
WinsByRevision(c, r) == c.rev > r.rev

\* The WHERE of apply_merge: row c of the container replaces row r.
Wins(c, r) == c.rev > r.rev \/ (~r.live /\ c.live /\ c.rev >= r.rev)

\* apply_merge: what target and container c come to.
Merged(target, c) ==
    [target EXCEPT
        !.rows = [i \in Items |-> IF Wins(c.rows[i], @[i]) THEN c.rows[i] ELSE @[i]],
        !.history = [i \in Items |->
            [e \in DOMAIN @[i] \cup DOMAIN c.history[i] |->
                IF e \in DOMAIN @[i] THEN @[i][e] ELSE c.history[i][e]]]]

\* Mutant: an item that was deleted here is never counted as created.
PreviewIgnoringDeleted(rows, c) ==
    LET shown == {i \in Items : c.rows[i].live}
        created == {i \in shown : rows[i] = NoRow}
        merged == {i \in shown \ created : rows[i].live /\ c.rows[i].rev > rows[i].rev}
    IN  [created |-> created, merged |-> merged, skipped |-> shown \ (created \cup merged)]

\* preview_against, with the items it counts.
Preview(rows, c) ==
    LET shown == {i \in Items : c.rows[i].live}
        created == {i \in shown : rows[i] = NoRow
                                  \/ (~rows[i].live /\ c.rows[i].rev >= rows[i].rev)}
        merged == {i \in shown \ created : rows[i].live /\ c.rows[i].rev > rows[i].rev}
    IN  [created |-> created, merged |-> merged, skipped |-> shown \ (created \cup merged)]

\* open_container, preview, and the transaction, on the rows as they are then.
MergeCommit(m) ==
    /\ Idle /\ Whole /\ Exists(m) /\ copy[m].acct = container.vault.acct
    /\ unlocked[m]
    /\ copy' = [copy EXCEPT ![m] = Merged(@, container.vault)]
    /\ torn' = [torn EXCEPT ![m] = TRUE]
    /\ job' = [step |-> "reseal", m |-> m]
    /\ UNCHANGED <<main, unlocked, memSig, container, edits, backupCuts>>

\* Mutant: reseal_after_merge is left out.
MergeResealForgotten ==
    /\ job.step = "reseal"
    /\ torn' = [torn EXCEPT ![job.m] = FALSE]
    /\ job' = NoJob
    /\ UNCHANGED <<copy, memSig, main, unlocked, container, edits, backupCuts>>

\* reseal_after_merge, under the mutex again.
MergeReseal ==
    /\ job.step = "reseal"
    /\ Written(job.m, copy[job.m])
    /\ job' = NoJob
    /\ UNCHANGED <<main, unlocked, container, edits, backupCuts>>

-----------------------------------------------------------------------------
(* backup_restore where there is no vault, or another account's and        *)
(* allow_replace is set: restore_replacing.                                *)

\* Mutant: the session goes on.
StageUnlocked(m) ==
    /\ Idle /\ Whole
    /\ Exists(m) => copy[m].acct # container.vault.acct
    /\ job' = [step |-> "staged", m |-> m]
    /\ UNCHANGED <<copy, main, unlocked, memSig, container, edits, backupCuts, torn>>

\* Lock; write all rows to a staging file.
Stage(m) ==
    /\ Idle /\ Whole
    /\ Exists(m) => copy[m].acct # container.vault.acct
    /\ unlocked' = [unlocked EXCEPT ![m] = FALSE]
    /\ job' = [step |-> "staged", m |-> m]
    /\ UNCHANGED <<copy, main, memSig, container, edits, backupCuts, torn>>

\* Remove the -wal of what is at the path: what it held is gone.  That a removal
\* fails is discarded.
RemoveWal ==
    /\ job.step = "staged"
    /\ copy' = [copy EXCEPT ![job.m] = main[job.m]]
    /\ torn' = [torn EXCEPT ![job.m] = @ \/ main[job.m] # copy[job.m]]
    /\ job' = [job EXCEPT !.step = "bare"]
    /\ UNCHANGED <<main, unlocked, memSig, container, edits, backupCuts>>

WalStays ==
    /\ job.step = "staged" /\ Exists(job.m)
    /\ backupCuts < MaxBackupCuts /\ backupCuts' = backupCuts + 1
    /\ job' = [job EXCEPT !.step = "beside"]
    /\ UNCHANGED <<copy, main, unlocked, memSig, container, edits, torn>>

\* What is read at the path afterwards is v.
Renamed(v, t) ==
    /\ copy' = [copy EXCEPT ![job.m] = v]
    /\ main' = [main EXCEPT ![job.m] = container.vault]
    /\ torn' = [torn EXCEPT ![job.m] = t]
    /\ job' = NoJob
    /\ UNCHANGED <<unlocked, memSig, container, edits, backupCuts>>

Rename == job.step = "bare" /\ Renamed(container.vault, container.torn)

\* Beside a -wal that stayed, whose pages SQLite recovers over the restored file.
RenameBesideWal ==
    /\ job.step = "beside"
    /\ Renamed([container.vault EXCEPT !.sig = Garbled], TRUE)

-----------------------------------------------------------------------------
\* The process dies before the next step.
Crash ==
    /\ ~Idle /\ backupCuts < MaxBackupCuts
    /\ backupCuts' = backupCuts + 1
    /\ unlocked' = [unlocked EXCEPT ![job.m] = FALSE]
    /\ job' = NoJob
    /\ UNCHANGED <<copy, main, memSig, container, edits, torn>>

\* The next step fails; a reseal may have replaced the signature in memory.
StepFails ==
    /\ ~Idle /\ backupCuts < MaxBackupCuts
    /\ backupCuts' = backupCuts + 1
    /\ memSig' \in {memSig} \cup
         {[memSig EXCEPT ![m] = Signed(copy[m].rows)] : m \in {n \in {job.m} : job.step = "reseal"}}
    /\ job' = NoJob
    /\ UNCHANGED <<copy, main, unlocked, container, edits, torn>>

\* One machine has a vault with every item in it, as new; each other machine has
\* none, or an empty one of another account.
BackupInit ==
    \E here \in Machines, acct \in Accounts, w \in Vaults :
        LET new == [i \in Items |-> [rev |-> 1, stamp |-> 0, vault |-> w, live |-> TRUE]]
            empty == [i \in Items |-> NoRow]
            vault(a, rows) == [acct |-> a, rows |-> rows, sig |-> Signed(rows),
                               history |-> [i \in Items |-> <<>>]]
        IN  /\ copy \in [Machines -> {NoVault, vault(acct, new)}
                                     \cup {vault(a, empty) : a \in Accounts \ {acct}}]
            /\ \A m \in Machines : m = here <=> copy[m] = vault(acct, new)
            /\ main = copy
            /\ unlocked = [m \in Machines |-> FALSE]
            /\ memSig = [m \in Machines |-> {}]
            /\ container = NoContainer /\ job = NoJob
            /\ edits = 0 /\ backupCuts = 0
            /\ torn = [m \in Machines |-> FALSE]

BackupNext ==
    \/ \E m \in Machines :
        \/ \E i \in Items : Toggle(m, i) \/ Purge(m, i)
        \/ \E i \in Items, w \in Vaults : Upsert(m, i, w) \/ UpsertUnsealed(m, i, w) \/ Move(m, i, w)
        \/ UnlockVault(m) \/ LockVault(m) \/ Checkpoint(m)
        \/ Truncate(m) \/ MergeCommit(m) \/ Stage(m)
    \/ Fill \/ MergeReseal \/ RemoveWal \/ WalStays \/ Rename \/ RenameBesideWal
    \/ Crash \/ StepFails

BackupSpec == BackupInit /\ [][BackupNext]_backupVars

-----------------------------------------------------------------------------
(* Properties.                                                             *)

RowType == [rev: 1..(MaxEdits + 1), stamp: 0..MaxEdits, vault: Vaults, live: BOOLEAN]

VaultOK(v) ==
    /\ v.acct \in Accounts
    /\ v.rows \in [Items -> RowType \cup {NoRow}]
    /\ \A i \in Items : v.history[i] \in [DOMAIN v.history[i] -> Vaults]
                        /\ DOMAIN v.history[i] \subseteq 1..MaxEdits

\* Every variable has its type; a restore into another account's vault runs with
\* no session on it, so nothing is written that the rename would discard.
BackupTypeOK ==
    /\ \A m \in Machines : /\ copy[m] = NoVault \/ VaultOK(copy[m])
                           /\ main[m] = NoVault \/ VaultOK(main[m])
                           /\ unlocked[m] => Exists(m)
    /\ Whole => VaultOK(container.vault)
    /\ job.step \in {"none", "fill", "reseal", "staged", "bare", "beside"}
    /\ job.step \in {"staged", "bare", "beside"} => ~unlocked[job.m] /\ Whole
    /\ edits \in 0..MaxEdits /\ backupCuts \in 0..MaxBackupCuts

\* "It must never overwrite a live row with an older revision", and "never
\* partially applies": whatever is edited, merged, replaced, cut or retried, the
\* vault of an account never goes back to an earlier revision of an item, and
\* loses one only to a purge; except that a restore cut between the removal of the
\* old -wal and the rename leaves the old file without its latest commits.
NoRollback ==
    [][\A m \in Machines :
         Exists(m) /\ copy'[m].acct = copy[m].acct /\ ~(job.step = "staged" /\ main[m] # copy[m])
         => \A i \in Items : \/ copy'[m].rows[i].rev >= copy[m].rows[i].rev
                             \/ (~copy[m].rows[i].live /\ copy'[m].rows[i] = NoRow)]_backupVars

\* A vault that was restored, merged, moved to another machine or worked on opens,
\* however often that was interrupted, unless rows were committed and not signed
\* in it, or in the vault it was exported from, or its -wal was removed for a
\* restore that was then cut, or could not be removed for one that was not.
OpensAfterRestore ==
    \A m \in Machines : Exists(m) /\ ~torn[m] => Opens(copy[m])

\* preview_against and apply_merge encode one rule twice.  They agree: what the
\* preview counts as created is what a merge makes appear, and as merged what it
\* changes.  (What it makes disappear is not counted: a row deleted on the other
\* machine at a higher revision replaces a live one here.)
PreviewIsExact ==
    [][\A m \in Machines : job = NoJob /\ job' = [step |-> "reseal", m |-> m] =>
         LET before == copy[m].rows
             after == copy'[m].rows
             seen == Preview(before, container.vault)
         IN  /\ seen.created = {i \in Items : ~before[i].live /\ after[i].live}
             /\ seen.merged = {i \in Items : /\ before[i].live /\ after[i].live
                                             /\ after[i].stamp # before[i].stamp}]_backupVars

\* Two machines of one account that merge each other's backups come to the same
\* items at the same revisions with the same contents, live or not, whichever
\* merges first, unless one revision of an item was written on both.
MergesAgree ==
    \A m, n \in Machines :
        Exists(m) /\ Exists(n) /\ copy[m].acct = copy[n].acct =>
            \A i \in Items :
                LET a == Merged(copy[m], copy[n]).rows[i]
                    b == Merged(copy[n], copy[m]).rows[i]
                    forked == copy[m].rows[i].rev = copy[n].rows[i].rev
                              /\ copy[m].rows[i].rev > 0
                              /\ copy[m].rows[i].stamp # copy[n].rows[i].stamp
                IN  forked \/ (a.rev = b.rev /\ a.live = b.live
                               /\ (a.rev > 0 => a.stamp = b.stamp))

-----------------------------------------------------------------------------
(* A claim of the repository that is not kept.                             *)

\* A history row is sealed under the key of the vault its item is in: "a move that
\* did not do this would leave a history that decrypts under a key the item no
\* longer resolves to".
HistoryOpens ==
    \A m \in Machines : Idle /\ Exists(m) => \A i \in Items :
        copy[m].rows[i].live => Range(copy[m].history[i]) \subseteq {copy[m].rows[i].vault}
=============================================================================
