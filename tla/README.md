# A TLA+ verification project for Trynta

Trynta is a desktop password manager: a Rust store (`crates/keyring-store`) over
SQLite, a crypto crate (`crates/keyring-crypto`), a Tauri application
(`src-tauri`) and a React frontend (`src`). This directory models the parts
whose correctness depends on the order in which things happen, or on rules that
are written twice and have to agree; it checks them with TLC and proves the most
important results with TLAPS. `PROJECT.json` maps each definition to the lines
of the repository it stands for, and lists the hazards the properties are about.

## 1. Inventory

| component | state | operations | what is hard | what makes it correct |
|---|---|---|---|---|
| vault store: `vault.rs`, `repository.rs`, `manifest.rs` | tables `vaults`, `items`, `header`; the header's copy in `VaultFile` | write methods of `Session`, `open`, `unlock`, `purge_expired`, `reseal` | no transaction around a write and its reseal; moves of many rows; a purge with a foreign key | the signature covers the live items; each row opens; a purge takes only what is due; an unlock stays possible |
| activity: `activity.rs` | table `activity` | record, evict, list, rewrap, clear | rows sealed under the vault's key, rewrapped one by one | the history opens under the vault the item is in |
| header, migrations, snapshots: `header.rs`, `schema.rs`, `vault.rs` | header row and its MAC, on disk and in memory; the tables; snapshot files | create, open_with, unlock_with, run_payload_migrations | schema steps run before the MAC key is known; cuts between DDL, version and MAC; builds old and new | what is on disk verifies; a session is on a migrated file; a snapshot to go back to |
| backoff: `backoff.rs`, `app_state.rs` | failures, deadline | record_failure, remaining, reset | restarts, the clock, two statements | each guess counts and costs its delay; the owner gets in |
| session manager: `session.rs`, `commands/account.rs` | `Inner`: state, file, keys, index, token, clocks | attach, begin/abort unlock, adopt, build_index, lock, handle_trigger | several critical sections per operation; slow calls outside the mutex | keys and index exist only while unlocked; no stuck state |
| clipboard: `platform/*/clipboard.rs`, `commands/items.rs` | the OS clipboard, a token, sleeping threads | set_secret, clear_if_ours, schedule | other programs; superseded timers; a clipboard that refuses | our value leaves, a newer one stays |
| search index: `index.rs` | decrypted rows | build, query | rebuilt after each write | reflects every write |
| auto-lock: `autolock.rs` | the setting, last activity | should_lock | time, signals | locks when it says |
| reveal gate: `reveal.rs` | timestamps, two flags | check, reauthenticated, take_fresh_reauth, reset | a rolling window over a clock that can be set; two gates in a row | 20 in 60 s; one secret per confirmation |
| backup: `backup.rs` | container, staging file, `-wal` | export, preview, merge, replace | a rule written twice; two machines; cuts between commit and reseal, removal and rename | all rows or none; nothing newer lost; it opens |
| biometric and capture protection: `commands/biometric.rs`, `commands/settings.rs`, `platform/` | plaintext flags, the secret in the platform's store, the window, last password unlock | enable, disable, unlock, settings_set | flag and secret in two stores; an enrolment in several calls | the password is asked for every 14 days; "off" means nothing stored |
| themes, tour: `commands/theme.rs`, `tour.rs` | documents in the sealed settings, selection in plaintext | import, delete, set | two stores; builds with another grammar | the selection names a stored document |
| breach check: `commands/security.rs`, `breach.rs`, `hibp.rs` | cached ranges, stamp | check in three phases, status | reads under the session, fetches without, writes under it again | unknown is never safe; a finding stays; once a day |
| updater: `commands/updates.rs`, `updater.rs` | stamp, setting | check, install | async: calls overlap | never an older build; once a day |
| item payloads: `model.rs`, `repository.rs`, `dto.rs` | the two halves of an item | upsert, edit_meta, favourite, icon, one-time code, delete, restore, detail, reveal | which half a field is in; what an edit of one half does to the other | the halves agree; no secret is lost |
| generator history: `history.rs`, `commands/generator.rs` | sealed list | record, list, copy, clear | age by a clock that is set, cap | what expired stays gone |
| security report: `report.rs`, `strength.rs`, `twofactor.rs` | none: a function of the items and the cache | assess_all, health | weights redistributed by what the vault holds | following the advice costs no points |
| crypto, generator, strength estimation, TOTP, base32, icons | none that outlives a call | | data only | |
| DTOs, platform calls, frontend, site and scripts | none, or the OS's | | | one-to-one conversions |

How they interact: the frontend calls Tauri commands. All commands but the two
of the updater are synchronous, and Tauri runs those one at a time on the main
thread. A command takes `Mutex<Inner>` for a few short critical sections and,
inside `with_session`, the store's connection mutex for a whole store method.
Each copy starts one thread that sleeps and then calls `clear_clipboard_token`.
`handle_trigger` is the entry for sleep and idle signals; nothing outside
`session.rs` calls it yet. Plaintext preferences (`app_state`), sealed settings
and caches (`app_cache`) and the vault are in one file but written by separate
statements.

## 2. Modules

| module | models | checked by |
|---|---|---|
| `AtomicVault` | what the store promises, with no trace of SQL | refinement target |
| `VaultStore`, `MCVaultStore` | vault store, activity, manifest, at statement granularity | `Store*.cfg` |
| `VaultUnlock` | create, open, migrations, snapshots, MAC, backoff | `Unlock.cfg` |
| `SessionManager` | lock state machine, index, clipboard, threads | `Session*.cfg` |
| `RevealGate` | rolling limit, confirmation, clock | `App.cfg` |
| `Backup` | two machines, one container | `App.cfg` |
| `Preferences` | biometric unlock, capture protection | `App.cfg` |
| `Themes` | imported themes, selection, tours | `App.cfg` |
| `BreachCheck` | the breach check, its cache and cadence | `App.cfg` |
| `UpdateCheck` | overlapping checks and installs | `App.cfg` |
| `GeneratorHistory` | generated values that are remembered | `App.cfg` |
| `ItemPayloads`, `MCItemPayloads` | what is in an item, and what of it comes out | `App.cfg`, `HiddenCustom.cfg`, `SaveErasesIcon.cfg` |
| `HealthReport` | risks and score | `App.cfg` |
| `MCApp` | one state space for the parts that share no state | |
| `Subsequences` | `retain` and `filter` on lists, for `Themes`, `GeneratorHistory`, `ItemPayloads` | |
| `VaultStoreProofs`, `VaultUnlockProofs`, `SessionProofs`, `BackupProofs` | proofs about the module they name | |
| `ConfirmationProofs` | proofs about `RevealGate`, `Preferences` | |
| `ChecksProofs` | proofs about `BreachCheck`, `UpdateCheck`, `HealthReport` | |
| `RecordsProofs` | proofs about `Themes`, `GeneratorHistory`, `ItemPayloads` | |
| `AppProofs` | proofs about `MCApp` | |

`MCApp` chooses one part at the start of a behaviour and leaves the others at an
initial state, so its state space is the sum of the parts', not their product:
they share no state, so nothing is lost. Definitions commented "Mutant" are
one-line bugs of the definition they stand before; no specification uses them,
and each shows that a property notices.

### VaultStore

One step is one SQL statement with the Rust code that runs up to it, because
that is what SQLite commits: the write methods open no transaction. `op` is the
method in progress; a method holds the connection mutex, so there is one at a
time. A payload is its revision, a key is the vault it belongs to
(`items[i].wrap`, and one vault per history row), a signature is the set it
signs (`sig` on disk, `memSig` in memory). `CutShort` ends a method after any
statement: `Crash` closes the process, `StatementFails` returns the error. Time
is coarse and does not pass inside a method.

`vault_delete` with a target is `VaultDeleteMoving`, then for each item
`MoveItem`, `RewrapRow`..., `RewrapDone`, then `DropVault` and `Reseal`; without
one it is `VaultDeleteWithItems` and the last two. `Unlock` is `unlock_with`
with the right password up to the counter reset, followed by the three
statements of `purge_expired`; the session exists only if all succeed.
`vault_rename` and `vault_set_color` are left out: vault metadata is not signed.

### VaultUnlock

The same granularity for a file's creation, opening and unlock. Build `b` ships
the schema and payload migrations `2..b` (today's sets are empty; the code that
runs them is not), and any build may be installed over any other. `db.ddl` is
how far the DDL went, `db.schema` and `db.payload` the stored versions,
`db.rows` the version of the signed rows, `db.sig` and `db.mac` what they were
made over; `mem` is `VaultFile.header`. `pc` names the statement that comes
next. `DDLRefused` is a migration that has run and does not run twice (`ALTER
TABLE ADD COLUMN`); which ones do is the constant `Rerunnable`. `ResealHeader`
stores the MAC of the header in memory when it no longer matches, and at every
unlock of a file whose schema version is past `CURRENT_SCHEMA_VERSION`, that is,
of any that was migrated. `StatementFails` leaves in memory whatever the code
had put there before the statement (`LeftBehind`). `wait` is the deadline less
the wall clock, so `ClockBack` lengthens it. Setting the clock forward, which
ends any delay, is left out.

### SessionManager

One step is one critical section of `Mutex<Inner>` or one platform call. `cmd`
is the command the main thread is in and its next step; every command that
changes the item set is `Write` and then `ReadRows`, `SetIndex`; it may fail
before (`WriteFails`) or in `build_index` (`ReadRowsFails`), and `stale` records
that it did. `disk` and `file` are generations of the vault file, so that a
restore that swaps the file under the attached one is visible. The clipboard is
a sequence number and whose value it holds. `Signals` turns on a thread that
sends one sleep signal through `handle_trigger`, or calls `lock`, at any moment.
`platform` is the clipboard the application runs over. Both compare the number
first (`ClearCheck`) and clear in a later call (`ClearEmpty`); Windows opens the
clipboard in between, which may be refused (`ClearFails`, `missed`), and
`set_secret` there reads its number after it has closed the clipboard
(`ReadNumber`), where macOS is given it by the call that empties. An auto-clear
is not started if the settings cannot be read (`ScheduleFails`, `unread`).

### RevealGate

Each command is one step, since commands are serial and nothing else touches the
limiter. `skew` is what the wall clock is off by, and `ClockSet` changes it.
Ghosts: `shown`, the real times of reveals since the last confirmation or lock;
`steady`, how many of them precede the last forward setting of the clock;
`credit`, confirmations less secrets let out.

### Backup

Each machine has its vault file (`copy`, and `main` for the same without its
`-wal`); one container passes between them. `Upsert`, `Toggle`, `Move` and
`Purge` are what users do, as far as a backup tells them apart. `Truncate` and
`Fill` are `fs::write`; `MergeCommit` is `apply_merge` in its transaction,
`MergeReseal` the reseal that follows in another acquisition of the mutex;
`Stage`, `RemoveWal` and `Rename` are `restore_replacing`; its discarded error
is `WalStays` and `RenameBesideWal`, after which the old pages are recovered
over the restored file and nothing in it verifies. A content is the stamp of the
edit that wrote it, so that one revision written on two machines shows as two
contents.

### Preferences

`flags` are the plaintext settings, `secret` what is in the platform's secure
store under the application's label, `window` the capture protection the window
has. Enrolment is verify, replace, store, flag, one step each; `SetBiometric` is
`settings_set`, which touches the flag alone. `Revoke` deletes what is stored;
`RevokeIgnored` is the delete that the Keychain, or the file behind DPAPI,
refuses and `revoke` discards, on Windows with the credential gone all the same.
`Launch` reads the settings as `run`'s setup does. `SensorChanges` enrols or
removes a finger, after which what was stored no longer unwraps.

### Themes

`themes` is in the sealed settings, `selected` and `mode` in `app_state`;
`ThemeDelete`/`Deselect` and `ThemeSet`/`Select` are the two statements of a
command. A document carries the strictest build that admits it, so a change of
build can turn a stored document invalid. A build may also be one that cannot
decode the blob there is (`legible`): it reads the defaults (`Known`), and
whatever command saves next (`Encoded`) writes them over it.

### BreachCheck

`BreachCheckBegin` reads the items and the stamp under the session, `FetchRange`
and `FetchFails` run without it, `StoreCache` and `Stamp` write under it again.
Commands are serial, so items do not change in between, but a lock, a crash and
a failure may come between any two (`BreachCut`). The report reads `Status`,
from cached ranges only.

### UpdateCheck

Two calls in flight, of either kind, each suspended at its awaits: `CheckBegin`
to `CheckFailed`, or to `CheckAnswered` and then `StampCheck`, which may fail
(`StampCheckFails`), find no vault to write in, or not be reached because the
process ended; `InstallBegin`, `InstallAnswered`, `InstallDone`. What is
installed runs after `Relaunch`.

### GeneratorHistory

Every command is load, prune, work, save under one lock of the session, hence
one step. `SetClock` sets the clock to anything.

### ItemPayloads

`split_draft` is `MetaOf` and `SecretOf`; `Insert`, `Update`, `ItemEditMeta`,
`ToggleFavorite`, `SetCustomIcon`, `SetTotp` and `SetDeleted` are the statements
of `repository.rs` with the commands that call them; `Revealed` is
`ItemSecretPayload::field`, `Presented` the addresses `ItemDetailDto` offers.
`BeforeIcons` is a payload of an older build, without the icon field.

### HealthReport

`Risks` is `assess_all` and `security_report_run`, `Score` is `health` in
hundredths, exact; `SaveLogin`, `DropLogin` and `Learn` change what it reads.

## 3. Runs

| run | shows |
|---|---|
| `store_calm` | with no method cut short, `VaultStore` implements `AtomicVault` (`contents <- sig`); a purge changes nothing signed; rows outlive their grace |
| `store_faults` | with two cuts: rows always open, some vault is live, and the signature and the history are in order except for what a cut left and the ghosts record |
| `session_safety` | the application as wired, over either clipboard as it is, commands that fail midway, fair threads: nothing readable unless unlocked; a settled idle state; every copied value accounted for; superseded timers harmless; item copies leave |
| `session_threads` | a signal at any moment, over the Windows clipboard: keys follow the state |
| `unlock` | three builds, wrong passwords, restarts, a clock set back, two cuts: the file verifies, a session is migrated, there is a snapshot to go back to, every guess costs its delay, and the owner gets in |
| `app` | the nine parts of `MCApp`, one after another in one state space; seventeen properties, below |
| `store_crash`, `store_purge`, `session_restore`, `session_windows`, `hidden_custom`, `save_erases_icon` | one counterexample each, below |

What `app` checks, by part:

- reveals: `RollingLimit`, `OneSecretPerConfirmation`.
- backup: `NoRollback` (no merge or restore brings an older revision back),
  `OpensAfterRestore`, `PreviewIsExact` (the preview and the merge, two
  encodings of one rule, agree), `MergesAgree` (two machines that merge each
  other's backups end up with the same items).
- preferences: `PasswordIsRecent` (the 14 days), `PlatformAgrees` (flag and
  secret, setting and window).
- themes: `SelectionHolds`. Breaches: `NeverSafeUnchecked`, `BreachedStays`,
  `ChecksAreADayApart`. Updates: `NeverOlder`, `ChecksAreSpaced`. Items:
  `ItemIsWhole`. Generator history: `ExpiredStaysGone`. Report:
  `FixingNeverHurts`.

### Statements of the repository the code does not keep

With a run and a finding (quotes in `PROJECT.json`):

1. `store_crash`: a write's UPDATE and its reseal are two commits; cut between
   them, the file no longer opens.
2. `store_purge`: an item restored into a deleted vault makes the purge of that
   vault fail 30 days later, and with it every unlock.
3. `session_restore`: the unlock after a restore opens the old `VaultFile`.
4. `session_windows`: `clear_if_ours` may empty a copy made after its check. The
   run has the Windows clipboard, with its retries in between; the macOS one has
   the same gap, between two adjacent calls.
5. `hidden_custom`: a hidden custom field behind a field of another kind is
   listed at an address that reveals nothing, or another field's value.
6. `save_erases_icon`: saving an item from its form drops its icon.

Stated in the modules without a run of their own; each is violated when it is
put in a `.cfg` with the values named:

- `SessionManager!SleepIsHonoured`, `Signals = TRUE`: a sleep signal during a
  derivation is ignored or undone.
- `SessionManager!LockClearsOurValue`, `Platforms = {"Windows"}`: a failed
  auto-clear gives up the token, and a later lock no longer clears the value.
- `SessionManager!HistoryCopyLeaves`, `FairSpec`: a copy from the generator's
  history has no timer.
- `VaultUnlock!NoHalfMadeVault`: a creation cut midway leaves a file that
  neither opens nor can be created over.
- `Backup!HistoryOpens`, `BackupSpec` with `MaxEdits = 3`: after a merge an
  item's history may be sealed under the key of a vault the item is not in.
- `HealthReport!FullMarksMissNothing`: a code at a service outside the directory
  counts as two-factor, so a login listed as missing one can cost nothing.

### Properties that hold under a condition

These hold as stated, and are violated without the condition:

- `HistoryFollowsItem` excludes items whose move was cut (`moveCut`): such a
  history stays sealed under the old key.
- `NothingReadableUnlessUnlocked` is checked with `Signals = FALSE`: with
  signals, a lock inside `build_index` leaves an index in a locked vault.
  Nothing calls `handle_trigger` in the application as wired.
- `IdleIsSettled` excludes `stale`: every command but an unlock returns the
  error of the store, or of `build_index()?`, with the rows changed, or the
  account created, and the index as it was; an unlocked vault then shows old
  titles until a later command rebuilds it.
- `SupersededTimerIsHarmless` is about copies made before `clear_if_ours`
  compares; finding 4 is about those made after. On Windows the number noted for
  a copy may be that of another program's next one, which is then cleared as
  ours.
- `ItemCopyLeaves` excludes a clipboard that refused, and a copy whose settings
  could not be read: `schedule_clipboard_clear` takes that for a locked vault,
  but a failing SELECT of an unlocked one has no timer either.
- `HeaderVerifies` excludes `torn` files. A payload migration that rewrote rows
  and was cut leaves rows that nothing has signed. If its UPDATE of the version
  fails, the header in memory is ahead of the stored one; the process may still
  be unlocked, and what it then writes is signed under a version that is not
  stored. So is what it stores if it is unlocked once more: in a file whose
  schema was migrated, `unlock_with` stores the MAC of the header in memory
  whether or not the old one matched. The file does not open again.
- `SessionIsMigrated` excludes the process that created the file: `create`
  writes `CURRENT_SCHEMA_VERSION` and the migrations run in `open_with` only.
- `CanGoBack`: DDL that does not run twice fails at each open after a cut, and
  each of those opens takes a snapshot; retention then drops the last healthy
  one.
- `BackoffHolds`: a cut before the count loses a guess, one before the deadline
  loses its delay.
- `OpensAfterRestore`: `torn`, as for the store; and the `-wal` is removed
  before the rename, so a cut in between loses what was only there, and a
  removal that fails, whose error is discarded, leaves the old pages beside the
  new file. (SQLite may then recover the old vault whole instead of a file that
  does not open; that outcome is not modelled.) `NoRollback` excludes the same
  cut.
- `MergesAgree`: one revision written differently on two machines is kept by
  each. `PreviewIsExact`: live items that a merge deletes are not counted.
- `PlatformAgrees`: `settings_set` changes the biometric flag without enrolling
  or revoking; a cut between two stores, or a restore of another account's
  vault, parts them; and `revoke` discards the refusal of its delete on either
  platform, so `biometric_disable` succeeds with the secret still stored, which
  `commands/biometric.rs:126-128` means to rule out.
- `SelectionHolds`: a command cut between its statements, although
  `services/theme.rs` says the pair cannot be half-applied. A document that a
  newer build refuses still counts towards the limit and cannot be removed. A
  build that cannot decode the settings reads defaults, as documented; its next
  save of any setting erases every imported document, while the selection, in
  plaintext, stays and names one of them.
- `BreachedStays`: a garbage body replaces a good one, because nothing rejects
  it before it is cached. `ChecksAreADayApart`: a cut between cache and stamp.
- `ChecksAreSpaced`: two checks in flight each decide before they wait; and an
  answer may go unstamped, since there is no vault, its write fails, or the
  process ends between the two.
- `NeverOlder` is about what runs next: two overlapping installs may leave an
  older build on disk than one of them brought, never older than what runs.

Met while modelling, and left as they are: a newer payload version is not
refused, as a newer schema is; `fs::write` replaces a previous backup without a
staging file; a merge can make an item live in a deleted vault; an update of an
item resets `created_at` and ignores the draft's vault; an `item_edit_meta` that
changes nothing takes a revision; `load` of the generator's history is
documented to prune and does not; filling in a blank password may lower the
score.

### Bounds

Store: two vaults and two items, so that a move has a source and a target, an
item can be left behind, and one item can be written while another is cut;
revisions up to 2; `PurgeAfter` 1 and time up to 3, so a row can be young, on
the day, and due; `ActivityLimit` 1, so the cap is reached by the second row;
two cuts (`MaxCuts`), so that a fault can hit what an earlier one left. Symmetry
on items and vaults: no action tells two apart; no liveness is checked with it.
A method that a crash interrupts may leave `rewrap` with a single row; since the
cap is applied after the insertion, moves of two rows occur too, after a cut.

Session: `MaxSeq` 3 allows three copies, ours or foreign, in any order with the
clears between them, so a timer can be superseded by a copy whose own timer is
asleep, and that one by a foreign copy; one write; two generations of the file;
both platforms. One signal suffices: after it the state is one a lock can leave.

Unlock: three builds, so that an open may run two migrations, or one, or find a
newer file; version 2 may be rerun, version 3 may not and rewrites rows, so both
recoveries occur; one free attempt, three failures and delays of one and two
units, so the delay grows and reaches its cap; retention 2 and five snapshots,
so a snapshot is dropped while a migration is half done; two cuts, so the
recovery of a cut can be cut; one write, one setting of the clock.

App:

- Reveals: `LIMIT` 2, `WINDOW` 2, four units of time, four reveals; clock
  offsets 0, 1 and 3, that is less and more than a window; two confirmations in
  hand.
- Backup: two machines, two accounts (a restore over another's vault), one item,
  since items merge independently; two vaults to move between; two edits, one on
  each machine or one on top of the other; one cut. (By itself, `Backup` also
  holds with three edits; together with the other parts that takes too long to
  be rerun with each change.)
- Preferences: two accounts, an interval of two of four days, one cut, one day
  back. Themes: two ids, a limit of three documents, two grammars, so that a
  document that became invalid has a valid twin; one cut.
- Breaches: two items, three passwords of which two share a range, an interval
  of two hours, one cut. Updates: two calls, two versions and one that does not
  parse, an interval of two in a clock of three.
- History: three entries for a cap of two, an age of two in a clock of three.
  Items: two words, past passwords up to two, four writes, so that a password
  can leave the history; a one-time-code setup, an icon, lists with a hidden
  field alone and behind another. Report: three logins of which one has a
  telling title, two passwords of which one is common.
- Symmetry: the names of machines, accounts and vaults, which other parts use
  for their own interchangeable names; no action or property tells two apart,
  and no liveness is checked with it.

`app`, `hidden_custom` and `save_erases_icon` turn deadlock checking off: a part
that has used up its writes or its entries is at its bound. No other run does.

### Fairness

`SessionManager!FairSpec` assumes that a command that has begun goes on
(`WF(Continue)`), that a sleeping thread wakes (`WF(Fire)`) and that a clipboard
call returns (`WF(Clear)`). Commands are straight-line code, `thread::sleep`
returns, and opening the clipboard is bounded by ten attempts. Users, other
programs, signals and clipboard failures have no fairness. `ItemCopyLeaves` is
what this buys, unless the clipboard refused.

`VaultUnlock!FairSpec` assumes that code that was called goes on, that time
passes, and that the owner keeps trying: opens the application, types the right
password whenever it is evaluated, restarts when told of tampering. Wrong
passwords, other builds and cuts have no fairness; cuts are finitely many. The
owner's steps need strong fairness because wrong passwords and other builds keep
disabling them. `OwnerGetsIn` is what this buys: neither the backoff nor a stale
MAC nor an interrupted migration shuts the owner out, unless `Barred` says why.

## 4. Proofs

Assumptions are the `ASSUME`s of the modules: sentinels lie outside their sets,
bounds and limits are natural, ranges of the breach service do not overlap; TLC
evaluates them on every run. What is proved holds for all values of the
constants, so for any number of items, builds, cuts, calls, and any clock. Every
safety property the passing runs check, invariant or action property, is also a
theorem. Those that assume more than the specification say so:

| theorem | also assumes | because |
|---|---|---|
| `UncutStoreIsAtomic` | `[]~sealCut` | a method that is cut between its rows and its reseal leaves a state no atomic store has; `StoreCrash.cfg` shows what follows |
| `NothingReadable`, `NoSecretForgotten`, `SettledBetweenCommands` | `~Signals` | nothing calls `handle_trigger`; with signals the first is false, and §3 says so |

A property is seldom inductive. What follows names, per module, the invariant
that is, and what it adds.

### VaultStoreProofs

- `TypeCorrect`: `TypeInv` adds to `TypeOK` that the rows `op` names are there
  (`OpHasItsRows`), without which an update could invent one.
- `ItemsAlwaysOpen`: `TypeInv` and the invariant itself, one lemma per way a row
  or a vault can change. The purge is the interesting case: the foreign key is
  what keeps a vault that some row names.
- `SignatureCovers`: `Sealed` says in which states of `op` the signature may
  lag; it needs that a purge leaves `Manifest` alone, and that moving an item
  changes neither identifier nor revision.
- `VaultAlwaysLive`: `Housed` says that while a vault is being dropped another
  one is live, which the refusal of the last vault gives at the start of
  `vault_delete` and the mutex keeps until its end.
- `HistoryStaysReadable`, `MovesNeverStop`: `HistoryInv` says how a history
  looks while a move is under way: sealed for the new vault up to the row that
  comes next, for the old one from there on (`SealedFor`), with the items still
  to be moved in the old vault (`MoveUnderWay`) and nothing kept of an item that
  never was (`NothingUnminted`). An eviction meanwhile would shift the rows; the
  mutex excludes it.
- `PurgeSafe` and `GraceKept`: action properties, from `TypeInv`.
- `UncutStoreIsAtomic`: each statement maps to a step of `AtomicVault` or to a
  stutter. `StoreInv` joins the invariants above with `WritePending`: a method
  that waits for its reseal is one abstract write (`OneWrite`: one entry added,
  one replaced, or some removed) ahead of the signature.

### VaultUnlockProofs

- `FileAlwaysVerifies`: `HeaderVerifies` alone says nothing of the states inside
  an operation, nor of what the next operation will trust. `Kept` strengthens it
  by what the header in memory knows of the file at each statement (`Mirrors`),
  and by what of the file verifies whatever the versions say (`Sound`): schema
  steps leave the MAC stale, and the next unlock must still find the fields it
  was made over.
- `SessionsAreMigrated`: `Kept` and `Migrated`, which says how far the DDL and
  the versions have come at each statement between an open and its session.
- `WrongPasswordsCost`: `Costs` says what guess has been counted, and what delay
  is owed, at each of the two statements of `record_failure`.
- `SnapshotToGoBackTo`: `SnapshotFirst`, that a file is untouched until it has a
  healthy snapshot, with what pruning leaves of a list of snapshots.
- `UnlockTypes`: `InRange`, that a migration ends at the version of its build.

### SessionProofs

`KeysFollow` (`Agreed`: keys, state and file agree, and a command between
`begin` and `adopt` has a file), `SessionTypes` and `SupersededTimers` (`Dates`:
every number held is one the clipboard has had, a new copy's is above those of
all timers, and a timer that has fired no longer sleeps) hold with sleep signals
anywhere and over either platform. `NothingReadable` rests on `Serial`: what the
main thread's step says of the state, as between reading rows and setting the
index nothing else can lock. `SettledBetweenCommands` adds `UpToDate`, that what
is in the index, or on its way there, is what is stored, unless a command failed
before it could see to that. `NoSecretForgotten` adds `Traced`: of a secret on
the clipboard the token knows, or a call that clears it, or the copy that is
about to note it; and a lock takes the token before it drops the keys.

### ConfirmationProofs

- `OneConfirmationOneSecret`: `Spendable`, that a confirmation at hand has not
  been spent, and found the window empty.
- `AtMostLimitInTheWindow`: of the reveals since the last confirmation or lock,
  and since the clock was last set forward. `Remembered` relates the limiter's
  readings to the real times of the reveals, through every setting of the clock:
  it holds the last of them, none further back than they were, and what it has
  forgotten is out of the window. `Spread` is the limit without counting. That a
  set of naturals has a least member comes from the well-foundedness of `<`
  (`LeastOfNaturals`), not from an induction.
- `PasswordAlwaysRecent`: `PasswordNoted`, that the session manager's date of
  the last password unlock is at most as wrong as the clock.
- `SettingsMatchPlatform`: `Agreed`. `Paired` follows secret and flag from the
  platform's call to the statement for the flag, `OwnSecret` says whose password
  the secret unwraps, `WindowSet` what the window shows until it is applied.

### BackupProofs

`RestoredVaultsOpen`, `NothingRolledBack`, `PreviewSaysWhatMerges` and
`MergesComeTogether` share one invariant: there is an `f` with `Good(f)`, where
`f` says which revision a stamp is. `Kept(f)` holds that every row kept anywhere
(file, `-wal`, container, export under way) has the revision of its stamp:
contents that agree are then of one revision, which is why a merge that compares
revisions only does not mix contents. `Orderly` is about the operation in
progress, `SignedThrough` about the four places a signature can be in.
`MergesCommute` is a lemma about two rows, with no state in it.

### ChecksProofs

- `NotCheckedIsNeverSafe`: `AllFounded`, that every body, cached or being
  assembled by a check, was fetched for its range. `OnceBreachedAlwaysBreached`:
  `Retained`, that the cache a check is building says no less of the ranges it
  is done with. `ChecksKeepTheirDistance`: `DatedByStamp`, that the stamp is
  that of the last check that reached the service, unless it is still to be left
  or was cut.
- `NeverDowngraded`: `Forward`, that what is installed or being downloaded is no
  older than what runs, which only a relaunch changes. `ChecksKeepTheInterval`:
  `Spaced`, of the stamp, the clock and the checks in flight: the stamp is as
  late as the last answer, unless that answer is still to be stamped.
- `AdviceNeverCosts`: no invariant but the types. `MendedSets` and
  `MendedGroups` say what one repaired login does to the sets that are counted
  (a group of two dissolves with it), `ScoreGrows` that the score follows; the
  division is in `QuotientGrows`.

### RecordsProofs

- `ExpiredEntriesStayGone`: `HistoryFresh`, that an entry is in one place, kept,
  dropped or not generated yet, and that what is shown is not expired.
- `SelectionAlwaysHolds`: `PairFollows`, what the second statement of a command
  will make of the pair, and of which documents that is true.
- `ItemsStayWhole`: `WholeInv`, that a stored item is the draft last entered,
  split, with the history of what it replaced; `CutOnceOrTwice` says that
  truncating a history after each save keeps what truncating it once would.

Their lists are shortened by `retain` and `filter`. The standard `SelectSeq` is
recursive, of which nothing can be proved here, so `Subsequences` defines `Only`
by the positions that are kept; `CanBeOrdered` and `OnlyThose` say what it
returns.

### AppProofs

`AppTypes` states `AppTypeOK`: `PartsOfApp` shows that a behaviour of `MCApp` is
a behaviour of each part, so that the theorems about the parts apply to it, and
each part has a lemma for its types (`RevealTypes`, `PreferenceTypes`,
`BackupTypes`, `BreachTypes`, `UpdateTypes`, `HistoryTypes`, `ThemeTypes`,
`PayloadTypes`, `HealthTypesAlways`). Most of them need more than types: a
revision is bounded by the edits there were (`BackupTyped`), no entry is listed
twice (`HistoryTyped`), an id about to be selected is a theme's (`ThemeTyped`).

### Only model-checked

The liveness properties `ItemCopyLeaves` and `OwnerGetsIn`: whatever involves
fairness or ENABLED is out of the prover's reach. The six claims the violation
runs refute are refuted by TLC's traces only. No theorem is by induction over
data: where one seems to be (a truncated history, a pruned list), the operator
is defined without recursion. No module declares a RECURSIVE operator.

## 5. Not modelled, and what is left

Not modelled, with the reason:

- cryptographic primitives: assumed. A sealed payload opens with its key only, a
  signature verifies the set it signs, a MAC the fields it covers.
- generator, TOTP codes, base32, the icon pipeline, zxcvbn and the directory of
  services: sequential functions over bytes or random numbers; what they return
  enters the models as a value.
- bytes of the backup container, the formats of clipboard markers, names and
  colours of vaults, limits on lengths, filtering and ordering of the index.
- the table of `should_lock`: an enumeration with a unit test per cell, which no
  event reaches yet. Once `handle_trigger` is wired, `SessionManager` with
  `Signals = TRUE` is the model to look at first.
- DTO conversions but those of an item, IPC registration, frontend, site and
  scripts: one-to-one, or no state the commands trust.

Left to do, in this order: the rows of `Backup` as a refinement of
`VaultStore`'s; the composition of store and session, index against manifest;
the signature of the store across a restart as one theorem with `VaultUnlock`'s
MAC.
