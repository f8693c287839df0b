---------------------------- MODULE VaultUnlock ----------------------------
(***************************************************************************)
(* How a vault file comes into being, is opened, migrated and unlocked:    *)
(* VaultFile::create, open_with, unlock_with and run_payload_migrations of *)
(* keyring-store/src/vault.rs, with header.rs, schema.rs, backoff.rs and   *)
(* the counters of app_state.rs.  One step is one SQL statement with the   *)
(* code that runs up to it; the connection mutex is held throughout, so    *)
(* one operation is in progress at a time.  Any statement may fail, and    *)
(* the process may die before any of them.                                 *)
(*                                                                         *)
(* Abstractions: build b of the application ships the schema and payload   *)
(* migrations 2..b.  The signed rows are a version number, a signature is  *)
(* the number it was made over, a MAC the header fields it was made over.  *)
(* The table `migrations' is written and never read, and is left out.      *)
(* The backoff deadline is kept relative to the wall clock, in units of    *)
(* BASE_DELAY_SECS.  Purging (VaultStore) changes nothing seen here.       *)
(***************************************************************************)
EXTENDS Integers, Sequences, FiniteSets

CONSTANTS
    FREE_ATTEMPTS,       \* backoff::FREE_ATTEMPTS
    MAX_DELAY,           \* backoff::MAX_DELAY_SECS
    SNAPSHOT_RETENTION,  \* schema::SNAPSHOT_RETENTION
    Rerunnable,          \* schema versions whose DDL may run a second time
    Rewrites,            \* payload versions that rewrite signed rows
    MaxBuild,            \* bound: builds of the application
    MaxWrites,           \* bound: writes of the item set
    MaxFailures,         \* bound: the failure counter
    MaxSnapshots,        \* bound: the index of a snapshot
    MaxCuts,             \* bound: crashes and failing statements
    MaxClockSets         \* bound: times the clock is set

ASSUME ConstantsAssumption ==
    /\ FREE_ATTEMPTS \in Nat /\ MAX_DELAY \in Nat \ {0}
    /\ SNAPSHOT_RETENTION \in Nat \ {0}
    /\ MaxBuild \in Nat \ {0}
    /\ Rerunnable \subseteq 2..MaxBuild /\ Rewrites \subseteq 2..MaxBuild
    /\ MaxWrites \in Nat /\ MaxFailures \in Nat /\ MaxSnapshots \in Nat
    /\ MaxCuts \in Nat /\ MaxClockSets \in Nat

VARIABLES
    db,         \* the file: header row, DDL that ran, signed rows; NoFile, Tables
    snapshots,  \* snapshot files, oldest first: index, was the file healthy
    failures,   \* app_state backoff_failures
    wait,       \* app_state backoff_until, less the wall clock
    build,      \* the build installed
    mem,        \* VaultFile.header; NoHeader if no file is attached
    session,    \* keys are held
    pc,         \* the next statement of the operation in progress
    cuts, clockSets,   \* counters of the bounds
    opened,     \* ghost: the file was attached by open_with, not by create
    torn,       \* ghost: rows were rewritten and not signed since, or a MAC was
                \*   stored over a payload version that is not
    guesses,    \* ghost: wrong passwords evaluated since the last success
    lost,       \* ghost: how many of them were cut before they were recorded
    owed        \* ghost: time the last wrong password still costs

disk == <<db, snapshots, failures, wait>>
process == <<build, mem, session, pc>>
bounds == <<cuts, clockSets>>
ghosts == <<opened, torn, guesses, lost, owed>>
vars == <<disk, process, bounds, ghosts>>

NoFile == [ddl |-> 0]
Tables == [ddl |-> 1]
NoHeader == [schema |-> 0]
HasHeader == db \notin {NoFile, Tables}
Attached == mem # NoHeader
Then(step) == pc' = step

LongPast == -MAX_DELAY
Smaller(a, b) == IF a < b THEN a ELSE b
Larger(a, b) == IF a > b THEN a ELSE b

\* schema::CURRENT_SCHEMA_VERSION, pinned: no build can raise it.
CURRENT_SCHEMA_VERSION == 1

\* delay_after.
delay_after(n) == IF n <= FREE_ATTEMPTS THEN 0
                  ELSE Smaller(2 ^ (n - FREE_ATTEMPTS - 1), MAX_DELAY)

-----------------------------------------------------------------------------
(* The header and its MAC.                                                 *)

\* Header::fields, as far as they change.
Fields(h) == [schema |-> h.schema, payload |-> h.payload, sig |-> h.sig]
Maced(h) == [h EXCEPT !.mac = Fields(h)]
Header(d) == [schema |-> d.schema, payload |-> d.payload, sig |-> d.sig, mac |-> d.mac]

\* Mutant: no MAC is taken for stale.
MacStaleNever(h) == FALSE

\* header_mac_is_stale_from_migration.
MacStale(h) == \E v \in 1..(h.schema - 1) : h.mac = [Fields(h) EXCEPT !.schema = v]

\* Steps 2 to 6 of unlock_with, given the right password.
Verifies(h, rows) == (h.mac = Fields(h) \/ MacStale(h)) /\ h.sig = rows

\* What a snapshot should be worth: no migration is half done in it.
Healthy == HasHeader /\ db.ddl = db.schema /\ Verifies(Header(db), db.rows)

-----------------------------------------------------------------------------
(* create, and account_create up to the unlock.                            *)

\* account_create refuses if anything is at the path.  INITIAL_SCHEMA; then
\* comes the derivation, a second long.
CreateTables ==
    /\ pc = "idle" /\ db = NoFile
    /\ db' = Tables
    /\ Then("header")
    /\ UNCHANGED <<snapshots, failures, wait, build, mem, session, bounds, ghosts>>

\* header.insert.  The unlock that follows is one like any other.
InsertHeader ==
    /\ pc = "header"
    /\ LET h == Maced([schema |-> CURRENT_SCHEMA_VERSION, payload |-> 1, sig |-> 0, mac |-> <<>>])
       IN  /\ db' = [ddl |-> 1, rows |-> 0, schema |-> h.schema, payload |-> 1,
                     sig |-> 0, mac |-> h.mac]
           /\ mem' = h
    /\ Then("idle")
    /\ UNCHANGED <<snapshots, failures, wait, build, session, bounds, ghosts>>

-----------------------------------------------------------------------------
(* open_with and run_schema_migrations.                                    *)

NextIndex ==
    IF snapshots = <<>> THEN 1 ELSE snapshots[Len(snapshots)].index + 1

\* Mutant: pending schema migrations are left for another time.
OpenWithoutMigrating ==
    /\ pc = "idle" /\ ~Attached
    /\ HasHeader /\ db.schema <= build
    /\ mem' = Header(db) /\ opened' = TRUE
    /\ UNCHANGED <<disk, build, session, pc, bounds, torn, guesses, lost, owed>>

\* Refused: NotAVault without a header, UnsupportedSchema for a newer one.
Open ==
    /\ pc = "idle" /\ ~Attached
    /\ HasHeader /\ db.schema <= build
    /\ db.schema < build => NextIndex <= MaxSnapshots
    /\ mem' = Header(db) /\ opened' = TRUE
    /\ Then(IF db.schema < build THEN "schema snapshot" ELSE "idle")
    /\ UNCHANGED <<disk, build, session, bounds, torn, guesses, lost, owed>>

\* Mutant: one snapshot fewer is kept.
PrunedHard(s) ==
    SubSeq(s, Larger(1, Len(s) - SNAPSHOT_RETENTION + 2), Len(s))

\* What retention leaves.
Pruned(s) == SubSeq(s, Larger(1, Len(s) - SNAPSHOT_RETENTION + 1), Len(s))

\* snapshot; a file that cannot be removed stays for the next time.
Snapshot(next) ==
    /\ LET all == Append(snapshots, [index |-> NextIndex, healthy |-> Healthy])
       IN  \/ snapshots' = Pruned(all)
           \/ Len(snapshots) <= SNAPSHOT_RETENTION /\ snapshots' = all
    /\ Then(next)
    /\ UNCHANGED <<db, failures, wait, build, mem, session, bounds, ghosts>>

SchemaSnapshot == pc = "schema snapshot" /\ Snapshot("ddl")

\* execute_batch of the next pending migration.
RunDDL ==
    /\ pc = "ddl"
    /\ LET v == mem.schema + 1
       IN  /\ v > db.ddl \/ v \in Rerunnable
           /\ db' = [db EXCEPT !.ddl = Larger(v, @)]
           /\ mem' = [mem EXCEPT !.schema = v]
           /\ Then(IF v < build THEN "ddl" ELSE "version")
    /\ UNCHANGED <<snapshots, failures, wait, build, session, bounds, ghosts>>

\* DDL that ran already and cannot run twice: open fails.
DDLRefused ==
    /\ pc = "ddl"
    /\ mem.schema + 1 <= db.ddl /\ mem.schema + 1 \notin Rerunnable
    /\ mem' = NoHeader
    /\ Then("idle")
    /\ UNCHANGED <<disk, build, session, bounds, ghosts>>

\* The version is stored; the MAC needs the password and stays as it is.
StoreSchemaVersion ==
    /\ pc = "version"
    /\ db' = [db EXCEPT !.schema = mem.schema]
    /\ Then("idle")
    /\ UNCHANGED <<snapshots, failures, wait, build, mem, session, bounds, ghosts>>

-----------------------------------------------------------------------------
(* unlock_with: account_unlock, account_create, and account_reauth, which  *)
(* runs all of it in an unlocked vault.                                    *)

Evaluated == pc = "idle" /\ Attached /\ wait <= 0

\* A wrong password, which fails the MAC and the verifier alike.
WrongPassword ==
    /\ Evaluated /\ failures < MaxFailures
    /\ guesses' = guesses + 1
    /\ Then("count")
    /\ UNCHANGED <<disk, build, mem, session, bounds, opened, torn, lost, owed>>

\* record_failure, its first statement.
CountFailure ==
    /\ pc = "count"
    /\ failures' = failures + 1
    /\ owed' = delay_after(failures + 1)
    /\ Then(IF delay_after(failures + 1) > 0 THEN "until" ELSE "idle")
    /\ UNCHANGED <<db, snapshots, wait, build, mem, session, bounds, opened, torn, guesses, lost>>

\* record_failure, its second.
SetUntil ==
    /\ pc = "until"
    /\ wait' = delay_after(failures)
    /\ Then("idle")
    /\ UNCHANGED <<db, snapshots, failures, build, mem, session, bounds, ghosts>>

\* The right password for a header that verifies; any other is reported as
\* tampering and changes nothing.
RightPassword ==
    /\ Evaluated
    /\ Verifies(mem, db.rows)
    /\ mem.payload < build => NextIndex <= MaxSnapshots
    /\ Then("reset")
    /\ UNCHANGED <<disk, build, mem, session, bounds, ghosts>>

ResetFailures ==
    /\ pc = "reset"
    /\ failures' = 0
    /\ guesses' = 0 /\ lost' = 0 /\ owed' = 0
    /\ Then("clear")
    /\ UNCHANGED <<db, snapshots, wait, build, mem, session, bounds, opened, torn>>

ClearUntil ==
    /\ pc = "clear"
    /\ wait' = LongPast
    /\ Then("mac")
    /\ UNCHANGED <<db, snapshots, failures, build, mem, session, bounds, ghosts>>

\* Re-seal the header; update_schema_version.  In a file that schema migrations
\* have touched, every unlock stores the MAC of the header in memory, whose payload
\* version may be one that an earlier unlock of the process failed to store.
ResealHeader ==
    /\ pc = "mac"
    /\ IF mem.schema = CURRENT_SCHEMA_VERSION /\ mem.mac = Fields(mem)
       THEN UNCHANGED <<db, mem, torn>>
       ELSE /\ mem' = Maced(mem)
            /\ db' = [db EXCEPT !.schema = mem.schema, !.mac = Fields(mem)]
            /\ torn' = (torn \/ mem.payload # db.payload)
    /\ Then(IF mem.payload < build THEN "payload snapshot" ELSE "open")
    /\ UNCHANGED <<snapshots, failures, wait, build, session, bounds, opened, guesses, lost, owed>>

\* run_payload_migrations.
PayloadSnapshot == pc = "payload snapshot" /\ Snapshot("apply")

\* One migration's apply; it may be many statements, each with the same outcome
\* for a cut.
Apply ==
    /\ pc = "apply"
    /\ LET v == mem.payload + 1
       IN  /\ mem' = [mem EXCEPT !.payload = v]
           /\ IF v \in Rewrites THEN db' = [db EXCEPT !.rows = @ + 1] /\ torn' = TRUE
              ELSE UNCHANGED <<db, torn>>
           /\ Then(IF v < build THEN "apply" ELSE "bump")
    /\ UNCHANGED <<snapshots, failures, wait, build, session, bounds, opened, guesses, lost, owed>>

\* sign_current, header_mac, update_payload_version.
StorePayloadVersion ==
    /\ pc = "bump"
    /\ mem' = Maced([mem EXCEPT !.sig = db.rows])
    /\ db' = [db EXCEPT !.payload = mem.payload, !.mac = mem'.mac]
    /\ Then("manifest")
    /\ UNCHANGED <<snapshots, failures, wait, build, session, bounds, ghosts>>

\* Mutant: update_manifest is left out.
StoreManifestForgotten ==
    /\ pc = "manifest"
    /\ torn' = FALSE
    /\ Then("open")
    /\ UNCHANGED <<disk, build, mem, session, bounds, opened, guesses, lost, owed>>

\* update_manifest.
StoreManifest ==
    /\ pc = "manifest"
    /\ db' = [db EXCEPT !.sig = mem.sig, !.mac = mem.mac]
    /\ torn' = FALSE
    /\ Then("open")
    /\ UNCHANGED <<snapshots, failures, wait, build, mem, session, bounds, opened, guesses, lost, owed>>

\* purge_expired; unlock_with returns the session.
Unlocked ==
    /\ pc = "open"
    /\ session' = TRUE
    /\ Then("idle")
    /\ UNCHANGED <<disk, build, mem, bounds, ghosts>>

-----------------------------------------------------------------------------
(* The rest of the system.                                                 *)

\* A write of the item set with its reseal (VaultStore cuts the two apart).
Write ==
    /\ pc = "idle" /\ session /\ db.rows < MaxWrites
    /\ mem' = Maced([mem EXCEPT !.sig = db.rows + 1])
    /\ db' = [db EXCEPT !.rows = @ + 1, !.sig = mem'.sig, !.mac = mem'.mac]
    /\ torn' = (mem.payload # db.payload)
    /\ UNCHANGED <<snapshots, failures, wait, build, session, pc, bounds, opened, guesses, lost, owed>>

Lock ==
    /\ pc = "idle" /\ session
    /\ session' = FALSE
    /\ UNCHANGED <<disk, build, mem, pc, bounds, ghosts>>

\* Mutant: the counter lives in the process.
QuitForgetting ==
    /\ pc = "idle" /\ Attached
    /\ mem' = NoHeader /\ session' = FALSE
    /\ failures' = 0
    /\ UNCHANGED <<db, snapshots, wait, build, pc, bounds, ghosts>>

\* Mutant: keys are kept without the file.
QuitKeepingKeys ==
    /\ pc = "idle" /\ Attached
    /\ mem' = NoHeader
    /\ UNCHANGED <<disk, build, session, pc, bounds, ghosts>>

\* The application is closed.
Quit ==
    /\ pc = "idle" /\ Attached
    /\ mem' = NoHeader /\ session' = FALSE
    /\ UNCHANGED <<disk, build, pc, bounds, ghosts>>

\* Another build is installed, an older one perhaps.
Install(b) ==
    /\ pc = "idle" /\ ~Attached /\ b # build
    /\ build' = b
    /\ UNCHANGED <<disk, mem, session, pc, bounds, ghosts>>

Tick ==
    /\ pc = "idle" /\ wait > LongPast
    /\ wait' = wait - 1
    /\ owed' = Larger(0, owed - 1)
    /\ UNCHANGED <<db, snapshots, failures, process, bounds, opened, torn, guesses, lost>>

\* The clock is set back, by more or less than a delay.
ClockBack(d) ==
    /\ pc = "idle" /\ clockSets < MaxClockSets /\ wait > LongPast
    /\ wait' = wait + d
    /\ clockSets' = clockSets + 1
    /\ UNCHANGED <<db, snapshots, failures, process, cuts, ghosts>>

\* Ghosts: the record of a guess, or of its delay, is cut.
NoteCut ==
    /\ cuts < MaxCuts
    /\ cuts' = cuts + 1
    /\ lost' = IF pc = "count" THEN lost + 1 ELSE lost
    /\ owed' = IF pc = "until" THEN 0 ELSE owed
    /\ UNCHANGED <<disk, build, clockSets, opened, torn, guesses>>
    /\ Then("idle")

\* The process dies before the next statement.
Crash ==
    /\ pc # "idle" /\ NoteCut
    /\ mem' = NoHeader /\ session' = FALSE

\* The header a failing statement may leave: create and open_with return no
\* VaultFile; unlock_with leaves the one there is, changed before it is stored (at
\* "bump" the SELECT of sign_current may fail, or the UPDATE).
LeftBehind ==
    IF pc \in {"header", "schema snapshot", "ddl", "version"} THEN {NoHeader}
    ELSE IF pc = "mac" THEN {Maced(mem)}
    ELSE {mem} \cup IF pc = "bump" THEN {Maced([mem EXCEPT !.sig = db.rows])} ELSE {}

\* The next statement fails and the operation returns its error.
StatementFails ==
    /\ pc # "idle" /\ NoteCut
    /\ mem' \in LeftBehind
    /\ UNCHANGED session

Init ==
    /\ db = NoFile /\ snapshots = <<>> /\ failures = 0 /\ wait = LongPast
    /\ build \in 1..MaxBuild /\ mem = NoHeader /\ session = FALSE /\ pc = "idle"
    /\ cuts = 0 /\ clockSets = 0
    /\ opened = FALSE /\ torn = FALSE /\ guesses = 0 /\ lost = 0 /\ owed = 0

\* What the code does once it has been called.
Continue ==
    \/ InsertHeader \/ SchemaSnapshot \/ RunDDL \/ DDLRefused \/ StoreSchemaVersion
    \/ CountFailure \/ SetUntil
    \/ ResetFailures \/ ClearUntil \/ ResealHeader
    \/ PayloadSnapshot \/ Apply \/ StorePayloadVersion \/ StoreManifest \/ Unlocked

Next ==
    \/ CreateTables \/ Open \/ WrongPassword \/ RightPassword \/ Continue
    \/ Write \/ Lock \/ Quit \/ Tick
    \/ \E b \in 1..MaxBuild : Install(b)
    \/ \E d \in 1..MAX_DELAY : ClockBack(d)
    \/ Crash \/ StatementFails

Spec == Init /\ [][Next]_vars

\* The code goes on, time passes, and the owner keeps trying: opens the
\* application, types the right password, restarts when told of tampering.
FairSpec ==
    /\ Spec
    /\ WF_vars(Continue) /\ WF_vars(Tick)
    /\ SF_vars(Open) /\ SF_vars(RightPassword)
    /\ SF_vars(Quit /\ ~Verifies(mem, db.rows))

-----------------------------------------------------------------------------
(* Properties.                                                             *)

HeaderType == [schema: 1..MaxBuild, payload: 1..MaxBuild, sig: Nat,
               mac: [schema: 1..MaxBuild, payload: 1..MaxBuild, sig: Nat]]

Steps == {"idle", "header", "schema snapshot", "ddl", "version", "count", "until",
          "reset", "clear", "mac", "payload snapshot", "apply", "bump", "manifest", "open"}

\* Every variable has its type, and keys are held only for a file attached.
TypeOK ==
    /\ HasHeader => /\ db.ddl \in 1..MaxBuild /\ db.rows \in Nat
                    /\ Header(db) \in HeaderType
    /\ snapshots \in Seq([index: Nat, healthy: BOOLEAN])
    /\ failures \in Nat /\ wait \in LongPast..(MAX_DELAY * (1 + MaxClockSets))
    /\ build \in 1..MaxBuild
    /\ mem \in HeaderType \cup {NoHeader}
    /\ session \in BOOLEAN /\ (session => Attached)
    /\ pc \in Steps
    /\ cuts \in 0..MaxCuts /\ clockSets \in 0..MaxClockSets
    /\ opened \in BOOLEAN /\ torn \in BOOLEAN /\ guesses \in Nat /\ lost \in Nat /\ owed \in Nat

\* Through schema migrations that leave the MAC stale, payload migrations that
\* re-sign, crashes and errors anywhere, other builds and writes, what is on disk
\* passes every check an unlock makes, unless a payload migration was cut after
\* it had rewritten rows, or its UPDATE of the version failed and the process went on,
\* with a write or with another unlock of a file migrated before, to store a MAC
\* over the version that was not.
HeaderVerifies ==
    pc = "idle" /\ HasHeader /\ ~torn => Verifies(Header(db), db.rows)

\* A session runs on a file whose tables and rows are at least at the versions
\* its build expects, however often the migrations were interrupted (the rows' is
\* the header's in memory: the stored one lags if its UPDATE failed).  The process
\* that created the file is excepted: create writes CURRENT_SCHEMA_VERSION, and
\* the schema phase runs in open_with only.
SessionIsMigrated ==
    session /\ opened => db.ddl >= build /\ db.schema >= build /\ mem.payload >= build

\* "A VACUUM INTO snapshot exists before each": while a migration is half done,
\* there is a snapshot of the file before it, until as many snapshots have been
\* taken of the half-migrated file as retention keeps.
CanGoBack ==
    HasHeader /\ ~Healthy =>
        \/ \E k \in DOMAIN snapshots : snapshots[k].healthy
        \/ Len(snapshots) >= SNAPSHOT_RETENTION

\* Every wrong password counts and costs its delay, across restarts and whatever
\* build runs, except that a cut before the count, or before the deadline, may
\* lose that.  Setting the clock back only lengthens the delay.
BackoffHolds ==
    pc = "idle" =>
        /\ guesses = failures + lost
        /\ owed > 0 => wait >= owed

\* What no unlock can get past: no file, a creation that was cut, a newer schema,
\* DDL that ran and will not run twice, rows not signed or a version not MACed as
\* stored; and the bound on snapshots.
Barred ==
    \/ ~HasHeader
    \/ db.schema > build
    \/ \E v \in (db.schema + 1)..db.ddl : v \notin Rerunnable
    \/ torn
    \/ NextIndex > MaxSnapshots

\* The owner who keeps trying gets in: no sequence of wrong passwords, clocks set
\* back, interrupted migrations and restarts shuts the right password out for
\* good, unless one of the bars above is up.
OwnerGetsIn == []<>(session \/ Barred)

-----------------------------------------------------------------------------
(* A claim of the repository that is not kept.                             *)

\* account_create refuses "if a vault already exists": what is at the path is a
\* vault.
NoHalfMadeVault == pc = "idle" => db # Tables
=============================================================================
