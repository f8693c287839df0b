----------------------------- MODULE UpdateCheck -----------------------------
(***************************************************************************)
(* Looking for updates and installing them: src-tauri/src/commands/        *)
(* updates.rs and services/updater.rs.  These are the async commands:      *)
(* while one waits for the endpoint, others of either kind run, the        *)
(* setting changes, and the vault file may come or be replaced.            *)
(*                                                                         *)
(* Abstractions: an endpoint and a public key are configured.  A version   *)
(* is a number, Odd one that does not parse.  The plugin (external)        *)
(* verifies signatures; its own comparison of versions is not relied on.   *)
(***************************************************************************)
EXTENDS Integers

CONSTANTS
    Calls,              \* calls of the two commands that may be in flight
    Builds,             \* versions released
    UPDATE_INTERVAL,    \* updater::MIN_INTERVAL_MS, coarsely
    MaxClock            \* bound: time

ASSUME UpdateAssumption ==
    /\ Builds \subseteq Nat /\ Builds # {}
    /\ UPDATE_INTERVAL \in Nat \ {0} /\ MaxClock \in Nat

VARIABLES
    hasVault,    \* file() finds a vault
    checked,     \* app_state LastUpdateCheckAt; Unchecked reads as 0, long ago
    enabled,     \* app_state UpdateChecksEnabled
    call,        \* per call: what it waits for
    served,      \* what the endpoint answers with
    current,     \* the build that runs
    installed,   \* the build on disk
    time, slow,  \* the time; what the wall clock has been set back by
    answered,    \* ghost: the time at which the last check that was answered began
    loose        \* ghost: checks overlapped, or an answer was not stamped

updateVars == <<hasVault, checked, enabled, call, served, current, installed, time, slow,
                answered, loose>>

preferences == <<hasVault, checked, enabled>>
releases == <<served, current, installed>>
clock == <<time, slow>>
updateGhosts == <<answered, loose>>

Odd == -1
Unchecked == -UPDATE_INTERVAL
NoCall == [waits |-> "no"]
Reads == time - slow
Waiting(c, for) == call[c].waits = for
Checking(c) == Waiting(c, "manifest") \/ Waiting(c, "stamp")

\* Mutant: a stamp in the future is taken for no stamp.
DecideCheckEitherWay == enabled /\ (Reads < checked \/ Reads - checked >= UPDATE_INTERVAL)

\* decide: on the time elapsed, which is negative for a clock set back.
DecideCheck == enabled /\ Reads - checked >= UPDATE_INTERVAL

\* Mutant: an equal or older build will do.
offerable_any(candidate) == candidate # Odd

offerable(candidate) == candidate # Odd /\ candidate > current

-----------------------------------------------------------------------------
\* update_check, up to its await; skipped it changes nothing.
CheckBegin(c) ==
    /\ call[c] = NoCall
    /\ DecideCheck
    /\ call' = [call EXCEPT ![c] = [waits |-> "manifest", now |-> Reads, at |-> time]]
    /\ loose' = (loose \/ \E d \in Calls : Checking(d))
    /\ UNCHANGED <<preferences, releases, clock, answered>>

\* The endpoint answers.
CheckAnswered(c) ==
    /\ Waiting(c, "manifest")
    /\ answered' = IF call[c].at > answered THEN call[c].at ELSE answered
    /\ call' = [call EXCEPT ![c].waits = "stamp"]
    /\ UNCHANGED <<preferences, releases, clock, loose>>

\* stamp_check, if there is a vault by now.  What is offered changes nothing here.
StampCheck(c) ==
    /\ Waiting(c, "stamp")
    /\ checked' = IF hasVault THEN call[c].now ELSE checked
    /\ loose' = (loose \/ ~hasVault)
    /\ call' = [call EXCEPT ![c] = NoCall]
    /\ UNCHANGED <<hasVault, enabled, releases, clock, answered>>

\* state_set_i64 fails, and with it the command.
StampCheckFails(c) ==
    /\ Waiting(c, "stamp") /\ hasVault
    /\ loose' = TRUE
    /\ call' = [call EXCEPT ![c] = NoCall]
    /\ UNCHANGED <<preferences, releases, clock, answered>>

\* It does not, or not with a manifest.
CheckFailed(c) ==
    /\ Waiting(c, "manifest")
    /\ call' = [call EXCEPT ![c] = NoCall]
    /\ UNCHANGED <<preferences, releases, clock, updateGhosts>>

-----------------------------------------------------------------------------
\* update_install asks afresh, whatever the setting and the stamp.
InstallBegin(c) ==
    /\ call[c] = NoCall
    /\ call' = [call EXCEPT ![c] = [waits |-> "candidate"]]
    /\ UNCHANGED <<preferences, releases, clock, updateGhosts>>

\* The guard again; then the download.
InstallAnswered(c) ==
    /\ Waiting(c, "candidate")
    /\ call' = [call EXCEPT ![c] = IF offerable(served) THEN [waits |-> "download", build |-> served]
                                   ELSE NoCall]
    /\ UNCHANGED <<preferences, releases, clock, updateGhosts>>

InstallDone(c) ==
    /\ Waiting(c, "download")
    /\ installed' = call[c].build
    /\ call' = [call EXCEPT ![c] = NoCall]
    /\ UNCHANGED <<preferences, served, current, clock, updateGhosts>>

\* Unreachable, or the download or its signature fails.
InstallFailed(c) ==
    /\ Waiting(c, "candidate") \/ Waiting(c, "download")
    /\ call' = [call EXCEPT ![c] = NoCall]
    /\ UNCHANGED <<preferences, releases, clock, updateGhosts>>

-----------------------------------------------------------------------------
\* update_checks_set_enabled, and settings_set likewise.
SetEnabled(value) ==
    /\ hasVault /\ value # enabled
    /\ enabled' = value
    /\ UNCHANGED <<hasVault, checked, call, releases, clock, updateGhosts>>

\* account_create, or a restore: app_state is new.
NewVault ==
    /\ hasVault' = TRUE
    /\ checked' = Unchecked /\ enabled' = TRUE
    /\ loose' = (loose \/ answered # Unchecked)
    /\ UNCHANGED <<call, releases, clock, answered>>

\* What is installed is started; calls die with the process, an answer not yet
\* stamped among them.
Relaunch ==
    /\ current' = installed
    /\ call' = [c \in Calls |-> NoCall]
    /\ loose' = (loose \/ \E c \in Calls : Waiting(c, "stamp"))
    /\ UNCHANGED <<preferences, served, installed, clock, answered>>

Serve(b) ==
    /\ b # served
    /\ served' = b
    /\ UNCHANGED <<preferences, call, current, installed, clock, updateGhosts>>

ClockTicks ==
    /\ time < MaxClock
    /\ time' = time + 1
    /\ UNCHANGED <<preferences, call, releases, slow, updateGhosts>>

ClockTurnedBack ==
    /\ slow = 0
    /\ slow' = 1
    /\ UNCHANGED <<preferences, call, releases, time, updateGhosts>>

UpdateInit ==
    /\ hasVault = FALSE /\ checked = Unchecked /\ enabled = TRUE
    /\ call = [c \in Calls |-> NoCall]
    /\ served = Odd
    /\ current \in Builds /\ installed = current
    /\ time = 0 /\ slow = 0 /\ answered = Unchecked /\ loose = FALSE

UpdateNext ==
    \/ \E c \in Calls : \/ CheckBegin(c) \/ CheckAnswered(c) \/ CheckFailed(c)
                        \/ StampCheck(c) \/ StampCheckFails(c)
                        \/ InstallBegin(c) \/ InstallAnswered(c) \/ InstallDone(c) \/ InstallFailed(c)
    \/ \E value \in BOOLEAN : SetEnabled(value)
    \/ \E b \in Builds \cup {Odd} : Serve(b)
    \/ NewVault \/ Relaunch \/ ClockTicks \/ ClockTurnedBack

UpdateSpec == UpdateInit /\ [][UpdateNext]_updateVars

-----------------------------------------------------------------------------
(* Properties.                                                             *)

UpdateTypeOK ==
    /\ hasVault \in BOOLEAN /\ enabled \in BOOLEAN
    /\ checked \in Unchecked..MaxClock
    /\ \A c \in Calls : call[c].waits \in {"no", "manifest", "stamp", "candidate", "download"}
    /\ served \in Builds \cup {Odd} /\ current \in Builds /\ installed \in Builds
    /\ time \in 0..MaxClock /\ slow \in 0..1

\* An endpoint that starts serving an older build never gets it started: however
\* installs overlap, fail and are followed by others, the build that runs next is
\* no older than the one that ran.  (The one on disk may become older: an install
\* is compared with what runs.)
NeverOlder == [][current' >= current]_updateVars

\* "At most one request per 24 hours": a check is begun no sooner than the interval
\* after the last one that was answered, also after the clock has been set back,
\* unless two checks were in flight together (each decides before it waits, and the
\* later answer may carry the older stamp) or an answer was not stamped: there was no
\* vault to keep the stamp, its write failed, or the process ended before it.
ChecksAreSpaced ==
    [][\A c \in Calls : ~Waiting(c, "manifest") /\ call'[c].waits = "manifest" /\ ~loose'
         => time - answered >= UPDATE_INTERVAL]_updateVars
=============================================================================
