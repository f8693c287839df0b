----------------------------- MODULE Preferences -----------------------------
(***************************************************************************)
(* The preferences of app_state that something outside the vault has to    *)
(* agree with: biometric unlock and the secret in the platform's store     *)
(* (src-tauri/src/commands/biometric.rs, platform/biometric.rs and the two *)
(* platforms), capture protection and the window, with the plaintext half  *)
(* of settings_set.  One step is one statement or one call of the          *)
(* platform; any may fail, and the process may die before any.             *)
(*                                                                         *)
(* Abstractions: an account stands for its master password.  A wrong       *)
(* password changes nothing here (VaultUnlock counts it).  settings_set    *)
(* with several fields is several steps in a row, of which an early return *)
(* leaves out the last.  The application is restarted after a restore, as  *)
(* in Backup.                                                              *)
(***************************************************************************)
EXTENDS Integers

CONSTANTS
    Owners,            \* accounts
    REAUTH_INTERVAL,   \* REAUTH_INTERVAL_DAYS, coarsely
    MaxDay,            \* bound: time
    MaxPrefCuts,       \* bound: crashes and failing steps
    MaxBack            \* bound: how far the clock is set back

ASSUME PreferencesAssumption ==
    /\ "none" \notin Owners
    /\ REAUTH_INTERVAL \in Nat \ {0} /\ MaxDay \in Nat
    /\ MaxPrefCuts \in Nat /\ MaxBack \in Nat

VARIABLES
    account,     \* whose vault is at the path, or "none"
    flags,       \* app_state: BiometricEnabled, ContentProtectionEnabled
    kind,        \* BiometricKind: the platform
    sensor,      \* is_available
    secret,      \* what is stored under LABEL: whose password, does it still unwrap
    running, signedIn,
    lastPassword,   \* last_password_unlock_ms
    window,         \* the window is excluded from capture
    prefStep,       \* the next statement of the command in progress
    day, behind,    \* the time; what the clock has been set back by
    prefCuts,
    typedOn,       \* ghost: the day this process last unlocked with a password
    strayed,     \* ghost: secret and flag were parted by a cut, by settings_set,
                 \* by a restore, or by a platform that refused to delete
    forced,      \* ghost: settings_set switched the flag on
    unprotected  \* ghost: the window system refused the last change

prefVars == <<account, flags, kind, sensor, secret, running, signedIn, lastPassword, window,
              prefStep, day, behind, prefCuts, typedOn, strayed, forced, unprotected>>

platform == <<kind, sensor, secret>>
process == <<running, signedIn, lastPassword, typedOn>>
dates == <<day, behind>>
prefGhosts == <<strayed, forced, unprotected>>

Never == -MaxBack - 1    \* None: no reading of the clock
NoSecret == [of |-> "none", usable |-> FALSE]
Defaults == [bio |-> FALSE, hidden |-> FALSE]
Clock == day - behind
AtRest == prefStep = "rest"
HasFile == running /\ account # "none"

password_unlock_due == lastPassword = Never \/ Clock - lastPassword >= REAUTH_INTERVAL

-----------------------------------------------------------------------------
(* The process.                                                            *)

\* run's setup: content_protection_at_startup, apply_content_protection.
Launch ==
    /\ ~running
    /\ running' = TRUE
    /\ \/ window' = (account # "none" /\ flags.hidden) /\ unprotected' = FALSE
       \/ window' = FALSE /\ unprotected' = TRUE
    /\ UNCHANGED <<account, flags, platform, signedIn, lastPassword, prefStep, dates, prefCuts, typedOn, strayed, forced>>

\* What ends with the process, which dies with it if a command is in progress.
Ended ==
    /\ running' = FALSE /\ signedIn' = FALSE /\ window' = FALSE
    /\ lastPassword' = Never /\ typedOn' = Never
    /\ prefStep' = "rest"

Exit ==
    /\ running /\ AtRest
    /\ Ended
    /\ UNCHANGED <<account, flags, platform, dates, prefCuts, prefGhosts>>

\* adopt with by_password.
AdoptedByPassword ==
    /\ signedIn' = TRUE
    /\ lastPassword' = Clock /\ typedOn' = day

\* account_create; the new file's app_state is empty.
AccountCreate(o) ==
    /\ running /\ AtRest /\ account = "none"
    /\ account' = o /\ flags' = Defaults
    /\ AdoptedByPassword
    /\ UNCHANGED <<platform, running, window, prefStep, dates, prefCuts, prefGhosts>>

\* account_unlock.
PasswordUnlock ==
    /\ HasFile /\ AtRest /\ ~signedIn
    /\ AdoptedByPassword
    /\ UNCHANGED <<account, flags, platform, running, window, prefStep, dates, prefCuts, prefGhosts>>

\* Mutant: the last password unlock is noted by every unlock.
BiometricUnlockNoted ==
    /\ HasFile /\ AtRest /\ ~signedIn
    /\ sensor /\ flags.bio
    /\ ~password_unlock_due
    /\ secret.usable /\ secret.of = account
    /\ signedIn' = TRUE /\ lastPassword' = Clock
    /\ UNCHANGED <<account, flags, platform, running, typedOn, window, prefStep, dates, prefCuts, prefGhosts>>

\* account_unlock_biometric, when the prompt succeeds and the secret opens.
BiometricUnlock ==
    /\ HasFile /\ AtRest /\ ~signedIn
    /\ sensor /\ flags.bio
    /\ ~password_unlock_due
    /\ secret.usable /\ secret.of = account
    /\ signedIn' = TRUE
    /\ UNCHANGED <<account, flags, platform, running, lastPassword, typedOn, window, prefStep, dates, prefCuts, prefGhosts>>

SignOut ==
    /\ AtRest /\ signedIn
    /\ signedIn' = FALSE
    /\ UNCHANGED <<account, flags, platform, running, lastPassword, typedOn, window, prefStep, dates, prefCuts, prefGhosts>>

\* Mutant: a restore carries the preferences of the old file over.
RestoreOtherKeepingFlags(o) ==
    /\ running /\ AtRest /\ o # account
    /\ account' = o
    /\ strayed' = (secret # NoSecret) /\ forced' = FALSE
    /\ Ended
    /\ UNCHANGED <<flags, platform, dates, prefCuts, unprotected>>

\* backup_restore of another account's container: write_all leaves app_state
\* empty, and what the platform stores is not touched.
RestoreOther(o) ==
    /\ running /\ AtRest /\ o # account
    /\ account' = o /\ flags' = Defaults
    /\ strayed' = (secret # NoSecret) /\ forced' = FALSE
    /\ Ended
    /\ UNCHANGED <<platform, dates, prefCuts, unprotected>>

-----------------------------------------------------------------------------
(* biometric_enable and biometric_disable.                                 *)

Step(from, to) == prefStep = from /\ prefStep' = to

unchangedByBiometrics == <<account, kind, sensor, running, signedIn, lastPassword, typedOn, window,
                           day, behind, prefCuts, unprotected>>

\* Available, and the password opens the vault; the vault may be locked.
EnableVerified ==
    /\ HasFile /\ sensor
    /\ Step("rest", "replace")
    /\ UNCHANGED <<flags, secret, strayed, forced, unchangedByBiometrics>>

\* What is left of the secret where the credential of Windows is replaced or deleted,
\* under which the stored blob no longer unwraps, and the item of macOS is not.
Orphaned == IF kind = "macOS" THEN secret ELSE [secret EXCEPT !.usable = FALSE]

\* enrol: Windows replaces the credential; macOS deletes the older item, and goes on
\* if the Keychain refuses.
EnrolReplace ==
    /\ Step("replace", "keep")
    /\ \/ kind = "macOS" /\ secret' = NoSecret
       \/ secret' = Orphaned
    /\ UNCHANGED <<flags, strayed, forced, unchangedByBiometrics>>

\* enrol stores the secret.
EnrolKeep ==
    /\ Step("keep", "flag on")
    /\ secret' = [of |-> account, usable |-> TRUE]
    /\ UNCHANGED <<flags, strayed, forced, unchangedByBiometrics>>

FlagOn ==
    /\ Step("flag on", "rest")
    /\ flags' = [flags EXCEPT !.bio = TRUE]
    /\ strayed' = FALSE /\ forced' = FALSE
    /\ UNCHANGED <<secret, unchangedByBiometrics>>

\* Mutant: the flag only.
RevokeLeftOut ==
    /\ HasFile
    /\ Step("rest", "rest")
    /\ flags' = [flags EXCEPT !.bio = FALSE]
    /\ UNCHANGED <<secret, strayed, forced, unchangedByBiometrics>>

\* revoke.
Revoke ==
    /\ HasFile
    /\ Step("rest", "flag off")
    /\ secret' = NoSecret
    /\ UNCHANGED <<flags, strayed, forced, unchangedByBiometrics>>

\* revoke reports success on either platform if the Keychain, or the file of DPAPI,
\* refuses to delete the secret; on Windows its credential is deleted all the same.
RevokeIgnored ==
    /\ HasFile /\ secret # NoSecret
    /\ Step("rest", "flag off")
    /\ prefCuts < MaxPrefCuts /\ prefCuts' = prefCuts + 1
    /\ secret' = Orphaned
    /\ strayed' = TRUE
    /\ UNCHANGED <<account, kind, sensor, process, window, dates, unprotected, flags, forced>>

FlagOff ==
    /\ Step("flag off", "rest")
    /\ flags' = [flags EXCEPT !.bio = FALSE]
    /\ strayed' = (secret # NoSecret)
    /\ UNCHANGED <<secret, forced, unchangedByBiometrics>>

-----------------------------------------------------------------------------
(* settings_set, the plaintext half.                                       *)

\* biometric_enabled, which is refused where there is no sensor and stores or
\* revokes no secret.
SetBiometric(value) ==
    /\ HasFile /\ AtRest /\ signedIn
    /\ value => sensor
    /\ flags' = [flags EXCEPT !.bio = value]
    /\ strayed' = (strayed \/ value # flags.bio)
    /\ forced' = (value /\ (forced \/ ~flags.bio))
    /\ UNCHANGED <<secret, prefStep, unchangedByBiometrics>>

\* content_protection: stored...
SetProtection(value) ==
    /\ HasFile /\ signedIn
    /\ Step("rest", "apply")
    /\ flags' = [flags EXCEPT !.hidden = value]
    /\ UNCHANGED <<secret, strayed, forced, unchangedByBiometrics>>

\* Mutant: stored and not applied.
ApplyProtectionNot ==
    /\ Step("apply", "rest")
    /\ unprotected' = FALSE
    /\ UNCHANGED <<account, platform, process, window, dates, prefCuts, flags, strayed, forced>>

\* ... and applied; a refusal is logged and swallowed.
ApplyProtection ==
    /\ Step("apply", "rest")
    /\ \/ window' = flags.hidden /\ unprotected' = FALSE
       \/ UNCHANGED window /\ unprotected' = TRUE
    /\ UNCHANGED <<account, platform, process, dates, prefCuts, flags, strayed, forced>>

-----------------------------------------------------------------------------
\* The process dies, or the statement fails and the command returns its error.
PrefCut ==
    /\ ~AtRest /\ prefCuts < MaxPrefCuts
    /\ prefCuts' = prefCuts + 1
    /\ \/ Ended
       \/ prefStep' = "rest"
          /\ UNCHANGED <<process, window>>
    /\ strayed' = (strayed \/ (prefStep \in {"keep", "flag on", "flag off"}))
    /\ unprotected' = (unprotected \/ prefStep = "apply")
    /\ UNCHANGED <<account, flags, platform, dates, forced>>

\* A finger is enrolled or removed: what was stored no longer unwraps.
SensorChanges ==
    /\ AtRest
    /\ sensor' \in BOOLEAN
    /\ secret' = [secret EXCEPT !.usable = FALSE]
    /\ UNCHANGED <<account, flags, kind, process, window, prefStep, dates, prefCuts, prefGhosts>>

DayPasses ==
    /\ AtRest /\ day < MaxDay
    /\ day' = day + 1
    /\ UNCHANGED <<account, flags, platform, process, window, prefStep, behind, prefCuts, prefGhosts>>

ClockSetBack ==
    /\ AtRest /\ behind < MaxBack
    /\ behind' = behind + 1
    /\ UNCHANGED <<account, flags, platform, process, window, prefStep, day, prefCuts, prefGhosts>>

PrefInit ==
    /\ account \in Owners \cup {"none"} /\ flags = Defaults
    /\ kind \in {"Windows", "macOS"} /\ sensor \in BOOLEAN
    /\ secret = NoSecret /\ running = FALSE /\ signedIn = FALSE /\ lastPassword = Never
    /\ window = FALSE /\ prefStep = "rest" /\ day = 0 /\ behind = 0 /\ prefCuts = 0
    /\ typedOn = Never /\ strayed = FALSE /\ forced = FALSE /\ unprotected = FALSE

PrefNext ==
    \/ Launch \/ Exit \/ PasswordUnlock \/ BiometricUnlock \/ SignOut
    \/ \E o \in Owners : AccountCreate(o) \/ RestoreOther(o)
    \/ EnableVerified \/ EnrolReplace \/ EnrolKeep \/ FlagOn
    \/ Revoke \/ RevokeIgnored \/ FlagOff
    \/ \E value \in BOOLEAN : SetBiometric(value) \/ SetProtection(value)
    \/ ApplyProtection
    \/ PrefCut \/ SensorChanges \/ DayPasses \/ ClockSetBack

PrefSpec == PrefInit /\ [][PrefNext]_prefVars

-----------------------------------------------------------------------------
(* Properties.                                                             *)

PrefTypeOK ==
    /\ account \in Owners \cup {"none"}
    /\ flags \in [bio: BOOLEAN, hidden: BOOLEAN]
    /\ kind \in {"Windows", "macOS"} /\ sensor \in BOOLEAN
    /\ secret \in [of: Owners, usable: BOOLEAN] \cup {NoSecret}
    /\ running \in BOOLEAN /\ signedIn \in BOOLEAN /\ (signedIn => HasFile)
    /\ lastPassword \in Int /\ window \in BOOLEAN
    /\ prefStep \in {"rest", "replace", "keep", "flag on", "flag off", "apply"}

\* "The master password is required again after 14 days regardless of biometric
\* success": whoever signs in has signed in with the password, in the same process,
\* less than the interval ago (as much longer ago as the clock was set back).
\* Locks, restores of other accounts, and enrolling while locked give no way
\* around it.
PasswordIsRecent ==
    [][~signedIn /\ signedIn' =>
         typedOn' # Never /\ day - typedOn' < REAUTH_INTERVAL + behind]_prefVars

\* "Clearing only the flag would leave the master password in the platform store":
\* at rest a stored secret has its flag on and is the password of the vault at the
\* path, through enrolments that replace one another, sensors that change and
\* cuts, except after settings_set changed the flag alone, after a restore, after a
\* cut between the platform's call and the statement for the flag, and after a revoke
\* whose delete the platform refused, which either platform's revoke discards.
SecretHasItsFlag ==
    AtRest /\ secret # NoSecret /\ ~strayed => flags.bio /\ secret.of = account

\* A vault restored over another's is never offered the other's password: while
\* the flag is on, what unwraps is the password of the vault at the path, unless
\* settings_set switched the flag on, which enrols nothing.
FlagMeansOwnSecret ==
    AtRest /\ flags.bio /\ secret.usable /\ ~forced => secret.of = account

\* The capture protection the settings screen shows is the one the window has,
\* across restarts, restores and cuts, unless the window system refused.
WindowFollowsSetting ==
    running /\ AtRest /\ account # "none" /\ ~unprotected => window = flags.hidden

\* What the settings say of the platform is so.
PlatformAgrees == SecretHasItsFlag /\ FlagMeansOwnSecret /\ WindowFollowsSetting
=============================================================================
