--------------------------- MODULE SessionManager ---------------------------
(***************************************************************************)
(* The lock state machine of src-tauri/src/session.rs and the commands     *)
(* that drive it.  One action is one critical section of Mutex<Inner>, or  *)
(* one call to the platform clipboard, made outside that mutex.            *)
(*                                                                         *)
(* Threads: the main thread runs one Tauri command (`cmd') at a time; each *)
(* copy starts an auto-clear thread (`timers'); a signal thread delivers   *)
(* sleep signals through handle_trigger (`signal'), which the application  *)
(* does not call yet and the manager's documentation allows at any moment  *)
(* (constant Signals).  Other programs copy things too.                    *)
(*                                                                         *)
(* Abstractions: key material is the generation of the vault file it       *)
(* opens; the decrypted index is the number of writes it reflects; the OS  *)
(* clipboard is its sequence number and whose value it holds.              *)
(***************************************************************************)
EXTENDS Integers, FiniteSets

CONSTANTS
    Signals,         \* sleep signals reach handle_trigger
    Platforms,       \* the clipboards considered: MacClipboard, WindowsClipboard
    MaxSeq,          \* bound: copies and clears of the clipboard
    MaxWrites,       \* bound: writes of the item set
    MaxFiles         \* bound: vault files put at vault_path

ASSUME ConstantsAssumption ==
    /\ Signals \in BOOLEAN
    /\ Platforms \subseteq {"macOS", "Windows"}
    /\ MaxSeq \in Nat /\ MaxWrites \in Nat /\ MaxFiles \in Nat

None == 0       \* no file, no keys, no token: generations and tokens start at 1
NoIndex == -1

VARIABLES
    disk,       \* generation of the vault file at vault_path
    state,      \* Inner.state
    file,       \* Inner.file: generation of the attached VaultFile
    keys,       \* Inner.keys: generation of the file they open
    index,      \* Inner.index: writes it reflects
    token,      \* Inner.clipboard_token
    store,      \* writes committed by the store
    platform,   \* the one the application runs on
    clip,       \* the OS clipboard: sequence number, whose value it holds
    cmd,        \* the command the main thread is in: name, next step, local
    signal,     \* next step of the signal thread
    timers,     \* tokens whose auto-clear thread sleeps
    clears,     \* calls of clear_if_ours in progress: caller, token, step
    slept,      \* ghost: a sleep signal arrived during this derivation
    missed,     \* ghost: callers whose clear_if_ours failed on our value
    stale,      \* ghost: the last command to change the item set failed before
                \*   it had rebuilt the index
    unread      \* ghost: the settings could not be read after a copy

inner == <<state, file, keys, index, token>>
outer == <<disk, store, platform>>
threads == <<cmd, signal, timers, clears>>
ghosts == <<slept, missed, stale, unread>>
vars == <<inner, outer, clip, threads, ghosts>>

NoCommand == [name |-> "none", step |-> "done", local |-> 0]
Run(name, step) == [name |-> name, step |-> step, local |-> 0]
Then(step) == cmd' = [cmd EXCEPT !.step = step]
Return == cmd' = NoCommand
At(name, step) == cmd.name = name /\ cmd.step = step
Idle == cmd = NoCommand

-----------------------------------------------------------------------------
(* Pieces several threads run.                                             *)

\* with_session: the only way to the keys.
HasSession == state = "Unlocked" /\ file # None /\ keys # None

\* Mutant: a lock calls clear_if_ours with no token at hand.
TakeTokenUnchecked(caller) ==
    /\ token' = None
    /\ clears' = clears \cup {[by |-> caller, token |-> token, step |-> "check"]}

\* lock, its first critical section: clear_clipboard takes the token.
TakeToken(caller) ==
    /\ token' = None
    /\ clears' = IF token = None THEN clears
                 ELSE clears \cup {[by |-> caller, token |-> token, step |-> "check"]}

Clearing(caller) == \E c \in clears : c.by = caller

\* Mutant: a lock that keeps the decrypted index.
DropKeysOnly ==
    /\ keys' = None
    /\ UNCHANGED index /\ stale' = FALSE
    /\ state' = IF file = None THEN "Uninitialised" ELSE "Locked"

\* lock, its second critical section.
DropKeys ==
    /\ keys' = None
    /\ index' = NoIndex /\ stale' = FALSE
    /\ state' = IF file = None THEN "Uninitialised" ELSE "Locked"

\* A write of the clipboard, by us or by another program.
Put(who) == clip' = [seq |-> clip.seq + 1, held |-> who]

Emptied == [seq |-> clip.seq + 1, held |-> "nothing"]

-----------------------------------------------------------------------------
(* account_create.                                                         *)

\* Nothing at vault_path: VaultFile::create, then attach.
CreateAttach ==
    /\ Idle /\ disk = None
    /\ disk' = 1
    /\ file' = 1
    /\ state' = "Locked"
    /\ cmd' = Run("create", "derive")
    /\ UNCHANGED <<keys, index, token, store, platform, clip, signal, timers, clears, ghosts>>

-----------------------------------------------------------------------------
(* account_unlock, account_unlock_biometric.                               *)

\* open_or_attach: what is attached, else what is at vault_path.
UnlockOpen ==
    /\ Idle /\ (file # None \/ disk # None)
    /\ IF file # None THEN UNCHANGED <<file, state>>
       ELSE file' = disk /\ state' = "Locked"
    /\ cmd' = Run("unlock", "begin")
    /\ UNCHANGED <<keys, index, token, outer, clip, signal, timers, clears, ghosts>>

\* Mutant: begin_unlock in any state.
BeginUnlockAnyhow ==
    /\ At("unlock", "begin")
    /\ state' = "Unlocking" /\ slept' = FALSE /\ Then("derive")
    /\ UNCHANGED <<file, keys, index, token, outer, clip, signal, timers, clears, missed, stale, unread>>

\* begin_unlock; InvalidState unless Locked.
BeginUnlock ==
    /\ At("unlock", "begin")
    /\ IF state = "Locked"
       THEN state' = "Unlocking" /\ slept' = FALSE /\ Then("derive")
       ELSE Return /\ UNCHANGED <<state, slept>>
    /\ UNCHANGED <<file, keys, index, token, outer, clip, signal, timers, clears, missed, stale, unread>>

\* VaultFile::unlock, outside the mutex; an error of account_create returns.
Derive ==
    /\ cmd.step = "derive"
    /\ \/ Then("adopt")
       \/ IF cmd.name = "unlock" THEN Then("abort") ELSE Return
    /\ UNCHANGED <<inner, outer, clip, signal, timers, clears, ghosts>>

AbortUnlock ==
    /\ At("unlock", "abort")
    /\ state' = IF state = "Unlocking" THEN "Locked" ELSE state
    /\ Return
    /\ UNCHANGED <<file, keys, index, token, outer, clip, signal, timers, clears, ghosts>>

\* adopt, of account_create and of the unlock: whatever the state is by now.
Adopt ==
    /\ cmd.step = "adopt"
    /\ keys' = file
    /\ state' = "Unlocked"
    /\ Then("rows")
    /\ UNCHANGED <<file, index, token, outer, clip, signal, timers, clears, ghosts>>

-----------------------------------------------------------------------------
(* build_index, in every command that ends with it.                        *)

\* First critical section: read the rows.
ReadRows ==
    /\ cmd.step = "rows" /\ HasSession
    /\ cmd' = [cmd EXCEPT !.step = "index", !.local = store]
    /\ UNCHANGED <<inner, outer, clip, signal, timers, clears, ghosts>>

\* The vault is locked by now, or a row cannot be read: the unlock locks again, any
\* other command returns the error and leaves vault and index as they are.
ReadRowsFails ==
    /\ cmd.step = "rows"
    /\ IF cmd.name = "unlock" THEN Then("take") /\ UNCHANGED stale
       ELSE Return /\ stale' = TRUE
    /\ UNCHANGED <<inner, outer, clip, signal, timers, clears, slept, missed, unread>>

\* Second critical section: no check that the vault is still unlocked.
\* (account_create then adds the first vault, which no index row shows.)
SetIndex ==
    /\ cmd.step = "index"
    /\ index' = cmd.local /\ stale' = FALSE
    /\ Return
    /\ UNCHANGED <<state, file, keys, token, outer, clip, signal, timers, clears, slept, missed, unread>>

\* Mutant: a command that changes the item set and leaves the index as it was.
WriteWithoutRebuild ==
    /\ Idle /\ HasSession
    /\ store < MaxWrites
    /\ store' = store + 1
    /\ UNCHANGED <<disk, platform, inner, clip, threads, ghosts>>

\* Every command that changes the item set and then rebuilds the index:
\* item_upsert, item_delete, item_restore, item_edit_meta, item_toggle_favorite,
\* item_set_totp, item_set_icon, item_clear_icon, vault_delete, and a merging
\* backup_restore.
Write ==
    /\ Idle /\ HasSession
    /\ store < MaxWrites
    /\ store' = store + 1
    /\ cmd' = Run("write", "rows")
    /\ UNCHANGED <<disk, platform, inner, clip, signal, timers, clears, ghosts>>

\* The same, where the store fails after a row has changed (VaultStore): the error is
\* returned before build_index.
WriteFails ==
    /\ Idle /\ HasSession
    /\ store < MaxWrites
    /\ store' = store + 1
    /\ stale' = TRUE
    /\ UNCHANGED <<disk, platform, inner, clip, threads, slept, missed, unread>>

-----------------------------------------------------------------------------
(* account_lock, backup_restore, and the lock of a failed unlock.          *)

LockStart ==
    /\ Idle
    /\ cmd' = Run("lock", "take")
    /\ UNCHANGED <<inner, outer, clip, signal, timers, clears, ghosts>>

\* backup_restore of another account's container, or with nothing at
\* vault_path: lock, then restore_replacing.
RestoreStart ==
    /\ Idle
    /\ disk < MaxFiles
    /\ cmd' = Run("restore", "take")
    /\ UNCHANGED <<inner, outer, clip, signal, timers, clears, ghosts>>

LockTake ==
    /\ cmd.step = "take"
    /\ TakeToken("main")
    /\ Then("drop")
    /\ UNCHANGED <<state, file, keys, index, outer, clip, signal, timers, ghosts>>

LockDrop ==
    /\ cmd.step = "drop" /\ ~Clearing("main")
    /\ DropKeys
    /\ IF cmd.name = "restore" THEN Then("replace") ELSE Return
    /\ UNCHANGED <<file, token, outer, clip, signal, timers, clears, slept, missed, unread>>

\* The staged file is renamed over vault_path; Inner.file is left alone.
Replace ==
    /\ At("restore", "replace")
    /\ disk' = disk + 1 \/ UNCHANGED disk
    /\ Return
    /\ UNCHANGED <<inner, store, platform, clip, signal, timers, clears, ghosts>>

-----------------------------------------------------------------------------
(* item_copy_field, totp_copy_current, generator_history_copy.             *)

CopyRead(name) ==
    /\ Idle /\ HasSession
    /\ clip.seq < MaxSeq
    /\ cmd' = Run(name, "set")
    /\ UNCHANGED <<inner, outer, clip, signal, timers, clears, ghosts>>

\* set_secret; the token is the number that declareTypes returns, or on Windows
\* the one found after the clipboard is closed.
SetSecret ==
    /\ cmd.step = "set"
    /\ Put(cmd.name)
    /\ cmd' = [cmd EXCEPT !.step = IF platform = "Windows" THEN "number" ELSE "note",
                          !.local = clip.seq + 1]
    /\ UNCHANGED <<inner, outer, signal, timers, clears, ghosts>>

\* Refused after the clipboard was emptied, or on Windows before.
SetSecretFails ==
    /\ cmd.step = "set"
    /\ Return
    /\ \/ clip' = Emptied
       \/ platform = "Windows" /\ UNCHANGED clip
    /\ UNCHANGED <<inner, outer, signal, timers, clears, ghosts>>

ReadNumber ==
    /\ cmd.step = "number"
    /\ cmd' = [cmd EXCEPT !.step = "note", !.local = clip.seq]
    /\ UNCHANGED <<inner, outer, clip, signal, timers, clears, ghosts>>

\* Mutant: a copy that does not remember its token.
NoteWriteForgotten ==
    /\ cmd.step = "note"
    /\ IF cmd.name = "item" THEN Then("schedule") ELSE Return
    /\ UNCHANGED <<inner, outer, clip, signal, timers, clears, ghosts>>

\* note_clipboard_write; a history copy returns here.
NoteWrite ==
    /\ cmd.step = "note"
    /\ token' = cmd.local
    /\ IF cmd.name = "item" THEN Then("schedule") ELSE Return
    /\ UNCHANGED <<state, file, keys, index, outer, clip, signal, timers, clears, ghosts>>

\* Mutant: an item copy that starts no auto-clear thread.
ScheduleNothing ==
    /\ cmd.step = "schedule"
    /\ Return
    /\ UNCHANGED <<inner, outer, clip, signal, timers, clears, ghosts>>

\* schedule_clipboard_clear, with clear_clipboard on, its default.
Schedule ==
    /\ cmd.step = "schedule" /\ HasSession
    /\ timers' = timers \cup {cmd.local}
    /\ Return
    /\ UNCHANGED <<inner, outer, clip, signal, clears, ghosts>>

\* The settings cannot be read: the vault is locked by now, or their SELECT fails.
ScheduleFails ==
    /\ cmd.step = "schedule"
    /\ Return
    /\ unread' = (HasSession \/ unread)
    /\ UNCHANGED <<inner, outer, clip, signal, timers, clears, slept, missed, stale>>

-----------------------------------------------------------------------------
(* The auto-clear threads and the platform clipboard.                      *)

\* Mutant: an auto-clear takes whatever token there is.
TimerTakesAnyToken(t) ==
    /\ t \in timers
    /\ timers' = timers \ {t}
    /\ TakeToken("timer")
    /\ UNCHANGED <<state, file, keys, index, outer, clip, cmd, signal, ghosts>>

\* clear_clipboard_token, its critical section: a superseded timer does nothing.
TimerFires(t) ==
    /\ t \in timers
    /\ timers' = timers \ {t}
    /\ IF token = t
       THEN /\ token' = None
            /\ clears' = clears \cup {[by |-> "timer", token |-> t, step |-> "check"]}
       ELSE UNCHANGED <<token, clears>>
    /\ UNCHANGED <<state, file, keys, index, outer, clip, cmd, signal, ghosts>>

\* clear_if_ours: compare the sequence number; either platform clears in a later call.
ClearCheck(c) ==
    /\ c \in clears /\ c.step = "check"
    /\ clears' = (clears \ {c}) \cup
                     IF clip.seq = c.token THEN {[c EXCEPT !.step = "empty"]} ELSE {}
    /\ UNCHANGED <<inner, outer, clip, cmd, signal, timers, ghosts>>

ClearEmpty(c) ==
    /\ c \in clears /\ c.step = "empty"
    /\ clears' = clears \ {c}
    /\ clip' = Emptied
    /\ UNCHANGED <<inner, outer, cmd, signal, timers, ghosts>>

\* ClipboardError::Unavailable, or WriteFailed, logged by either caller: another
\* program holds the Windows clipboard open.
ClearFails(c) ==
    /\ c \in clears /\ c.step = "empty" /\ platform = "Windows"
    /\ clears' = clears \ {c}
    /\ missed' = missed \cup {c.by}
    /\ UNCHANGED <<inner, outer, clip, cmd, signal, timers, slept, stale, unread>>

Clear == \E c \in clears : ClearCheck(c) \/ ClearEmpty(c)

\* Something else is copied by the user.
OtherCopies ==
    /\ clip.seq < MaxSeq
    /\ Put("other")
    /\ UNCHANGED <<inner, outer, threads, ghosts>>

-----------------------------------------------------------------------------
(* handle_trigger(Sleep) under a setting other than Never, or lock itself.  *)

\* handle_trigger locks only an unlocked vault.
SignalLook ==
    /\ Signals /\ signal = "look"
    /\ signal' = IF state = "Unlocked" THEN "take" ELSE "done"
    /\ slept' = (slept \/ state = "Unlocking")
    /\ UNCHANGED <<inner, outer, clip, cmd, timers, clears, missed, stale, unread>>

SignalLock ==
    /\ Signals /\ signal = "look"
    /\ signal' = "take"
    /\ UNCHANGED <<inner, outer, clip, cmd, timers, clears, ghosts>>

SignalTake ==
    /\ signal = "take"
    /\ TakeToken("signal")
    /\ signal' = "drop"
    /\ UNCHANGED <<state, file, keys, index, outer, clip, cmd, timers, ghosts>>

SignalDrop ==
    /\ signal = "drop" /\ ~Clearing("signal")
    /\ DropKeys
    /\ signal' = "done"
    /\ slept' = (slept \/ state = "Unlocking")
    /\ UNCHANGED <<file, token, outer, clip, cmd, timers, clears, missed, unread>>

-----------------------------------------------------------------------------
\* SessionManager::new, and content_protection_at_startup, which attaches the
\* vault file it finds.
Init ==
    /\ disk \in {None, 1}
    /\ file = disk
    /\ state = IF file = None THEN "Uninitialised" ELSE "Locked"
    /\ keys = None /\ index = NoIndex /\ token = None
    /\ store = 0 /\ platform \in Platforms
    /\ clip = [seq |-> 0, held |-> "other"]
    /\ cmd = NoCommand
    /\ signal = "look" /\ timers = {} /\ clears = {}
    /\ slept = FALSE /\ missed = {} /\ stale = FALSE /\ unread = FALSE

Start ==
    \/ CreateAttach \/ UnlockOpen \/ Write \/ WriteFails \/ LockStart \/ RestoreStart
    \/ CopyRead("item") \/ CopyRead("history")

Continue ==
    \/ BeginUnlock \/ Derive \/ AbortUnlock \/ Adopt \/ ReadRows \/ ReadRowsFails \/ SetIndex
    \/ LockTake \/ LockDrop \/ Replace
    \/ SetSecret \/ SetSecretFails \/ ReadNumber \/ NoteWrite
    \/ Schedule \/ ScheduleFails

Signal == SignalLook \/ SignalLock \/ SignalTake \/ SignalDrop

Fire == \E t \in timers : TimerFires(t)

Next ==
    \/ Start \/ Continue \/ Signal \/ Fire \/ Clear
    \/ \E c \in clears : ClearFails(c)
    \/ OtherCopies

Spec == Init /\ [][Next]_vars

\* A command that has started runs on, a sleeping thread wakes, a call to the
\* clipboard returns.  Nothing obliges the user or another program to act.
FairSpec == Spec /\ WF_vars(Continue) /\ WF_vars(Fire) /\ WF_vars(Clear)

-----------------------------------------------------------------------------
(* Properties.                                                             *)

Commands == {"none", "create", "unlock", "write", "lock", "restore", "item",
             "history"}
CommandSteps == {"done", "derive", "begin", "adopt", "abort", "rows", "index",
                 "take", "drop", "replace", "set", "number", "note", "schedule"}

\* Every variable has its type; no call that clears the clipboard lacks a token.
TypeOK ==
    /\ disk \in Nat /\ store \in Nat /\ platform \in {"macOS", "Windows"}
    /\ state \in {"Uninitialised", "Locked", "Unlocking", "Unlocked"}
    /\ file \in Nat /\ keys \in Nat /\ token \in Nat
    /\ index \in Nat \cup {NoIndex}
    /\ clip \in [seq : Nat, held : {"other", "nothing", "item", "history"}]
    /\ cmd \in [name : Commands, step : CommandSteps, local : Nat]
    /\ signal \in {"look", "take", "drop", "done"}
    /\ timers \subseteq Nat \ {None}
    /\ clears \subseteq [by : {"main", "signal", "timer"}, token : Nat \ {None},
                         step : {"check", "empty"}]
    /\ slept \in BOOLEAN /\ stale \in BOOLEAN /\ unread \in BOOLEAN
    /\ missed \subseteq {"main", "signal", "timer"}

Ours == clip.held \in {"item", "history"}

\* "Lock is real": whatever interleaving of commands, timers and signals, keys
\* are in memory exactly in state Unlocked, and they are those of the attached
\* file.
KeysFollowState == keys = IF state = "Unlocked" THEN file ELSE None

\* A vault that is not unlocked has neither keys nor a decrypted index in memory.
NothingReadableUnlessUnlocked ==
    state # "Unlocked" => keys = None /\ index = NoIndex

\* Between commands the vault is not stuck in a derivation, and the index of an
\* unlocked one reflects every write, unless the last command to change the item set
\* returned an error, its own or build_index's, on the way: the next such command, or
\* unlock, that succeeds makes up for it.
IdleIsSettled ==
    Idle => /\ state # "Unlocking"
            /\ state = "Unlocked" /\ ~stale => index = store

\* Between commands a value we copied is one that a lock would clear, or is
\* being cleared, unless the clipboard refused; once locked only the latter.
ClipboardAccountedFor ==
    Idle /\ Ours /\ missed = {} =>
        \/ state = "Unlocked" /\ token = clip.seq
        \/ \E c \in clears : c.token = clip.seq

\* A superseded timer does nothing: if nothing was copied since clear_if_ours made
\* its comparison, what the auto-clear wipes is no copy whose own timer still sleeps,
\* and on macOS no copy of another program either (on Windows the number noted for a
\* copy may be that of the next one, which another program made).
SupersededTimerIsHarmless ==
    [][\A c \in clears \ clears' :
          c.by = "timer" /\ clip' # clip /\ clip.seq = c.token =>
              clip.seq \notin timers /\ (platform = "macOS" => Ours)]_vars

\* A secret copied from an item leaves the clipboard, whether or not the user
\* does anything more, unless the clipboard refused to clear it, or the settings that
\* say when could not be read.
ItemCopyLeaves ==
    \A n \in 1..MaxSeq :
        clip = [seq |-> n, held |-> "item"] ~> clip.seq # n \/ missed # {} \/ unread

-----------------------------------------------------------------------------
(* Claims of the repository that the code does not keep.                   *)

\* "a clear cannot destroy something the user copied afterwards": no auto-clear wipes
\* a copy whose own timer still sleeps, nor what another program copied.
TimerSparesNewerCopy ==
    [][\A c \in clears \ clears' :
          c.by = "timer" /\ clip' # clip => clip.seq \notin timers /\ Ours]_vars

\* "a sleep signal during an Argon2 derivation must not be ignored".
SleepIsHonoured == slept => state # "Unlocked"

\* "the only way to prove it opens": an unlock after a restore opens the vault
\* that was restored.
UnlocksTheVaultAtPath == keys # None => keys = disk

\* A lock "clears the clipboard if it still holds a value we put there", or is
\* refused by the clipboard itself.
LockClearsOurValue ==
    Idle /\ state = "Locked" /\ Ours =>
        "main" \in missed \/ \E c \in clears : c.token = clip.seq

\* "copied secrets are wiped after 30 seconds", those of the generator's
\* history too.
HistoryCopyLeaves ==
    \A n \in 1..MaxSeq : clip = [seq |-> n, held |-> "history"] ~> clip.seq # n
=============================================================================
