---------------------------- MODULE SessionProofs ----------------------------
(***************************************************************************)
(* Proofs about SessionManager, for any bounds and any platform.           *)
(***************************************************************************)
EXTENDS SessionManager, TLAPS

(* Keys, state and file agree; nothing is attached before a file exists,   *)
(* and nothing is unlocked before one is attached.                         *)
Agreed ==
    /\ KeysFollowState
    /\ disk # None \/ file = None
    /\ state \in {"Unlocking", "Unlocked"} => file # None
    /\ cmd.step \in {"begin", "derive", "adopt"} => file # None
    /\ disk \in Nat
    /\ cmd = [name |-> cmd.name, step |-> cmd.step, local |-> cmd.local]

Recorded == cmd = [name |-> cmd.name, step |-> cmd.step, local |-> cmd.local]

\* build_index goes on, locks again, or returns.
LEMMA AfterRows ==
    ASSUME ReadRows \/ ReadRowsFails, Recorded
    PROVE  cmd'.step \in {"index", "take", "done"} /\ Recorded'
<1>1. CASE cmd' = [cmd EXCEPT !.step = "index", !.local = store]
  BY <1>1 DEF Recorded
<1>2. CASE cmd' = [cmd EXCEPT !.step = "take"]
  BY <1>2 DEF Recorded
<1>3. CASE cmd' = NoCommand
  BY <1>3 DEF NoCommand, Recorded
<1> QED
  BY <1>1, <1>2, <1>3 DEF ReadRows, ReadRowsFails, Then, Return

LEMMA AgreedInit == Init => Agreed
  BY DEF Init, Agreed, KeysFollowState, None, NoCommand

LEMMA AgreedStep == Agreed /\ [Next]_vars => Agreed'
<1> SUFFICES ASSUME Agreed, [Next]_vars PROVE Agreed'
  OBVIOUS
<1> USE DEF Agreed, KeysFollowState, None
<1>1. CASE Start
  <2>1. ASSUME CreateAttach PROVE Agreed'
    BY <2>1 DEF CreateAttach, Run
  <2>2. ASSUME UnlockOpen PROVE Agreed'
    BY <2>2 DEF UnlockOpen, Run, outer
  <2>3. ASSUME \/ Write \/ WriteFails \/ LockStart \/ RestoreStart
               \/ CopyRead("item") \/ CopyRead("history")
        PROVE  Agreed'
    BY <2>3 DEF Write, WriteFails, threads, LockStart, RestoreStart, CopyRead, Run, inner, outer
  <2> QED
    BY <1>1, <2>1, <2>2, <2>3 DEF Start
<1>2. CASE Continue
  <2>1. ASSUME BeginUnlock PROVE Agreed'
    BY <2>1 DEF BeginUnlock, At, Then, Return, NoCommand, outer
  <2>2. ASSUME Derive \/ AbortUnlock PROVE Agreed'
    BY <2>2 DEF Derive, AbortUnlock, At, Then, Return, NoCommand, inner, outer
  <2>3. ASSUME Adopt PROVE Agreed'
    BY <2>3 DEF Adopt, Then, outer
  <2>4. ASSUME ReadRows \/ ReadRowsFails PROVE Agreed'
    <3>1. UNCHANGED <<disk, state, file, keys>>
      BY <2>4 DEF ReadRows, ReadRowsFails, inner, outer
    <3>2. cmd'.step \in {"index", "take", "done"} /\ Recorded'
      BY <2>4, AfterRows DEF Recorded
    <3> QED
      BY <3>1, <3>2 DEF Recorded
  <2>8. ASSUME SetIndex PROVE Agreed'
    BY <2>8 DEF SetIndex, Return, NoCommand, outer
  <2>5. ASSUME LockTake \/ LockDrop PROVE Agreed'
    BY <2>5 DEF LockTake, LockDrop, TakeToken, DropKeys, Then, Return, NoCommand, outer
  <2>6. ASSUME Replace PROVE Agreed'
    BY <2>6 DEF Replace, Return, NoCommand, inner
  <2>7. ASSUME SetSecret PROVE Agreed'
    BY <2>7 DEF SetSecret, inner, outer
  <2>9. ASSUME SetSecretFails \/ Schedule \/ ScheduleFails PROVE Agreed'
    BY <2>9 DEF SetSecretFails, Schedule, ScheduleFails, Return, NoCommand, inner, outer
  <2>10. ASSUME ReadNumber PROVE Agreed'
    BY <2>10 DEF ReadNumber, inner, outer
  <2>11. ASSUME NoteWrite PROVE Agreed'
    BY <2>11 DEF NoteWrite, Then, Return, NoCommand, outer
  <2> QED
    BY <1>2, <2>1, <2>2, <2>3, <2>4, <2>5, <2>6, <2>7, <2>8, <2>9, <2>10,
       <2>11 DEF Continue
<1>3. CASE Signal
  BY <1>3 DEF Signal, SignalLook, SignalLock, SignalTake, SignalDrop, TakeToken, DropKeys,
              inner, outer
<1>4. CASE Fire
  BY <1>4 DEF Fire, TimerFires, outer
<1>5. CASE Clear \/ OtherCopies \/ (\E c \in clears : ClearFails(c)) \/ UNCHANGED vars
  BY <1>5 DEF Clear, ClearCheck, ClearEmpty, ClearFails, OtherCopies, Put, threads,
              inner, outer, vars
<1> QED
  BY <1>1, <1>2, <1>3, <1>4, <1>5 DEF Next

\* The keys are in memory exactly while the state says so, and they are those
\* of the attached file, whatever commands, timers and sleep signals do.
THEOREM KeysFollow == Spec => []KeysFollowState
<1>1. Spec => []Agreed
  BY AgreedInit, AgreedStep, PTL DEF Spec
<1> QED
  BY <1>1, PTL DEF Agreed

-----------------------------------------------------------------------------
(* Without sleep signals only the main thread locks, so the vault is still *)
(* unlocked when build_index stores what it read.                          *)

Serial ==
    /\ signal = "look"
    /\ cmd.step \in {"rows", "index"} => state = "Unlocked"
    /\ index # NoIndex => state = "Unlocked"
    /\ state = "Unlocking" =>
           cmd.name = "unlock" /\ cmd.step \in {"derive", "abort", "adopt"}

LEMMA SerialInit == Init => Serial
  BY DEF Init, Serial, NoCommand

LEMMA SerialStep == ~Signals /\ Agreed /\ Serial /\ [Next]_vars => Serial'
<1> SUFFICES ASSUME ~Signals, Agreed, Serial, [Next]_vars PROVE Serial'
  OBVIOUS
<1>0. cmd = [name |-> cmd.name, step |-> cmd.step, local |-> cmd.local]
  BY DEF Agreed
<1> USE <1>0 DEF Serial
<1>1. CASE Start
  <2>1. ASSUME CreateAttach PROVE Serial'
    BY <2>1 DEF CreateAttach, Run, Idle, NoCommand, Agreed
  <2>2. ASSUME UnlockOpen PROVE Serial'
    BY <2>2 DEF UnlockOpen, Run, Idle, NoCommand, Agreed
  <2>3. ASSUME Write \/ WriteFails PROVE Serial'
    BY <2>3 DEF Write, WriteFails, HasSession, Run, NoCommand, inner, threads
  <2>4. ASSUME LockStart \/ RestoreStart \/ CopyRead("item") \/ CopyRead("history")
        PROVE  Serial'
    BY <2>4 DEF LockStart, RestoreStart, CopyRead, Run, Idle, NoCommand, inner
  <2> QED
    BY <1>1, <2>1, <2>2, <2>3, <2>4 DEF Start
<1>2. CASE Continue
  <2>1. ASSUME BeginUnlock PROVE Serial'
    BY <2>1 DEF BeginUnlock, At, Then, Return, NoCommand
  <2>2. ASSUME Derive PROVE Serial'
    BY <2>2 DEF Derive, Then, Return, NoCommand, inner
  <2>3. ASSUME AbortUnlock PROVE Serial'
    BY <2>3 DEF AbortUnlock, At, Return, NoCommand
  <2>4. ASSUME Adopt PROVE Serial'
    BY <2>4 DEF Adopt, Then, NoCommand
  <2>5. ASSUME ReadRows \/ ReadRowsFails PROVE Serial'
    BY <2>5 DEF ReadRows, ReadRowsFails, Then, Return, NoCommand, inner
  <2>6. ASSUME SetIndex PROVE Serial'
    BY <2>6 DEF SetIndex, Return, NoCommand
  <2>7. ASSUME LockTake \/ LockDrop PROVE Serial'
    BY <2>7 DEF LockTake, LockDrop, TakeToken, DropKeys, Then, Return, NoCommand
  <2>8. ASSUME SetSecret \/ ReadNumber PROVE Serial'
    BY <2>8 DEF SetSecret, ReadNumber, inner
  <2>9. ASSUME NoteWrite PROVE Serial'
    BY <2>9 DEF NoteWrite, Then, Return, NoCommand
  <2>10. ASSUME Replace \/ SetSecretFails \/ Schedule \/ ScheduleFails PROVE Serial'
    BY <2>10 DEF Replace, SetSecretFails, Schedule, ScheduleFails, At, Return, NoCommand, inner
  <2> QED
    BY <1>2, <2>1, <2>2, <2>3, <2>4, <2>5, <2>6, <2>7, <2>8, <2>9, <2>10 DEF Continue
<1>3. CASE Signal
  BY <1>3 DEF Signal, SignalLook, SignalLock, SignalTake, SignalDrop
<1>4. CASE Fire
  BY <1>4 DEF Fire, TimerFires
<1>5. CASE Clear \/ OtherCopies \/ (\E c \in clears : ClearFails(c)) \/ UNCHANGED vars
  BY <1>5 DEF Clear, ClearCheck, ClearEmpty, ClearFails, OtherCopies, Put, threads,
              inner, vars
<1> QED
  BY <1>1, <1>2, <1>3, <1>4, <1>5 DEF Next

\* In the application as wired, a vault that is not unlocked leaves neither keys
\* nor the decrypted index in memory.
THEOREM NothingReadable ==
  ASSUME ~Signals
  PROVE  Spec => []NothingReadableUnlessUnlocked
<1>1. Spec => []Agreed
  BY AgreedInit, AgreedStep, PTL DEF Spec
<1>2. Agreed /\ Serial /\ [Next]_vars => Serial'
  BY SerialStep
<1>3. Spec => []Serial
  BY <1>1, <1>2, SerialInit, PTL DEF Spec
<1>4. Agreed /\ Serial => NothingReadableUnlessUnlocked
  BY DEF Agreed, KeysFollowState, Serial, NothingReadableUnlessUnlocked
<1> QED
  BY <1>1, <1>3, <1>4, PTL

-----------------------------------------------------------------------------
(* The types.                                                              *)

\* The secret on its way to the clipboard, or the one just put there, has a number.
Numbered ==
    /\ cmd.step = "set" => cmd.name \in {"item", "history"}
    /\ cmd.step \in {"number", "note", "schedule"} => cmd.local \in 1..clip.seq

TypeInv == TypeOK /\ Numbered

LEMMA TypeInit == Init => TypeInv
<1> SUFFICES ASSUME Init PROVE TypeInv
  OBVIOUS
<1>1. /\ disk \in Nat /\ store \in Nat /\ file \in Nat /\ keys \in Nat /\ token \in Nat
      /\ state \in {"Uninitialised", "Locked"} /\ index = NoIndex
      /\ clip \in [seq : Nat, held : {"other", "nothing", "item", "history"}]
  BY DEF Init, None
<1>2. /\ cmd \in [name : Commands, step : CommandSteps, local : Nat] /\ Numbered
      /\ signal = "look" /\ timers = {} /\ clears = {} /\ slept = FALSE /\ missed = {}
      /\ stale = FALSE /\ unread = FALSE /\ platform \in {"macOS", "Windows"}
  BY ConstantsAssumption DEF Init, NoCommand, Numbered, Commands, CommandSteps
<1> QED
  BY <1>1, <1>2 DEF TypeInv, TypeOK

\* What one step does to the command in progress.
Advanced ==
    \/ cmd' = NoCommand
    \/ \E name \in {"item", "history"} : cmd' = Run(name, "set")
    \/ \E name \in Commands, step \in CommandSteps \ {"set", "number", "note", "schedule"} :
           cmd' = Run(name, step)
    \/ \E step \in CommandSteps \ {"set", "number", "note", "schedule"} :
           cmd' = [cmd EXCEPT !.step = step]

LEMMA TypeStep == TypeInv /\ [Next]_vars => TypeInv'
<1> SUFFICES ASSUME TypeInv, [Next]_vars PROVE TypeInv'
  OBVIOUS
<1>0. /\ disk \in Nat /\ store \in Nat /\ file \in Nat /\ keys \in Nat /\ token \in Nat
      /\ state \in {"Uninitialised", "Locked", "Unlocking", "Unlocked"}
      /\ index \in Nat \cup {NoIndex}
      /\ clip \in [seq : Nat, held : {"other", "nothing", "item", "history"}]
      /\ cmd \in [name : Commands, step : CommandSteps, local : Nat]
      /\ signal \in {"look", "take", "drop", "done"}
      /\ timers \subseteq Nat \ {None}
      /\ clears \subseteq [by : {"main", "signal", "timer"}, token : Nat \ {None},
                           step : {"check", "empty"}]
      /\ slept \in BOOLEAN /\ missed \subseteq {"main", "signal", "timer"}
      /\ stale \in BOOLEAN /\ unread \in BOOLEAN /\ platform \in {"macOS", "Windows"}
      /\ cmd.step = "set" => cmd.name \in {"item", "history"}
      /\ cmd.step \in {"number", "note", "schedule"} => cmd.local \in 1..clip.seq
  BY DEF TypeInv, TypeOK, Numbered
<1>c. ASSUME Advanced, UNCHANGED clip
      PROVE  /\ cmd' \in [name : Commands, step : CommandSteps, local : Nat]
             /\ Numbered'
  BY <1>0, <1>c DEF Advanced, Run, NoCommand, Numbered, Commands, CommandSteps
<1>t. /\ NoCommand = Run("none", "done")
      /\ "none" \in Commands /\ "done" \in CommandSteps
  BY DEF NoCommand, Run, Commands, CommandSteps
<1> USE DEF inner, outer, ghosts, threads
<1>1. CASE Start
  <2>1. Advanced /\ UNCHANGED clip
    <3>1. CASE WriteFails
      BY <3>1 DEF WriteFails, Idle, Advanced
    <3>2. CASE CreateAttach \/ UnlockOpen \/ Write \/ LockStart \/ RestoreStart
               \/ CopyRead("item") \/ CopyRead("history")
      BY <3>2 DEF CreateAttach, UnlockOpen, Write, LockStart, RestoreStart, CopyRead,
         Advanced, Commands, CommandSteps
    <3> QED
      BY <1>1, <3>1, <3>2 DEF Start
  <2>2. ASSUME CreateAttach PROVE TypeInv'
    BY <1>0, <1>c, <2>1, <2>2 DEF CreateAttach, TypeInv, TypeOK
  <2>3. ASSUME UnlockOpen PROVE TypeInv'
    BY <1>0, <1>c, <2>1, <2>3 DEF UnlockOpen, TypeInv, TypeOK
  <2>4. ASSUME Write PROVE TypeInv'
    BY <1>0, <1>c, <2>1, <2>4 DEF Write, TypeInv, TypeOK
  <2>8. ASSUME WriteFails PROVE TypeInv'
    BY <1>0, <1>c, <2>1, <2>8 DEF WriteFails, TypeInv, TypeOK
  <2>5. ASSUME LockStart PROVE TypeInv'
    BY <1>0, <1>c, <2>1, <2>5 DEF LockStart, TypeInv, TypeOK
  <2>6. ASSUME RestoreStart PROVE TypeInv'
    BY <1>0, <1>c, <2>1, <2>6 DEF RestoreStart, TypeInv, TypeOK
  <2>7. ASSUME CopyRead("item") \/ CopyRead("history") PROVE TypeInv'
    <3>1. UNCHANGED <<disk, store, platform, state, file, keys, index, token, clip, signal,
                      timers, clears, slept, missed, stale, unread>>
      BY <2>7 DEF CopyRead
    <3> QED
      BY <1>0, <1>c, <2>1, <3>1 DEF TypeInv, TypeOK
  <2> QED
    BY <1>1, <2>2, <2>3, <2>4, <2>5, <2>6, <2>7, <2>8 DEF Start
<1>2. CASE Continue
  <2> USE DEF Then, Return, At
  <2>1. ASSUME BeginUnlock \/ Derive \/ AbortUnlock \/ Adopt \/ LockTake \/ LockDrop \/ Replace
               \/ SetIndex
        PROVE  Advanced /\ UNCHANGED clip
    BY <2>1 DEF BeginUnlock, Derive, AbortUnlock, Adopt, LockTake, LockDrop, Replace, SetIndex,
       Advanced, CommandSteps
  <2>2. ASSUME BeginUnlock PROVE TypeInv'
    <3>1. /\ state' \in {state, "Unlocking"} /\ slept' \in {slept, FALSE}
          /\ UNCHANGED <<disk, store, platform, file, keys, index, token, signal, timers,
                         clears, missed, stale, unread>>
      BY <2>2 DEF BeginUnlock
    <3>2. slept' \in BOOLEAN
      BY <1>0, <3>1
    <3> QED
      BY <1>0, <1>c, <2>1, <2>2, <3>1, <3>2 DEF TypeInv, TypeOK
  <2>3. ASSUME Derive PROVE TypeInv'
    BY <1>0, <1>c, <2>1, <2>3 DEF Derive, TypeInv, TypeOK
  <2>4. ASSUME AbortUnlock PROVE TypeInv'
    BY <1>0, <1>c, <2>1, <2>4 DEF AbortUnlock, TypeInv, TypeOK
  <2>5. ASSUME Adopt PROVE TypeInv'
    BY <1>0, <1>c, <2>1, <2>5 DEF Adopt, TypeInv, TypeOK
  <2>6. ASSUME LockTake PROVE TypeInv'
    <3>1. /\ token' = None /\ None \in Nat
          /\ clears' \subseteq clears \cup
                 {[by |-> "main", token |-> token, step |-> "check"] : n \in {t \in {token} : t # None}}
      BY <2>6 DEF LockTake, TakeToken, None
    <3>2. clears' \subseteq [by : {"main", "signal", "timer"}, token : Nat \ {None},
                             step : {"check", "empty"}]
      BY <1>0, <3>1
    <3> QED
      BY <1>0, <1>c, <2>1, <2>6, <3>1, <3>2 DEF LockTake, TypeInv, TypeOK
  <2>7. ASSUME LockDrop PROVE TypeInv'
    BY <1>0, <1>c, <2>1, <2>7 DEF LockDrop, DropKeys, None, TypeInv, TypeOK
  <2>8. ASSUME Replace PROVE TypeInv'
    BY <1>0, <1>c, <2>1, <2>8 DEF Replace, TypeInv, TypeOK
  <2>9. ASSUME SetIndex PROVE TypeInv'
    BY <1>0, <1>c, <2>1, <2>9 DEF SetIndex, TypeInv, TypeOK
  <2>10. ASSUME ReadRows PROVE TypeInv'
    <3>1. cmd' = [cmd EXCEPT !.step = "index", !.local = store]
      BY <2>10 DEF ReadRows
    <3>2. cmd' \in [name : Commands, step : CommandSteps, local : Nat] /\ cmd'.step = "index"
      BY <1>0, <3>1 DEF CommandSteps
    <3>3. Numbered'
      BY <3>2 DEF Numbered
    <3> QED
      BY <1>0, <2>10, <3>2, <3>3 DEF ReadRows, TypeInv, TypeOK
  <2>16. ASSUME ReadRowsFails PROVE TypeInv'
    <3>1. cmd' = [cmd EXCEPT !.step = "take"] \/ cmd' = NoCommand
      BY <2>16 DEF ReadRowsFails
    <3>2. Advanced /\ UNCHANGED clip
      BY <2>16, <3>1 DEF ReadRowsFails, Advanced, CommandSteps
    <3>3. /\ stale' \in {stale, TRUE}
          /\ UNCHANGED <<disk, store, platform, state, file, keys, index, token, signal, timers,
                         clears, slept, missed, unread>>
      BY <2>16 DEF ReadRowsFails
    <3>4. stale' \in BOOLEAN
      BY <1>0, <3>3
    <3> QED
      BY <1>0, <1>c, <3>2, <3>3, <3>4 DEF TypeInv, TypeOK
  <2>11. ASSUME SetSecret PROVE TypeInv'
    <3>1. /\ clip' = [seq |-> clip.seq + 1, held |-> cmd.name]
          /\ \E s \in {"note", "number"} :
                 cmd' = [cmd EXCEPT !.step = s, !.local = clip.seq + 1]
          /\ UNCHANGED <<disk, state, file, keys, index, token, store, signal, timers, clears,
                         slept, missed, stale, unread, platform>>
      BY <2>11 DEF SetSecret, Put
    <3>2. cmd.name \in {"other", "nothing", "item", "history"}
      BY <1>0, <2>11 DEF SetSecret
    <3>3. clip' \in [seq : Nat, held : {"other", "nothing", "item", "history"}]
      BY <1>0, <3>1, <3>2
    <3>4. /\ cmd' \in [name : Commands, step : CommandSteps, local : Nat]
          /\ cmd'.step # "set" /\ cmd'.local = clip.seq + 1 /\ clip'.seq = clip.seq + 1
          /\ clip.seq + 1 \in 1..(clip.seq + 1)
      <4>1. PICK s \in {"note", "number"} : cmd' = [cmd EXCEPT !.step = s, !.local = clip.seq + 1]
        BY <3>1
      <4>2. clip.seq \in Nat /\ clip'.seq = clip.seq + 1
        BY <1>0, <3>1
      <4>3. s \in CommandSteps /\ s # "set"
        BY DEF CommandSteps
      <4>4. cmd' \in [name : Commands, step : CommandSteps, local : Nat]
        <5>1. clip.seq + 1 \in Nat /\ cmd.name \in Commands
          BY <1>0, <4>2
        <5>2. cmd' = [name |-> cmd.name, step |-> s, local |-> clip.seq + 1]
          BY <1>0, <4>1
        <5> QED
          BY <4>3, <5>1, <5>2
      <4>5. cmd'.step = s /\ cmd'.local = clip.seq + 1
        BY <1>0, <4>1
      <4>6. clip.seq + 1 \in 1..(clip.seq + 1)
        BY <4>2
      <4> QED
        BY <4>2, <4>3, <4>4, <4>5, <4>6
    <3> QED
      BY <1>0, <3>1, <3>3, <3>4 DEF TypeInv, TypeOK, Numbered
  <2>12. ASSUME SetSecretFails PROVE TypeInv'
    BY <1>0, <1>t, <2>12
    DEF SetSecretFails, Emptied, TypeInv, TypeOK, Numbered, NoCommand
  <2>13. ASSUME ReadNumber PROVE TypeInv'
    <3>1. clip.seq \in 1..clip.seq
      BY <1>0, <2>13 DEF ReadNumber
    <3>2. /\ cmd' \in [name : Commands, step : CommandSteps, local : Nat]
          /\ cmd'.step = "note" /\ cmd'.local = clip.seq /\ UNCHANGED clip
      BY <1>0, <2>13 DEF ReadNumber, CommandSteps
    <3>3. Numbered'
      BY <3>1, <3>2 DEF Numbered
    <3> QED
      BY <1>0, <2>13, <3>2, <3>3 DEF ReadNumber, TypeInv, TypeOK
  <2>14. ASSUME NoteWrite PROVE TypeInv'
    BY <1>0, <1>t, <2>14 DEF NoteWrite, TypeInv, TypeOK, Numbered, NoCommand, CommandSteps
  <2>15. ASSUME Schedule PROVE TypeInv'
    <3>1. timers' \subseteq Nat \ {None}
      <4>1. clip.seq \in Nat /\ cmd.local \in 1..clip.seq
        BY <1>0, <2>15 DEF Schedule
      <4>2. cmd.local \in Nat \ {None}
        BY <4>1 DEF None
      <4> QED
        BY <1>0, <2>15, <4>2 DEF Schedule
    <3>2. cmd' = NoCommand /\ NoCommand.step = "done"
      BY <2>15 DEF Schedule, NoCommand
    <3> QED
      BY <1>0, <1>t, <2>15, <3>1, <3>2
      DEF Schedule, TypeInv, TypeOK, Numbered, Run, Commands, CommandSteps
  <2>17. ASSUME ScheduleFails PROVE TypeInv'
    BY <1>0, <1>t, <2>17
    DEF ScheduleFails, HasSession, TypeInv, TypeOK, Numbered, Run, Commands, CommandSteps
  <2> QED
    BY <1>2, <2>2, <2>3, <2>4, <2>5, <2>6, <2>7, <2>8, <2>9, <2>10, <2>11, <2>12, <2>13, <2>14,
       <2>15, <2>16, <2>17 DEF Continue
<1>3. CASE Signal
  <2>1. ASSUME SignalLook \/ SignalLock PROVE TypeInv'
    <3>1. /\ signal' \in {"take", "done"}
          /\ UNCHANGED <<disk, store, platform, state, file, keys, index, token, clip, cmd,
                         timers, clears, missed, stale, unread>>
      BY <2>1 DEF SignalLook, SignalLock
    <3>2. slept' \in BOOLEAN
      BY <1>0, <2>1 DEF SignalLook, SignalLock
    <3> QED
      BY <1>0, <3>1, <3>2 DEF TypeInv, TypeOK, Numbered
  <2>2. ASSUME SignalTake PROVE TypeInv'
    <3>1. token' = None /\ None \in Nat
      BY <2>2 DEF SignalTake, TakeToken, None
    <3>2. clears' \subseteq [by : {"main", "signal", "timer"}, token : Nat \ {None},
                             step : {"check", "empty"}]
      BY <1>0, <2>2 DEF SignalTake, TakeToken
    <3> QED
      BY <1>0, <2>2, <3>1, <3>2 DEF SignalTake, TypeInv, TypeOK, Numbered
  <2>3. ASSUME SignalDrop PROVE TypeInv'
    BY <1>0, <2>3 DEF SignalDrop, DropKeys, None, TypeInv, TypeOK, Numbered
  <2> QED
    BY <1>3, <2>1, <2>2, <2>3 DEF Signal
<1>4. CASE Fire
  <2>1. PICK t \in timers : TimerFires(t)
    BY <1>4 DEF Fire
  <2>2. token' \in Nat /\ timers' \subseteq Nat \ {None}
    BY <1>0, <2>1 DEF TimerFires, None
  <2>3. clears' \subseteq [by : {"main", "signal", "timer"}, token : Nat \ {None},
                           step : {"check", "empty"}]
    BY <1>0, <2>1 DEF TimerFires
  <2> QED
    BY <1>0, <2>1, <2>2, <2>3 DEF TimerFires, TypeInv, TypeOK, Numbered
<1>5. CASE Clear \/ \E c \in clears : ClearFails(c)
  <2>1. /\ clip' \in {clip, Emptied} /\ UNCHANGED <<disk, state, file, keys, index, token, store,
                                                   cmd, signal, timers, slept, stale, unread, platform>>
    BY <1>5 DEF Clear, ClearCheck, ClearEmpty, ClearFails
  <2>2. clears' \subseteq [by : {"main", "signal", "timer"}, token : Nat \ {None},
                           step : {"check", "empty"}]
    BY <1>0, <1>5 DEF Clear, ClearCheck, ClearEmpty, ClearFails
  <2>3. missed' \subseteq {"main", "signal", "timer"}
    BY <1>0, <1>5 DEF Clear, ClearCheck, ClearEmpty, ClearFails
  <2> QED
    BY <1>0, <2>1, <2>2, <2>3 DEF Emptied, TypeInv, TypeOK, Numbered
<1>6. CASE OtherCopies
  <2>1. /\ clip' = [seq |-> clip.seq + 1, held |-> "other"]
        /\ UNCHANGED <<disk, store, state, file, keys, index, token, cmd, signal, timers, clears,
                       slept, missed, stale, unread, platform>>
    BY <1>6 DEF OtherCopies, Put
  <2>2. Numbered'
    BY <1>0, <2>1 DEF Numbered
  <2> QED
    BY <1>0, <2>1, <2>2 DEF TypeInv, TypeOK
<1>7. CASE UNCHANGED vars
  BY <1>0, <1>7 DEF vars, TypeInv, TypeOK, Numbered
<1> QED
  BY <1>1, <1>2, <1>3, <1>4, <1>5, <1>6, <1>7 DEF Next

\* Whatever commands, timers and sleep signals do, every variable of the session keeps
\* its type; a clear of the clipboard always has the number of a write.
THEOREM SessionTypes == Spec => []TypeOK
<1>1. TypeInv => TypeOK
  BY DEF TypeInv
<1> QED
  BY <1>1, TypeInit, TypeStep, PTL DEF Spec

-----------------------------------------------------------------------------
(* The index of an unlocked vault.                                         *)

\* What an unlocked vault shows is up to date, unless the last change of the item set
\* failed, or the command that will see to it is still at work: one that rebuilds the
\* index, or an unlock that locks again.
Rebuilding ==
    \/ cmd.step \in {"rows", "index"}
    \/ cmd.name = "unlock" /\ cmd.step \in {"take", "drop"}

UpToDate ==
    /\ state = "Unlocked" /\ ~stale => index = store \/ Rebuilding
    /\ cmd.step = "index" => cmd.local = store

LEMMA UpToDateStep == Agreed /\ Serial /\ UpToDate /\ [Next]_vars => UpToDate'
<1> SUFFICES ASSUME Agreed, Serial, UpToDate, [Next]_vars PROVE UpToDate'
  OBVIOUS
<1>0. cmd = [name |-> cmd.name, step |-> cmd.step, local |-> cmd.local]
  BY DEF Agreed
<1>a. ASSUME state' # "Unlocked" \/ (state = "Unlocked" /\ ~Rebuilding) \/ Rebuilding',
             cmd'.step # "index", UNCHANGED <<index, store, stale>>
      PROVE  UpToDate'
  BY <1>a DEF UpToDate
<1> USE DEF inner, outer, threads, ghosts
<1>1. CASE Start
  <2>1. ~Rebuilding
    BY <1>1 DEF Start, CreateAttach, UnlockOpen, Write, WriteFails, LockStart, RestoreStart, CopyRead,
       Idle, NoCommand, Rebuilding
  <2>2. CASE Write
    BY <2>2 DEF Write, Run, UpToDate, Rebuilding
  <2>6. CASE WriteFails
    BY <2>1, <2>6 DEF WriteFails, HasSession, Idle, NoCommand, UpToDate
  <2>3. CASE CreateAttach
    BY <1>a, <2>3 DEF CreateAttach, Run
  <2>4. CASE UnlockOpen
    <3>1. state' = "Locked" \/ state' = state
      BY <2>4 DEF UnlockOpen
    <3>2. cmd'.step = "begin" /\ UNCHANGED <<index, store, stale>>
      BY <2>4 DEF UnlockOpen, Run
    <3> QED
      BY <1>a, <2>1, <3>1, <3>2
  <2>5. CASE LockStart \/ RestoreStart \/ CopyRead("item") \/ CopyRead("history")
    <3>1. cmd'.step # "index" /\ UNCHANGED <<index, store, state, stale>>
      BY <2>5 DEF LockStart, RestoreStart, CopyRead, Run
    <3> QED
      BY <1>a, <2>1, <3>1
  <2> QED
    BY <1>1, <2>2, <2>3, <2>4, <2>5, <2>6 DEF Start
<1>2. CASE Continue
  <2> USE <1>0 DEF Then, Return, NoCommand, At
  <2>1. CASE BeginUnlock
    <3>1. /\ state' = "Unlocking" \/ state' = state
          /\ cmd.step = "begin" /\ cmd'.step # "index" /\ UNCHANGED <<index, store, stale>>
      BY <2>1 DEF BeginUnlock
    <3> QED
      BY <1>a, <3>1 DEF Rebuilding
  <2>2. CASE Derive
    <3>1. cmd.step = "derive" /\ cmd'.step # "index" /\ UNCHANGED <<index, store, state, stale>>
      BY <2>2 DEF Derive
    <3> QED
      BY <1>a, <3>1 DEF Rebuilding
  <2>3. CASE AbortUnlock
    <3>1. /\ state' = "Locked" \/ state' = state
          /\ cmd.step = "abort" /\ cmd'.step # "index" /\ UNCHANGED <<index, store, stale>>
      BY <2>3 DEF AbortUnlock
    <3> QED
      BY <1>a, <3>1 DEF Rebuilding
  <2>4. CASE Adopt
    <3>1. cmd'.step = "rows" /\ UNCHANGED <<index, store, stale>>
      BY <2>4 DEF Adopt
    <3> QED
      BY <1>a, <3>1 DEF Rebuilding
  <2>5. CASE ReadRows
    BY <2>5 DEF ReadRows, UpToDate, Rebuilding
  <2>12. CASE ReadRowsFails
    <3>1. UNCHANGED <<index, store, state>>
      BY <2>12 DEF ReadRowsFails
    <3>2. CASE cmd.name = "unlock"
      <4>1. cmd' = [cmd EXCEPT !.step = "take"] /\ UNCHANGED stale
        BY <2>12, <3>2 DEF ReadRowsFails
      <4>2. Rebuilding' /\ cmd'.step # "index"
        BY <3>2, <4>1 DEF Rebuilding
      <4> QED
        BY <1>a, <3>1, <4>1, <4>2
    <3>3. CASE cmd.name # "unlock"
      BY <2>12, <3>1, <3>3 DEF ReadRowsFails, UpToDate
    <3> QED
      BY <3>2, <3>3
  <2>6. CASE SetIndex
    BY <2>6 DEF SetIndex, UpToDate
  <2>7. CASE LockTake
    <3>1. /\ cmd.step = "take" /\ cmd' = [cmd EXCEPT !.step = "drop"]
          /\ UNCHANGED <<index, store, state, stale>>
      BY <2>7 DEF LockTake
    <3>2. cmd'.step # "index" /\ (Rebuilding => Rebuilding')
      BY <3>1 DEF Rebuilding
    <3> QED
      BY <1>a, <3>1, <3>2
  <2>8. CASE LockDrop
    BY <2>8 DEF LockDrop, DropKeys, UpToDate
  <2>9. ASSUME /\ cmd.step \in {"replace", "set", "number", "note", "schedule"}
               /\ cmd'.step # "index" /\ UNCHANGED <<index, store, state, stale>>
        PROVE  UpToDate'
    BY <1>a, <2>9 DEF Rebuilding
  <2>10. CASE Replace \/ SetSecret \/ SetSecretFails \/ ReadNumber
    <3>1. CASE Replace \/ SetSecretFails
      BY <2>9, <3>1 DEF Replace, SetSecretFails
    <3>2. CASE SetSecret
      <4>1. cmd' \in {[cmd EXCEPT !.step = s, !.local = clip.seq + 1] : s \in {"note", "number"}}
        BY <3>2 DEF SetSecret
      <4>2. cmd'.step \in {"note", "number"}
        BY <4>1
      <4> QED
        BY <2>9, <3>2, <4>2 DEF SetSecret
    <3>3. CASE ReadNumber
      BY <2>9, <3>3 DEF ReadNumber
    <3> QED
      BY <2>10, <3>1, <3>2, <3>3
  <2>11. CASE NoteWrite \/ Schedule \/ ScheduleFails
    BY <2>9, <2>11 DEF NoteWrite, Schedule, ScheduleFails
  <2> QED
    BY <1>2, <2>1, <2>2, <2>3, <2>4, <2>5, <2>6, <2>7, <2>8, <2>10, <2>11, <2>12 DEF Continue
<1>3. ASSUME state' = state \/ state' # "Unlocked", index' = index \/ state' # "Unlocked",
             UNCHANGED stale \/ state' # "Unlocked", UNCHANGED <<store, cmd>>
      PROVE  UpToDate'
  BY <1>3 DEF UpToDate, Rebuilding
<1>4. CASE Signal
  <2>1. CASE SignalLook \/ SignalLock \/ SignalTake
    BY <1>3, <2>1 DEF SignalLook, SignalLock, SignalTake
  <2>2. CASE SignalDrop
    BY <1>3, <2>2 DEF SignalDrop, DropKeys
  <2> QED
    BY <1>4, <2>1, <2>2 DEF Signal
<1>5. CASE Fire \/ Clear \/ (\E c \in clears : ClearFails(c)) \/ OtherCopies \/ UNCHANGED vars
  BY <1>3, <1>5 DEF Fire, TimerFires, Clear, ClearCheck, ClearEmpty, ClearFails, OtherCopies, vars
<1> QED
  BY <1>1, <1>2, <1>4, <1>5 DEF Next

\* build_index: in the application as wired, whichever of its commands succeed and fail,
\* an unlocked vault between two commands shows what is stored, unless the last command
\* to change the item set returned an error, and none is left in a derivation.
THEOREM SettledBetweenCommands ==
  ASSUME ~Signals
  PROVE  Spec => []IdleIsSettled
<1> DEFINE Inv == Agreed /\ Serial /\ UpToDate
<1>1. Init => Inv
  <2>1. Init => UpToDate
    BY DEF Init, UpToDate, NoCommand
  <2> QED
    BY <2>1, AgreedInit, SerialInit
<1>2. Inv /\ [Next]_vars => Inv'
  BY AgreedStep, SerialStep, UpToDateStep
<1>3. Inv => IdleIsSettled
  BY DEF IdleIsSettled, Idle, NoCommand, Serial, UpToDate, Rebuilding
<1> QED
  BY <1>1, <1>2, <1>3, PTL DEF Spec

-----------------------------------------------------------------------------
(* The value on the clipboard.                                             *)

\* Who knows of the value on the clipboard: the token, a call that clears it, or the
\* copy that is about to note it.  A copy is made by an unlocked vault, and a lock
\* has taken the token before it drops the keys.
Traced ==
    /\ cmd.step \in {"set", "number", "note", "schedule"} => state = "Unlocked"
    /\ cmd.step = "drop" => token = None
    /\ Ours => clip.seq # 0
    /\ Ours /\ cmd.step = "note" => cmd.local = clip.seq
    /\ Ours /\ missed = {} =>
           \/ state = "Unlocked" /\ token = clip.seq
           \/ \E c \in clears : c.token = clip.seq
           \/ cmd.step \in {"number", "note"}

LEMMA TracedStep ==
    ~Signals /\ TypeInv /\ Agreed /\ Serial /\ Traced /\ [Next]_vars => Traced'
<1> SUFFICES ASSUME ~Signals, TypeInv, Agreed, Serial, Traced, [Next]_vars PROVE Traced'
  OBVIOUS
<1>0. /\ cmd = [name |-> cmd.name, step |-> cmd.step, local |-> cmd.local]
      /\ clip.seq \in Nat /\ clip \in [seq : Nat, held : {"other", "nothing", "item", "history"}]
      /\ cmd.step = "set" => cmd.name \in {"item", "history"}
  BY DEF Agreed, TypeInv, TypeOK, Numbered
<1> DEFINE Copying == {"set", "number", "note", "schedule"}
<1>a. ASSUME cmd'.step \notin Copying \cup {"drop"},
             cmd.step \notin {"number", "note"},
             state = "Unlocked" => state' = state,
             UNCHANGED <<token, clip, clears, missed>>
      PROVE  Traced'
  BY <1>a DEF Traced, Ours
<1> USE DEF inner, outer, threads, ghosts
<1>1. CASE Start
  <2>1. cmd.step = "done"
    BY <1>1 DEF Start, CreateAttach, UnlockOpen, Write, WriteFails, LockStart, RestoreStart, CopyRead,
       Idle, NoCommand
  <2>2. CASE CopyRead("item") \/ CopyRead("history")
    BY <2>1, <2>2 DEF CopyRead, Run, HasSession, Traced, Ours
  <2>3. CASE CreateAttach
    BY <1>a, <2>1, <2>3 DEF CreateAttach, Run, Agreed
  <2>4. CASE UnlockOpen
    BY <1>a, <2>1, <2>4 DEF UnlockOpen, Run, Agreed
  <2>5. CASE Write \/ WriteFails \/ LockStart \/ RestoreStart
    BY <1>a, <2>1, <2>5 DEF Write, WriteFails, LockStart, RestoreStart, Run, Idle, NoCommand
  <2> QED
    BY <1>1, <2>2, <2>3, <2>4, <2>5 DEF Start
<1>2. CASE Continue
  <2> USE <1>0 DEF Then, Return, NoCommand, At
  <2>1. CASE BeginUnlock
    <3>1. /\ cmd.step = "begin" /\ cmd'.step \in {"derive", "done"}
          /\ state = "Unlocked" => state' = state
          /\ UNCHANGED <<token, clip, clears, missed>>
      BY <2>1 DEF BeginUnlock
    <3> QED
      BY <1>a, <3>1
  <2>2. CASE Derive
    <3>1. /\ cmd.step = "derive" /\ cmd'.step \in {"adopt", "abort", "done"}
          /\ UNCHANGED <<state, token, clip, clears, missed>>
      BY <2>2 DEF Derive
    <3> QED
      BY <1>a, <3>1
  <2>3. CASE AbortUnlock
    <3>1. /\ cmd.step = "abort" /\ cmd'.step = "done"
          /\ state = "Unlocked" => state' = state
          /\ UNCHANGED <<token, clip, clears, missed>>
      BY <2>3 DEF AbortUnlock
    <3> QED
      BY <1>a, <3>1
  <2>4. CASE Adopt
    BY <1>a, <2>4 DEF Adopt
  <2>5. CASE ReadRows \/ ReadRowsFails
    <3>1. /\ cmd.step = "rows" /\ cmd'.step \in {"index", "take", "done"}
          /\ UNCHANGED <<state, token, clip, clears, missed>>
      BY <2>5, AfterRows DEF ReadRows, ReadRowsFails, Recorded
    <3> QED
      BY <1>a, <3>1
  <2>6. CASE SetIndex \/ Replace
    BY <1>a, <2>6 DEF SetIndex, Replace
  <2>7. CASE LockTake
    <3>1. /\ cmd'.step = "drop" /\ cmd.step = "take" /\ token' = None
          /\ UNCHANGED <<state, clip, missed>> /\ clears \subseteq clears'
      BY <2>7 DEF LockTake, TakeToken
    <3>2. ASSUME token = clip.seq, clip.seq # 0 PROVE \E c \in clears' : c.token = clip.seq
      <4> DEFINE call == [by |-> "main", token |-> token, step |-> "check"]
      <4>1. call \in clears' /\ call.token = clip.seq
        BY <2>7, <3>2 DEF LockTake, TakeToken, None
      <4> QED
        BY <4>1
    <3> QED
      BY <3>1, <3>2 DEF Traced, Ours
  <2>8. CASE LockDrop
    <3>1. /\ cmd.step = "drop" /\ cmd'.step \in {"replace", "done"}
          /\ UNCHANGED <<token, clip, clears, missed>>
      BY <2>8 DEF LockDrop
    <3> QED
      BY <3>1 DEF Traced, Ours, None
  <2>9. CASE SetSecret
    <3>1. /\ cmd.step = "set" /\ cmd'.step \in {"note", "number"} /\ cmd'.local = clip.seq + 1
          /\ clip'.seq = clip.seq + 1 /\ UNCHANGED <<state, missed>>
      BY <2>9 DEF SetSecret, Put
    <3> QED
      BY <3>1 DEF Traced
  <2>10. CASE SetSecretFails
    <3>1. /\ cmd.step = "set" /\ cmd'.step = "done" /\ UNCHANGED <<state, token, clears, missed>>
          /\ clip' = clip \/ clip'.held = "nothing"
      BY <2>10 DEF SetSecretFails, Emptied
    <3> QED
      BY <3>1 DEF Traced, Ours
  <2>11. CASE ReadNumber
    BY <2>11 DEF ReadNumber, Traced, Ours
  <2>12. CASE NoteWrite
    <3>1. /\ cmd.step = "note" /\ cmd'.step \in {"schedule", "done"} /\ token' = cmd.local
          /\ UNCHANGED <<state, clip, clears, missed>>
      BY <2>12 DEF NoteWrite
    <3> QED
      BY <3>1 DEF Traced, Ours
  <2>13. CASE Schedule \/ ScheduleFails
    <3>1. /\ cmd.step = "schedule" /\ cmd'.step = "done"
          /\ UNCHANGED <<state, token, clip, clears, missed>>
      BY <2>13 DEF Schedule, ScheduleFails
    <3> QED
      BY <1>a, <3>1
  <2> QED
    BY <1>2, <2>1, <2>2, <2>3, <2>4, <2>5, <2>6, <2>7, <2>8, <2>9, <2>10, <2>11, <2>12, <2>13
    DEF Continue
<1>3. CASE Signal
  BY <1>3 DEF Signal, SignalLook, SignalLock, SignalTake, SignalDrop, Serial
<1>4. CASE Fire
  <2>1. PICK t \in timers : TimerFires(t)
    BY <1>4 DEF Fire
  <2>2. token' = token \/ token' = None
    BY <2>1 DEF TimerFires
  <2>3. UNCHANGED <<state, cmd, clip, missed>> /\ clears \subseteq clears'
    BY <2>1 DEF TimerFires
  <2>4. ASSUME token' # token PROVE \E c \in clears' : c.token = token
    <3> DEFINE call == [by |-> "timer", token |-> t, step |-> "check"]
    <3>1. call \in clears' /\ call.token = token
      BY <2>1, <2>4 DEF TimerFires
    <3> QED
      BY <3>1
  <2> QED
    BY <2>2, <2>3, <2>4 DEF Traced, Ours
<1>5. CASE Clear
  <2>1. PICK c \in clears : ClearCheck(c) \/ ClearEmpty(c)
    BY <1>5 DEF Clear
  <2>2. UNCHANGED <<state, token, cmd, missed>> /\ clip' \in {clip, Emptied}
    BY <2>1 DEF ClearCheck, ClearEmpty
  <2>3. CASE clip' = Emptied
    BY <2>2, <2>3 DEF Emptied, Traced, Ours
  <2>4. CASE clip' = clip /\ clip # Emptied
    <3>1. ASSUME NEW d \in clears, d.token = clip.seq PROVE \E e \in clears' : e.token = clip.seq
      <4> DEFINE left == [c EXCEPT !.step = "empty"]
      <4>1. CASE d # c
        BY <2>1, <3>1, <4>1 DEF ClearCheck, ClearEmpty
      <4>2. CASE d = c
        <5>1. left \in clears'
          BY <2>1, <2>4, <3>1, <4>2 DEF ClearCheck, ClearEmpty
        <5>2. c \in [by : {"main", "signal", "timer"}, token : Nat \ {None},
                     step : {"check", "empty"}]
          BY DEF TypeInv, TypeOK
        <5>3. left.token = clip.seq
          BY <3>1, <4>2, <5>2
        <5> QED
          BY <5>1, <5>3
      <4> QED
        BY <4>1, <4>2
    <3> QED
      BY <2>2, <2>4, <3>1 DEF Traced, Ours
  <2> QED
    BY <2>2, <2>3, <2>4
<1>6. CASE \E c \in clears : ClearFails(c)
  <2>1. missed' # {} /\ UNCHANGED <<state, token, cmd, clip>>
    BY <1>6 DEF ClearFails
  <2> QED
    BY <2>1 DEF Traced, Ours
<1>7. CASE OtherCopies
  BY <1>7 DEF OtherCopies, Put, Traced, Ours
<1>8. CASE UNCHANGED vars
  BY <1>8 DEF vars, Traced, Ours
<1> QED
  BY <1>1, <1>2, <1>3, <1>4, <1>5, <1>6, <1>7, <1>8 DEF Next

\* note_clipboard_write, lock, clear_clipboard_token: in the application as wired, over
\* either platform, a secret that is on the clipboard between two commands is known to
\* the token of an unlocked vault or is being cleared, unless the clipboard refused.
THEOREM NoSecretForgotten ==
  ASSUME ~Signals
  PROVE  Spec => []ClipboardAccountedFor
<1> DEFINE Inv == TypeInv /\ Agreed /\ Serial /\ Traced
<1>1. Init => Inv
  <2>1. Init => Traced
    BY DEF Init, Traced, Ours, NoCommand
  <2> QED
    BY <2>1, TypeInit, AgreedInit, SerialInit
<1>2. Inv /\ [Next]_vars => Inv'
  BY TypeStep, AgreedStep, SerialStep, TracedStep
<1>3. Inv => ClipboardAccountedFor
  BY DEF ClipboardAccountedFor, Idle, NoCommand, Traced
<1> QED
  BY <1>1, <1>2, <1>3, PTL DEF Spec

\* A number we hold is one the clipboard has had; on macOS it is that of a value of
\* ours, or has been passed.
Dated(t) == t \in Nat /\ t <= clip.seq /\ (platform = "macOS" /\ t = clip.seq => Ours)

\* The number of a copy being made is above those that timers have, asleep or clearing;
\* a timer that has fired no longer sleeps.
Dates ==
    /\ token # None => Dated(token)
    /\ \A t \in timers : Dated(t)
    /\ \A c \in clears : Dated(c.token)
    /\ \A c \in clears : c.by = "timer" => c.token \notin timers
    /\ cmd.step = "number" => platform # "macOS"
    /\ cmd.step \in {"number", "note", "schedule"} =>
           /\ Dated(cmd.local)
           /\ \A t \in timers : t < cmd.local
           /\ \A c \in clears : c.by = "timer" => c.token < cmd.local

\* A number that is in use stays in use, or is passed, whatever happens to the clipboard.
LEMMA NewClip ==
    ASSUME clip.seq \in Nat, clip' = clip \/ clip'.seq = clip.seq + 1
    PROVE  /\ clip'.seq \in Nat
           /\ \A t : Dated(t) =>
                  /\ t \in Nat /\ t <= clip'.seq
                  /\ t = clip'.seq => clip' = clip /\ (platform = "macOS" => Ours)
BY DEF Dated

LEMMA SamePlatform == [Next]_vars => platform' = platform
<1> USE DEF inner, outer, threads, ghosts
<1>1. Start => platform' = platform
  BY DEF Start, CreateAttach, UnlockOpen, Write, WriteFails, LockStart, RestoreStart, CopyRead
<1>2. Continue => platform' = platform
  <2>1. BeginUnlock \/ Derive \/ AbortUnlock \/ Adopt \/ ReadRows \/ ReadRowsFails \/ SetIndex
        => platform' = platform
    BY DEF BeginUnlock, Derive, AbortUnlock, Adopt, ReadRows, ReadRowsFails, SetIndex
  <2>2. LockTake \/ LockDrop \/ Replace \/ SetSecret \/ SetSecretFails => platform' = platform
    BY DEF LockTake, LockDrop, Replace, SetSecret, SetSecretFails
  <2>3. ReadNumber \/ NoteWrite \/ Schedule \/ ScheduleFails => platform' = platform
    BY DEF ReadNumber, NoteWrite, Schedule, ScheduleFails
  <2> QED
    BY <2>1, <2>2, <2>3 DEF Continue
<1>3. Signal \/ Fire => platform' = platform
  BY DEF Signal, SignalLook, SignalLock, SignalTake, SignalDrop, Fire, TimerFires
<1>4. Clear \/ (\E c \in clears : ClearFails(c)) \/ OtherCopies => platform' = platform
  BY DEF Clear, ClearCheck, ClearEmpty, ClearFails, OtherCopies
<1> QED
  BY <1>1, <1>2, <1>3, <1>4 DEF Next, vars

LEMMA DatesStep == TypeInv /\ Dates /\ [Next]_vars => Dates'
<1> SUFFICES ASSUME TypeInv, Dates, [Next]_vars PROVE Dates'
  OBVIOUS
<1>0. /\ cmd \in [name : Commands, step : CommandSteps, local : Nat]
      /\ clip.seq \in Nat /\ None \notin timers
      /\ cmd.step = "set" => cmd.name \in {"item", "history"}
      /\ cmd.step \in {"number", "note", "schedule"} => cmd.local \in 1..clip.seq
      /\ platform' = platform
      /\ clears \subseteq [by : {"main", "signal", "timer"}, token : Nat \ {None},
                           step : {"check", "empty"}]
  BY SamePlatform DEF TypeInv, TypeOK, Numbered
<1>d. ASSUME clip' = clip \/ clip'.seq = clip.seq + 1
      PROVE  \A t : Dated(t) => Dated(t)'
  <2>1. Ours' <=> clip'.held \in {"item", "history"}
    BY DEF Ours
  <2>2. clip' = clip => (Ours => Ours')
    BY DEF Ours
  <2> QED
    BY <1>0, <1>d, <2>2, NewClip DEF Dated
<1>a. ASSUME cmd'.step \notin {"number", "note", "schedule"} \/ cmd' = cmd,
             token' \in {token, None}, timers' \subseteq timers, clears' \subseteq clears,
             clip' = clip \/ clip'.seq = clip.seq + 1
      PROVE  Dates'
  BY <1>0, <1>a, <1>d DEF Dates
<1> USE DEF inner, outer, threads, ghosts
<1>1. CASE Start
  <2>1. UNCHANGED <<token, timers, clears, clip>>
    BY <1>1 DEF Start, CreateAttach, UnlockOpen, Write, WriteFails, LockStart, RestoreStart, CopyRead
  <2>2. cmd'.step \notin {"number", "note", "schedule"}
    BY <1>1 DEF Start, CreateAttach, UnlockOpen, Write, WriteFails, LockStart, RestoreStart,
       CopyRead, Run, Idle, NoCommand
  <2> QED
    BY <1>a, <2>1, <2>2
<1>2. CASE Continue
  <2> USE <1>0 DEF Then, Return, NoCommand, At
  <2>1. CASE BeginUnlock \/ Derive \/ AbortUnlock \/ Adopt
    BY <1>a, <2>1 DEF BeginUnlock, Derive, AbortUnlock, Adopt
  <2>2. CASE ReadRows \/ ReadRowsFails \/ SetIndex \/ Replace
    <3>1. cmd'.step \in {"index", "take", "done"}
      <4>1. CASE ReadRows \/ ReadRowsFails
        BY <1>0, <4>1, AfterRows DEF Recorded
      <4> QED
        BY <2>2, <4>1 DEF SetIndex, Replace
    <3> QED
      BY <1>a, <2>2, <3>1 DEF ReadRows, ReadRowsFails, SetIndex, Replace
  <2>3. CASE LockTake
    <3>1. /\ cmd'.step = "drop" /\ token' = None /\ UNCHANGED <<timers, clip>>
          /\ \A c \in clears' : c \in clears
                 \/ (token # None /\ c = [by |-> "main", token |-> token, step |-> "check"])
      BY <2>3 DEF LockTake, TakeToken
    <3> QED
      BY <1>0, <1>d, <3>1 DEF Dates
  <2>4. CASE LockDrop
    BY <1>a, <2>4 DEF LockDrop
  <2>5. CASE SetSecret
    <3>1. /\ cmd'.step \in {"note", "number"} /\ cmd'.local = clip.seq + 1
          /\ cmd'.step = "number" => platform # "macOS"
          /\ clip'.seq = clip.seq + 1 /\ clip'.held = cmd.name /\ cmd.step = "set"
          /\ UNCHANGED <<token, timers, clears>>
      BY <2>5 DEF SetSecret, Put
    <3>2. Dated(cmd.local)'
      BY <3>1 DEF Dated, Ours
    <3>3. /\ \A t \in timers : t < cmd'.local
          /\ \A c \in clears : c.token < cmd'.local
      BY <3>1 DEF Dates, Dated
    <3>4. clip' = clip \/ clip'.seq = clip.seq + 1
      BY <3>1
    <3> QED
      BY <3>1, <3>2, <3>3, <3>4, <1>d DEF Dates
  <2>6. CASE SetSecretFails
    <3>1. clip' = clip \/ clip'.seq = clip.seq + 1
      BY <2>6 DEF SetSecretFails, Emptied
    <3>2. cmd'.step = "done" /\ UNCHANGED <<token, timers, clears>>
      BY <2>6 DEF SetSecretFails
    <3> QED
      BY <1>a, <3>1, <3>2
  <2>7. CASE ReadNumber
    <3>1. /\ cmd.step = "number" /\ cmd'.step = "note" /\ cmd'.local = clip.seq
          /\ UNCHANGED <<token, timers, clears, clip>>
      BY <2>7 DEF ReadNumber
    <3>2. Dated(cmd.local)'
      BY <3>1 DEF Dates, Dated
    <3>3. /\ \A t \in timers : t \in Nat /\ t < clip.seq
          /\ \A c \in clears : c.by = "timer" => c.token \in Nat /\ c.token < clip.seq
      BY <3>1 DEF Dates, Dated
    <3> QED
      BY <3>1, <3>2, <3>3, <1>d DEF Dates
  <2>8. CASE NoteWrite
    <3>1. /\ cmd.step = "note" /\ cmd'.step \in {"schedule", "done"} /\ token' = cmd.local
          /\ cmd'.step = "schedule" => cmd'.local = cmd.local
          /\ UNCHANGED <<timers, clears, clip>>
      BY <2>8 DEF NoteWrite
    <3> QED
      BY <1>0, <1>d, <3>1 DEF Dates
  <2>10. CASE ScheduleFails
    BY <1>a, <2>10 DEF ScheduleFails
  <2>9. CASE Schedule
    <3>1. /\ cmd.step = "schedule" /\ cmd'.step = "done"
          /\ timers' \subseteq timers \cup {cmd.local} /\ UNCHANGED <<token, clears, clip>>
      BY <2>9 DEF Schedule
    <3> QED
      BY <1>0, <1>d, <3>1 DEF Dates
  <2> QED
    BY <1>2, <2>1, <2>2, <2>3, <2>4, <2>5, <2>6, <2>7, <2>8, <2>9, <2>10 DEF Continue
<1>3. CASE Signal
  <2>1. CASE SignalLook \/ SignalLock \/ SignalDrop
    BY <1>a, <2>1 DEF SignalLook, SignalLock, SignalDrop
  <2>2. CASE SignalTake
    <3>1. /\ token' = None /\ UNCHANGED <<cmd, timers, clip>>
          /\ \A c \in clears' : c \in clears
                 \/ (token # None /\ c = [by |-> "signal", token |-> token, step |-> "check"])
      BY <2>2 DEF SignalTake, TakeToken
    <3> QED
      BY <1>0, <1>d, <3>1 DEF Dates
  <2> QED
    BY <1>3, <2>1, <2>2 DEF Signal
<1>4. CASE Fire
  <2>1. PICK t \in timers : TimerFires(t)
    BY <1>4 DEF Fire
  <2>2. CASE token # t
    BY <1>a, <2>1, <2>2 DEF TimerFires
  <2>3. CASE token = t
    <3>1. /\ token' = None /\ UNCHANGED <<cmd, clip>> /\ timers' = timers \ {t}
          /\ clears' = clears \cup {[by |-> "timer", token |-> t, step |-> "check"]}
      BY <2>1, <2>3 DEF TimerFires
    <3> QED
      BY <1>0, <1>d, <3>1 DEF Dates
  <2> QED
    BY <2>2, <2>3
<1>5. CASE Clear \/ \E c \in clears : ClearFails(c)
  <2>1. /\ UNCHANGED <<token, cmd, timers>> /\ clip' \in {clip, Emptied}
        /\ \A e \in clears' : \E c \in clears : e.token = c.token /\ e.by = c.by
    BY <1>0, <1>5 DEF Clear, ClearCheck, ClearEmpty, ClearFails
  <2>2. clip' = clip \/ clip'.seq = clip.seq + 1
    BY <2>1 DEF Emptied
  <2> QED
    BY <1>0, <1>d, <2>1, <2>2 DEF Dates
<1>6. CASE OtherCopies
  BY <1>a, <1>6 DEF OtherCopies, Put
<1>7. CASE UNCHANGED vars
  BY <1>a, <1>7 DEF vars
<1> QED
  BY <1>1, <1>2, <1>3, <1>4, <1>5, <1>6, <1>7 DEF Next

\* clear_clipboard_token: over either clipboard, sleep signals or not, no timer wipes a
\* newer copy of ours, whose own timer still sleeps, if nothing was copied between the
\* comparison of clear_if_ours and its clear; nor, on macOS, what another program copied.
THEOREM SupersededTimers == Spec => SupersededTimerIsHarmless
<1> DEFINE Inv == TypeInv /\ Dates
           Harmless == \A c \in clears \ clears' :
                           c.by = "timer" /\ clip' # clip /\ clip.seq = c.token =>
                               clip.seq \notin timers /\ (platform = "macOS" => Ours)
<1>1. Init => Inv
  <2>1. Init => Dates
    BY DEF Init, Dates, NoCommand
  <2> QED
    BY <2>1, TypeInit
<1>2. Inv /\ [Next]_vars => Inv'
  BY TypeStep, DatesStep
<1>3. Inv => \A c \in clears : c.by = "timer" /\ clip.seq = c.token =>
                 clip.seq \notin timers /\ (platform = "macOS" => Ours)
  BY DEF Dates, Dated
<1>4. Inv /\ [Next]_vars => [Harmless]_vars
  BY <1>3
<1>5. Spec => [][Harmless]_vars
  BY <1>1, <1>2, <1>4, PTL DEF Spec
<1> QED
  BY <1>5 DEF SupersededTimerIsHarmless
=============================================================================
