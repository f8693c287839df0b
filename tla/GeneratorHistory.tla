-------------------------- MODULE GeneratorHistory --------------------------
(***************************************************************************)
(* The generator's history: src-tauri/src/services/history.rs and the      *)
(* commands of generator.rs that keep it in the encrypted cache            *)
(* (keyring-store/src/app_cache.rs).                                       *)
(*                                                                         *)
(* Abstractions: an entry is its id and created_at.  Each command loads    *)
(* what is stored, works on it and may save it, under one session lock.    *)
(***************************************************************************)
EXTENDS Integers, Sequences, FiniteSets, Subsequences

CONSTANTS
    Entries,        \* ids of generated values
    MAX_ENTRIES,    \* 20 in the code
    MAX_AGE,        \* 7 days, coarsely
    MaxNow          \* bound: readings of the clock

ASSUME HistoryAssumption ==
    /\ IsFiniteSet(Entries) /\ MAX_ENTRIES \in Nat \ {0}
    /\ MAX_AGE \in Nat \ {0} /\ MaxNow \in Nat

VARIABLES
    opened,     \* the vault is unlocked
    history,    \* app_cache GeneratorHistory, newest first
    reading,    \* what the wall clock says; it may be set
    ungenerated,      \* values generated and not yet, or never, recorded
    answer,     \* what the last command gave away: entries listed or copied
    dropped     \* ghost: entries that a saved pruning, or a clear, has removed

historyVars == <<opened, history, reading, ungenerated, answer, dropped>>

Ids(h) == {h[i].id : i \in DOMAIN h}
Alive(e) == e.created_at > reading - MAX_AGE

\* Mutant: the list is taken to be ordered by age.
PrunedFromTheEnd(h) ==
    LET kept == SubSeq(h, 1, IF Len(h) < MAX_ENTRIES THEN Len(h) ELSE MAX_ENTRIES)
    IN  IF kept # <<>> /\ ~Alive(kept[Len(kept)]) THEN SubSeq(kept, 1, Len(kept) - 1) ELSE kept

\* History::prune.
Prune(h) ==
    LET kept == Only(h, {k \in DOMAIN h : Alive(h[k])})
    IN  SubSeq(kept, 1, IF Len(kept) < MAX_ENTRIES THEN Len(kept) ELSE MAX_ENTRIES)

\* save.
Save(h) ==
    /\ history' = h
    /\ dropped' = dropped \cup (Ids(history) \ Ids(h))

-----------------------------------------------------------------------------
\* generator_password and the like: finish.  A locked vault records nothing.
Generate(id) ==
    /\ id \in ungenerated
    /\ ungenerated' = ungenerated \ {id}
    /\ IF opened
       THEN Save(Prune(<<[id |-> id, created_at |-> reading]>> \o history))
       ELSE UNCHANGED <<history, dropped>>
    /\ UNCHANGED <<opened, reading, answer>>

\* generator_history_list.
HistoryList ==
    /\ opened
    /\ Save(Prune(history))
    /\ answer' = Prune(history)
    /\ UNCHANGED <<opened, reading, ungenerated>>

\* generator_history_copy: pruned in memory, not saved.
HistoryCopy(id) ==
    /\ opened /\ id \in Ids(Prune(history))
    /\ answer' = LET h == Prune(history) IN Only(h, {k \in DOMAIN h : h[k].id = id})
    /\ UNCHANGED <<opened, history, reading, ungenerated, dropped>>

\* generator_history_clear: the row is deleted.
HistoryClear ==
    /\ opened
    /\ Save(<<>>)
    /\ UNCHANGED <<opened, reading, ungenerated, answer>>

\* The vault is locked or unlocked; a lock wipes nothing of it.
OpenOrLock ==
    /\ opened' = ~opened
    /\ answer' = <<>>
    /\ UNCHANGED <<history, reading, ungenerated, dropped>>

\* Time passes, or the clock is set; what was shown is no longer the last answer.
SetClock(t) ==
    /\ t # reading
    /\ reading' = t /\ answer' = <<>>
    /\ UNCHANGED <<opened, history, ungenerated, dropped>>

HistoryInit ==
    /\ opened = TRUE /\ history = <<>> /\ reading = 0 /\ ungenerated = Entries
    /\ answer = <<>> /\ dropped = {}

HistoryNext ==
    \/ \E id \in Entries : Generate(id) \/ HistoryCopy(id)
    \/ HistoryList \/ HistoryClear \/ OpenOrLock
    \/ \E t \in 0..MaxNow : SetClock(t)

HistorySpec == HistoryInit /\ [][HistoryNext]_historyVars

-----------------------------------------------------------------------------
(* Properties.                                                             *)

HistoryTypeOK ==
    /\ opened \in BOOLEAN /\ reading \in 0..MaxNow
    /\ history \in Seq([id : Entries, created_at : 0..MaxNow])
    /\ Cardinality(Ids(history)) = Len(history) /\ Len(history) <= MAX_ENTRIES
    /\ ungenerated \subseteq Entries

\* "The age cap bounds how long a value the user has already used stays recoverable":
\* nothing expired is listed or copied, in whatever order entries were made by a
\* clock that is set; and what a list or a record has dropped, or a clear, does not
\* come back when the clock is set back.
ExpiredStaysGone ==
    /\ \A i \in DOMAIN answer : Alive(answer[i])
    /\ dropped \cap Ids(history) = {}
=============================================================================
