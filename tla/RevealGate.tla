----------------------------- MODULE RevealGate -----------------------------
(***************************************************************************)
(* When a secret may leave the vault: the rolling limit and the fresh      *)
(* confirmation of src-tauri/src/reveal.rs, and the commands that consult  *)
(* them.  Commands run one at a time on the main thread and no other       *)
(* thread touches the limiter, so each command is one action.              *)
(*                                                                         *)
(* Abstractions: time is coarse; the limiter reads the wall clock, which   *)
(* differs from the time that really passed by `skew'.                     *)
(***************************************************************************)
EXTENDS Integers, Sequences, FiniteSets

CONSTANTS
    LIMIT, WINDOW,   \* reveal::LIMIT and reveal::WINDOW
    Skews,           \* what the wall clock may be off by
    MaxTime,         \* bound: time
    MaxCredit,       \* bound: confirmations in hand
    MaxShown         \* bound: reveals allowed since the last confirmation

ASSUME RevealAssumption ==
    /\ LIMIT \in Nat \ {0} /\ WINDOW \in Nat \ {0}
    /\ Skews \subseteq Int
    /\ MaxTime \in Nat /\ MaxCredit \in Nat /\ MaxShown \in Nat

VARIABLES
    at,         \* RevealLimiter.at, oldest first
    pending,    \* RevealLimiter.reauth_pending
    fresh,      \* RevealLimiter.fresh_reauth
    strict,     \* the setting require_master_on_reveal
    open,       \* the vault is unlocked
    now, skew,  \* the time; what the wall clock adds to it
    shown,      \* ghost: times of the reveals allowed since the last confirmation
                \* or lock
    steady,     \* ghost: how many of them precede the last forward setting of
                \* the clock
    credit      \* ghost: confirmations since the last lock, less the secrets
                \* let out under `strict'

limiter == <<at, pending, fresh>>
revealGhosts == <<shown, steady, credit>>
revealVars == <<limiter, strict, open, now, skew, revealGhosts>>

Reading == now + skew

-----------------------------------------------------------------------------
\* Mutant: the window is one unit short.
PrunedEarly ==
    LET kept == {k \in DOMAIN at : at[k] > Reading - WINDOW + 1}
    IN  IF kept = {} THEN <<>>
        ELSE SubSeq(at, CHOOSE k \in kept : \A j \in kept : k <= j, Len(at))

\* prune: entries leave from the front, up to the first one still in the window.
Pruned ==
    LET kept == {k \in DOMAIN at : at[k] > Reading - WINDOW}
    IN  IF kept = {} THEN <<>>
        ELSE SubSeq(at, CHOOSE k \in kept : \A j \in kept : k <= j, Len(at))

\* Mutant: one reveal too many.
FullPastLimit == pending \/ Len(Pruned) > LIMIT

\* check refuses, recording nothing but the flag.
Full == pending \/ Len(Pruned) >= LIMIT

\* The setting is on and no confirmation is at hand: both commands return
\* ReauthRequired and leave everything as it was.
Unconfirmed == strict /\ ~fresh

\* The other case: take_fresh_reauth, which is evaluated only if strict.
Spend == fresh' = (fresh /\ ~strict)

\* Ghost: a secret is handed out.
Out == credit' = IF strict THEN credit - 1 ELSE credit

\* item_reveal_field past the first gate, refused by the second.
RevealRefused ==
    /\ open /\ ~Unconfirmed /\ Full
    /\ Spend
    /\ at' = Pruned /\ pending' = TRUE
    /\ UNCHANGED <<strict, open, now, skew, revealGhosts>>

\* item_reveal_field past both gates; the item may turn out to have no such field.
Reveal ==
    /\ open /\ ~Unconfirmed /\ ~Full
    /\ Len(shown) < MaxShown
    /\ Spend
    /\ at' = Append(Pruned, Reading)
    /\ shown' = Append(shown, now)
    /\ Out \/ UNCHANGED credit
    /\ UNCHANGED <<pending, strict, open, now, skew, steady>>

\* item_copy_field: the first gate only.
Copy ==
    /\ open /\ ~Unconfirmed
    /\ Spend
    /\ Out \/ UNCHANGED credit
    /\ UNCHANGED <<at, pending, strict, open, now, skew, shown, steady>>

\* account_reauth with the right password, and item_delete likewise, whether or
\* not the title typed confirms.
Reauthenticated ==
    /\ open
    /\ credit < MaxCredit
    /\ at' = <<>> /\ pending' = FALSE /\ fresh' = TRUE
    /\ shown' = <<>> /\ steady' = 0
    /\ credit' = credit + 1
    /\ UNCHANGED <<strict, open, now, skew>>

\* settings_set.
SetStrict ==
    /\ open
    /\ strict' = ~strict
    /\ UNCHANGED <<limiter, open, now, skew, revealGhosts>>

\* Mutant: a lock that keeps the confirmation.
LockKeepingFresh ==
    /\ open' = FALSE
    /\ at' = <<>> /\ pending' = FALSE
    /\ shown' = <<>> /\ steady' = 0
    /\ credit' = 0
    /\ UNCHANGED <<fresh, strict, now, skew>>

\* SessionManager::lock resets the limiter.
RevealLock ==
    /\ open' = FALSE
    /\ at' = <<>> /\ pending' = FALSE /\ fresh' = FALSE
    /\ shown' = <<>> /\ steady' = 0
    /\ credit' = 0
    /\ UNCHANGED <<strict, now, skew>>

RevealUnlock ==
    /\ ~open
    /\ open' = TRUE
    /\ UNCHANGED <<limiter, strict, now, skew, revealGhosts>>

Tick ==
    /\ now < MaxTime
    /\ now' = now + 1
    /\ UNCHANGED <<limiter, strict, open, skew, revealGhosts>>

\* The system clock is set.
ClockSet ==
    /\ skew' \in Skews \ {skew}
    /\ steady' = IF skew' > skew THEN Len(shown) ELSE steady
    /\ UNCHANGED <<limiter, strict, open, now, shown, credit>>

RevealInit ==
    /\ at = <<>> /\ pending = FALSE /\ fresh = FALSE
    /\ strict \in BOOLEAN
    /\ open = FALSE
    /\ now = 0 /\ skew = 0
    /\ shown = <<>> /\ steady = 0 /\ credit = 0

RevealNext ==
    \/ RevealRefused \/ Reveal \/ Copy \/ Reauthenticated \/ SetStrict
    \/ RevealLock \/ RevealUnlock \/ Tick \/ ClockSet

RevealSpec == RevealInit /\ [][RevealNext]_revealVars

-----------------------------------------------------------------------------
(* Properties.                                                             *)

\* Every variable has its type, and the window holds at most LIMIT reveals,
\* whatever the clock does.
RevealTypeOK ==
    /\ at \in Seq(Int) /\ Len(at) <= LIMIT
    /\ pending \in BOOLEAN /\ fresh \in BOOLEAN
    /\ strict \in BOOLEAN /\ open \in BOOLEAN
    /\ now \in Nat /\ skew \in Int
    /\ shown \in Seq(Nat) /\ steady \in 0..Len(shown) /\ credit \in Int

\* "20 reveals in any rolling 60 s", globally: the window that ends with any
\* reveal holds at most LIMIT reveals, unless the user confirmed in between or
\* the clock was set forward.  Setting it back never lets one more through.
RollingLimit ==
    \A k \in DOMAIN shown :
        Cardinality({j \in (steady + 1)..k : shown[j] > shown[k] - WINDOW}) <= LIMIT

\* With the setting on, no confirmation lets out two secrets, by reveal or by
\* copy, and none made before a lock lets out any after it; and, "exceeding it does
\* not reject", one lets the next reveal through however full the window was.
OneSecretPerConfirmation ==
    /\ credit >= 0
    /\ fresh /\ shown = <<>> => ~Full
=============================================================================
