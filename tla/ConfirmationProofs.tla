------------------------- MODULE ConfirmationProofs -------------------------
(***************************************************************************)
(* Proofs about what a confirmation of the user lets happen: RevealGate,   *)
(* for any limit, window and settings of the clock, and Preferences, for   *)
(* any accounts and any interval; whatever the bounds.                     *)
(***************************************************************************)
EXTENDS RevealGate, Preferences, SequenceTheorems, FiniteSetTheorems, WellFoundedInduction, TLAPS

-----------------------------------------------------------------------------
(* RevealGate.                                                             *)

\* A confirmation at hand has not been spent; and until a secret is shown it
\* finds the window as empty as the confirmation left it.
Spendable ==
    /\ shown \in Seq(Int) /\ now \in Int /\ credit \in Int
    /\ fresh \in BOOLEAN /\ strict \in BOOLEAN
    /\ credit >= 0
    /\ fresh => credit >= 1
    /\ fresh /\ shown = <<>> => at = <<>> /\ ~pending

LEMMA EmptyIsNotFull == at = <<>> /\ ~pending => ~Full
<1> SUFFICES ASSUME at = <<>>, ~pending PROVE ~Full
  OBVIOUS
<1>1. {k \in DOMAIN at : at[k] > Reading - WINDOW} = {}
  OBVIOUS
<1>2. Pruned = <<>>
  BY <1>1 DEF Pruned
<1> QED
  BY <1>2, RevealAssumption DEF Full

LEMMA SpendableInit == RevealInit => Spendable
<1> SUFFICES ASSUME RevealInit PROVE Spendable
  OBVIOUS
<1>1. shown \in Seq(Int) /\ now \in Int /\ credit \in Int /\ credit >= 0
  <2>1. shown = <<>> /\ now = 0 /\ credit = 0
    BY Zenon DEF RevealInit
  <2> QED
    BY <2>1
<1>2. ~fresh /\ fresh \in BOOLEAN /\ strict \in BOOLEAN
  BY Zenon DEF RevealInit
<1> QED
  BY <1>1, <1>2, Zenon DEF Spendable

(* A secret is let out, or a refusal recorded: under the strict setting it *)
(* costs the confirmation, otherwise nothing.                              *)
LEMMA Spent ==
    ASSUME Spendable, Spend, ~Unconfirmed, UNCHANGED strict, Out \/ UNCHANGED credit
    PROVE  /\ fresh' \in BOOLEAN /\ strict' \in BOOLEAN
           /\ credit' \in Int /\ credit' >= 0
           /\ fresh' => fresh /\ credit' >= 1
<1>1. CASE strict
  <2>1. fresh /\ ~fresh' /\ fresh' \in BOOLEAN
    BY <1>1, Zenon DEF Spendable, Spend, Unconfirmed
  <2>2. credit \in Int /\ credit >= 1
    BY <2>1, Zenon DEF Spendable
  <2>3. credit' = credit \/ credit' = credit - 1
    BY <1>1, Zenon DEF Out
  <2>4. credit' \in Int /\ credit' >= 0
    BY <2>2, <2>3
  <2> QED
    BY <2>1, <2>4, Zenon DEF Spendable
<1>2. CASE ~strict
  <2>1. (fresh' <=> fresh) /\ fresh' \in BOOLEAN
    BY <1>2, Zenon DEF Spendable, Spend
  <2>2. credit' = credit
    BY <1>2, Zenon DEF Out
  <2> QED
    BY <2>1, <2>2, Zenon DEF Spendable
<1> QED
  BY <1>1, <1>2, Zenon

LEMMA SpendableStep == Spendable /\ [RevealNext]_revealVars => Spendable'
<1> SUFFICES ASSUME Spendable, [RevealNext]_revealVars PROVE Spendable'
  OBVIOUS
<1> USE DEF limiter, revealGhosts
<1>1. ASSUME RevealRefused PROVE Spendable'
  <2>1. ~(fresh /\ shown = <<>>)
    BY <1>1, EmptyIsNotFull, Zenon DEF RevealRefused, Spendable
  <2>2. /\ Spend /\ ~Unconfirmed
        /\ shown' = shown /\ now' = now /\ credit' = credit /\ strict' = strict
    BY <1>1, Zenon DEF RevealRefused
  <2>3. fresh' \in BOOLEAN /\ strict' \in BOOLEAN /\ (fresh' => fresh)
    BY <2>2, Spent, Zenon
  <2> QED
    BY <2>1, <2>2, <2>3, Zenon DEF Spendable
<1>2. ASSUME Reveal PROVE Spendable'
  <2>1. shown \in Seq(Int) /\ now \in Int /\ shown' = Append(shown, now)
    BY <1>2, Zenon DEF Reveal, Spendable
  <2>2. shown' \in Seq(Int) /\ shown' # <<>>
    BY <2>1
  <2>3. /\ Spend /\ ~Unconfirmed /\ (Out \/ UNCHANGED credit)
        /\ now' = now /\ strict' = strict
    BY <1>2, Zenon DEF Reveal
  <2> QED
    BY <2>1, <2>2, <2>3, Spent, Zenon DEF Spendable
<1>3. ASSUME Copy PROVE Spendable'
  <2>1. /\ Spend /\ ~Unconfirmed /\ (Out \/ UNCHANGED credit)
        /\ at' = at /\ pending' = pending /\ shown' = shown
        /\ now' = now /\ strict' = strict
    BY <1>3, Zenon DEF Copy
  <2> QED
    BY <2>1, Spent, Zenon DEF Spendable
<1>4. ASSUME Reauthenticated PROVE Spendable'
  <2>1. at' = <<>> /\ ~pending' /\ fresh' /\ shown' = <<>> /\ now' = now /\ strict' = strict
    BY <1>4, Zenon DEF Reauthenticated
  <2>2. shown' \in Seq(Int)
    BY <2>1
  <2>3. credit' = credit + 1 /\ credit \in Int /\ credit >= 0
    BY <1>4, Zenon DEF Reauthenticated, Spendable
  <2>4. credit' \in Int /\ credit' >= 0 /\ credit' >= 1
    BY <2>3
  <2>5. fresh' \in BOOLEAN
    BY <1>4, Zenon DEF Reauthenticated
  <2> QED
    BY <2>1, <2>2, <2>4, <2>5, Zenon DEF Spendable
<1>5. ASSUME SetStrict \/ RevealUnlock \/ Tick \/ ClockSet \/ UNCHANGED revealVars
      PROVE Spendable'
  <2>1. /\ at' = at /\ pending' = pending /\ fresh' = fresh
        /\ shown' = shown /\ credit' = credit
    BY <1>5, Zenon DEF SetStrict, RevealUnlock, Tick, ClockSet, revealVars
  <2>2. now' = now \/ now' = now + 1
    BY <1>5, Zenon DEF SetStrict, RevealUnlock, Tick, ClockSet, revealVars
  <2>3. strict' = strict \/ strict' = ~strict
    BY <1>5, Zenon DEF SetStrict, RevealUnlock, Tick, ClockSet, revealVars
  <2>4. now \in Int /\ strict \in BOOLEAN
    BY Zenon DEF Spendable
  <2>5. now' \in Int
    BY <2>2, <2>4
  <2>6. strict' \in BOOLEAN
    BY <2>3, <2>4, Zenon
  <2> QED
    BY <2>1, <2>5, <2>6, Zenon DEF Spendable
<1>6. ASSUME RevealLock PROVE Spendable'
  <2>1. ~fresh' /\ fresh' \in BOOLEAN /\ shown' = <<>> /\ credit' = 0
        /\ now' = now /\ strict' = strict
    BY <1>6, Zenon DEF RevealLock
  <2>2. shown' \in Seq(Int) /\ credit' \in Int /\ credit' >= 0
    BY <2>1
  <2> QED
    BY <2>1, <2>2, Zenon DEF Spendable
<1> QED
  BY <1>1, <1>2, <1>3, <1>4, <1>5, <1>6, Zenon DEF RevealNext

\* take_fresh_reauth, check, reauthenticated and reset of reveal.rs: however
\* reveals, copies, refusals, locks, changes of the setting and settings of the
\* clock follow one another, a confirmation lets out at most one secret under the
\* strict setting, and lets the next reveal through.
THEOREM OneConfirmationOneSecret == RevealSpec => []OneSecretPerConfirmation
<1>1. RevealInit => Spendable
  BY SpendableInit
<1>2. Spendable /\ [RevealNext]_revealVars => Spendable'
  BY SpendableStep
<1>3. Spendable => OneSecretPerConfirmation
  BY EmptyIsNotFull DEF Spendable, OneSecretPerConfirmation
<1> QED
  BY <1>1, <1>2, <1>3, PTL DEF RevealSpec

-----------------------------------------------------------------------------
(* The rolling limit.                                                      *)

LEMMA LeastOfNaturals ==
    ASSUME NEW S \in SUBSET Nat, S # {}
    PROVE  \E k \in S : \A j \in S : k <= j
<1>1. \E x \in S : \A y \in S : ~ (<<y, x>> \in OpToRel(<, Nat))
  BY WFMin, NatLessThanWellFounded, Zenon
<1>2. PICK x \in S : \A y \in S : ~ (<<y, x>> \in OpToRel(<, Nat))
  BY <1>1, Zenon
<1>3. \A y \in S : ~ (y < x)
  BY <1>2, Zenon DEF OpToRel
<1> QED
  BY <1>3

\* Pruning takes a prefix off, all of it out of the window.
LEMMA PrunedIsSuffix ==
    ASSUME at \in Seq(Int), now \in Int, skew \in Int
    PROVE  \E d \in 0..Len(at) :
               /\ Pruned \in Seq(Int) /\ Len(Pruned) = Len(at) - d
               /\ \A i \in 1..(Len(at) - d) : Pruned[i] = at[d + i]
               /\ \A i \in 1..d : at[i] <= now + skew - WINDOW
<1> DEFINE kept == {k \in DOMAIN at : at[k] > Reading - WINDOW}
           first == CHOOSE k \in kept : \A j \in kept : k <= j
<1>1. DOMAIN at = 1..Len(at) /\ Len(at) \in Nat /\ \A i \in 1..Len(at) : at[i] \in Int
  OBVIOUS
<1>2. WINDOW \in Nat
  BY RevealAssumption
<1>3. CASE kept = {}
  <2>1. Pruned = <<>>
    BY <1>3 DEF Pruned
  <2>2. \A i \in 1..Len(at) : at[i] <= now + skew - WINDOW
    BY <1>1, <1>2, <1>3 DEF Reading
  <2>3. Len(at) \in 0..Len(at) /\ Pruned \in Seq(Int) /\ Len(Pruned) = Len(at) - Len(at)
    BY <2>1, <1>1
  <2>4. 1..(Len(at) - Len(at)) = {}
    BY <1>1
  <2> QED
    BY <2>2, <2>3, <2>4, Zenon
<1>4. CASE kept # {}
  <2>1. kept \in SUBSET Nat
    BY <1>1
  <2>2. \E k \in kept : \A j \in kept : k <= j
    BY <2>1, <1>4, LeastOfNaturals, Zenon
  <2>3. first \in kept /\ \A j \in kept : first <= j
    BY <2>2, Zenon
  <2>4. first \in 1..Len(at)
    BY <2>3, <1>1
  <2>5. Pruned = SubSeq(at, first, Len(at))
    BY <1>4, Zenon DEF Pruned
  <2> HIDE DEF first
  <2>6. Pruned \in Seq(Int) /\ Len(Pruned) = Len(at) - first + 1
    BY <2>4, <2>5, <1>1, SubSeqProperties
  <2>7. \A i \in 1..(Len(at) - first + 1) : Pruned[i] = at[first + i - 1]
    BY <2>4, <2>5, <1>1, SubSeqProperties
  <2>8. \A i \in 1..(first - 1) : at[i] <= now + skew - WINDOW
    <3> SUFFICES ASSUME NEW i \in 1..(first - 1) PROVE at[i] <= now + skew - WINDOW
      OBVIOUS
    <3>1. i \in DOMAIN at
      BY <2>4, <1>1
    <3>2. i \notin kept
      <4>1. first \in Int /\ i < first
        BY <2>4
      <4> QED
        BY <2>3, <4>1
    <3> QED
      BY <3>1, <3>2, <1>1, <1>2 DEF Reading
  <2>9. first - 1 \in 0..Len(at) /\ Len(at) - (first - 1) = Len(at) - first + 1
    BY <2>4, <1>1
  <2>10. \A i \in 1..(Len(at) - (first - 1)) : Pruned[i] = at[(first - 1) + i]
    BY <2>7, <2>4, <1>1
  <2> QED
    BY <2>6, <2>8, <2>9, <2>10
<1> QED
  BY <1>3, <1>4

\* How many of the reveals shown the limiter no longer remembers.
Forgotten == Len(shown) - Len(at)

\* The inductive invariant.  The limiter remembers the last reveals, at readings of
\* the clock that lie no further back than they do (unless the clock was set forward
\* since); what it has forgotten is out of the window.
Remembered ==
    /\ at \in Seq(Int) /\ Len(at) <= LIMIT
    /\ shown \in Seq(Nat) /\ steady \in 0..Len(shown)
    /\ now \in Nat /\ skew \in Int
    /\ Len(at) <= Len(shown)
    /\ \A j \in (steady + 1)..Len(shown) :
           IF j > Forgotten THEN at[j - Forgotten] >= shown[j] + skew
           ELSE shown[j] <= now - WINDOW

\* RollingLimit, without counting: of the reveals in the window that ends with the
\* k-th, none lies LIMIT or more before it.
Spread ==
    \A k \in DOMAIN shown : \A j \in (steady + 1)..k :
        shown[j] > shown[k] - WINDOW => j > k - LIMIT

LEMMA RememberedInit == RevealInit => Remembered /\ Spread
<1> SUFFICES ASSUME RevealInit PROVE Remembered /\ Spread
  OBVIOUS
<1>1. at = <<>> /\ shown = <<>> /\ steady = 0 /\ now = 0 /\ skew = 0
  BY Zenon DEF RevealInit
<1>2. LIMIT \in Nat
  BY RevealAssumption
<1> QED
  BY <1>1, <1>2 DEF Remembered, Spread, Forgotten

\* What is still remembered once the window has been pruned.
LEMMA PrunedRemembers ==
    ASSUME Remembered
    PROVE  /\ Pruned \in Seq(Int) /\ Len(Pruned) <= Len(at)
           /\ \A j \in (steady + 1)..Len(shown) :
                  IF j > Len(shown) - Len(Pruned)
                  THEN Pruned[j - (Len(shown) - Len(Pruned))] >= shown[j] + skew
                  ELSE shown[j] <= now - WINDOW
<1>1. PICK d \in 0..Len(at) :
          /\ Pruned \in Seq(Int) /\ Len(Pruned) = Len(at) - d
          /\ \A i \in 1..(Len(at) - d) : Pruned[i] = at[d + i]
          /\ \A i \in 1..d : at[i] <= now + skew - WINDOW
  BY PrunedIsSuffix DEF Remembered
<1>2. /\ Len(at) \in Nat /\ Len(shown) \in Nat /\ Len(at) <= Len(shown)
      /\ steady \in 0..Len(shown) /\ now \in Nat /\ skew \in Int /\ WINDOW \in Nat
  BY RevealAssumption DEF Remembered
<1>3. ASSUME NEW j \in (steady + 1)..Len(shown)
      PROVE  IF j > Len(shown) - Len(Pruned)
             THEN Pruned[j - (Len(shown) - Len(Pruned))] >= shown[j] + skew
             ELSE shown[j] <= now - WINDOW
  <2>1. j \in 1..Len(shown) /\ shown[j] \in Nat
    BY <1>2 DEF Remembered
  <2>2. IF j > Forgotten THEN at[j - Forgotten] >= shown[j] + skew
        ELSE shown[j] <= now - WINDOW
    BY DEF Remembered
  <2>3. Forgotten = Len(shown) - Len(at)
    BY DEF Forgotten
  <2>4. CASE j <= Forgotten
    BY <2>1, <2>2, <2>3, <2>4, <1>1, <1>2
  <2>5. CASE j > Forgotten /\ j <= Forgotten + d
    <3>0. j - Forgotten \in 1..d /\ j - Forgotten \in 1..Len(at)
      BY <2>1, <2>3, <2>5, <1>2
    <3>1. at[j - Forgotten] \in Int
      BY <3>0 DEF Remembered
    <3>2. at[j - Forgotten] <= now + skew - WINDOW
      BY <3>0, <1>1
    <3>3. shown[j] <= now - WINDOW
      BY <3>1, <3>2, <2>1, <2>2, <2>5, <1>2
    <3> QED
      BY <3>3, <2>3, <2>5, <2>1, <1>1, <1>2
  <2>6. CASE j > Forgotten + d
    <3> DEFINE i == j - Forgotten - d
    <3>1. i \in 1..(Len(at) - d) /\ d + i = j - Forgotten
      BY <2>1, <2>3, <2>6, <1>2
    <3>2. Pruned[i] = at[j - Forgotten]
      BY <3>1, <1>1
    <3>3. j - (Len(shown) - Len(Pruned)) = i /\ j > Len(shown) - Len(Pruned)
      BY <2>1, <2>3, <2>6, <1>1, <1>2
    <3>4. j > Forgotten
      BY <2>1, <2>3, <2>6, <1>2
    <3> QED
      BY <3>2, <3>3, <3>4, <2>2
  <2> QED
    BY <2>1, <2>3, <2>4, <2>5, <2>6, <1>2
<1> QED
  BY <1>1, <1>2, <1>3

LEMMA RevealRefusedRemembers ==
    ASSUME Remembered, Spread, RevealRefused
    PROVE  Remembered' /\ Spread'
<1>1. /\ at' = Pruned /\ shown' = shown /\ steady' = steady
      /\ now' = now /\ skew' = skew
  BY Zenon DEF RevealRefused, revealGhosts
<1>2. Spread'
  BY <1>1, Zenon DEF Spread
<1>3. Len(Pruned) <= LIMIT /\ Len(Pruned) <= Len(shown)
  <2>1. Len(at) \in Nat /\ Len(shown) \in Nat /\ Len(Pruned) \in Nat /\ LIMIT \in Nat
    BY PrunedRemembers, RevealAssumption DEF Remembered
  <2> QED
    BY <2>1, PrunedRemembers DEF Remembered
<1> QED
  BY <1>1, <1>2, <1>3, PrunedRemembers, Zenon DEF Remembered, Forgotten

LEMMA RevealRemembers ==
    ASSUME Remembered, Spread, Reveal
    PROVE  Remembered' /\ Spread'
<1> DEFINE n == Len(shown)
           m == Len(Pruned)
<1>1. /\ at' = Append(Pruned, now + skew) /\ shown' = Append(shown, now)
      /\ steady' = steady /\ now' = now /\ skew' = skew
  BY Zenon DEF Reveal, Reading
<1>2. ~(m >= LIMIT)
  BY Zenon DEF Reveal, Full
<1>3. /\ Pruned \in Seq(Int) /\ m \in Nat /\ n \in Nat /\ m <= n /\ m < LIMIT
      /\ steady \in 0..n /\ now \in Nat /\ skew \in Int
      /\ LIMIT \in Nat /\ WINDOW \in Nat \ {0}
      /\ shown \in Seq(Nat)
  BY <1>2, PrunedRemembers, RevealAssumption DEF Remembered
<1>4. /\ at' \in Seq(Int) /\ Len(at') = m + 1 /\ at'[m + 1] = now + skew
      /\ \A i \in 1..m : at'[i] = Pruned[i]
  BY <1>1, <1>3
<1>5. /\ shown' \in Seq(Nat) /\ Len(shown') = n + 1 /\ shown'[n + 1] = now
      /\ \A i \in 1..n : shown'[i] = shown[i]
  BY <1>1, <1>3
<1>6. \A j \in (steady + 1)..n :
          IF j > n - m THEN Pruned[j - (n - m)] >= shown[j] + skew
          ELSE shown[j] <= now - WINDOW
  BY PrunedRemembers
<1> HIDE DEF n, m
<1>7. Forgotten' = n - m
  BY <1>4, <1>5, <1>3 DEF Forgotten
<1>8. ASSUME NEW j \in (steady + 1)..(n + 1)
      PROVE  IF j > n - m THEN at'[j - (n - m)] >= shown'[j] + skew
             ELSE shown'[j] <= now - WINDOW
  <2>1. CASE j = n + 1
    <3>1. j > n - m /\ j - (n - m) = m + 1
      BY <2>1, <1>3
    <3> QED
      BY <2>1, <3>1, <1>3, <1>4, <1>5
  <2>2. CASE j # n + 1
    <3>1. j \in (steady + 1)..n /\ j \in 1..n
      BY <2>2, <1>3
    <3>2. shown'[j] = shown[j]
      BY <3>1, <1>5
    <3>3. j > n - m => at'[j - (n - m)] = Pruned[j - (n - m)]
      <4> SUFFICES ASSUME j > n - m PROVE at'[j - (n - m)] = Pruned[j - (n - m)]
        OBVIOUS
      <4>1. j - (n - m) \in 1..m
        BY <3>1, <1>3
      <4> QED
        BY <4>1, <1>4
    <3> QED
      BY <3>1, <3>2, <3>3, <1>6
  <2> QED
    BY <2>1, <2>2
<1>9. Remembered'
  <2>1. /\ at' \in Seq(Int) /\ Len(at') <= LIMIT /\ Len(at') <= Len(shown')
        /\ shown' \in Seq(Nat) /\ steady' \in 0..Len(shown')
        /\ now' \in Nat /\ skew' \in Int
    BY <1>1, <1>3, <1>4, <1>5
  <2>2. \A j \in (steady' + 1)..Len(shown') :
            IF j > Forgotten' THEN at'[j - Forgotten'] >= shown'[j] + skew'
            ELSE shown'[j] <= now' - WINDOW
    BY <1>1, <1>5, <1>7, <1>8, Zenon
  <2> QED
    BY <2>1, <2>2, Zenon DEF Remembered
<1>10. Spread'
  <2> SUFFICES ASSUME NEW k \in 1..(n + 1), NEW j \in (steady + 1)..k,
                      shown'[j] > shown'[k] - WINDOW
               PROVE  j > k - LIMIT
    <3>1. DOMAIN shown' = 1..(n + 1) /\ steady' = steady
      BY <1>1, <1>5
    <3> QED
      BY <3>1, Zenon DEF Spread
  <2>1. CASE k \in 1..n
    <3>1. j \in 1..n /\ shown'[k] = shown[k] /\ shown'[j] = shown[j]
      BY <2>1, <1>3, <1>5
    <3>2. k \in DOMAIN shown
      BY <2>1, <1>3 DEF n
    <3> QED
      BY <3>1, <3>2 DEF Spread
  <2>2. CASE k = n + 1 /\ j = n + 1
    BY <2>2, <1>3, RevealAssumption
  <2>3. CASE k = n + 1 /\ j # n + 1
    <3>1. j \in (steady + 1)..n /\ j \in 1..n /\ shown[j] \in Nat
      BY <2>3, <1>3 DEF n
    <3>2. shown[j] > now - WINDOW
      BY <3>1, <2>3, <1>5
    <3>3. j > n - m
      BY <3>1, <3>2, <1>6, <1>3
    <3> QED
      BY <2>3, <3>3, <3>1, <1>3
  <2> QED
    BY <2>1, <2>2, <2>3, <1>3
<1> QED
  BY <1>9, <1>10

LEMMA ForgottenAtLock ==
    ASSUME Remembered, at' = <<>>, shown' = <<>>, steady' = 0,
           now' = now, skew' = skew
    PROVE  Remembered' /\ Spread'
<1>1. LIMIT \in Nat
  BY RevealAssumption
<1> QED
  BY <1>1 DEF Remembered, Spread, Forgotten

LEMMA RememberedStill ==
    ASSUME Remembered, Spread, UNCHANGED <<at, shown, steady, skew>>,
           now' = now \/ now' = now + 1
    PROVE  Remembered' /\ Spread'
<1>1. Spread'
  BY Zenon DEF Spread
<1>2. now' \in Nat /\ now' >= now /\ now \in Nat /\ WINDOW \in Nat
  BY RevealAssumption DEF Remembered
<1>3. \A j \in (steady + 1)..Len(shown) : shown[j] <= now - WINDOW => shown[j] <= now' - WINDOW
  <2> TAKE j \in (steady + 1)..Len(shown)
  <2>1. shown[j] \in Nat
    BY DEF Remembered
  <2> QED
    BY <2>1, <1>2
<1>4. Remembered'
  BY <1>2, <1>3, Zenon DEF Remembered, Forgotten
<1> QED
  BY <1>1, <1>4

LEMMA ClockSetRemembers ==
    ASSUME Remembered, Spread, ClockSet
    PROVE  Remembered' /\ Spread'
<1>1. /\ UNCHANGED <<at, shown, now>> /\ skew' \in Int /\ skew \in Int
      /\ steady' = IF skew' > skew THEN Len(shown) ELSE steady
      /\ at \in Seq(Int) /\ shown \in Seq(Nat) /\ steady \in 0..Len(shown)
      /\ Len(at) <= Len(shown)
  BY RevealAssumption DEF ClockSet, Remembered, limiter
<1>2. CASE skew' > skew
  <2>1. steady' = Len(shown) /\ Len(shown) \in Nat
    BY <1>1, <1>2
  <2>2. \A k \in 0..Len(shown) : (steady' + 1)..k = {}
    BY <2>1
  <2> QED
    BY <1>1, <2>1, <2>2 DEF Remembered, Spread
<1>3. CASE ~(skew' > skew)
  <2>1. steady' = steady
    BY <1>1, <1>3
  <2>2. Spread'
    BY <1>1, <2>1, Zenon DEF Spread
  <2>3. \A j \in (steady + 1)..Len(shown) :
            j > Forgotten => at[j - Forgotten] >= shown[j] + skew'
    <3> SUFFICES ASSUME NEW j \in (steady + 1)..Len(shown), j > Forgotten
                 PROVE  at[j - Forgotten] >= shown[j] + skew'
      OBVIOUS
    <3>0. j - Forgotten \in 1..Len(at) /\ j \in 1..Len(shown)
      BY <1>1 DEF Forgotten
    <3>1. at[j - Forgotten] \in Int /\ shown[j] \in Int
      BY <3>0, <1>1
    <3>2. at[j - Forgotten] >= shown[j] + skew
      BY DEF Remembered
    <3> QED
      BY <3>1, <3>2, <1>1, <1>3
  <2>4. Remembered'
    BY <1>1, <2>1, <2>3, Zenon DEF Remembered, Forgotten
  <2> QED
    BY <2>2, <2>4
<1> QED
  BY <1>2, <1>3

LEMMA RememberedStep ==
    ASSUME Remembered, Spread, [RevealNext]_revealVars
    PROVE  Remembered' /\ Spread'
<1> USE DEF limiter, revealGhosts
<1>1. CASE RevealRefused
  BY <1>1, RevealRefusedRemembers
<1>2. CASE Reveal
  BY <1>2, RevealRemembers
<1>3. CASE Reauthenticated \/ RevealLock
  BY <1>3, ForgottenAtLock, Zenon DEF Reauthenticated, RevealLock
<1>4. CASE Copy \/ SetStrict \/ RevealUnlock \/ Tick \/ UNCHANGED revealVars
  BY <1>4, RememberedStill, Zenon DEF Copy, SetStrict, RevealUnlock, Tick, revealVars
<1>5. CASE ClockSet
  BY <1>5, ClockSetRemembers
<1> QED
  BY <1>1, <1>2, <1>3, <1>4, <1>5, Zenon DEF RevealNext

\* The count: LIMIT places hold at most LIMIT reveals.
LEMMA SpreadIsRolling == Remembered /\ Spread => RollingLimit
<1> SUFFICES ASSUME Remembered, Spread, NEW k \in DOMAIN shown
             PROVE  Cardinality({j \in (steady + 1)..k : shown[j] > shown[k] - WINDOW}) <= LIMIT
  BY DEF RollingLimit
<1> DEFINE near == {j \in (steady + 1)..k : shown[j] > shown[k] - WINDOW}
           places == (k - LIMIT + 1)..k
<1>1. k \in Nat /\ LIMIT \in Nat /\ steady \in Nat
  BY RevealAssumption DEF Remembered
<1>2. near \subseteq places
  BY <1>1 DEF Spread
<1>3. IsFiniteSet(places) /\ Cardinality(places) = LIMIT
  <2>1. k - LIMIT + 1 \in Int /\ k \in Int
    BY <1>1
  <2>2. IsFiniteSet(places)
        /\ Cardinality(places) = IF k - LIMIT + 1 > k THEN 0 ELSE k - (k - LIMIT + 1) + 1
    BY <2>1, FS_Interval
  <2> QED
    BY <2>2, <1>1
<1>4. Cardinality(near) <= Cardinality(places)
  BY <1>2, <1>3, FS_Subset
<1> QED
  BY <1>3, <1>4

\* RevealLimiter::check: of the reveals since the last confirmation or lock, and since
\* the clock was last set forward, no window of WINDOW holds more than LIMIT, whatever
\* refusals, copies and settings of the clock back come in between.
THEOREM AtMostLimitInTheWindow == RevealSpec => []RollingLimit
<1>1. RevealInit => Remembered /\ Spread
  BY RememberedInit
<1>2. (Remembered /\ Spread) /\ [RevealNext]_revealVars => (Remembered /\ Spread)'
  BY RememberedStep
<1>3. Remembered /\ Spread => RollingLimit
  BY SpreadIsRolling
<1> QED
  BY <1>1, <1>2, <1>3, PTL DEF RevealSpec

LEMMA FlagsStep ==
    ASSUME pending \in BOOLEAN, open \in BOOLEAN, [RevealNext]_revealVars
    PROVE  pending' \in BOOLEAN /\ open' \in BOOLEAN
  BY Zenon DEF RevealNext, RevealRefused, Reveal, Copy, Reauthenticated, SetStrict, RevealLock,
               RevealUnlock, Tick, ClockSet, revealVars, limiter

\* The limiter and the commands around it keep every variable's type; the window in
\* memory never holds more than LIMIT readings, whatever the clock does.
LEMMA RevealTypes == RevealSpec => []RevealTypeOK
<1> DEFINE Inv == Remembered /\ Spread /\ Spendable /\ pending \in BOOLEAN /\ open \in BOOLEAN
<1>1. RevealInit => Inv
  BY RememberedInit, SpendableInit DEF RevealInit
<1>2. Inv /\ [RevealNext]_revealVars => Inv'
  BY RememberedStep, SpendableStep, FlagsStep
<1>3. Inv => RevealTypeOK
  BY Zenon DEF Remembered, Spendable, RevealTypeOK
<1> QED
  BY <1>1, <1>2, <1>3, PTL DEF RevealSpec

-----------------------------------------------------------------------------
(* Preferences.                                                            *)

\* What the session manager holds of the last password unlock: nothing, or the
\* reading of a clock that has been set back no further than it is by now.
Noted ==
    \/ lastPassword = Never /\ typedOn = Never
    \/ typedOn \in Nat /\ lastPassword \in (typedOn - behind)..typedOn

PasswordNoted ==
    /\ day \in Nat /\ behind \in 0..MaxBack
    /\ Noted

LEMMA NotedInit == PrefInit => PasswordNoted
  BY PreferencesAssumption DEF PrefInit, PasswordNoted, Noted

LEMMA NotedNow ==
    ASSUME PasswordNoted, AdoptedByPassword, UNCHANGED dates
    PROVE  PasswordNoted' /\ typedOn' = day
  BY PreferencesAssumption DEF PasswordNoted, AdoptedByPassword, Noted, Clock, dates

LEMMA NotedEnded ==
    ASSUME PasswordNoted, Ended, UNCHANGED dates
    PROVE  PasswordNoted' /\ ~signedIn'
  BY DEF PasswordNoted, Noted, Ended, dates

\* The steps that leave the process's memory of passwords alone.
LEMMA NotedStill ==
    ASSUME PasswordNoted, UNCHANGED <<lastPassword, typedOn>>,
           \/ UNCHANGED dates
           \/ day' = day + 1 /\ behind' = behind
           \/ behind < MaxBack /\ behind' = behind + 1 /\ day' = day
    PROVE  PasswordNoted'
  BY PreferencesAssumption DEF PasswordNoted, Noted, dates

Recent == typedOn' # Never /\ day - typedOn' < REAUTH_INTERVAL + behind

LEMMA BiometricIsRecent == PasswordNoted /\ BiometricUnlock => Recent
<1> SUFFICES ASSUME PasswordNoted, BiometricUnlock PROVE Recent
  OBVIOUS
<1>1. /\ lastPassword # Never /\ ~(Clock - lastPassword >= REAUTH_INTERVAL)
      /\ typedOn' = typedOn
  BY DEF BiometricUnlock, password_unlock_due
<1>2. typedOn \in Nat /\ lastPassword \in (typedOn - behind)..typedOn
  BY <1>1 DEF PasswordNoted, Noted
<1>3. day - behind - lastPassword < REAUTH_INTERVAL
  BY <1>1, <1>2, PreferencesAssumption DEF PasswordNoted, Clock
<1> QED
  BY <1>1, <1>2, <1>3, PreferencesAssumption DEF Recent, PasswordNoted, Never

LEMMA NotedStep ==
    ASSUME PasswordNoted, [PrefNext]_prefVars
    PROVE  PasswordNoted' /\ (~signedIn /\ signedIn' => Recent)
<1> USE DEF dates, platform, process, unchangedByBiometrics
<1>1. ASSUME NEW o \in Owners, AccountCreate(o) PROVE PasswordNoted' /\ typedOn' = day
  BY <1>1, NotedNow DEF AccountCreate
<1>2. ASSUME PasswordUnlock PROVE PasswordNoted' /\ typedOn' = day
  BY <1>2, NotedNow DEF PasswordUnlock
<1>3. typedOn' = day => Recent
  BY PreferencesAssumption DEF PasswordNoted, Recent, Never
<1>4. ASSUME BiometricUnlock PROVE PasswordNoted' /\ Recent
  BY <1>4, NotedStill, BiometricIsRecent DEF BiometricUnlock
<1>5. ASSUME Exit \/ \E o \in Owners : RestoreOther(o) PROVE PasswordNoted' /\ ~signedIn'
  BY <1>5, NotedEnded DEF Exit, RestoreOther
<1>6. ASSUME PrefCut PROVE PasswordNoted' /\ (signedIn' => signedIn)
  <2>1. CASE Ended
    BY <1>6, <2>1, NotedEnded DEF PrefCut
  <2>2. CASE ~Ended
    <3>1. UNCHANGED <<lastPassword, typedOn, dates, signedIn>>
      BY <1>6, <2>2 DEF PrefCut
    <3> QED
      BY <3>1, NotedStill
  <2> QED
    BY <2>1, <2>2
<1>7. ASSUME SignOut PROVE PasswordNoted' /\ ~signedIn'
  BY <1>7, NotedStill DEF SignOut
<1>8. ASSUME \/ Launch \/ EnableVerified \/ EnrolReplace \/ EnrolKeep \/ FlagOn
             \/ Revoke \/ RevokeIgnored \/ FlagOff
             \/ \E value \in BOOLEAN : SetBiometric(value) \/ SetProtection(value)
             \/ ApplyProtection \/ SensorChanges \/ UNCHANGED prefVars
      PROVE PasswordNoted' /\ signedIn' = signedIn
  <2>1. UNCHANGED <<lastPassword, typedOn, dates, signedIn>>
    BY <1>8 DEF Launch, EnableVerified, EnrolReplace, EnrolKeep, FlagOn, Revoke, RevokeIgnored,
                FlagOff, SetBiometric, SetProtection, ApplyProtection, SensorChanges, prefVars
  <2> QED
    BY <2>1, NotedStill
<1>9. ASSUME DayPasses \/ ClockSetBack PROVE PasswordNoted' /\ signedIn' = signedIn
  BY <1>9, NotedStill DEF DayPasses, ClockSetBack
<1> QED
  BY <1>1, <1>2, <1>3, <1>4, <1>5, <1>6, <1>7, <1>8, <1>9 DEF PrefNext

\* adopt and password_unlock_due: whoever signs in, by whatever means and after
\* whatever enrolments, restores, restarts and cuts, typed the password in this
\* process less than the interval ago, by a clock no worse than it was set back.
THEOREM PasswordAlwaysRecent == PrefSpec => PasswordIsRecent
<1>1. PrefInit => PasswordNoted
  BY NotedInit
<1>2. PasswordNoted /\ [PrefNext]_prefVars => PasswordNoted'
  BY NotedStep
<1>3. PasswordNoted /\ [PrefNext]_prefVars
      => [~signedIn /\ signedIn' => typedOn' # Never /\ day - typedOn' < REAUTH_INTERVAL + behind]_prefVars
  BY NotedStep DEF Recent
<1> QED
  BY <1>1, <1>2, <1>3, PTL DEF PrefSpec, PasswordIsRecent

-----------------------------------------------------------------------------
(* What the settings say of the platform.                                  *)

\* A command in progress has a process and a vault to work on, and so has a session;
\* where there is no vault there is nothing to hide.
Grounded ==
    /\ PrefTypeOK
    /\ ~AtRest => HasFile
    /\ account = "none" => ~window

\* The secret and its flag, from the platform's call to the statement for the flag.
Paired ==
    /\ prefStep = "flag on" => secret.of = account
    /\ prefStep = "flag off" => secret = NoSecret \/ strayed
    /\ prefStep \notin {"flag on", "flag off"} /\ secret # NoSecret /\ ~strayed
       => flags.bio /\ secret.of = account

\* While the flag is on, and off settings_set's doing, no other account's secret opens.
OwnSecret == flags.bio /\ secret.usable /\ ~forced => secret.of = account

\* The window, up to the statement that applies the setting.
WindowSet ==
    running /\ account # "none" /\ prefStep # "apply" /\ ~unprotected => window = flags.hidden

\* The inductive invariant.
Agreed == Grounded /\ Paired /\ OwnSecret /\ WindowSet

LEMMA AgreedInit == PrefInit => Agreed
<1> SUFFICES ASSUME PrefInit PROVE Agreed
  OBVIOUS
<1>1. /\ account \in Owners \cup {"none"} /\ flags = Defaults
      /\ kind \in {"Windows", "macOS"} /\ sensor \in BOOLEAN
      /\ secret = NoSecret /\ running = FALSE /\ signedIn = FALSE /\ lastPassword = Never
      /\ window = FALSE /\ prefStep = "rest"
  BY Zenon DEF PrefInit
<1>2. Never \in Int
  BY PreferencesAssumption DEF Never
<1>3. flags \in [bio: BOOLEAN, hidden: BOOLEAN]
  BY <1>1 DEF Defaults
<1>4. ~secret.usable
  BY <1>1 DEF NoSecret
<1> QED
  BY <1>1, <1>2, <1>3, <1>4 DEF Agreed, Grounded, Paired, OwnSecret, WindowSet, PrefTypeOK,
                                 AtRest

\* A secret that no longer unwraps is otherwise the one it was.
LEMMA Unusable ==
    ASSUME secret \in [of: Owners, usable: BOOLEAN] \cup {NoSecret},
           secret' = [secret EXCEPT !.usable = FALSE]
    PROVE  /\ secret' \in [of: Owners, usable: BOOLEAN] \cup {NoSecret}
           /\ ~secret'.usable /\ secret'.of = secret.of
           /\ secret' = NoSecret <=> secret = NoSecret
<1>1. CASE secret = NoSecret
  BY <1>1 DEF NoSecret
<1>2. CASE secret \in [of: Owners, usable: BOOLEAN]
  <2>1. secret' \in [of: Owners, usable: BOOLEAN] /\ ~secret'.usable /\ secret'.of = secret.of
    BY <1>2
  <2>2. NoSecret.of \notin Owners
    BY PreferencesAssumption DEF NoSecret
  <2> QED
    BY <2>1, <2>2, <1>2
<1> QED
  BY <1>1, <1>2

\* Nor is one whose credential is gone another one.
LEMMA OrphanedSecret ==
    ASSUME secret \in [of: Owners, usable: BOOLEAN] \cup {NoSecret}, secret' = Orphaned
    PROVE  /\ secret' \in [of: Owners, usable: BOOLEAN] \cup {NoSecret}
           /\ secret'.usable => secret' = secret
           /\ secret'.of = secret.of
           /\ secret' = NoSecret <=> secret = NoSecret
<1>1. CASE secret' = secret
  BY <1>1
<1>2. CASE secret' = [secret EXCEPT !.usable = FALSE]
  BY <1>2, Unusable
<1> QED
  BY <1>1, <1>2 DEF Orphaned

\* Of a stored secret the owner is an account.
LEMMA SecretIsOwned ==
    ASSUME Grounded
    PROVE  /\ secret # NoSecret => secret.of \in Owners
           /\ ~NoSecret.usable
           /\ \A o \in Owners : o # "none" /\ NoSecret # [of |-> o, usable |-> TRUE]
<1>1. "none" \notin Owners /\ NoSecret.of = "none"
  BY PreferencesAssumption DEF NoSecret
<1> QED
  BY <1>1 DEF Grounded, PrefTypeOK, NoSecret

LEMMA FlagSet ==
    ASSUME flags \in [bio: BOOLEAN, hidden: BOOLEAN], NEW v \in BOOLEAN
    PROVE  /\ [flags EXCEPT !.bio = v] \in [bio: BOOLEAN, hidden: BOOLEAN]
           /\ [flags EXCEPT !.bio = v].bio = v
           /\ [flags EXCEPT !.bio = v].hidden = flags.hidden
           /\ [flags EXCEPT !.hidden = v] \in [bio: BOOLEAN, hidden: BOOLEAN]
           /\ [flags EXCEPT !.hidden = v].bio = flags.bio
           /\ [flags EXCEPT !.hidden = v].hidden = v
  OBVIOUS

LEMMA DefaultsAreOff ==
    Defaults \in [bio: BOOLEAN, hidden: BOOLEAN] /\ ~Defaults.bio /\ ~Defaults.hidden
  BY DEF Defaults

\* Where the process ends, what outlives it agrees.
LEMMA AgreedEnded ==
    ASSUME Grounded, lastPassword' \in Int, Ended,
           account' \in Owners \cup {"none"},
           flags' \in [bio: BOOLEAN, hidden: BOOLEAN],
           secret' \in [of: Owners, usable: BOOLEAN] \cup {NoSecret},
           kind' = kind /\ sensor' = sensor,
           secret' # NoSecret /\ ~strayed' => flags'.bio /\ secret'.of = account',
           OwnSecret'
    PROVE  Agreed'
<1>1. /\ running' = FALSE /\ signedIn' = FALSE /\ window' = FALSE /\ prefStep' = "rest"
  BY Zenon DEF Ended
<1>2. Grounded'
  BY <1>1 DEF Grounded, PrefTypeOK, AtRest
<1>3. Paired'
  BY <1>1 DEF Paired
<1>4. WindowSet'
  BY <1>1 DEF WindowSet
<1> QED
  BY <1>2, <1>3, <1>4 DEF Agreed

LEMMA ExitAgrees ==
    ASSUME Agreed, lastPassword' \in Int, Exit PROVE Agreed'
<1>1. Ended /\ UNCHANGED <<account, flags, kind, sensor, secret, strayed, forced>> /\ prefStep = "rest"
  BY Zenon DEF Exit, platform, prefGhosts, AtRest
<1>2. OwnSecret'
  BY <1>1, Zenon DEF Agreed, OwnSecret
<1>3. secret # NoSecret /\ ~strayed => flags.bio /\ secret.of = account
  BY <1>1 DEF Agreed, Paired
<1> QED
  BY <1>1, <1>2, <1>3, AgreedEnded DEF Agreed, Grounded, PrefTypeOK

LEMMA RestoreAgrees ==
    ASSUME Agreed, lastPassword' \in Int, NEW o \in Owners, RestoreOther(o) PROVE Agreed'
<1>1. /\ Ended /\ UNCHANGED <<kind, sensor, secret>>
      /\ account' = o /\ flags' = Defaults /\ strayed' = (secret # NoSecret)
  BY Zenon DEF RestoreOther, platform
<1>2. OwnSecret'
  BY <1>1, DefaultsAreOff, Zenon DEF OwnSecret
<1> QED
  BY <1>1, <1>2, AgreedEnded, DefaultsAreOff DEF Agreed, Grounded, PrefTypeOK

LEMMA CutAgrees ==
    ASSUME Agreed, lastPassword' \in Int, PrefCut PROVE Agreed'
<1>1. /\ UNCHANGED <<account, flags, kind, sensor, secret, forced>>
      /\ strayed' = (strayed \/ prefStep \in {"keep", "flag on", "flag off"})
      /\ unprotected' = (unprotected \/ prefStep = "apply")
      /\ prefStep # "rest"
  BY Zenon DEF PrefCut, platform, AtRest
<1>2. OwnSecret'
  BY <1>1, Zenon DEF Agreed, OwnSecret
<1>3. secret # NoSecret /\ ~strayed' => flags.bio /\ secret.of = account
  BY <1>1 DEF Agreed, Paired
<1>4. CASE Ended
  BY <1>1, <1>2, <1>3, <1>4, AgreedEnded DEF Agreed, Grounded, PrefTypeOK
<1>5. CASE ~Ended
  <2>1. prefStep' = "rest" /\ UNCHANGED <<running, signedIn, lastPassword, window>>
    BY <1>5, Zenon DEF PrefCut, process
  <2>2. Grounded'
    BY <1>1, <2>1 DEF Agreed, Grounded, PrefTypeOK, AtRest, HasFile
  <2>3. Paired'
    BY <1>1, <1>3, <2>1 DEF Paired
  <2>4. WindowSet'
    BY <1>1, <2>1 DEF Agreed, WindowSet
  <2> QED
    BY <1>2, <2>2, <2>3, <2>4 DEF Agreed
<1> QED
  BY <1>4, <1>5

\* Starting, signing in and out, and what happens around the program.
LEMMA ProcessAgrees ==
    ASSUME Agreed, lastPassword' \in Int,
           \/ Launch \/ PasswordUnlock \/ BiometricUnlock \/ SignOut
           \/ DayPasses \/ ClockSetBack \/ UNCHANGED prefVars
    PROVE  Agreed'
<1> USE DEF platform, process, prefGhosts
<1>1. UNCHANGED <<account, flags, kind, sensor, secret, prefStep, strayed, forced>>
  BY Zenon DEF Launch, PasswordUnlock, BiometricUnlock, SignOut, DayPasses, ClockSetBack, prefVars,
               AdoptedByPassword
<1>2. Paired' /\ OwnSecret'
  BY <1>1, Zenon DEF Agreed, Paired, OwnSecret
<1>3. CASE Launch
  <2>1. /\ running' = TRUE /\ signedIn' = signedIn
        /\ \/ window' = (account # "none" /\ flags.hidden)
           \/ window' = FALSE /\ unprotected' = TRUE
        /\ ~running
    BY <1>3, Zenon DEF Launch
  <2>2. flags.hidden \in BOOLEAN
    BY DEF Agreed, Grounded, PrefTypeOK
  <2>3. window' \in BOOLEAN /\ (account = "none" => ~window')
    BY <2>1, <2>2
  <2>4. ~signedIn /\ AtRest
    BY <2>1, Zenon DEF Agreed, Grounded, PrefTypeOK, HasFile
  <2>5. Grounded'
    BY <1>1, <2>1, <2>3, <2>4 DEF Agreed, Grounded, PrefTypeOK, AtRest
  <2>6. WindowSet'
    BY <1>1, <2>1, <2>2 DEF WindowSet
  <2> QED
    BY <1>2, <2>5, <2>6 DEF Agreed
<1>4. CASE ~Launch
  <2>1. /\ UNCHANGED <<running, window, unprotected>>
        /\ \/ signedIn' = signedIn
           \/ signedIn' = FALSE
           \/ signedIn' = TRUE /\ HasFile
    BY <1>4, Zenon DEF PasswordUnlock, BiometricUnlock, SignOut, DayPasses, ClockSetBack, prefVars,
                       AdoptedByPassword
  <2>2. Grounded'
    <3>1. signedIn' \in BOOLEAN /\ (signedIn' => HasFile) /\ (HasFile' <=> HasFile)
      <4>1. signedIn \in BOOLEAN /\ (signedIn => HasFile)
        BY DEF Agreed, Grounded, PrefTypeOK
      <4>2. HasFile' <=> HasFile
        BY <1>1, <2>1, Zenon DEF HasFile
      <4>3. CASE signedIn' = signedIn
        BY <4>1, <4>2, <4>3, Zenon
      <4>4. CASE signedIn' = FALSE
        BY <4>2, <4>4, Zenon
      <4>5. CASE signedIn' = TRUE /\ HasFile
        BY <4>2, <4>5, Zenon
      <4> QED
        BY <2>1, <4>3, <4>4, <4>5, Zenon
    <3>2. PrefTypeOK'
      <4>1. PrefTypeOK
        BY DEF Agreed, Grounded
      <4>2. running' \in BOOLEAN /\ window' \in BOOLEAN
        BY <2>1, <4>1, Zenon DEF PrefTypeOK
      <4>3. /\ account' \in Owners \cup {"none"} /\ flags' \in [bio: BOOLEAN, hidden: BOOLEAN]
            /\ kind' \in {"Windows", "macOS"} /\ sensor' \in BOOLEAN
        BY <1>1, <4>1, Zenon DEF PrefTypeOK
      <4>4. /\ secret' \in [of: Owners, usable: BOOLEAN] \cup {NoSecret}
            /\ prefStep' \in {"rest", "replace", "keep", "flag on", "flag off", "apply"}
        BY <1>1, <4>1, Zenon DEF PrefTypeOK
      <4> QED
        BY <3>1, <4>2, <4>3, <4>4, Zenon DEF PrefTypeOK
    <3>3. (~AtRest => HasFile)' /\ (account = "none" => ~window)'
      BY <1>1, <2>1, <3>1, Zenon DEF Agreed, Grounded, AtRest
    <3> QED
      BY <3>2, <3>3, Zenon DEF Grounded
  <2>3. WindowSet'
    BY <1>1, <2>1, Zenon DEF Agreed, WindowSet
  <2> QED
    BY <1>2, <2>2, <2>3 DEF Agreed
<1> QED
  BY <1>3, <1>4

LEMMA CreateAgrees ==
    ASSUME Agreed, lastPassword' \in Int, NEW o \in Owners, AccountCreate(o) PROVE Agreed'
<1>1. /\ account = "none" /\ account' = o /\ flags' = Defaults /\ signedIn' = TRUE
      /\ running /\ prefStep = "rest"
      /\ UNCHANGED <<kind, sensor, secret, running, window, prefStep, strayed, forced, unprotected>>
  BY Zenon DEF AccountCreate, AdoptedByPassword, platform, prefGhosts, AtRest
<1>2. ~window /\ running = TRUE
  BY <1>1 DEF Agreed, Grounded, PrefTypeOK
<1>3. secret # NoSecret => strayed
  BY <1>1, SecretIsOwned DEF Agreed, Paired
<1>4. o # "none"
  BY SecretIsOwned DEF Agreed
<1>5. Grounded'
  BY <1>1, <1>2, <1>4, DefaultsAreOff DEF Agreed, Grounded, PrefTypeOK, AtRest, HasFile
<1>6. Paired'
  BY <1>1, <1>3 DEF Paired
<1>7. OwnSecret'
  BY <1>1, DefaultsAreOff, Zenon DEF OwnSecret
<1>8. WindowSet'
  <2>1. window \in BOOLEAN
    BY DEF Agreed, Grounded, PrefTypeOK
  <2> QED
    BY <1>1, <1>2, <2>1 DEF WindowSet, Defaults
<1> QED
  BY <1>5, <1>6, <1>7, <1>8 DEF Agreed

\* The steps of biometric_enable and biometric_disable, and a sensor that changes,
\* leave the window and its setting alone.
LEMMA WindowAside ==
    ASSUME Agreed, lastPassword' \in Int,
           UNCHANGED <<account, kind, running, signedIn, window, unprotected>>,
           flags' \in [bio: BOOLEAN, hidden: BOOLEAN], flags'.hidden = flags.hidden,
           secret' \in [of: Owners, usable: BOOLEAN] \cup {NoSecret},
           sensor' \in BOOLEAN,
           prefStep' \in {"rest", "replace", "keep", "flag on", "flag off"},
           prefStep # "apply",
           prefStep' # "rest" => HasFile
    PROVE  Grounded' /\ WindowSet'
<1>1. Grounded'
  BY DEF Agreed, Grounded, PrefTypeOK, AtRest, HasFile
<1>2. WindowSet'
  BY Zenon DEF Agreed, WindowSet
<1> QED
  BY <1>1, <1>2

LEMMA BiometricsAgree ==
    ASSUME Agreed, lastPassword' \in Int,
           \/ EnableVerified \/ EnrolReplace \/ EnrolKeep \/ FlagOn
           \/ Revoke \/ RevokeIgnored \/ FlagOff
    PROVE  Agreed'
<1> USE DEF platform, process
<1>1. UNCHANGED <<account, kind, sensor, running, signedIn, window, unprotected>>
  BY Zenon DEF EnableVerified, EnrolReplace, EnrolKeep, FlagOn, Revoke, RevokeIgnored, FlagOff,
               unchangedByBiometrics
<1>2. /\ flags \in [bio: BOOLEAN, hidden: BOOLEAN] /\ sensor \in BOOLEAN
      /\ secret \in [of: Owners, usable: BOOLEAN] \cup {NoSecret}
      /\ prefStep # "rest" => HasFile
  BY DEF Agreed, Grounded, PrefTypeOK, AtRest
<1>3. HasFile => account \in Owners
  BY DEF Agreed, Grounded, PrefTypeOK, HasFile
<1>4. CASE EnableVerified
  <2>1. prefStep = "rest" /\ prefStep' = "replace" /\ HasFile
        /\ UNCHANGED <<flags, secret, strayed, forced>>
    BY <1>4, Zenon DEF EnableVerified, Step
  <2>2. Paired' /\ OwnSecret'
    BY <1>1, <2>1 DEF Agreed, Paired, OwnSecret
  <2> QED
    BY <1>1, <1>2, <2>1, <2>2, WindowAside DEF Agreed
<1>5. CASE EnrolReplace
  <2>1. prefStep = "replace" /\ prefStep' = "keep" /\ UNCHANGED <<flags, strayed, forced>>
    BY <1>5, Zenon DEF EnrolReplace, Step
  <2>2. secret' = NoSecret \/ secret' = Orphaned
    BY <1>5, Zenon DEF EnrolReplace
  <2>3. /\ secret' \in [of: Owners, usable: BOOLEAN] \cup {NoSecret}
        /\ secret'.usable => secret' = secret
        /\ secret' # NoSecret => secret # NoSecret /\ secret'.of = secret.of
    BY <1>2, <2>2, OrphanedSecret, SecretIsOwned DEF Agreed
  <2>4. Paired'
    BY <1>1, <2>1, <2>3 DEF Agreed, Paired
  <2>5. OwnSecret'
    <3>1. CASE secret' = secret
      BY <1>1, <2>1, <3>1, Zenon DEF Agreed, OwnSecret
    <3>2. CASE ~secret'.usable
      BY <3>2, Zenon DEF OwnSecret
    <3> QED
      BY <2>3, <3>1, <3>2
  <2> QED
    BY <1>1, <1>2, <2>1, <2>3, <2>4, <2>5, WindowAside DEF Agreed
<1>6. CASE EnrolKeep
  <2>1. prefStep = "keep" /\ prefStep' = "flag on" /\ UNCHANGED <<flags, strayed, forced>>
    BY <1>6, Zenon DEF EnrolKeep, Step
  <2>2. secret' = [of |-> account, usable |-> TRUE]
    BY <1>6, Zenon DEF EnrolKeep
  <2>3. secret' \in [of: Owners, usable: BOOLEAN] /\ secret'.of = account
    BY <1>2, <1>3, <2>1, <2>2
  <2>4. Paired'
    BY <1>1, <2>1, <2>3 DEF Paired
  <2>5. OwnSecret'
    BY <1>1, <2>3, Zenon DEF OwnSecret
  <2> QED
    BY <1>1, <1>2, <2>1, <2>3, <2>4, <2>5, WindowAside DEF Agreed
<1>7. CASE FlagOn
  <2>1. prefStep = "flag on" /\ prefStep' = "rest" /\ secret' = secret
        /\ flags' = [flags EXCEPT !.bio = TRUE]
    BY <1>7, Zenon DEF FlagOn, Step
  <2>2. flags' \in [bio: BOOLEAN, hidden: BOOLEAN] /\ flags'.bio /\ flags'.hidden = flags.hidden
    BY <1>2, <2>1
  <2>3. secret.of = account
    BY <2>1 DEF Agreed, Paired
  <2>4. Paired' /\ OwnSecret'
    BY <1>1, <2>1, <2>2, <2>3 DEF Paired, OwnSecret
  <2> QED
    BY <1>1, <1>2, <2>1, <2>2, <2>4, WindowAside DEF Agreed
<1>8. CASE Revoke
  <2>1. prefStep = "rest" /\ prefStep' = "flag off" /\ HasFile
        /\ secret' = NoSecret /\ UNCHANGED <<flags, strayed, forced>>
    BY <1>8, Zenon DEF Revoke, Step
  <2>2. Paired' /\ OwnSecret'
    BY <2>1, SecretIsOwned DEF Agreed, Paired, OwnSecret
  <2> QED
    BY <1>1, <1>2, <2>1, <2>2, WindowAside DEF Agreed
<1>9. CASE RevokeIgnored
  <2>1. prefStep = "rest" /\ prefStep' = "flag off" /\ HasFile
        /\ secret' = Orphaned /\ strayed' = TRUE /\ UNCHANGED <<flags, forced>>
    BY <1>9, Zenon DEF RevokeIgnored, Step
  <2>2. /\ secret' \in [of: Owners, usable: BOOLEAN] \cup {NoSecret}
        /\ secret'.usable => secret' = secret
    BY <1>2, <2>1, OrphanedSecret
  <2>3. Paired'
    BY <2>1 DEF Paired
  <2>4. OwnSecret'
    BY <1>1, <2>1, <2>2, Zenon DEF Agreed, OwnSecret
  <2> QED
    BY <1>1, <1>2, <2>1, <2>2, <2>3, <2>4, WindowAside DEF Agreed
<1>10. CASE FlagOff
  <2>1. prefStep = "flag off" /\ prefStep' = "rest" /\ secret' = secret
        /\ flags' = [flags EXCEPT !.bio = FALSE] /\ strayed' = (secret # NoSecret)
    BY <1>10, Zenon DEF FlagOff, Step
  <2>2. flags' \in [bio: BOOLEAN, hidden: BOOLEAN] /\ ~flags'.bio /\ flags'.hidden = flags.hidden
    BY <1>2, <2>1
  <2>3. Paired' /\ OwnSecret'
    BY <2>1, <2>2 DEF Paired, OwnSecret
  <2> QED
    BY <1>1, <1>2, <2>1, <2>2, <2>3, WindowAside DEF Agreed
<1> QED
  BY <1>4, <1>5, <1>6, <1>7, <1>8, <1>9, <1>10

LEMMA SensorAgrees ==
    ASSUME Agreed, lastPassword' \in Int, SensorChanges PROVE Agreed'
<1>1. /\ prefStep = "rest" /\ sensor' \in BOOLEAN /\ secret' = [secret EXCEPT !.usable = FALSE]
      /\ UNCHANGED <<account, flags, kind, running, signedIn, window, prefStep, strayed, forced, unprotected>>
  BY Zenon DEF SensorChanges, AtRest, process, prefGhosts
<1>2. /\ secret' \in [of: Owners, usable: BOOLEAN] \cup {NoSecret}
      /\ ~secret'.usable /\ secret'.of = secret.of /\ (secret' = NoSecret <=> secret = NoSecret)
  BY <1>1, Unusable DEF Agreed, Grounded, PrefTypeOK
<1>3. Paired' /\ OwnSecret'
  BY <1>1, <1>2 DEF Agreed, Paired, OwnSecret
<1>4. flags \in [bio: BOOLEAN, hidden: BOOLEAN]
  BY DEF Agreed, Grounded, PrefTypeOK
<1> QED
  BY <1>1, <1>2, <1>3, <1>4, WindowAside DEF Agreed

LEMMA SettingsAgree ==
    ASSUME Agreed, lastPassword' \in Int,
           NEW value \in BOOLEAN, SetBiometric(value) \/ SetProtection(value)
    PROVE  Agreed'
<1>1. /\ UNCHANGED <<account, kind, sensor, secret, running, signedIn, window, unprotected>>
      /\ prefStep = "rest" /\ HasFile
  BY Zenon DEF SetBiometric, SetProtection, unchangedByBiometrics, AtRest, Step
<1>2. /\ flags \in [bio: BOOLEAN, hidden: BOOLEAN] /\ sensor \in BOOLEAN
      /\ secret \in [of: Owners, usable: BOOLEAN] \cup {NoSecret}
  BY DEF Agreed, Grounded, PrefTypeOK
<1>3. CASE SetBiometric(value)
  <2>1. /\ flags' = [flags EXCEPT !.bio = value] /\ prefStep' = prefStep
        /\ strayed' = (strayed \/ value # flags.bio)
        /\ forced' = (value /\ (forced \/ ~flags.bio))
    BY <1>3, Zenon DEF SetBiometric
  <2>2. flags' \in [bio: BOOLEAN, hidden: BOOLEAN] /\ flags'.bio = value /\ flags'.hidden = flags.hidden
    BY <1>2, <2>1
  <2>3. flags.bio \in BOOLEAN
    BY <1>2
  <2>4. Paired'
    BY <1>1, <2>1, <2>2, <2>3 DEF Agreed, Paired
  <2>5. OwnSecret'
    BY <1>1, <2>1, <2>2, <2>3 DEF Agreed, OwnSecret
  <2> QED
    BY <1>1, <1>2, <2>1, <2>2, <2>4, <2>5, WindowAside DEF Agreed
<1>4. CASE SetProtection(value)
  <2>1. /\ flags' = [flags EXCEPT !.hidden = value] /\ prefStep' = "apply"
        /\ UNCHANGED <<strayed, forced>>
    BY <1>4, Zenon DEF SetProtection, Step
  <2>2. flags' \in [bio: BOOLEAN, hidden: BOOLEAN] /\ flags'.bio = flags.bio
    BY <1>2, <2>1
  <2>3. Grounded'
    BY <1>1, <2>1, <2>2 DEF Agreed, Grounded, PrefTypeOK, AtRest, HasFile
  <2>4. Paired' /\ OwnSecret'
    BY <1>1, <2>1, <2>2 DEF Agreed, Paired, OwnSecret
  <2>5. WindowSet'
    BY <2>1 DEF WindowSet
  <2> QED
    BY <2>3, <2>4, <2>5 DEF Agreed
<1> QED
  BY <1>3, <1>4

LEMMA ApplyAgrees ==
    ASSUME Agreed, lastPassword' \in Int, ApplyProtection PROVE Agreed'
<1>1. /\ UNCHANGED <<account, flags, kind, sensor, secret, running, signedIn, strayed, forced>>
      /\ prefStep = "apply" /\ prefStep' = "rest"
      /\ \/ window' = flags.hidden
         \/ window' = window /\ unprotected' = TRUE
  BY Zenon DEF ApplyProtection, Step, platform, process
<1>2. HasFile /\ flags.hidden \in BOOLEAN
  BY <1>1 DEF Agreed, Grounded, PrefTypeOK, AtRest
<1>3. Grounded'
  BY <1>1, <1>2 DEF Agreed, Grounded, PrefTypeOK, AtRest, HasFile
<1>4. Paired' /\ OwnSecret'
  BY <1>1 DEF Agreed, Paired, OwnSecret
<1>5. WindowSet'
  BY <1>1 DEF WindowSet
<1> QED
  BY <1>3, <1>4, <1>5 DEF Agreed

LEMMA AgreedStep ==
    ASSUME PasswordNoted, Agreed, [PrefNext]_prefVars
    PROVE  Agreed'
<1>1. lastPassword' \in Int
  <2>1. PasswordNoted'
    BY NotedStep
  <2> QED
    BY <2>1, PreferencesAssumption DEF PasswordNoted, Noted, Never
<1>2. CASE \/ Launch \/ PasswordUnlock \/ BiometricUnlock \/ SignOut
           \/ DayPasses \/ ClockSetBack \/ UNCHANGED prefVars
  BY <1>1, <1>2, ProcessAgrees
<1>3. CASE \/ EnableVerified \/ EnrolReplace \/ EnrolKeep \/ FlagOn
           \/ Revoke \/ RevokeIgnored \/ FlagOff
  BY <1>1, <1>3, BiometricsAgree
<1> QED
  BY <1>1, <1>2, <1>3, ExitAgrees, CreateAgrees, RestoreAgrees, SettingsAgree, ApplyAgrees,
     CutAgrees, SensorAgrees, Zenon DEF PrefNext

LEMMA AgreedAlways == PrefSpec => [](PasswordNoted /\ Agreed)
<1>1. PrefInit => PasswordNoted /\ Agreed
  BY NotedInit, AgreedInit
<1>2. (PasswordNoted /\ Agreed) /\ [PrefNext]_prefVars => (PasswordNoted /\ Agreed)'
  BY NotedStep, AgreedStep
<1> QED
  BY <1>1, <1>2, PTL DEF PrefSpec

\* biometric_enable, biometric_disable, settings_set, backup_restore and the start of
\* the program: through sensors that change, steps that fail and crashes between
\* them, a stored secret has its flag on and belongs to the vault at the path, the
\* flag never offers another account's password, and the window is protected as the
\* settings say, with the exceptions the ghosts name.
THEOREM SettingsMatchPlatform == PrefSpec => []PlatformAgrees
<1>1. Agreed => PlatformAgrees
  <2> SUFFICES ASSUME Agreed PROVE PlatformAgrees
    OBVIOUS
  <2>1. AtRest => prefStep \notin {"flag on", "flag off"} /\ prefStep # "apply"
    BY DEF AtRest
  <2>2. SecretHasItsFlag
    BY <2>1, Zenon DEF Agreed, Paired, SecretHasItsFlag
  <2>3. FlagMeansOwnSecret
    BY Zenon DEF Agreed, OwnSecret, FlagMeansOwnSecret
  <2>4. WindowFollowsSetting
    BY <2>1, Zenon DEF Agreed, WindowSet, WindowFollowsSetting
  <2> QED
    BY <2>2, <2>3, <2>4, Zenon DEF PlatformAgrees
<1> QED
  BY <1>1, AgreedAlways, PTL

\* The preferences, the platform and the process keep their types; and there is no
\* session without a process and a vault at the path.
LEMMA PreferenceTypes == PrefSpec => []PrefTypeOK
<1>1. Agreed => PrefTypeOK
  BY DEF Agreed, Grounded
<1> QED
  BY <1>1, AgreedAlways, PTL
=============================================================================
