---------------------------- MODULE BackupProofs ----------------------------
(***************************************************************************)
(* Proofs about Backup, for any machines, accounts, items and vaults, and  *)
(* any bounds.                                                             *)
(***************************************************************************)
EXTENDS Backup, TLAPS

\* A row that was written, and what a file or a container holds.
Row == [rev: Nat \ {0}, stamp: Nat, vault: Vaults, live: BOOLEAN]

Fields == {"acct", "rows", "sig", "history"}

Shaped(v) ==
    /\ v = [x \in Fields |-> v[x]]
    /\ v.rows \in [Items -> Row \cup {NoRow}]

\* A stamp is of one revision: f says of which.  So far there are n.
Numbered(v, f, n) ==
    \A i \in Items : v.rows[i] # NoRow =>
        v.rows[i].stamp \in 0..n /\ v.rows[i].rev = f[v.rows[i].stamp]

Sound(v, f, n) == Shaped(v) /\ Numbered(v, f, n)

\* The inductive invariant, of what is kept anywhere.
Kept(f) ==
    /\ \A m \in Machines : /\ Exists(m) => Sound(copy[m], f, edits)
                           /\ main[m] # NoVault => Sound(main[m], f, edits)
    /\ Whole => Sound(container.vault, f, edits)
    /\ job.step = "fill" => Sound(job.vault, f, edits)

\* Of the machines and the operation in progress.  A restore that replaces a vault
\* replaces one of another account, and nobody works on it.
Orderly ==
    /\ edits \in Nat
    /\ copy = [m \in Machines |-> copy[m]] /\ main = [m \in Machines |-> main[m]]
    /\ memSig = [m \in Machines |-> memSig[m]]
    /\ unlocked \in [Machines -> BOOLEAN] /\ torn \in [Machines -> BOOLEAN]
    /\ \A m \in Machines : /\ (main[m] = NoVault) <=> (copy[m] = NoVault)
                           /\ main[m].acct = copy[m].acct
                           /\ unlocked[m] => Exists(m)
    /\ Whole => container.torn \in BOOLEAN
    /\ \/ job = NoJob
       \/ job.step = "fill" /\ job.torn \in BOOLEAN
       \/ job.step = "reseal" /\ job.m \in Machines /\ Exists(job.m)
       \/ /\ job.step \in {"staged", "bare", "beside"} /\ job = [x \in {"step", "m"} |-> job[x]]
          /\ job.m \in Machines /\ ~unlocked[job.m] /\ Whole
          /\ Exists(job.m) => copy[job.m].acct # container.vault.acct

\* Of the signatures: in the file, in memory, in the container and on its way there.
SignedThrough ==
    /\ \A m \in Machines : ~torn[m] => /\ Exists(m) => Opens(copy[m])
                                       /\ unlocked[m] => memSig[m] = Signed(copy[m].rows)
    /\ Whole /\ ~container.torn => Opens(container.vault)
    /\ job.step = "fill" /\ ~job.torn => Opens(job.vault)

-----------------------------------------------------------------------------
(* Vaults and rows.                                                        *)

LEMMA ShapedExists == \A v : Shaped(v) => v # NoVault
<1> SUFFICES ASSUME NEW v, Shaped(v) PROVE v # NoVault
  OBVIOUS
<1>1. "rows" \in DOMAIN v
  BY DEF Shaped, Fields
<1>2. "rows" \notin DOMAIN NoVault
  BY DEF NoVault
<1> QED
  BY <1>1, <1>2

LEMMA RowFields ==
    /\ NoRow.rev = 0 /\ NoRow.live = FALSE
    /\ \A r \in Row : r # NoRow /\ r.rev > 0
    /\ \A r \in Row \cup {NoRow} : r.rev \in Nat /\ r.live \in BOOLEAN
<1>1. NoRow.rev = 0 /\ NoRow.live = FALSE /\ NoRow.live \in BOOLEAN
  BY DEF NoRow
<1>2. \A r \in Row : r.rev \in Nat /\ r.rev > 0 /\ r.live \in BOOLEAN
  BY DEF Row
<1>3. \A r \in Row : r # NoRow
  BY <1>1, <1>2
<1>4. \A r \in Row \cup {NoRow} : r.rev \in Nat /\ r.live \in BOOLEAN
  <2> TAKE r \in Row \cup {NoRow}
  <2>1. CASE r = NoRow
    BY <1>1, <2>1
  <2>2. CASE r \in Row
    BY <1>2, <2>2
  <2> QED
    BY <2>1, <2>2
<1> QED
  BY <1>1, <1>2, <1>3, <1>4, Zenon

\* Stamps go on, and those that were given stay as they are.
LEMMA SoundStill ==
    ASSUME NEW u, NEW f, NEW g, NEW k \in Nat, NEW n \in Nat, k <= n,
           \A s \in 0..k : g[s] = f[s], Sound(u, f, k)
    PROVE  Sound(u, g, n)
<1>1. ASSUME NEW i \in Items, u.rows[i] # NoRow
      PROVE  u.rows[i].stamp \in 0..n /\ u.rows[i].rev = g[u.rows[i].stamp]
  <2>1. u.rows[i].stamp \in 0..k /\ u.rows[i].rev = f[u.rows[i].stamp]
    BY <1>1 DEF Sound, Numbered
  <2> QED
    BY <2>1
<1> QED
  BY <1>1 DEF Sound, Numbered

LEMMA SealedIs ==
    ASSUME NEW v, Shaped(v), NEW s
    PROVE  LET u == [v EXCEPT !.sig = s]
           IN  Shaped(u) /\ u.rows = v.rows /\ u.acct = v.acct /\ u.sig = s
  BY DEF Shaped, Fields

\* A vault with other rows is sound if they are.
LEMMA SoundRows ==
    ASSUME NEW v, NEW u, NEW f, NEW g, NEW k \in Nat, NEW n \in Nat, k <= n,
           \A s \in 0..k : g[s] = f[s], Sound(v, f, k),
           u = [x \in Fields |-> u[x]], NEW i \in Items, NEW row \in Row \cup {NoRow},
           u.rows = [v.rows EXCEPT ![i] = row],
           row # NoRow => row.stamp \in 0..n /\ row.rev = g[row.stamp]
    PROVE  Sound(u, g, n)
<1>1. u.rows \in [Items -> Row \cup {NoRow}]
  BY DEF Sound, Shaped
<1>2. Sound(v, g, n)
  BY SoundStill
<1>3. Numbered(u, g, n)
  BY <1>2 DEF Sound, Shaped, Numbered
<1> QED
  BY <1>1, <1>3 DEF Sound, Shaped

\* What may become of a row: it goes forward, or is purged.
Onward(r, s) == s.rev >= r.rev \/ (~r.live /\ s = NoRow)

LEMMA StillOnward == \A r \in Row \cup {NoRow} : Onward(r, r)
  BY RowFields DEF Onward

\* What a step that works on the vault of one machine leaves there.
Worked(m, v, f, g) ==
    /\ copy' = [copy EXCEPT ![m] = v] /\ v.acct = copy[m].acct
    /\ Sound(v, g, edits') /\ edits' \in Nat /\ edits' >= edits
    /\ \A s \in 0..edits : g[s] = f[s]
    /\ \A i \in Items : Onward(copy[m].rows[i], v.rows[i])
    /\ memSig' = [n \in Machines |-> memSig'[n]] /\ torn' \in [Machines -> BOOLEAN]
    /\ \A n \in Machines \ {m} : memSig'[n] = memSig[n] /\ torn'[n] = torn[n]
    /\ ~torn'[m] => Opens(v) /\ (unlocked[m] => memSig'[m] = Signed(v.rows))

LEMMA WorkedWritten ==
    ASSUME NEW m \in Machines, NEW v, NEW f, NEW g, Orderly, Kept(f), Written(m, v),
           Shaped(v), v.acct = copy[m].acct,
           Sound(v, g, edits'), edits' \in Nat, edits' >= edits,
           \A s \in 0..edits : g[s] = f[s],
           \A i \in Items : Onward(copy[m].rows[i], v.rows[i])
    PROVE  \E u : Worked(m, u, f, g)
<1> DEFINE u == [v EXCEPT !.sig = Signed(v.rows)]
<1>1. /\ copy' = [copy EXCEPT ![m] = u]
      /\ memSig' = [memSig EXCEPT ![m] = Signed(v.rows)]
      /\ torn' = [torn EXCEPT ![m] = FALSE]
  BY Zenon DEF Written
<1>2. Shaped(u) /\ u.rows = v.rows /\ u.acct = v.acct /\ u.sig = Signed(v.rows)
  BY SealedIs
<1> HIDE DEF u
<1>3. Sound(u, g, edits')
  BY <1>2, Zenon DEF Sound, Numbered
<1>4. Opens(u)
  BY <1>2, Zenon DEF Opens
<1>5. /\ memSig' = [n \in Machines |-> memSig'[n]] /\ torn' \in [Machines -> BOOLEAN]
      /\ \A n \in Machines \ {m} : memSig'[n] = memSig[n] /\ torn'[n] = torn[n]
      /\ memSig'[m] = Signed(v.rows)
  BY <1>1 DEF Orderly
<1>6. Worked(m, u, f, g)
  BY <1>1, <1>2, <1>3, <1>4, <1>5, Zenon DEF Worked
<1> QED
  BY <1>6, Zenon

-----------------------------------------------------------------------------
(* What users do.                                                          *)

LEMMA UpsertedWorked ==
    ASSUME NEW f, Orderly, Kept(f), NEW m \in Machines, NEW i \in Items, NEW w \in Vaults, Edit(m)
    PROVE  LET v == Upserted(copy[m], i, w)
           IN  /\ v.acct = copy[m].acct
               /\ \E g : Sound(v, g, edits') /\ \A s \in 0..edits : g[s] = f[s]
               /\ \A j \in Items : Onward(copy[m].rows[j], v.rows[j])
<1> DEFINE r == copy[m].rows
           row == [rev |-> r[i].rev + 1, stamp |-> edits', vault |-> w, live |-> TRUE]
           v == Upserted(copy[m], i, w)
<1>1. edits' = edits + 1 /\ edits \in Nat /\ Exists(m) /\ Sound(copy[m], f, edits)
  BY Zenon DEF Edit, Orderly, Kept
<1>2. r \in [Items -> Row \cup {NoRow}] /\ r[i].rev \in Nat
  BY <1>1, RowFields DEF Sound, Shaped
<1>3. v.rows = [r EXCEPT ![i] = row] /\ v.acct = copy[m].acct /\ v = [x \in Fields |-> v[x]]
  BY <1>1 DEF Sound, Shaped, Fields, Upserted
<1> HIDE DEF v
<1>4. row \in Row /\ row.stamp = edits' /\ row.rev = r[i].rev + 1
  BY <1>1, <1>2 DEF Row
<1>5. \E g : g = [n \in 0..(edits + 1) |-> IF n = edits + 1 THEN r[i].rev + 1 ELSE f[n]]
  OBVIOUS
<1>6. PICK g : g = [n \in 0..(edits + 1) |-> IF n = edits + 1 THEN r[i].rev + 1 ELSE f[n]]
  BY <1>5
<1>7. g[edits + 1] = r[i].rev + 1 /\ \A s \in 0..edits : g[s] = f[s]
  BY <1>1, <1>6
<1>8. Sound(v, g, edits')
  <2>1. row.stamp \in 0..edits' /\ row.rev = g[row.stamp]
    BY <1>1, <1>4, <1>7
  <2>2. edits' \in Nat /\ edits <= edits'
    BY <1>1
  <2> HIDE DEF row
  <2> QED
    BY <2>1, <2>2, <1>1, <1>3, <1>4, <1>7, SoundRows
<1>9. \A j \in Items : Onward(r[j], v.rows[j])
  BY <1>2, <1>3, <1>4, StillOnward DEF Onward
<1> QED
  BY <1>3, <1>7, <1>8, <1>9, Zenon DEF v

LEMMA UpsertWorked ==
    ASSUME NEW f, Orderly, Kept(f), NEW m \in Machines, NEW i \in Items, NEW w \in Vaults,
           Upsert(m, i, w) \/ UpsertUnsealed(m, i, w)
    PROVE  \E v, g : Worked(m, v, f, g)
<1> DEFINE v == Upserted(copy[m], i, w)
<1>1. Edit(m)
  BY Zenon DEF Upsert, UpsertUnsealed
<1>2. PICK g : /\ Sound(v, g, edits') /\ \A s \in 0..edits : g[s] = f[s]
               /\ v.acct = copy[m].acct
               /\ \A j \in Items : Onward(copy[m].rows[j], v.rows[j])
  BY <1>1, UpsertedWorked
<1>3. edits' \in Nat /\ edits' >= edits
  BY <1>1 DEF Edit, Orderly
<1>4. CASE Upsert(m, i, w)
  <2>1. Written(m, v)
    BY <1>4, Zenon DEF Upsert
  <2>2. Shaped(v)
    BY <1>2, Zenon DEF Sound
  <2> HIDE DEF v
  <2> QED
    BY <1>2, <1>3, <2>1, <2>2, WorkedWritten
<1>5. CASE UpsertUnsealed(m, i, w)
  <2>1. /\ copy' = [copy EXCEPT ![m] = v] /\ torn' = [torn EXCEPT ![m] = TRUE]
        /\ memSig' \in {memSig, [memSig EXCEPT ![m] = Signed(copy'[m].rows)]}
    BY <1>5 DEF UpsertUnsealed
  <2> HIDE DEF v
  <2>2. /\ memSig' = [n \in Machines |-> memSig'[n]]
        /\ \A n \in Machines \ {m} : memSig'[n] = memSig[n]
    BY <2>1 DEF Orderly
  <2>3. /\ torn' \in [Machines -> BOOLEAN] /\ torn'[m]
        /\ \A n \in Machines \ {m} : torn'[n] = torn[n]
    BY <2>1 DEF Orderly
  <2>4. Worked(m, v, f, g)
    BY <1>2, <1>3, <2>1, <2>2, <2>3, Zenon DEF Worked
  <2> QED
    BY <2>4, Zenon
<1> QED
  BY <1>4, <1>5

LEMMA ToggleWorked ==
    ASSUME NEW f, Orderly, Kept(f), NEW m \in Machines, NEW i \in Items, Toggle(m, i)
    PROVE  \E v, g : Worked(m, v, f, g)
<1> DEFINE r == copy[m].rows
           row == [r[i] EXCEPT !.live = ~@]
           v == [copy[m] EXCEPT !.rows[i].live = ~@]
<1>1. /\ edits' = edits + 1 /\ edits \in Nat /\ Exists(m) /\ Sound(copy[m], f, edits)
      /\ r[i] # NoRow /\ Written(m, v)
  BY Zenon DEF Toggle, Edit, Orderly, Kept
<1>2. r \in [Items -> Row \cup {NoRow}] /\ r[i] \in Row
  BY <1>1 DEF Sound, Shaped
<1>3. v.rows = [r EXCEPT ![i] = row] /\ v.acct = copy[m].acct /\ v = [x \in Fields |-> v[x]]
  BY <1>1 DEF Sound, Shaped, Fields
<1> HIDE DEF v
<1>4. row \in Row /\ row.stamp = r[i].stamp /\ row.rev = r[i].rev
  BY <1>2 DEF Row
<1>5. r[i].stamp \in 0..edits /\ r[i].rev = f[r[i].stamp]
  BY <1>1 DEF Sound, Numbered
<1> HIDE DEF row
<1>6. edits' \in Nat /\ edits' >= edits /\ row.stamp \in 0..edits'
  BY <1>1, <1>4, <1>5
<1>7. Sound(v, f, edits')
  BY <1>1, <1>3, <1>4, <1>5, <1>6, SoundRows
<1>8. \A j \in Items : Onward(r[j], v.rows[j])
  BY <1>2, <1>3, <1>4, StillOnward, RowFields DEF Onward
<1>9. Shaped(v)
  BY <1>7, Zenon DEF Sound
<1> QED
  BY <1>1, <1>3, <1>6, <1>7, <1>8, <1>9, WorkedWritten

LEMMA MoveWorked ==
    ASSUME NEW f, Orderly, Kept(f), NEW m \in Machines, NEW i \in Items, NEW w \in Vaults,
           Move(m, i, w)
    PROVE  \E v, g : Worked(m, v, f, g)
<1> DEFINE r == copy[m].rows
           row == [r[i] EXCEPT !.vault = w]
           v == [copy[m] EXCEPT !.rows[i].vault = w, !.history[i] = [e \in DOMAIN @ |-> w]]
<1>1. /\ edits' = edits + 1 /\ edits \in Nat /\ Exists(m) /\ Sound(copy[m], f, edits)
      /\ r[i].live /\ Written(m, v)
  BY Zenon DEF Move, Edit, Orderly, Kept
<1>2. r \in [Items -> Row \cup {NoRow}] /\ r[i] \in Row
  BY <1>1, RowFields DEF Sound, Shaped
<1>3. v.rows = [r EXCEPT ![i] = row] /\ v.acct = copy[m].acct /\ v = [x \in Fields |-> v[x]]
  BY <1>1 DEF Sound, Shaped, Fields
<1> HIDE DEF v
<1>4. row \in Row /\ row.stamp = r[i].stamp /\ row.rev = r[i].rev
  BY <1>2 DEF Row
<1>5. r[i].stamp \in 0..edits /\ r[i].rev = f[r[i].stamp]
  BY <1>1, <1>2, RowFields DEF Sound, Numbered
<1> HIDE DEF row
<1>6. edits' \in Nat /\ edits' >= edits /\ row.stamp \in 0..edits'
  BY <1>1, <1>4, <1>5
<1>7. Sound(v, f, edits')
  BY <1>1, <1>3, <1>4, <1>5, <1>6, SoundRows
<1>8. \A j \in Items : Onward(r[j], v.rows[j])
  BY <1>2, <1>3, <1>4, StillOnward, RowFields DEF Onward
<1>9. Shaped(v)
  BY <1>7, Zenon DEF Sound
<1> QED
  BY <1>1, <1>3, <1>6, <1>7, <1>8, <1>9, WorkedWritten

\* A purge takes nothing out of what is signed.
LEMMA PurgeWorked ==
    ASSUME NEW f, Orderly, Kept(f), SignedThrough, NEW m \in Machines, NEW i \in Items,
           Purge(m, i)
    PROVE  \E v, g : Worked(m, v, f, g)
<1> DEFINE r == copy[m].rows
           v == [copy[m] EXCEPT !.rows[i] = NoRow, !.history[i] = <<>>]
<1>1. /\ edits' = edits + 1 /\ edits \in Nat /\ Exists(m) /\ Sound(copy[m], f, edits)
      /\ r[i] # NoRow /\ ~r[i].live /\ unlocked[m]
      /\ memSig' = memSig /\ torn' = torn
  BY Zenon DEF Purge, Edit, Orderly, Kept
<1>2. copy' = [copy EXCEPT ![m].rows[i] = NoRow, ![m].history[i] = <<>>]
  BY Zenon DEF Purge
<1>3. copy' = [copy EXCEPT ![m] = v]
  BY <1>2 DEF Orderly
<1>4. r \in [Items -> Row \cup {NoRow}]
  BY <1>1 DEF Sound, Shaped
<1>5. /\ v.rows = [r EXCEPT ![i] = NoRow] /\ v.acct = copy[m].acct /\ v = [x \in Fields |-> v[x]]
      /\ v.sig = copy[m].sig
  BY <1>1 DEF Sound, Shaped, Fields
<1> HIDE DEF v
<1>6. edits' \in Nat /\ edits' >= edits
  BY <1>1
<1>7. Sound(v, f, edits')
  BY <1>1, <1>5, <1>6, SoundRows
<1>8. \A j \in Items : Onward(r[j], v.rows[j])
  BY <1>1, <1>4, <1>5, StillOnward DEF Onward
<1>9. Signed(v.rows) = Signed(r)
  <2>1. {j \in Items : v.rows[j].live} = {j \in Items : r[j].live}
    BY <1>1, <1>4, <1>5, RowFields
  <2>2. \A j \in {k \in Items : r[k].live} : v.rows[j] = r[j]
    BY <1>1, <1>4, <1>5
  <2> QED
    BY <2>1, <2>2 DEF Signed
<1>10. ~torn'[m] => Opens(v) /\ memSig'[m] = Signed(v.rows)
  BY <1>1, <1>5, <1>9, Zenon DEF SignedThrough, Opens
<1>11. Worked(m, v, f, f)
  BY <1>1, <1>3, <1>5, <1>6, <1>7, <1>8, <1>10 DEF Worked, Orderly
<1> QED
  BY <1>11, Zenon

-----------------------------------------------------------------------------
(* The invariant through a step that works on one vault.                   *)

LEMMA WorkedKeeps ==
    ASSUME NEW f, NEW g, NEW m \in Machines, NEW v, Orderly, Kept(f), Exists(m),
           Worked(m, v, f, g), UNCHANGED <<main, container>>, job'.step # "fill"
    PROVE  Kept(g)'
<1>1. edits \in Nat /\ edits' \in Nat /\ edits <= edits' /\ \A s \in 0..edits : g[s] = f[s]
  BY DEF Orderly, Worked
<1>2. \A u : Sound(u, f, edits) => Sound(u, g, edits')
  BY <1>1, SoundStill
<1>3. \A n \in Machines : Exists(n)' => Sound(copy'[n], g, edits')
  <2> SUFFICES ASSUME NEW n \in Machines, Exists(n)' PROVE Sound(copy'[n], g, edits')
    OBVIOUS
  <2>1. CASE n = m
    <3>1. copy'[n] = v /\ Sound(v, g, edits')
      BY <2>1 DEF Orderly, Worked
    <3> QED
      BY <3>1, Zenon
  <2>2. CASE n # m
    <3>1. copy'[n] = copy[n]
      BY <2>2 DEF Orderly, Worked
    <3>2. Exists(n)
      BY <3>1, Zenon DEF Exists
    <3>3. Sound(copy[n], f, edits)
      BY <3>2, Zenon DEF Kept
    <3> QED
      BY <1>2, <3>1, <3>3, Zenon
  <2> QED
    BY <2>1, <2>2
<1>4. \A n \in Machines : main[n] # NoVault => Sound(main[n], g, edits')
  BY <1>2, Zenon DEF Kept
<1>5. Whole => Sound(container.vault, g, edits')
  BY <1>2, Zenon DEF Kept
<1> QED
  BY <1>3, <1>4, <1>5, Zenon DEF Kept, Whole

LEMMA WorkedSigned ==
    ASSUME NEW f, NEW g, NEW m \in Machines, NEW v, Orderly, SignedThrough, Exists(m),
           Worked(m, v, f, g), UNCHANGED <<unlocked, container>>, job'.step # "fill"
    PROVE  SignedThrough'
<1>1. \A n \in Machines : ~torn'[n] => /\ Exists(n)' => Opens(copy'[n])
                                       /\ unlocked[n] => memSig'[n] = Signed(copy'[n].rows)
  <2> SUFFICES ASSUME NEW n \in Machines, ~torn'[n]
               PROVE  /\ Exists(n)' => Opens(copy'[n])
                      /\ unlocked[n] => memSig'[n] = Signed(copy'[n].rows)
    OBVIOUS
  <2>1. CASE n = m
    <3>1. copy'[n] = v
      BY <2>1 DEF Orderly, Worked
    <3> QED
      BY <2>1, <3>1, Zenon DEF Worked
  <2>2. CASE n # m
    <3>1. copy'[n] = copy[n]
      BY <2>2 DEF Orderly, Worked
    <3>2. memSig'[n] = memSig[n] /\ torn'[n] = torn[n]
      BY <2>2 DEF Worked
    <3> QED
      BY <3>1, <3>2, Zenon DEF SignedThrough, Exists
  <2> QED
    BY <2>1, <2>2
<1>2. Whole /\ ~container.torn => Opens(container.vault)
  BY Zenon DEF SignedThrough
<1> QED
  BY <1>1, <1>2, Zenon DEF SignedThrough, Whole, Opens

\* The vault stays where it is, its account the same, and no row goes back.
LEMMA WorkedOnward ==
    ASSUME NEW f, NEW g, NEW m \in Machines, NEW v, Orderly, Kept(f), Exists(m),
           Worked(m, v, f, g)
    PROVE  /\ copy' = [n \in Machines |-> copy'[n]]
           /\ \A n \in Machines : /\ Exists(n)' <=> Exists(n)
                                  /\ copy'[n].acct = copy[n].acct
           /\ \A n \in Machines : Exists(n) =>
                \A i \in Items : Onward(copy[n].rows[i], copy'[n].rows[i])
<1>1. copy' = [copy EXCEPT ![m] = v] /\ v.acct = copy[m].acct
  BY Zenon DEF Worked
<1>2. /\ copy' = [n \in Machines |-> copy'[n]] /\ copy'[m] = v
      /\ \A n \in Machines \ {m} : copy'[n] = copy[n]
  BY <1>1 DEF Orderly
<1>3. v # NoVault
  BY ShapedExists, Zenon DEF Worked, Sound
<1>4. \A n \in Machines : Exists(n)' <=> Exists(n)
  BY <1>2, <1>3 DEF Exists
<1>5. \A n \in Machines : copy'[n].acct = copy[n].acct
  BY <1>1, <1>2
<1>6. ASSUME NEW n \in Machines, Exists(n), NEW i \in Items
      PROVE  Onward(copy[n].rows[i], copy'[n].rows[i])
  <2>1. CASE n = m
    BY <1>2, <2>1, Zenon DEF Worked
  <2>2. CASE n # m
    <3>1. copy[n].rows[i] \in Row \cup {NoRow}
      BY <1>6 DEF Kept, Sound, Shaped
    <3> QED
      BY <1>2, <2>2, <3>1, StillOnward
  <2> QED
    BY <2>1, <2>2
<1> QED
  BY <1>2, <1>4, <1>5, <1>6

\* What NoRollback says of one step.
NothingLost ==
    \A m \in Machines :
        Exists(m) /\ copy'[m].acct = copy[m].acct /\ ~(job.step = "staged" /\ main[m] # copy[m])
        => \A i \in Items : Onward(copy[m].rows[i], copy'[m].rows[i])

Good(f) == Orderly /\ Kept(f) /\ SignedThrough

UserActs(m) ==
    \/ \E i \in Items : Toggle(m, i) \/ Purge(m, i)
    \/ \E i \in Items, w \in Vaults : Upsert(m, i, w) \/ UpsertUnsealed(m, i, w) \/ Move(m, i, w)

LEMMA UserActsEdit == \A m \in Machines : UserActs(m) => Edit(m)
<1> SUFFICES ASSUME NEW m \in Machines, UserActs(m) PROVE Edit(m)
  OBVIOUS
<1>1. \A i : Toggle(m, i) \/ Purge(m, i) => Edit(m)
  BY Zenon DEF Toggle, Purge
<1>2. \A i, w : Upsert(m, i, w) \/ UpsertUnsealed(m, i, w) \/ Move(m, i, w) => Edit(m)
  BY Zenon DEF Upsert, UpsertUnsealed, Move
<1> QED
  BY <1>1, <1>2, Zenon DEF UserActs

LEMMA UserStep ==
    ASSUME NEW f, Good(f), NEW m \in Machines, UserActs(m)
    PROVE  (\E g : Good(g)') /\ NothingLost
<1>1. PICK v, g : Worked(m, v, f, g)
  BY UpsertWorked, ToggleWorked, MoveWorked, PurgeWorked, Zenon DEF UserActs, Good
<1>2. Edit(m)
  BY UserActsEdit
<1>3. /\ UNCHANGED <<main, unlocked, container, job>> /\ job = NoJob /\ Exists(m)
      /\ Orderly /\ Kept(f) /\ SignedThrough
  BY <1>2, Zenon DEF Edit, Good, Orderly, Idle
<1>4. job'.step # "fill"
  BY <1>3 DEF NoJob
<1>5. Kept(g)' /\ SignedThrough'
  BY <1>1, <1>3, <1>4, WorkedKeeps, WorkedSigned
<1>6. /\ copy' = [n \in Machines |-> copy'[n]]
      /\ \A n \in Machines : /\ Exists(n)' <=> Exists(n)
                             /\ copy'[n].acct = copy[n].acct
      /\ \A n \in Machines : Exists(n) =>
           \A i \in Items : Onward(copy[n].rows[i], copy'[n].rows[i])
  BY <1>1, <1>3, WorkedOnward
<1>7. edits' \in Nat /\ memSig' = [n \in Machines |-> memSig'[n]] /\ torn' \in [Machines -> BOOLEAN]
  BY <1>1, Zenon DEF Worked
<1>8. Orderly'
  <2>1. \A n \in Machines : /\ (main[n] = NoVault) <=> (copy'[n] = NoVault)
                            /\ main[n].acct = copy'[n].acct
                            /\ unlocked[n] => Exists(n)'
    BY <1>3, <1>6 DEF Orderly, Exists
  <2> QED
    BY <1>3, <1>6, <1>7, <2>1, Zenon DEF Orderly, Whole
<1> QED
  BY <1>5, <1>6, <1>8, Zenon DEF Good, NothingLost

-----------------------------------------------------------------------------
(* Locking, checkpoints and the container.                                 *)

\* The steps that leave the files alone, but for what is in the main one.
LEMMA FilesStill ==
    ASSUME NEW f, Good(f), UNCHANGED <<copy, edits>>
    PROVE  NothingLost
<1> SUFFICES ASSUME NEW m \in Machines, Exists(m), NEW i \in Items
             PROVE  Onward(copy[m].rows[i], copy'[m].rows[i])
  BY DEF NothingLost
<1>1. copy[m].rows[i] \in Row \cup {NoRow}
  BY DEF Good, Kept, Sound, Shaped
<1> QED
  BY <1>1, StillOnward

LEMMA UnlockStep ==
    ASSUME NEW f, Good(f), NEW m \in Machines, UnlockVault(m)
    PROVE  Good(f)' /\ NothingLost
<1>1. /\ job = NoJob /\ Exists(m) /\ Opens(copy[m])
      /\ unlocked' = [unlocked EXCEPT ![m] = TRUE]
      /\ memSig' = [memSig EXCEPT ![m] = copy[m].sig]
      /\ UNCHANGED <<copy, main, container, job, edits, torn>>
  BY Zenon DEF UnlockVault, Idle
<1>2. Orderly /\ Kept(f) /\ SignedThrough
  BY Zenon DEF Good
<1>3. /\ unlocked' \in [Machines -> BOOLEAN] /\ memSig' = [n \in Machines |-> memSig'[n]]
      /\ memSig'[m] = copy[m].sig
      /\ \A n \in Machines \ {m} : unlocked'[n] = unlocked[n] /\ memSig'[n] = memSig[n]
  BY <1>1, <1>2 DEF Orderly
<1>4. Kept(f)'
  BY <1>1, <1>2, Zenon DEF Kept, Exists, Whole
<1>5. memSig'[m] = Signed(copy[m].rows)
  BY <1>1, <1>3, Zenon DEF Opens
<1>6. SignedThrough'
  BY <1>1, <1>2, <1>3, <1>5, Zenon DEF SignedThrough, Exists, Whole, Opens
<1>7. \A n \in Machines : unlocked'[n] => Exists(n)
  BY <1>1, <1>2, <1>3 DEF Orderly
<1>8. Orderly'
  BY <1>1, <1>2, <1>3, <1>7, Zenon DEF Orderly, Exists, Whole
<1> QED
  BY <1>1, <1>4, <1>6, <1>8, FilesStill, Zenon DEF Good

\* A session ends, and with it perhaps the operation in progress.
LEMMA LockKeeps ==
    ASSUME NEW f, Good(f), NEW m, unlocked' = [unlocked EXCEPT ![m] = FALSE],
           UNCHANGED <<copy, main, memSig, container, edits, torn>>,
           job' \in {job, NoJob}
    PROVE  Good(f)' /\ NothingLost
<1>1. Orderly /\ Kept(f) /\ SignedThrough
  BY Zenon DEF Good
<1>2. unlocked' \in [Machines -> BOOLEAN] /\ \A n \in Machines : unlocked'[n] => unlocked[n]
  BY <1>1 DEF Orderly
<1>3. NoJob.step = "none"
  BY DEF NoJob
<1>4. Kept(f)'
  BY <1>1, <1>3 DEF Kept, Exists, Whole
<1>5. SignedThrough'
  BY <1>1, <1>2, <1>3 DEF SignedThrough, Exists, Whole, Opens
<1>6. job' = NoJob \/ job' = job
  OBVIOUS
<1>7. \/ job' = NoJob
      \/ job'.step = "fill" /\ job'.torn \in BOOLEAN
      \/ job'.step = "reseal" /\ job'.m \in Machines /\ Exists(job'.m)
      \/ /\ job'.step \in {"staged", "bare", "beside"} /\ job' = [x \in {"step", "m"} |-> job'[x]]
         /\ job'.m \in Machines /\ ~unlocked'[job'.m] /\ Whole
         /\ Exists(job'.m) => copy[job'.m].acct # container.vault.acct
  <2>1. CASE job' = NoJob
    BY <2>1
  <2>2. CASE job' = job
    BY <1>1, <1>2, <2>2, Zenon DEF Orderly
  <2> QED
    BY <1>6, <2>1, <2>2
<1>8. \A n \in Machines : unlocked'[n] => Exists(n)
  BY <1>1, <1>2, Zenon DEF Orderly
<1>9. Orderly'
  BY <1>1, <1>2, <1>7, <1>8, Zenon DEF Orderly, Exists, Whole
<1> QED
  BY <1>4, <1>5, <1>9, FilesStill, Zenon DEF Good

LEMMA CheckpointStep ==
    ASSUME NEW f, Good(f), NEW m \in Machines, Checkpoint(m)
    PROVE  Good(f)' /\ NothingLost
<1>1. /\ main' = [main EXCEPT ![m] = copy[m]]
      /\ UNCHANGED <<copy, unlocked, memSig, container, job, edits, torn>>
  BY Zenon DEF Checkpoint
<1>2. Orderly /\ Kept(f) /\ SignedThrough
  BY Zenon DEF Good
<1>3. /\ main' = [n \in Machines |-> main'[n]] /\ main'[m] = copy[m]
      /\ \A n \in Machines \ {m} : main'[n] = main[n]
  BY <1>1, <1>2 DEF Orderly
<1>4. \A n \in Machines : main'[n] # NoVault => Sound(main'[n], f, edits)
  BY <1>2, <1>3 DEF Kept, Exists
<1>5. Kept(f)'
  BY <1>1, <1>2, <1>4, Zenon DEF Kept, Exists, Whole
<1>6. SignedThrough'
  BY <1>1, <1>2, Zenon DEF SignedThrough, Exists, Whole, Opens
<1>7. \A n \in Machines : /\ (main'[n] = NoVault) <=> (copy[n] = NoVault)
                          /\ main'[n].acct = copy[n].acct
  BY <1>2, <1>3 DEF Orderly
<1>8. Orderly'
  BY <1>1, <1>2, <1>3, <1>7, Zenon DEF Orderly, Exists, Whole
<1> QED
  BY <1>1, <1>5, <1>6, <1>8, FilesStill, Zenon DEF Good

\* What is exported is what was signed.
LEMMA TruncateStep ==
    ASSUME NEW f, Good(f), NEW m \in Machines, Truncate(m)
    PROVE  Good(f)' /\ NothingLost
<1>1. /\ job' = [step |-> "fill", m |-> m, vault |-> ExportBody(m), torn |-> torn[m]]
      /\ container' = TornContainer /\ unlocked[m]
      /\ UNCHANGED <<copy, main, unlocked, memSig, edits, torn>>
  BY Zenon DEF Truncate
<1>2. Orderly /\ Kept(f) /\ SignedThrough
  BY Zenon DEF Good
<1>3. Exists(m) /\ Sound(copy[m], f, edits) /\ torn[m] \in BOOLEAN
  BY <1>1, <1>2 DEF Orderly, Kept
<1> DEFINE v == ExportBody(m)
<1>4. Shaped(v) /\ v.rows = copy[m].rows /\ v.acct = copy[m].acct /\ v.sig = memSig[m]
  BY <1>3, SealedIs DEF ExportBody, Sound
<1> HIDE DEF v
<1>5. job'.step = "fill" /\ job'.vault = v /\ job'.torn = torn[m]
  BY <1>1 DEF v
<1>6. ~Whole'
  BY <1>1 DEF Whole, TornContainer
<1>7. Sound(v, f, edits)
  BY <1>3, <1>4, Zenon DEF Sound, Numbered
<1>8. Kept(f)'
  BY <1>1, <1>2, <1>5, <1>6, <1>7, Zenon DEF Kept, Exists
<1>9. ~torn[m] => Opens(v)
  BY <1>1, <1>2, <1>4, Zenon DEF SignedThrough, Opens
<1>10. SignedThrough'
  <2>1. job'.step = "fill" /\ ~job'.torn => Opens(job'.vault)
    BY <1>5, <1>9
  <2> QED
    BY <1>1, <1>2, <1>6, <2>1, Zenon DEF SignedThrough, Exists, Opens
<1>11. Orderly'
  <2>1. job'.step = "fill" /\ job'.torn \in BOOLEAN
    BY <1>3, <1>5
  <2> QED
    BY <1>1, <1>2, <1>6, <2>1, Zenon DEF Orderly, Exists
<1> QED
  BY <1>1, <1>8, <1>10, <1>11, FilesStill, Zenon DEF Good

LEMMA FillStep ==
    ASSUME NEW f, Good(f), Fill
    PROVE  Good(f)' /\ NothingLost
<1>1. /\ job.step = "fill" /\ job' = NoJob
      /\ container' = [state |-> "whole", vault |-> job.vault, torn |-> job.torn]
      /\ UNCHANGED <<copy, main, unlocked, memSig, edits, torn>>
  BY Zenon DEF Fill
<1>2. Orderly /\ Kept(f) /\ SignedThrough
  BY Zenon DEF Good
<1>3. /\ container'.vault = job.vault /\ container'.torn = job.torn
      /\ job'.step # "fill"
  BY <1>1 DEF NoJob
<1>4. Kept(f)'
  BY <1>1, <1>2, <1>3, Zenon DEF Kept, Exists
<1>5. SignedThrough'
  BY <1>1, <1>2, <1>3, Zenon DEF SignedThrough, Exists, Opens
<1>6. job.torn \in BOOLEAN
  BY <1>1, <1>2 DEF Orderly, NoJob
<1>7. Orderly'
  BY <1>1, <1>2, <1>3, <1>6, Zenon DEF Orderly, Exists
<1> QED
  BY <1>1, <1>4, <1>5, <1>7, FilesStill, Zenon DEF Good

LEMMA StepFailsStep ==
    ASSUME NEW f, Good(f), StepFails
    PROVE  Good(f)' /\ NothingLost
<1>1. /\ job' = NoJob
      /\ UNCHANGED <<copy, main, unlocked, container, edits, torn>>
      /\ memSig' \in {memSig} \cup
           {[memSig EXCEPT ![m] = Signed(copy[m].rows)] : m \in {n \in {job.m} : job.step = "reseal"}}
  BY Zenon DEF StepFails
<1>2. Orderly /\ Kept(f) /\ SignedThrough
  BY Zenon DEF Good
<1>3. job'.step # "fill"
  BY <1>1 DEF NoJob
<1>4. Kept(f)'
  BY <1>1, <1>2, <1>3, Zenon DEF Kept, Exists, Whole
<1>5. memSig' = memSig \/ \E m : memSig' = [memSig EXCEPT ![m] = Signed(copy[m].rows)]
  BY <1>1
<1>6. /\ memSig' = [n \in Machines |-> memSig'[n]]
      /\ \A n \in Machines : memSig'[n] = memSig[n] \/ memSig'[n] = Signed(copy[n].rows)
  BY <1>2, <1>5 DEF Orderly
<1>7. SignedThrough'
  BY <1>1, <1>2, <1>3, <1>6, Zenon DEF SignedThrough, Exists, Whole, Opens
<1>8. Orderly'
  BY <1>1, <1>2, <1>6, Zenon DEF Orderly, Exists, Whole
<1> QED
  BY <1>1, <1>4, <1>7, <1>8, FilesStill, Zenon DEF Good

-----------------------------------------------------------------------------
(* Merges.                                                                 *)

LEMMA MergedWorked ==
    ASSUME NEW f, Good(f), NEW m \in Machines, MergeCommit(m)
    PROVE  /\ Worked(m, Merged(copy[m], container.vault), f, f)
           /\ Merged(copy[m], container.vault).rows
              = [i \in Items |-> IF Wins(container.vault.rows[i], copy[m].rows[i])
                                 THEN container.vault.rows[i] ELSE copy[m].rows[i]]
<1> DEFINE r == copy[m].rows
           c == container.vault.rows
           v == Merged(copy[m], container.vault)
<1>1. /\ Exists(m) /\ Whole /\ copy' = [copy EXCEPT ![m] = v]
      /\ torn' = [torn EXCEPT ![m] = TRUE]
      /\ UNCHANGED <<memSig, edits>>
  BY Zenon DEF MergeCommit
<1>2. Orderly /\ Kept(f)
  BY Zenon DEF Good
<1>3. Sound(copy[m], f, edits) /\ Sound(container.vault, f, edits)
  BY <1>1, <1>2, Zenon DEF Kept
<1>4. /\ v.rows = [i \in Items |-> IF Wins(c[i], r[i]) THEN c[i] ELSE r[i]]
      /\ v.acct = copy[m].acct /\ v = [x \in Fields |-> v[x]]
  BY <1>3 DEF Sound, Shaped, Fields, Merged
<1> HIDE DEF v
<1>5. r \in [Items -> Row \cup {NoRow}] /\ c \in [Items -> Row \cup {NoRow}]
  BY <1>3 DEF Sound, Shaped
<1>6. \A i \in Items : v.rows[i] = c[i] \/ v.rows[i] = r[i]
  BY <1>4
<1>7. Sound(v, f, edits)
  <2>1. v.rows \in [Items -> Row \cup {NoRow}]
    BY <1>4, <1>5
  <2>2. Numbered(v, f, edits)
    BY <1>3, <1>6 DEF Sound, Numbered
  <2> QED
    BY <1>4, <2>1, <2>2, Zenon DEF Sound, Shaped
<1>8. ASSUME NEW i \in Items PROVE Onward(r[i], v.rows[i])
  <2>1. r[i] \in Row \cup {NoRow} /\ r[i].rev \in Nat /\ c[i].rev \in Nat
    BY <1>5, RowFields
  <2>2. CASE Wins(c[i], r[i])
    <3>1. c[i].rev >= r[i].rev
      BY <2>1, <2>2 DEF Wins
    <3> QED
      BY <1>4, <2>2, <3>1 DEF Onward
  <2>3. CASE ~Wins(c[i], r[i])
    BY <1>4, <2>1, <2>3, StillOnward
  <2> QED
    BY <2>2, <2>3
<1>9. /\ torn' \in [Machines -> BOOLEAN] /\ torn'[m]
      /\ \A n \in Machines \ {m} : torn'[n] = torn[n]
  BY <1>1, <1>2 DEF Orderly
<1>10. edits' \in Nat /\ edits' >= edits /\ memSig' = [n \in Machines |-> memSig'[n]]
  BY <1>1, <1>2 DEF Orderly
<1>11. Worked(m, v, f, f)
  BY <1>1, <1>4, <1>7, <1>8, <1>9, <1>10 DEF Worked
<1> QED
  BY <1>4, <1>11 DEF v

LEMMA MergeCommitStep ==
    ASSUME NEW f, Good(f), NEW m \in Machines, MergeCommit(m)
    PROVE  Good(f)' /\ NothingLost
<1>1. PICK v : Worked(m, v, f, f)
  BY MergedWorked
<1>2. /\ Exists(m) /\ job' = [step |-> "reseal", m |-> m]
      /\ UNCHANGED <<main, unlocked, container, edits>>
  BY Zenon DEF MergeCommit
<1>3. Orderly /\ Kept(f) /\ SignedThrough
  BY Zenon DEF Good
<1>4. job'.step = "reseal" /\ job'.m = m
  BY <1>2
<1>5. Kept(f)' /\ SignedThrough'
  BY <1>1, <1>2, <1>3, <1>4, WorkedKeeps, WorkedSigned
<1>6. /\ copy' = [n \in Machines |-> copy'[n]]
      /\ \A n \in Machines : /\ Exists(n)' <=> Exists(n)
                             /\ copy'[n].acct = copy[n].acct
      /\ \A n \in Machines : Exists(n) =>
           \A i \in Items : Onward(copy[n].rows[i], copy'[n].rows[i])
  BY <1>1, <1>2, <1>3, WorkedOnward
<1>7. edits' \in Nat /\ memSig' = [n \in Machines |-> memSig'[n]] /\ torn' \in [Machines -> BOOLEAN]
  BY <1>1, Zenon DEF Worked
<1>8. Orderly'
  <2>1. \A n \in Machines : /\ (main[n] = NoVault) <=> (copy'[n] = NoVault)
                            /\ main[n].acct = copy'[n].acct
                            /\ unlocked[n] => Exists(n)'
    BY <1>3, <1>6 DEF Orderly, Exists
  <2>2. job'.step = "reseal" /\ job'.m \in Machines /\ copy'[job'.m] # NoVault
    BY <1>2, <1>4, <1>6 DEF Exists
  <2> QED
    BY <1>2, <1>3, <1>6, <1>7, <2>1, <2>2, Zenon DEF Orderly, Whole, Exists
<1> QED
  BY <1>5, <1>6, <1>8, Zenon DEF Good, NothingLost

LEMMA MergeResealStep ==
    ASSUME NEW f, Good(f), MergeReseal
    PROVE  Good(f)' /\ NothingLost
<1>1. /\ job.step = "reseal" /\ Written(job.m, copy[job.m]) /\ job' = NoJob
      /\ UNCHANGED <<main, unlocked, container, edits>>
  BY Zenon DEF MergeReseal
<1>2. Orderly /\ Kept(f) /\ SignedThrough
  BY Zenon DEF Good
<1>3. job.m \in Machines /\ Exists(job.m)
  BY <1>1, <1>2 DEF Orderly, NoJob
<1>4. Sound(copy[job.m], f, edits) /\ edits \in Nat /\ edits' = edits
  BY <1>1, <1>2, <1>3 DEF Kept, Orderly
<1>5. \A i \in Items : Onward(copy[job.m].rows[i], copy[job.m].rows[i])
  BY <1>4, StillOnward DEF Sound, Shaped
<1>6. \E v : Worked(job.m, v, f, f)
  BY <1>1, <1>2, <1>3, <1>4, <1>5, WorkedWritten DEF Sound
<1>7. PICK v : Worked(job.m, v, f, f)
  BY <1>6
<1>8. job'.step # "fill"
  BY <1>1 DEF NoJob
<1>9. Kept(f)' /\ SignedThrough'
  BY <1>1, <1>2, <1>3, <1>7, <1>8, WorkedKeeps, WorkedSigned
<1>10. /\ copy' = [n \in Machines |-> copy'[n]]
       /\ \A n \in Machines : /\ Exists(n)' <=> Exists(n)
                              /\ copy'[n].acct = copy[n].acct
       /\ \A n \in Machines : Exists(n) =>
            \A i \in Items : Onward(copy[n].rows[i], copy'[n].rows[i])
  BY <1>2, <1>3, <1>7, WorkedOnward
<1>11. edits' \in Nat /\ memSig' = [n \in Machines |-> memSig'[n]] /\ torn' \in [Machines -> BOOLEAN]
  BY <1>7, Zenon DEF Worked
<1>12. Orderly'
  <2>1. \A n \in Machines : /\ (main[n] = NoVault) <=> (copy'[n] = NoVault)
                            /\ main[n].acct = copy'[n].acct
                            /\ unlocked[n] => Exists(n)'
    BY <1>2, <1>10 DEF Orderly, Exists
  <2> QED
    BY <1>1, <1>2, <1>10, <1>11, <2>1, Zenon DEF Orderly, Whole
<1> QED
  BY <1>9, <1>10, <1>12, Zenon DEF Good, NothingLost

-----------------------------------------------------------------------------
(* Restores that replace a vault.                                          *)

LEMMA StageStep ==
    ASSUME NEW f, Good(f), NEW m \in Machines, Stage(m)
    PROVE  Good(f)' /\ NothingLost
<1>1. /\ Whole /\ (Exists(m) => copy[m].acct # container.vault.acct)
      /\ unlocked' = [unlocked EXCEPT ![m] = FALSE]
      /\ job' = [step |-> "staged", m |-> m]
      /\ UNCHANGED <<copy, main, memSig, container, edits, torn>>
  BY Zenon DEF Stage
<1>2. Orderly /\ Kept(f) /\ SignedThrough
  BY Zenon DEF Good
<1>3. job'.step = "staged" /\ job'.m = m /\ job' = [x \in {"step", "m"} |-> job'[x]]
  BY <1>1
<1>4. /\ unlocked' \in [Machines -> BOOLEAN] /\ ~unlocked'[m]
      /\ \A n \in Machines : unlocked'[n] => unlocked[n]
  BY <1>1, <1>2 DEF Orderly
<1>5. Kept(f)'
  BY <1>1, <1>2, <1>3, Zenon DEF Kept, Exists, Whole
<1>6. SignedThrough'
  BY <1>1, <1>2, <1>3, <1>4, Zenon DEF SignedThrough, Exists, Whole, Opens
<1>7. \A n \in Machines : unlocked'[n] => Exists(n)
  BY <1>2, <1>4, Zenon DEF Orderly
<1>8. /\ job'.step \in {"staged", "bare", "beside"} /\ job'.m \in Machines /\ ~unlocked'[job'.m]
      /\ copy[job'.m] # NoVault => copy[job'.m].acct # container.vault.acct
  BY <1>1, <1>3, <1>4 DEF Exists
<1>9. Orderly'
  BY <1>1, <1>2, <1>3, <1>4, <1>7, <1>8, Zenon DEF Orderly, Exists, Whole
<1> QED
  BY <1>1, <1>5, <1>6, <1>9, FilesStill, Zenon DEF Good

\* What a restore in progress says of the vault it is to replace.
LEMMA Replacing ==
    ASSUME Orderly, job.step \in {"staged", "bare", "beside"}
    PROVE  /\ job = [x \in {"step", "m"} |-> job[x]] /\ job.m \in Machines
           /\ ~unlocked[job.m] /\ Whole
           /\ Exists(job.m) => copy[job.m].acct # container.vault.acct
  BY DEF Orderly, NoJob

LEMMA RemoveWalStep ==
    ASSUME NEW f, Good(f), RemoveWal
    PROVE  Good(f)' /\ NothingLost
<1>1. /\ job.step = "staged"
      /\ copy' = [copy EXCEPT ![job.m] = main[job.m]]
      /\ torn' = [torn EXCEPT ![job.m] = @ \/ main[job.m] # copy[job.m]]
      /\ job' = [job EXCEPT !.step = "bare"]
      /\ UNCHANGED <<main, unlocked, memSig, container, edits>>
  BY Zenon DEF RemoveWal
<1>2. Orderly /\ Kept(f) /\ SignedThrough
  BY Zenon DEF Good
<1>3. PICK m \in Machines : m = job.m
  BY <1>1, <1>2, Replacing
<1>4. ~unlocked[m] /\ Whole /\ (Exists(m) => copy[m].acct # container.vault.acct)
      /\ job = [x \in {"step", "m"} |-> job[x]]
  BY <1>1, <1>2, <1>3, Replacing
<1>5. job'.step = "bare" /\ job'.m = m /\ job' = [x \in {"step", "m"} |-> job'[x]]
  BY <1>1, <1>3, <1>4
<1>6. /\ copy' = [n \in Machines |-> copy'[n]] /\ copy'[m] = main[m]
      /\ \A n \in Machines \ {m} : copy'[n] = copy[n]
  BY <1>1, <1>2, <1>3 DEF Orderly
<1>7. /\ torn' \in [Machines -> BOOLEAN]
      /\ ~torn'[m] => ~torn[m] /\ main[m] = copy[m]
      /\ \A n \in Machines \ {m} : torn'[n] = torn[n]
  BY <1>1, <1>2, <1>3 DEF Orderly
<1>8. \A n \in Machines : /\ (main[n] = NoVault) <=> (copy'[n] = NoVault)
                          /\ main[n].acct = copy'[n].acct
                          /\ copy'[n].acct = copy[n].acct
                          /\ Exists(n)' <=> Exists(n)
  BY <1>2, <1>6 DEF Orderly, Exists
<1>9. Kept(f)'
  <2>1. \A n \in Machines : Exists(n)' => Sound(copy'[n], f, edits)
    BY <1>2, <1>6 DEF Kept, Exists
  <2>2. job'.step # "fill"
    BY <1>5
  <2> QED
    BY <1>1, <1>2, <2>1, <2>2, Zenon DEF Kept, Exists, Whole
<1>10. SignedThrough'
  <2>1. \A n \in Machines : ~torn'[n] => copy'[n] = copy[n] /\ ~torn[n]
    BY <1>6, <1>7
  <2>2. job'.step # "fill"
    BY <1>5
  <2> QED
    BY <1>1, <1>2, <2>1, <2>2, Zenon DEF SignedThrough, Exists, Whole, Opens
<1>11. Orderly'
  <2>1. /\ job'.step \in {"staged", "bare", "beside"} /\ job'.m \in Machines /\ ~unlocked'[job'.m]
        /\ copy'[job'.m] # NoVault => copy'[job'.m].acct # container.vault.acct
    BY <1>1, <1>4, <1>5, <1>8 DEF Exists
  <2>2. \A n \in Machines : unlocked[n] => copy'[n] # NoVault
    BY <1>2, <1>8 DEF Orderly, Exists
  <2>3. /\ main' = [n \in Machines |-> main'[n]] /\ memSig' = [n \in Machines |-> memSig'[n]]
        /\ unlocked' \in [Machines -> BOOLEAN] /\ Whole' /\ container'.torn \in BOOLEAN
    BY <1>2, <1>4, <1>1 DEF Orderly, Whole
  <2>4. \A n \in Machines : unlocked'[n] => copy'[n] # NoVault
    BY <2>2, <1>1
  <2>5. /\ job'.m \in Machines /\ ~unlocked'[job'.m] /\ job'.step \in {"staged", "bare", "beside"}
        /\ copy'[job'.m] # NoVault => copy'[job'.m].acct # container'.vault.acct
    BY <2>1, <1>1
  <2>6. \A n \in Machines : /\ (main'[n] = NoVault) <=> (copy'[n] = NoVault)
                            /\ main'[n].acct = copy'[n].acct
    BY <1>1, <1>8
  <2> QED
    BY <1>1, <1>2, <1>5, <1>6, <1>7, <2>3, <2>4, <2>5, <2>6 DEF Orderly, Exists
<1>12. NothingLost
  <2> SUFFICES ASSUME NEW n \in Machines, Exists(n), main[n] = copy[n], NEW i \in Items
               PROVE  Onward(copy[n].rows[i], copy'[n].rows[i])
    BY <1>1 DEF NothingLost
  <2>1. copy'[n] = copy[n]
    BY <1>6
  <2>2. copy[n].rows[i] \in Row \cup {NoRow}
    BY <1>2 DEF Kept, Sound, Shaped
  <2> QED
    BY <2>1, <2>2, StillOnward
<1> QED
  BY <1>9, <1>10, <1>11, <1>12 DEF Good

\* The file is in its place; with the -wal of another beside it, it is torn.
LEMMA RenamedStep ==
    ASSUME NEW f, Good(f), job.step \in {"bare", "beside"}, NEW v, NEW t \in BOOLEAN,
           Renamed(v, t), Sound(v, f, edits), v.acct = container.vault.acct,
           ~t => v = container.vault /\ ~container.torn
    PROVE  Good(f)' /\ NothingLost
<1>1. /\ job' = NoJob
      /\ copy' = [copy EXCEPT ![job.m] = v]
      /\ main' = [main EXCEPT ![job.m] = container.vault]
      /\ torn' = [torn EXCEPT ![job.m] = t]
      /\ UNCHANGED <<unlocked, memSig, container, edits>>
  BY Zenon DEF Renamed
<1>2. Orderly /\ Kept(f) /\ SignedThrough
  BY Zenon DEF Good
<1>3. PICK m \in Machines : m = job.m
  BY <1>1, <1>2, Replacing
<1>4. ~unlocked[m] /\ Whole /\ (Exists(m) => copy[m].acct # container.vault.acct)
  BY <1>1, <1>2, <1>3, Replacing
<1>5. Sound(container.vault, f, edits) /\ container.torn \in BOOLEAN
  BY <1>2, <1>4 DEF Kept, Orderly
<1>6. /\ copy' = [n \in Machines |-> copy'[n]] /\ copy'[m] = v
      /\ \A n \in Machines \ {m} : copy'[n] = copy[n]
      /\ main' = [n \in Machines |-> main'[n]] /\ main'[m] = container.vault
      /\ \A n \in Machines \ {m} : main'[n] = main[n]
  BY <1>1, <1>2, <1>3 DEF Orderly
<1>7. /\ torn' \in [Machines -> BOOLEAN] /\ torn'[m] = t
      /\ \A n \in Machines \ {m} : torn'[n] = torn[n]
  BY <1>1, <1>2, <1>3, <1>5 DEF Orderly
<1>b. v # NoVault /\ container.vault # NoVault
  BY <1>5, ShapedExists DEF Sound
<1>8. job'.step # "fill"
  BY <1>1 DEF NoJob
<1>9. Kept(f)'
  <2>1. \A n \in Machines : /\ Exists(n)' => Sound(copy'[n], f, edits)
                            /\ main'[n] # NoVault => Sound(main'[n], f, edits)
    BY <1>2, <1>5, <1>6 DEF Kept, Exists
  <2> QED
    BY <1>1, <1>2, <1>8, <2>1, Zenon DEF Kept, Exists, Whole
<1>10. SignedThrough'
  <2>1. ~torn'[m] => Opens(copy'[m])
    BY <1>2, <1>4, <1>6, <1>7, Zenon DEF SignedThrough, Opens
  <2>2. \A n \in Machines : ~torn'[n] => /\ Exists(n)' => Opens(copy'[n])
                                         /\ unlocked[n] => memSig[n] = Signed(copy'[n].rows)
    <3> SUFFICES ASSUME NEW n \in Machines, ~torn'[n]
                 PROVE  /\ Exists(n)' => Opens(copy'[n])
                        /\ unlocked[n] => memSig[n] = Signed(copy'[n].rows)
      OBVIOUS
    <3>1. CASE n = m
      BY <1>4, <2>1, <3>1
    <3>2. CASE n # m
      BY <1>2, <1>6, <1>7, <3>2 DEF SignedThrough, Exists
    <3> QED
      BY <3>1, <3>2
  <2> QED
    BY <1>1, <1>2, <1>8, <2>2, Zenon DEF SignedThrough, Exists, Whole, Opens
<1>11. Orderly'
  <2>1. \A n \in Machines : /\ (main'[n] = NoVault) <=> (copy'[n] = NoVault)
                            /\ main'[n].acct = copy'[n].acct
                            /\ unlocked[n] => copy'[n] # NoVault
    BY <1>2, <1>4, <1>6, <1>b DEF Orderly, Exists
  <2> QED
    BY <1>1, <1>2, <1>6, <1>7, <2>1, Zenon DEF Orderly, Exists, Whole
<1>12. NothingLost
  <2> SUFFICES ASSUME NEW n \in Machines, Exists(n), copy'[n].acct = copy[n].acct, NEW i \in Items
               PROVE  Onward(copy[n].rows[i], copy'[n].rows[i])
    BY DEF NothingLost
  <2>1. n # m
    BY <1>4, <1>6
  <2>2. copy'[n] = copy[n]
    BY <1>6, <2>1
  <2>3. copy[n].rows[i] \in Row \cup {NoRow}
    BY <1>2 DEF Kept, Sound, Shaped
  <2> QED
    BY <2>2, <2>3, StillOnward
<1> QED
  BY <1>9, <1>10, <1>11, <1>12 DEF Good

LEMMA RenameStep ==
    ASSUME NEW f, Good(f), Rename \/ RenameBesideWal
    PROVE  Good(f)' /\ NothingLost
<1>1. Orderly /\ Kept(f)
  BY Zenon DEF Good
<1>2. job.step \in {"bare", "beside"}
  BY DEF Rename, RenameBesideWal
<1>3. Whole /\ container.torn \in BOOLEAN
  BY <1>1, <1>2, Replacing DEF Orderly
<1> DEFINE c == container.vault
           g == [c EXCEPT !.sig = Garbled]
<1>4. Sound(c, f, edits)
  BY <1>1, <1>3 DEF Kept
<1>5. Sound(g, f, edits) /\ g.acct = c.acct
  BY <1>4 DEF Sound, Shaped, Numbered, Fields
<1>6. CASE Rename
  <2>1. Renamed(c, container.torn)
    BY <1>6 DEF Rename
  <2> QED
    BY <1>2, <1>3, <1>4, <2>1, RenamedStep
<1>7. CASE RenameBesideWal
  <2>1. Renamed(g, TRUE)
    BY <1>7 DEF RenameBesideWal
  <2> HIDE DEF g
  <2> QED
    BY <1>2, <1>5, <2>1, RenamedStep
<1> QED
  BY <1>6, <1>7

\* A -wal that could not be removed: what is at the path is as it was.
LEMMA WalStaysStep ==
    ASSUME NEW f, Good(f), WalStays
    PROVE  Good(f)' /\ NothingLost
<1>1. /\ job.step = "staged" /\ job' = [job EXCEPT !.step = "beside"]
      /\ UNCHANGED <<copy, main, unlocked, memSig, container, edits, torn>>
  BY Zenon DEF WalStays
<1>2. Orderly /\ Kept(f) /\ SignedThrough
  BY Zenon DEF Good
<1>3. /\ job = [x \in {"step", "m"} |-> job[x]] /\ job.m \in Machines
      /\ ~unlocked[job.m] /\ Whole
      /\ Exists(job.m) => copy[job.m].acct # container.vault.acct
  BY <1>1, <1>2, Replacing
<1>4. job'.step = "beside" /\ job'.m = job.m /\ job' = [x \in {"step", "m"} |-> job'[x]]
  BY <1>1, <1>3
<1>5. job'.step # "fill"
  BY <1>4
<1>6. Kept(f)' /\ SignedThrough'
  BY <1>1, <1>2, <1>5, Zenon DEF Kept, SignedThrough, Exists, Whole, Opens
<1>7. /\ job'.step \in {"staged", "bare", "beside"} /\ job'.m \in Machines
      /\ ~unlocked'[job'.m] /\ Whole'
      /\ copy'[job'.m] # NoVault => copy'[job'.m].acct # container'.vault.acct
  BY <1>1, <1>3, <1>4 DEF Exists, Whole
<1>8. Orderly'
  BY <1>1, <1>2, <1>4, <1>7 DEF Orderly, Exists, Whole
<1> QED
  BY <1>1, <1>6, <1>8, FilesStill DEF Good

-----------------------------------------------------------------------------
(* The whole.                                                              *)

LEMMA GoodInit == BackupInit => \E f : Good(f)
<1> SUFFICES ASSUME BackupInit PROVE \E f : Good(f)
  OBVIOUS
<1> DEFINE vault(a, rows) == [acct |-> a, rows |-> rows, sig |-> Signed(rows),
                              history |-> [i \in Items |-> <<>>]]
           new(w) == [i \in Items |-> [rev |-> 1, stamp |-> 0, vault |-> w, live |-> TRUE]]
           empty == [i \in Items |-> NoRow]
<1>1. PICK acct \in Accounts, w \in Vaults :
          /\ copy \in [Machines -> {NoVault, vault(acct, new(w))}
                                   \cup {vault(a, empty) : a \in Accounts \ {acct}}]
          /\ main = copy
          /\ unlocked = [m \in Machines |-> FALSE]
          /\ memSig = [m \in Machines |-> {}]
          /\ container = NoContainer /\ job = NoJob
          /\ edits = 0 /\ torn = [m \in Machines |-> FALSE]
  BY Zenon DEF BackupInit
<1>2. \E f : f = [n \in {0} |-> 1]
  OBVIOUS
<1>3. PICK f : f = [n \in {0} |-> 1]
  BY <1>2
<1>4. \A a, rows : /\ vault(a, rows) = [x \in Fields |-> vault(a, rows)[x]]
                   /\ vault(a, rows).rows = rows /\ vault(a, rows).sig = Signed(rows)
  BY DEF Fields
<1>5. /\ new(w) \in [Items -> Row] /\ \A i \in Items : new(w)[i].stamp = 0 /\ new(w)[i].rev = 1
      /\ empty \in [Items -> {NoRow}]
  BY DEF Row
<1> HIDE DEF vault, new, empty
<1>6. \A a : Shaped(vault(a, new(w))) /\ Shaped(vault(a, empty))
  BY <1>4, <1>5 DEF Shaped
<1>7. \A a : /\ Sound(vault(a, new(w)), f, 0) /\ Opens(vault(a, new(w)))
             /\ Sound(vault(a, empty), f, 0) /\ Opens(vault(a, empty))
  BY <1>3, <1>4, <1>5, <1>6 DEF Sound, Numbered, Opens
<1>8. \A m \in Machines : copy[m] = NoVault \/ \E a : copy[m] \in {vault(a, new(w)), vault(a, empty)}
  BY <1>1
<1>9. \A m \in Machines : Exists(m) => Sound(copy[m], f, 0) /\ Opens(copy[m])
  BY <1>7, <1>8, Zenon DEF Exists
<1>10. ~Whole /\ job.step = "none"
  BY <1>1 DEF Whole, NoContainer, NoJob
<1>11. Kept(f) /\ SignedThrough
  BY <1>1, <1>9, <1>10 DEF Kept, SignedThrough, Exists
<1>12. Orderly
  BY <1>1, <1>10 DEF Orderly
<1> QED
  BY <1>11, <1>12 DEF Good

LEMMA GoodStep ==
    ASSUME NEW f, Good(f), [BackupNext]_backupVars
    PROVE  (\E g : Good(g)') /\ NothingLost
<1>1. CASE \E m \in Machines : UserActs(m)
  BY <1>1, UserStep
<1>2. ASSUME NEW m \in Machines, LockVault(m) PROVE Good(f)' /\ NothingLost
  <2>1. unlocked' = [unlocked EXCEPT ![m] = FALSE] /\ job' \in {job, NoJob}
        /\ UNCHANGED <<copy, main, memSig, container, edits, torn>>
    BY <1>2 DEF LockVault
  <2> QED
    BY <2>1, LockKeeps
<1>3. ASSUME Crash PROVE Good(f)' /\ NothingLost
  <2>1. unlocked' = [unlocked EXCEPT ![job.m] = FALSE] /\ job' \in {job, NoJob}
        /\ UNCHANGED <<copy, main, memSig, container, edits, torn>>
    BY <1>3 DEF Crash
  <2> QED
    BY <2>1, LockKeeps
<1>4. ASSUME UNCHANGED backupVars PROVE Good(f)' /\ NothingLost
  <2>1. UNCHANGED <<copy, main, unlocked, memSig, container, job, edits, torn>>
    BY <1>4, Zenon DEF backupVars
  <2>2. Good(f)'
    BY <2>1, Zenon DEF Good, Orderly, Kept, SignedThrough, Exists, Whole, Opens
  <2> QED
    BY <2>1, <2>2, FilesStill
<1> QED
  BY <1>1, <1>2, <1>3, <1>4, UnlockStep, CheckpointStep, TruncateStep, FillStep, StepFailsStep,
     MergeCommitStep, MergeResealStep, StageStep, RemoveWalStep, WalStaysStep, RenameStep, Zenon
     DEF BackupNext, UserActs

LEMMA GoodAlways == BackupSpec => [](\E f : Good(f))
<1>1. BackupInit => \E f : Good(f)
  BY GoodInit
<1>2. (\E f : Good(f)) /\ [BackupNext]_backupVars => (\E f : Good(f))'
  <2> SUFFICES ASSUME \E f : Good(f), [BackupNext]_backupVars PROVE (\E f : Good(f))'
    OBVIOUS
  <2>1. PICK f : Good(f)
    OBVIOUS
  <2> QED
    BY <2>1, GoodStep
<1> QED
  BY <1>1, <1>2, PTL DEF BackupSpec

\* backup_export, backup_merge and restore_replacing: through exports, merges and
\* restores that fail or are cut, and whatever users do in between, the file a machine
\* has opens, with the exceptions `torn' names.
THEOREM RestoredVaultsOpen == BackupSpec => []OpensAfterRestore
<1>1. (\E f : Good(f)) => OpensAfterRestore
  BY Zenon DEF Good, SignedThrough, OpensAfterRestore
<1> QED
  BY <1>1, GoodAlways, PTL

\* apply_merge, restore_replacing and the methods of the store: no step takes an item
\* of an account's vault back to an earlier revision, or out of it unless it was
\* deleted and is purged, save for the removal of the -wal.
THEOREM NothingRolledBack == BackupSpec => NoRollback
<1>1. (\E f : Good(f)) /\ [BackupNext]_backupVars => [NothingLost]_backupVars
  BY GoodStep
<1>2. NothingLost =>
        \A m \in Machines :
          Exists(m) /\ copy'[m].acct = copy[m].acct /\ ~(job.step = "staged" /\ main[m] # copy[m])
          => \A i \in Items : \/ copy'[m].rows[i].rev >= copy[m].rows[i].rev
                              \/ (~copy[m].rows[i].live /\ copy'[m].rows[i] = NoRow)
  BY DEF NothingLost, Onward
<1> QED
  BY <1>1, <1>2, GoodAlways, PTL DEF BackupSpec, NoRollback

LEMMA PreviewStep ==
    ASSUME NEW f, Good(f), NEW m \in Machines, MergeCommit(m)
    PROVE  LET before == copy[m].rows
               after == copy'[m].rows
               seen == Preview(before, container.vault)
           IN  /\ seen.created = {i \in Items : ~before[i].live /\ after[i].live}
               /\ seen.merged = {i \in Items : /\ before[i].live /\ after[i].live
                                               /\ after[i].stamp # before[i].stamp}
<1> DEFINE r == copy[m].rows
           c == container.vault.rows
           a == copy'[m].rows
           seen == Preview(r, container.vault)
<1>1. /\ Exists(m) /\ Whole /\ copy' = [copy EXCEPT ![m] = Merged(copy[m], container.vault)]
      /\ Orderly /\ Kept(f)
  BY Zenon DEF MergeCommit, Good
<1>2. a = [i \in Items |-> IF Wins(c[i], r[i]) THEN c[i] ELSE r[i]]
  BY <1>1, MergedWorked DEF Orderly
<1>3. Sound(copy[m], f, edits) /\ Sound(container.vault, f, edits)
  BY <1>1, Zenon DEF Kept
<1>4. r \in [Items -> Row \cup {NoRow}] /\ c \in [Items -> Row \cup {NoRow}]
  BY <1>3 DEF Sound, Shaped
<1>5. ASSUME NEW i \in Items
      PROVE  /\ r[i].rev \in Nat /\ c[i].rev \in Nat /\ r[i].live \in BOOLEAN /\ c[i].live \in BOOLEAN
             /\ r[i] = NoRow => r[i].rev = 0 /\ ~r[i].live
             /\ r[i] # NoRow => r[i].rev > 0 /\ r[i].rev = f[r[i].stamp]
             /\ c[i] # NoRow => c[i].rev = f[c[i].stamp]
             /\ c[i] = NoRow => ~c[i].live
  BY <1>3, <1>4, RowFields DEF Sound, Numbered
<1> DEFINE shown == {i \in Items : c[i].live}
           created == {i \in shown : r[i] = NoRow \/ (~r[i].live /\ c[i].rev >= r[i].rev)}
           merged == {i \in shown \ created : r[i].live /\ c[i].rev > r[i].rev}
<1>6. seen.created = created /\ seen.merged = merged
  BY DEF Preview
<1> HIDE DEF r, c, a, seen
<1>7. ASSUME NEW i \in Items PROVE i \in created <=> ~r[i].live /\ a[i].live
  BY <1>2, <1>5 DEF Wins
<1>8. ASSUME NEW i \in Items
      PROVE  i \in merged <=> r[i].live /\ a[i].live /\ a[i].stamp # r[i].stamp
  <2>1. CASE ~r[i].live
    BY <2>1
  <2>2. CASE r[i].live /\ Wins(c[i], r[i])
    <3>1. c[i].rev > r[i].rev /\ a[i] = c[i] /\ r[i] # NoRow
      BY <1>2, <1>5, <2>2 DEF Wins
    <3>2. c[i] # NoRow
      BY <3>1, <1>5, RowFields
    <3>3. a[i].stamp # r[i].stamp
      BY <3>1, <3>2, <1>5
    <3> QED
      BY <2>2, <3>1, <3>3
  <2>3. CASE r[i].live /\ ~Wins(c[i], r[i])
    BY <1>2, <1>5, <2>3 DEF Wins
  <2> QED
    BY <2>1, <2>2, <2>3
<1>9. /\ created = {i \in Items : ~r[i].live /\ a[i].live}
      /\ merged = {i \in Items : r[i].live /\ a[i].live /\ a[i].stamp # r[i].stamp}
  BY <1>7, <1>8
<1> QED
  BY <1>6, <1>9 DEF r, a, seen

\* preview_against and apply_merge: of any two files, what the preview counts as
\* created and as merged is what the merge makes appear and what it changes.
THEOREM PreviewSaysWhatMerges == BackupSpec => PreviewIsExact
<1>1. ASSUME \E f : Good(f), [BackupNext]_backupVars,
             NEW m \in Machines, job = NoJob, job' = [step |-> "reseal", m |-> m]
      PROVE  MergeCommit(m)
  <2>1. job'.step = "reseal" /\ job'.m = m /\ job' # job
    BY <1>1 DEF NoJob
  <2>2. /\ job' # NoJob /\ job.step = "none"
        /\ \A n \in Machines : job' # [step |-> "staged", m |-> n]
    BY <1>1, <2>1 DEF NoJob
  <2>3. \A n \in Machines : ~Truncate(n)
    BY <2>1 DEF Truncate
  <2>4. ~Fill /\ ~MergeReseal /\ ~RemoveWal /\ ~WalStays /\ ~Rename /\ ~RenameBesideWal /\ ~Crash /\ ~StepFails
        /\ \A n \in Machines : ~Stage(n)
    BY <1>1, <2>2 DEF Fill, MergeReseal, RemoveWal, WalStays, Rename, RenameBesideWal, Crash,
                      StepFails, Stage, Idle
  <2>5. \A n \in Machines : ~UserActs(n) /\ ~UnlockVault(n) /\ ~LockVault(n) /\ ~Checkpoint(n)
    <3>1. \A n \in Machines : UserActs(n) => UNCHANGED job
      BY UserActsEdit, Zenon DEF Edit
    <3>2. \A n \in Machines : UnlockVault(n) \/ LockVault(n) \/ Checkpoint(n) => UNCHANGED job
      BY Zenon DEF UnlockVault, LockVault, Checkpoint
    <3> QED
      BY <2>1, <3>1, <3>2
  <2>6. \E n \in Machines : MergeCommit(n)
    BY <1>1, <2>1, <2>3, <2>4, <2>5, Zenon DEF BackupNext, UserActs, backupVars
  <2>7. PICK n \in Machines : MergeCommit(n)
    BY <2>6
  <2>8. job' = [step |-> "reseal", m |-> n]
    BY <2>7, Zenon DEF MergeCommit
  <2>9. n = m
    BY <2>1, <2>8
  <2> QED
    BY <2>7, <2>9
<1>2. (\E f : Good(f)) /\ [BackupNext]_backupVars =>
        [\A m \in Machines : job = NoJob /\ job' = [step |-> "reseal", m |-> m] =>
           LET before == copy[m].rows
               after == copy'[m].rows
               seen == Preview(before, container.vault)
           IN  /\ seen.created = {i \in Items : ~before[i].live /\ after[i].live}
               /\ seen.merged = {i \in Items : /\ before[i].live /\ after[i].live
                                               /\ after[i].stamp # before[i].stamp}]_backupVars
  BY <1>1, PreviewStep
<1> QED
  BY <1>2, GoodAlways, PTL DEF BackupSpec, PreviewIsExact

\* apply_merge: whichever of two vaults of an account merges the other, an item comes
\* out the same, unless one revision of it was written on both.
LEMMA MergesCommute ==
    ASSUME NEW v, NEW u, Shaped(v), Shaped(u), NEW i \in Items,
           ~(v.rows[i].rev = u.rows[i].rev /\ v.rows[i].rev > 0
             /\ v.rows[i].stamp # u.rows[i].stamp)
    PROVE  LET a == Merged(v, u).rows[i]
               b == Merged(u, v).rows[i]
           IN  a.rev = b.rev /\ a.live = b.live /\ (a.rev > 0 => a.stamp = b.stamp)
<1> DEFINE r == v.rows[i]
           s == u.rows[i]
<1>1. /\ Merged(v, u).rows[i] = IF Wins(s, r) THEN s ELSE r
      /\ Merged(u, v).rows[i] = IF Wins(r, s) THEN r ELSE s
  BY DEF Shaped, Fields, Merged
<1>2. r \in Row \cup {NoRow} /\ s \in Row \cup {NoRow}
  BY DEF Shaped
<1>3. /\ r.rev \in Nat /\ s.rev \in Nat /\ r.live \in BOOLEAN /\ s.live \in BOOLEAN
      /\ r.rev = 0 => r = NoRow
      /\ s.rev = 0 => s = NoRow
  BY <1>2, RowFields
<1>4. ~(r.rev = s.rev /\ r.rev > 0 /\ r.stamp # s.stamp)
  OBVIOUS
<1> HIDE DEF r, s
<1>5. CASE r.rev # s.rev
  BY <1>1, <1>3, <1>5 DEF Wins
<1>6. CASE r.rev = s.rev
  BY <1>1, <1>3, <1>4, <1>6 DEF Wins
<1> QED
  BY <1>5, <1>6

\* apply_merge, with the rows machines come to: two machines of an account that merge
\* each other's backups agree on every item, unless one revision was written on both.
THEOREM MergesComeTogether == BackupSpec => []MergesAgree
<1>1. (\E f : Good(f)) => MergesAgree
  <2> SUFFICES ASSUME NEW f, Good(f) PROVE MergesAgree
    OBVIOUS
  <2>1. \A m \in Machines : Exists(m) => Shaped(copy[m])
    BY Zenon DEF Good, Kept, Sound
  <2> QED
    BY <2>1, MergesCommute DEF MergesAgree
<1> QED
  BY <1>1, GoodAlways, PTL

-----------------------------------------------------------------------------
(* The types.  A revision is at most one more than the edits there were,   *)
(* so the bound on revisions follows from that on edits.                   *)

Events(h, n) == h \in [DOMAIN h -> Vaults] /\ DOMAIN h \subseteq 1..n

RowUpTo(n) == [rev: 1..(n + 1), stamp: 0..n, vault: Vaults, live: BOOLEAN]

\* A vault after n edits.
Typed(v, n) ==
    /\ v.acct \in Accounts
    /\ v.rows \in [Items -> RowUpTo(n) \cup {NoRow}]
    /\ v.history = [i \in Items |-> v.history[i]]
    /\ \A i \in Items : Events(v.history[i], n)

AllTyped(n) ==
    /\ \A m \in Machines : /\ Exists(m) => Typed(copy[m], n)
                           /\ main[m] # NoVault => Typed(main[m], n)
    /\ Whole => Typed(container.vault, n)
    /\ job.step = "fill" => Typed(job.vault, n)

BackupTyped == AllTyped(edits) /\ edits \in 0..MaxEdits /\ backupCuts \in 0..MaxBackupCuts

LEMMA RowUpToMore ==
    ASSUME NEW k \in Nat, NEW n \in Nat, k <= n
    PROVE  RowUpTo(k) \subseteq RowUpTo(n) /\ \A h : Events(h, k) => Events(h, n)
  BY DEF RowUpTo, Events

LEMMA TypedStill ==
    ASSUME NEW k \in Nat, NEW n \in Nat, k <= n, NEW v, Typed(v, k)
    PROVE  Typed(v, n)
<1>1. RowUpTo(k) \subseteq RowUpTo(n) /\ \A h : Events(h, k) => Events(h, n)
  BY RowUpToMore
<1>2. v.rows \in [Items -> RowUpTo(n) \cup {NoRow}]
  <2>1. RowUpTo(k) \cup {NoRow} \subseteq RowUpTo(n) \cup {NoRow}
    BY <1>1
  <2> QED
    BY <2>1 DEF Typed
<1> QED
  BY <1>1, <1>2 DEF Typed

\* One row and its history are replaced.
LEMMA TypedRow ==
    ASSUME NEW k \in Nat, NEW n \in Nat, k <= n, NEW v, Typed(v, k), NEW u, NEW i \in Items,
           NEW row \in RowUpTo(n) \cup {NoRow}, NEW h, Events(h, n), u.acct = v.acct,
           u.rows = [v.rows EXCEPT ![i] = row], u.history = [v.history EXCEPT ![i] = h]
    PROVE  Typed(u, n)
<1>1. Typed(v, n)
  BY TypedStill
<1>2. u.rows \in [Items -> RowUpTo(n) \cup {NoRow}]
  BY <1>1 DEF Typed
<1>3. /\ u.history = [j \in Items |-> u.history[j]]
      /\ \A j \in Items : u.history[j] = IF j = i THEN h ELSE v.history[j]
  BY <1>1 DEF Typed
<1> QED
  BY <1>1, <1>2, <1>3 DEF Typed

\* The vault of one machine is replaced, and the rest is as it was.
LEMMA OneTyped ==
    ASSUME Orderly, BackupTyped, NEW m \in Machines, NEW v, Typed(v, edits'),
           copy' = [copy EXCEPT ![m] = v], edits' \in Nat, edits' >= edits,
           UNCHANGED <<main, container>>, job'.step # "fill"
    PROVE  AllTyped(edits)'
<1>1. edits \in Nat /\ edits <= edits'
  BY DEF Orderly
<1>2. \A u : Typed(u, edits) => Typed(u, edits')
  BY <1>1, TypedStill
<1>3. \A n \in Machines : copy'[n] = IF n = m THEN v ELSE copy[n]
  BY DEF Orderly
<1>4. \A n \in Machines : Exists(n)' => Typed(copy'[n], edits')
  BY <1>2, <1>3 DEF BackupTyped, AllTyped, Exists
<1>5. \A n \in Machines : main'[n] # NoVault => Typed(main'[n], edits')
  BY <1>2 DEF BackupTyped, AllTyped
<1>6. Whole' => Typed(container'.vault, edits')
  BY <1>2 DEF BackupTyped, AllTyped, Whole
<1> QED
  BY <1>4, <1>5, <1>6 DEF AllTyped, Typed, Events

LEMMA WrittenTyped ==
    ASSUME Orderly, BackupTyped, NEW m \in Machines, NEW v, Written(m, v), Shaped(v), Typed(v, edits'),
           edits' \in Nat, edits' >= edits, UNCHANGED <<main, container>>, job'.step # "fill"
    PROVE  AllTyped(edits)'
<1> DEFINE u == [v EXCEPT !.sig = Signed(v.rows)]
<1>1. copy' = [copy EXCEPT ![m] = u]
  BY Zenon DEF Written
<1>2. u.rows = v.rows /\ u.acct = v.acct /\ u.history = v.history
  BY DEF Shaped, Fields
<1> HIDE DEF u
<1>3. Typed(u, edits')
  BY <1>2 DEF Typed
<1> QED
  BY <1>1, <1>3, OneTyped

LEMMA EditTyped ==
    ASSUME Orderly, BackupTyped, NEW m \in Machines, Edit(m)
    PROVE  /\ edits' = edits + 1 /\ edits \in Nat /\ edits' \in Nat /\ edits' \in 0..MaxEdits
           /\ edits' >= edits /\ edits <= edits'
           /\ Exists(m) /\ Typed(copy[m], edits) /\ UNCHANGED <<main, container, job>>
           /\ job'.step # "fill"
<1>1. edits' = edits + 1 /\ edits < MaxEdits /\ edits \in 0..MaxEdits
  BY DEF Edit, BackupTyped
<1>2. edits \in Nat /\ edits' \in Nat /\ edits' \in 0..MaxEdits /\ edits' >= edits /\ edits <= edits'
  BY <1>1, BackupAssumption
<1>3. Exists(m) /\ UNCHANGED <<main, container, job>> /\ job'.step # "fill"
  BY DEF Edit, Orderly, Idle, NoJob
<1>4. Typed(copy[m], edits)
  BY <1>3 DEF BackupTyped, AllTyped
<1> QED
  BY <1>1, <1>2, <1>3, <1>4

LEMMA UpsertTyped ==
    ASSUME NEW f, Good(f), BackupTyped, NEW m \in Machines, NEW i \in Items, NEW w \in Vaults,
           Upsert(m, i, w) \/ UpsertUnsealed(m, i, w)
    PROVE  AllTyped(edits)'
<1> DEFINE r == copy[m].rows
           past == copy[m].history[i]
           row == [rev |-> r[i].rev + 1, stamp |-> edits', vault |-> w, live |-> TRUE]
           h == [e \in DOMAIN past \cup {edits'} |-> IF e = edits' THEN w ELSE past[e]]
           v == Upserted(copy[m], i, w)
<1>a. Orderly /\ Kept(f)
  BY Zenon DEF Good
<1>1. Edit(m)
  BY Zenon DEF Upsert, UpsertUnsealed
<1>2. /\ edits' = edits + 1 /\ edits \in Nat /\ edits' \in Nat /\ edits' >= edits /\ edits <= edits'
      /\ Exists(m) /\ Typed(copy[m], edits) /\ UNCHANGED <<main, container>> /\ job'.step # "fill"
  BY <1>1, <1>a, EditTyped
<1>3. Shaped(copy[m])
  BY <1>2, <1>a, Zenon DEF Kept, Sound
<1>4. /\ v.rows = [r EXCEPT ![i] = row] /\ v.acct = copy[m].acct /\ v = [x \in Fields |-> v[x]]
      /\ v.history = [copy[m].history EXCEPT ![i] = h]
  BY <1>3 DEF Shaped, Fields, Upserted
<1>5. row \in RowUpTo(edits')
  <2>1. r[i] \in RowUpTo(edits) \cup {NoRow}
    BY <1>2 DEF Typed
  <2>2. r[i].rev \in 0..(edits + 1)
    <3>1. CASE r[i] \in RowUpTo(edits)
      BY <1>2, <3>1 DEF RowUpTo
    <3>2. CASE r[i] = NoRow
      BY <1>2, <3>2 DEF NoRow
    <3> QED
      BY <2>1, <3>1, <3>2
  <2>3. r[i].rev + 1 \in 1..(edits' + 1) /\ edits' \in 0..edits'
    BY <1>2, <2>2
  <2> QED
    BY <2>3 DEF RowUpTo
<1>6. Events(h, edits')
  <2>1. past \in [DOMAIN past -> Vaults] /\ DOMAIN past \subseteq 1..edits
    BY <1>2 DEF Typed, Events
  <2>2. DOMAIN past \cup {edits'} \subseteq 1..edits'
    BY <1>2, <2>1
  <2>3. h \in [DOMAIN past \cup {edits'} -> Vaults]
    BY <2>1
  <2> HIDE DEF h, past
  <2> QED
    BY <2>2, <2>3 DEF Events
<1>7. Shaped(v)
  <2>1. v.rows \in [Items -> Row \cup {NoRow}]
    <3>1. row \in Row
      BY <1>2, <1>5 DEF RowUpTo, Row
    <3> QED
      BY <1>3, <1>4, <3>1 DEF Shaped
  <2> QED
    BY <1>4, <2>1 DEF Shaped
<1> HIDE DEF v, row, h
<1>8. Typed(v, edits')
  BY <1>2, <1>4, <1>5, <1>6, TypedRow
<1>9. CASE Upsert(m, i, w)
  <2>1. Written(m, v)
    BY <1>9, Zenon DEF Upsert, v
  <2> QED
    BY <1>a, <1>2, <1>7, <1>8, <2>1, WrittenTyped
<1>10. CASE UpsertUnsealed(m, i, w)
  <2>1. copy' = [copy EXCEPT ![m] = v]
    BY <1>10 DEF UpsertUnsealed, v
  <2> QED
    BY <1>a, <1>2, <1>8, <2>1, OneTyped
<1> QED
  BY <1>9, <1>10

LEMMA WorkTyped ==
    ASSUME NEW f, Good(f), BackupTyped, NEW m \in Machines, NEW i \in Items,
           Toggle(m, i) \/ Purge(m, i) \/ \E w \in Vaults : Move(m, i, w)
    PROVE  AllTyped(edits)'
<1> DEFINE r == copy[m].rows
           past == copy[m].history[i]
<1>a. Orderly /\ Kept(f)
  BY Zenon DEF Good
<1>1. Edit(m)
  BY Zenon DEF Toggle, Purge, Move
<1>2. /\ edits' = edits + 1 /\ edits \in Nat /\ edits' \in Nat /\ edits' >= edits /\ edits <= edits'
      /\ Exists(m) /\ Typed(copy[m], edits) /\ UNCHANGED <<main, container>> /\ job'.step # "fill"
  BY <1>1, <1>a, EditTyped
<1>3. Shaped(copy[m])
  BY <1>2, <1>a, Zenon DEF Kept, Sound
<1>4. /\ r[i] \in RowUpTo(edits) \cup {NoRow} /\ RowUpTo(edits) \subseteq RowUpTo(edits')
      /\ past \in [DOMAIN past -> Vaults] /\ DOMAIN past \subseteq 1..edits' /\ Events(past, edits')
  <2>1. Events(past, edits)
    BY <1>2 DEF Typed
  <2> QED
    BY <1>2, <2>1, RowUpToMore DEF Typed, Events
<1>b. NoRow.live = FALSE
  BY RowFields
<1>5. CASE Toggle(m, i)
  <2> DEFINE row == [r[i] EXCEPT !.live = ~@]
             v == [copy[m] EXCEPT !.rows[i].live = ~@]
  <2>1. r[i] # NoRow /\ Written(m, v)
    BY <1>5, Zenon DEF Toggle
  <2>2. /\ v.rows = [r EXCEPT ![i] = row] /\ v.acct = copy[m].acct /\ v = [x \in Fields |-> v[x]]
        /\ v.history = copy[m].history
    BY <1>3 DEF Shaped, Fields
  <2> HIDE DEF v
  <2>3. row \in RowUpTo(edits')
    <3>1. row \in RowUpTo(edits)
      BY <1>4, <2>1 DEF RowUpTo
    <3> QED
      BY <1>4, <3>1
  <2>4. v.history = [copy[m].history EXCEPT ![i] = past]
    BY <1>2, <2>2 DEF Typed
  <2>5. Shaped(v)
    <3>1. row \in Row
      BY <1>2, <2>3 DEF RowUpTo, Row
    <3> HIDE DEF row
    <3> QED
      BY <1>3, <2>2, <3>1 DEF Shaped
  <2> HIDE DEF row
  <2>6. Typed(v, edits')
    BY <1>2, <1>4, <2>2, <2>3, <2>4, TypedRow
  <2> QED
    BY <1>a, <1>2, <2>1, <2>5, <2>6, WrittenTyped
<1>6. CASE Purge(m, i)
  <2> DEFINE v == [copy[m] EXCEPT !.rows[i] = NoRow, !.history[i] = <<>>]
  <2>1. copy' = [copy EXCEPT ![m] = v]
    <3>1. copy' = [copy EXCEPT ![m].rows[i] = NoRow, ![m].history[i] = <<>>]
      BY <1>6 DEF Purge
    <3> QED
      BY <1>a, <3>1 DEF Orderly
  <2>2. /\ v.rows = [r EXCEPT ![i] = NoRow] /\ v.acct = copy[m].acct
        /\ v.history = [copy[m].history EXCEPT ![i] = <<>>]
    BY <1>3 DEF Shaped, Fields
  <2> HIDE DEF v
  <2>3. Events(<<>>, edits')
    BY DEF Events
  <2>4. Typed(v, edits')
    <3>1. /\ edits \in Nat /\ edits' \in Nat /\ edits <= edits' /\ Typed(copy[m], edits)
          /\ NoRow \in RowUpTo(edits') \cup {NoRow} /\ v.rows = [copy[m].rows EXCEPT ![i] = NoRow]
      BY <1>2, <2>2
    <3> QED
      BY <2>2, <2>3, <3>1, TypedRow
  <2> QED
    BY <1>a, <1>2, <2>1, <2>4, OneTyped
<1>7. ASSUME NEW w \in Vaults, Move(m, i, w) PROVE AllTyped(edits)'
  <2> DEFINE row == [r[i] EXCEPT !.vault = w]
             h == [e \in DOMAIN past |-> w]
             v == [copy[m] EXCEPT !.rows[i].vault = w, !.history[i] = [e \in DOMAIN @ |-> w]]
  <2>1. r[i].live /\ Written(m, v)
    BY <1>7, Zenon DEF Move
  <2>2. /\ v.rows = [r EXCEPT ![i] = row] /\ v.acct = copy[m].acct /\ v = [x \in Fields |-> v[x]]
        /\ v.history = [copy[m].history EXCEPT ![i] = h]
    BY <1>3 DEF Shaped, Fields
  <2> HIDE DEF v
  <2>3. row \in RowUpTo(edits')
    <3>1. r[i] \in RowUpTo(edits)
      BY <1>b, <1>4, <2>1
    <3>2. row \in RowUpTo(edits)
      BY <3>1 DEF RowUpTo
    <3> QED
      BY <1>4, <3>2
  <2>4. Events(h, edits')
    BY <1>4 DEF Events
  <2>5. Shaped(v)
    <3>1. row \in Row
      BY <1>2, <2>3 DEF RowUpTo, Row
    <3> HIDE DEF row
    <3> QED
      BY <1>3, <2>2, <3>1 DEF Shaped
  <2> HIDE DEF row, h
  <2>6. Typed(v, edits')
    BY <1>2, <2>2, <2>3, <2>4, TypedRow
  <2> QED
    BY <1>a, <1>2, <2>1, <2>5, <2>6, WrittenTyped
<1> QED
  BY <1>5, <1>6, <1>7

LEMMA MergedTyped ==
    ASSUME NEW n \in Nat, NEW v, NEW c, Shaped(v), Typed(v, n), Typed(c, n)
    PROVE  Typed(Merged(v, c), n)
<1> DEFINE u == Merged(v, c)
           both == [i \in Items |-> [e \in DOMAIN v.history[i] \cup DOMAIN c.history[i] |->
                       IF e \in DOMAIN v.history[i] THEN v.history[i][e] ELSE c.history[i][e]]]
<1>1. /\ u.rows = [i \in Items |-> IF Wins(c.rows[i], v.rows[i]) THEN c.rows[i] ELSE v.rows[i]]
      /\ u.acct = v.acct /\ u.history = both
  BY DEF Shaped, Fields, Merged
<1>2. u.rows \in [Items -> RowUpTo(n) \cup {NoRow}]
  BY <1>1 DEF Typed
<1>3. ASSUME NEW i \in Items PROVE Events(both[i], n)
  <2> DEFINE old == v.history[i]
             new == c.history[i]
  <2>1. /\ old \in [DOMAIN old -> Vaults] /\ DOMAIN old \subseteq 1..n
        /\ new \in [DOMAIN new -> Vaults] /\ DOMAIN new \subseteq 1..n
    BY DEF Typed, Events
  <2>2. both[i] = [e \in DOMAIN old \cup DOMAIN new |-> IF e \in DOMAIN old THEN old[e] ELSE new[e]]
    OBVIOUS
  <2> HIDE DEF old, new, both
  <2>3. both[i] \in [DOMAIN old \cup DOMAIN new -> Vaults]
    BY <2>1, <2>2
  <2> QED
    BY <2>1, <2>3 DEF Events
<1>4. both = [i \in Items |-> both[i]]
  OBVIOUS
<1> HIDE DEF both, u
<1> QED
  BY <1>1, <1>2, <1>3, <1>4 DEF Typed, u

\* The steps of exports and restores, which are no edits.
LEMMA RestoringTyped ==
    ASSUME NEW f, Good(f), BackupTyped,
           \/ MergeReseal \/ RemoveWal \/ WalStays \/ Rename \/ RenameBesideWal
           \/ \E m \in Machines : MergeCommit(m)
    PROVE  AllTyped(edits)'
<1>b. Orderly /\ Kept(f) /\ edits \in Nat
  BY DEF Good, Orderly
<1>1. ASSUME NEW m \in Machines, MergeCommit(m) PROVE AllTyped(edits)'
  <2>1. /\ Exists(m) /\ Whole /\ copy' = [copy EXCEPT ![m] = Merged(copy[m], container.vault)]
        /\ UNCHANGED <<main, container, edits>> /\ job'.step # "fill"
    BY <1>1 DEF MergeCommit
  <2>2. Typed(copy[m], edits) /\ Typed(container.vault, edits) /\ Shaped(copy[m])
    BY <1>b, <2>1, Zenon DEF BackupTyped, AllTyped, Kept, Sound
  <2>3. Typed(Merged(copy[m], container.vault), edits)
    BY <1>b, <2>2, MergedTyped
  <2>4. edits' = edits /\ edits' \in Nat /\ edits' >= edits /\ UNCHANGED <<main, container>>
    BY <1>b, <2>1
  <2> DEFINE v == Merged(copy[m], container.vault)
  <2>5. Typed(v, edits') /\ copy' = [copy EXCEPT ![m] = v]
    BY <2>1, <2>3, <2>4
  <2> HIDE DEF v
  <2> QED
    BY <1>b, <2>1, <2>4, <2>5, OneTyped
<1>2. CASE MergeReseal
  <2>1. /\ job.step = "reseal" /\ Written(job.m, copy[job.m])
        /\ UNCHANGED <<main, container, edits>> /\ job'.step # "fill"
    BY <1>2 DEF MergeReseal, NoJob
  <2>2. job.m \in Machines /\ Exists(job.m)
    BY <1>b, <2>1 DEF Orderly, NoJob
  <2>3. Typed(copy[job.m], edits) /\ Shaped(copy[job.m])
    BY <1>b, <2>2, Zenon DEF BackupTyped, AllTyped, Kept, Sound
  <2> QED
    BY <1>b, <2>1, <2>2, <2>3, WrittenTyped
<1>3. CASE RemoveWal
  <2>1. /\ job.step = "staged" /\ copy' = [copy EXCEPT ![job.m] = main[job.m]]
        /\ UNCHANGED <<main, container, edits>> /\ job' = [job EXCEPT !.step = "bare"]
    BY <1>3 DEF RemoveWal
  <2>2. job = [x \in {"step", "m"} |-> job[x]] /\ job.m \in Machines
    BY <1>b, <2>1, Replacing
  <2>3. job'.step = "bare"
    BY <2>1, <2>2
  <2>4. \A n \in Machines : copy'[n] = IF n = job.m THEN main[n] ELSE copy[n]
    BY <1>b, <2>1, <2>2 DEF Orderly
  <2>5. \A n \in Machines : Exists(n)' => Typed(copy'[n], edits)
    BY <2>4 DEF BackupTyped, AllTyped, Exists
  <2>6. /\ \A n \in Machines : main'[n] # NoVault => Typed(main'[n], edits)
        /\ Whole' => Typed(container'.vault, edits)
    BY <2>1 DEF BackupTyped, AllTyped, Whole
  <2> QED
    BY <2>1, <2>3, <2>5, <2>6 DEF AllTyped, Typed, Events
<1>5. CASE WalStays
  <2>1. UNCHANGED <<copy, main, container, edits>> /\ job' = [job EXCEPT !.step = "beside"]
        /\ job.step = "staged"
    BY <1>5 DEF WalStays
  <2>2. job'.step # "fill"
    BY <1>b, <2>1, Replacing
  <2> QED
    BY <2>1, <2>2 DEF BackupTyped, AllTyped, Exists, Whole, Typed, Events
<1>4. ASSUME NEW v, v.acct = container.vault.acct, v.rows = container.vault.rows,
             v.history = container.vault.history, NEW t, Renamed(v, t),
             job.step \in {"bare", "beside"}
      PROVE  AllTyped(edits)'
  <2>1. /\ copy' = [copy EXCEPT ![job.m] = v]
        /\ main' = [main EXCEPT ![job.m] = container.vault]
        /\ UNCHANGED <<container, edits>> /\ job'.step # "fill"
    BY <1>4 DEF Renamed, NoJob
  <2>2. job.m \in Machines /\ Whole
    BY <1>b, <1>4, Replacing
  <2>3. \A n \in Machines : /\ copy'[n] = IF n = job.m THEN v ELSE copy[n]
                            /\ main'[n] = IF n = job.m THEN container.vault ELSE main[n]
    BY <1>b, <2>1, <2>2 DEF Orderly
  <2>4. Typed(container.vault, edits) /\ Typed(v, edits)
    BY <1>4, <2>2, Zenon DEF BackupTyped, AllTyped, Typed
  <2>5. \A n \in Machines : /\ Exists(n)' => Typed(copy'[n], edits)
                            /\ main'[n] # NoVault => Typed(main'[n], edits)
    BY <2>3, <2>4 DEF BackupTyped, AllTyped, Exists
  <2>6. Whole' => Typed(container'.vault, edits)
    BY <2>1, <2>4
  <2> QED
    BY <2>1, <2>5, <2>6 DEF AllTyped, Typed, Events
<1>6. CASE Rename
  BY <1>4, <1>6 DEF Rename
<1>7. CASE RenameBesideWal
  <2> DEFINE g == [container.vault EXCEPT !.sig = Garbled]
  <2>1. job.step = "beside" /\ Renamed(g, TRUE)
    BY <1>7 DEF RenameBesideWal
  <2>2. Sound(container.vault, f, edits)
    BY <1>b, <2>1, Replacing DEF Kept
  <2>3. /\ g.acct = container.vault.acct /\ g.rows = container.vault.rows
        /\ g.history = container.vault.history
    BY <2>2 DEF Sound, Shaped, Fields
  <2> HIDE DEF g
  <2> QED
    BY <1>4, <2>1, <2>3
<1> QED
  BY <1>1, <1>2, <1>3, <1>5, <1>6, <1>7

LEMMA OthersTyped ==
    ASSUME NEW f, Good(f), BackupTyped,
           \/ Fill \/ Crash \/ StepFails \/ UNCHANGED backupVars
           \/ \E m \in Machines : \/ UnlockVault(m) \/ LockVault(m) \/ Checkpoint(m)
                                  \/ Truncate(m) \/ Stage(m)
    PROVE  AllTyped(edits)'
<1>a. Orderly /\ Kept(f) /\ edits \in Nat
  BY DEF Good, Orderly
<1>b. NoJob.step # "fill"
  BY DEF NoJob
<1>1. CASE Fill
  <2>1. /\ container' = [state |-> "whole", vault |-> job.vault, torn |-> job.torn]
        /\ job.step = "fill" /\ job' = NoJob /\ UNCHANGED <<copy, main, edits>>
    BY <1>1 DEF Fill
  <2>2. container'.vault = job.vault
    BY <2>1
  <2> QED
    BY <1>b, <2>1, <2>2 DEF BackupTyped, AllTyped, Exists, Typed, Events
<1>2. CASE Crash \/ StepFails \/ UNCHANGED backupVars
  <2>1. UNCHANGED <<copy, main, container, edits>> /\ job' \in {job, NoJob}
    BY <1>2 DEF Crash, StepFails, backupVars
  <2> QED
    BY <1>b, <2>1 DEF BackupTyped, AllTyped, Exists, Whole, Typed, Events
<1>3. ASSUME NEW m \in Machines, UnlockVault(m) \/ LockVault(m) \/ Stage(m) PROVE AllTyped(edits)'
  <2>1. UNCHANGED <<copy, main, container, edits>> /\ (job' = job \/ job'.step = "staged")
    BY <1>3 DEF UnlockVault, LockVault, Stage
  <2> QED
    BY <2>1 DEF BackupTyped, AllTyped, Exists, Whole, Typed, Events
<1>4. ASSUME NEW m \in Machines, Checkpoint(m) PROVE AllTyped(edits)'
  <2>1. main' = [main EXCEPT ![m] = copy[m]] /\ UNCHANGED <<copy, container, edits, job>>
    BY <1>4 DEF Checkpoint
  <2>2. \A n \in Machines : main'[n] = IF n = m THEN copy[m] ELSE main[n]
    BY <1>a, <2>1 DEF Orderly
  <2>3. \A n \in Machines : main'[n] # NoVault => Typed(main'[n], edits)
    BY <2>2 DEF BackupTyped, AllTyped, Exists
  <2>4. /\ \A n \in Machines : Exists(n)' => Typed(copy'[n], edits)
        /\ Whole' => Typed(container'.vault, edits)
        /\ job'.step = "fill" => Typed(job'.vault, edits)
    BY <2>1 DEF BackupTyped, AllTyped, Exists, Whole
  <2> QED
    BY <2>1, <2>3, <2>4 DEF AllTyped, Typed, Events
<1>5. ASSUME NEW m \in Machines, Truncate(m) PROVE AllTyped(edits)'
  <2>1. /\ job' = [step |-> "fill", m |-> m, vault |-> ExportBody(m), torn |-> torn[m]]
        /\ container' = TornContainer /\ unlocked[m]
        /\ UNCHANGED <<copy, main, edits>>
    BY <1>5 DEF Truncate
  <2>2. job'.vault = ExportBody(m) /\ ~Whole'
    BY <2>1 DEF Whole, TornContainer
  <2>3. Exists(m) /\ Shaped(copy[m]) /\ Typed(copy[m], edits)
    BY <1>a, <2>1, Zenon DEF Orderly, Kept, Sound, BackupTyped, AllTyped
  <2> DEFINE v == ExportBody(m)
  <2>4. v.rows = copy[m].rows /\ v.acct = copy[m].acct /\ v.history = copy[m].history
    BY <2>3 DEF Shaped, Fields, ExportBody
  <2> HIDE DEF v
  <2>5. Typed(v, edits)
    BY <2>3, <2>4 DEF Typed
  <2>6. Typed(job'.vault, edits')
    BY <2>1, <2>2, <2>5 DEF v
  <2> QED
    BY <2>1, <2>2, <2>6 DEF BackupTyped, AllTyped, Exists, Typed, Events
<1> QED
  BY <1>1, <1>2, <1>3, <1>4, <1>5

LEMMA BackupTypedStep ==
    ASSUME NEW f, Good(f), BackupTyped, [BackupNext]_backupVars
    PROVE  BackupTyped'
<1>1. AllTyped(edits)'
  BY UpsertTyped, WorkTyped, RestoringTyped, OthersTyped, Zenon DEF BackupNext
<1>2. edits' \in 0..MaxEdits
  <2>1. CASE \E m \in Machines : Edit(m)
    BY <2>1, EditTyped DEF Good
  <2>2. ASSUME ~\E m \in Machines : Edit(m) PROVE edits' = edits
    <3>1. ASSUME NEW m \in Machines,
                 UnlockVault(m) \/ LockVault(m) \/ Checkpoint(m) \/ Truncate(m) \/ MergeCommit(m) \/ Stage(m)
          PROVE  edits' = edits
      BY <3>1 DEF UnlockVault, LockVault, Checkpoint, Truncate, MergeCommit, Stage
    <3>2. ASSUME Fill \/ MergeReseal \/ RemoveWal \/ WalStays \/ Rename \/ RenameBesideWal
                 \/ Crash \/ StepFails \/ UNCHANGED backupVars
          PROVE  edits' = edits
      BY <3>2 DEF Fill, MergeReseal, RemoveWal, WalStays, Rename, RenameBesideWal,
                  Renamed, Crash, StepFails, backupVars
    <3>3. ASSUME NEW m \in Machines, NEW i \in Items,
                 \/ Toggle(m, i) \/ Purge(m, i)
                 \/ \E w \in Vaults : Upsert(m, i, w) \/ UpsertUnsealed(m, i, w) \/ Move(m, i, w)
          PROVE  Edit(m)
      BY <3>3, Zenon DEF Toggle, Purge, Upsert, UpsertUnsealed, Move
    <3> QED
      BY <2>2, <3>1, <3>2, <3>3, Zenon DEF BackupNext
  <2> QED
    BY <2>1, <2>2 DEF BackupTyped
<1>3. backupCuts' \in 0..MaxBackupCuts
  <2> DEFINE cut == backupCuts < MaxBackupCuts /\ backupCuts' = backupCuts + 1
  <2>1. ASSUME NEW m \in Machines,
               UnlockVault(m) \/ LockVault(m) \/ Checkpoint(m) \/ Truncate(m) \/ MergeCommit(m) \/ Stage(m)
        PROVE  backupCuts' = backupCuts
    BY <2>1 DEF UnlockVault, LockVault, Checkpoint, Truncate, MergeCommit, Stage
  <2>2. ASSUME Fill \/ MergeReseal \/ RemoveWal \/ WalStays \/ Rename \/ RenameBesideWal
                 \/ Crash \/ StepFails \/ UNCHANGED backupVars
        PROVE  backupCuts' = backupCuts \/ cut
    BY <2>2 DEF Fill, MergeReseal, RemoveWal, WalStays, Rename, RenameBesideWal,
                Renamed, Crash, StepFails, backupVars
  <2>3. ASSUME NEW m \in Machines, NEW i \in Items,
               \/ Toggle(m, i) \/ Purge(m, i)
               \/ \E w \in Vaults : Upsert(m, i, w) \/ UpsertUnsealed(m, i, w) \/ Move(m, i, w)
        PROVE  backupCuts' = backupCuts \/ cut
    BY <2>3 DEF Toggle, Purge, Upsert, UpsertUnsealed, Move
  <2>4. backupCuts' = backupCuts \/ cut
    BY <2>1, <2>2, <2>3, Zenon DEF BackupNext
  <2> QED
    BY <2>4, BackupAssumption DEF BackupTyped
<1> QED
  BY <1>1, <1>2, <1>3 DEF BackupTyped

LEMMA BackupTypedInit == BackupInit => BackupTyped
<1> SUFFICES ASSUME BackupInit PROVE BackupTyped
  OBVIOUS
<1> DEFINE vault(a, rows) == [acct |-> a, rows |-> rows, sig |-> Signed(rows),
                              history |-> [i \in Items |-> <<>>]]
           new(w) == [i \in Items |-> [rev |-> 1, stamp |-> 0, vault |-> w, live |-> TRUE]]
           empty == [i \in Items |-> NoRow]
<1>1. PICK acct \in Accounts, w \in Vaults :
          /\ copy \in [Machines -> {NoVault, vault(acct, new(w))}
                                   \cup {vault(a, empty) : a \in Accounts \ {acct}}]
          /\ main = copy /\ container = NoContainer /\ job = NoJob
          /\ edits = 0 /\ backupCuts = 0
  BY Zenon DEF BackupInit
<1>2. \A a, rows : /\ vault(a, rows).rows = rows /\ vault(a, rows).acct = a
                   /\ vault(a, rows).history = [i \in Items |-> <<>>]
  OBVIOUS
<1>3. /\ new(w) \in [Items -> RowUpTo(0) \cup {NoRow}] /\ empty \in [Items -> RowUpTo(0) \cup {NoRow}]
      /\ Events(<<>>, 0)
  BY DEF RowUpTo, Events
<1> HIDE DEF vault, new, empty
<1>4. \A a \in Accounts : Typed(vault(a, new(w)), 0) /\ Typed(vault(a, empty), 0)
  BY <1>2, <1>3 DEF Typed
<1>5. \A m \in Machines : Exists(m) => Typed(copy[m], 0)
  BY <1>1, <1>4 DEF Exists
<1>6. ~Whole /\ job.step = "none"
  BY <1>1 DEF Whole, NoContainer, NoJob
<1>7. 0 \in 0..MaxEdits /\ 0 \in 0..MaxBackupCuts
  BY BackupAssumption
<1> QED
  BY <1>1, <1>5, <1>6, <1>7 DEF BackupTyped, AllTyped, Exists

LEMMA BackupTypedOK == \A f : Good(f) /\ BackupTyped => BackupTypeOK
<1> SUFFICES ASSUME NEW f, Good(f), BackupTyped PROVE BackupTypeOK
  OBVIOUS
<1>1. \A v : Typed(v, edits) => VaultOK(v)
  <2> SUFFICES ASSUME NEW v, Typed(v, edits) PROVE VaultOK(v)
    OBVIOUS
  <2>1. edits \in Nat /\ MaxEdits \in Nat /\ edits <= MaxEdits
    BY BackupAssumption DEF BackupTyped
  <2>2. Typed(v, MaxEdits)
    BY <2>1, TypedStill
  <2> QED
    BY <2>2 DEF Typed, VaultOK, RowUpTo, RowType, Events
<1>2. Orderly
  BY DEF Good
<1>3. \A m \in Machines : /\ copy[m] = NoVault \/ VaultOK(copy[m])
                          /\ main[m] = NoVault \/ VaultOK(main[m])
                          /\ unlocked[m] => Exists(m)
  BY <1>1, <1>2 DEF BackupTyped, AllTyped, Exists, Orderly
<1>4. Whole => VaultOK(container.vault)
  BY <1>1 DEF BackupTyped, AllTyped
<1>5. /\ job.step \in {"none", "fill", "reseal", "staged", "bare", "beside"}
      /\ job.step \in {"staged", "bare", "beside"} => ~unlocked[job.m] /\ Whole
  BY <1>2 DEF Orderly, NoJob
<1> QED
  BY <1>3, <1>4, <1>5 DEF BackupTypeOK, BackupTyped

\* Every vault that is kept anywhere has the items, revisions and history of its edits,
\* and a restore into another account's vault runs with no session on it.
LEMMA BackupTypes == BackupSpec => []BackupTypeOK
<1>1. BackupInit => (\E f : Good(f)) /\ BackupTyped
  BY GoodInit, BackupTypedInit
<1>2. ((\E f : Good(f)) /\ BackupTyped) /\ [BackupNext]_backupVars
      => ((\E f : Good(f)) /\ BackupTyped)'
  <2> SUFFICES ASSUME \E f : Good(f), BackupTyped, [BackupNext]_backupVars
               PROVE  (\E f : Good(f))' /\ BackupTyped'
    OBVIOUS
  <2>1. PICK f : Good(f)
    OBVIOUS
  <2> QED
    BY <2>1, GoodStep, BackupTypedStep
<1>3. (\E f : Good(f)) /\ BackupTyped => BackupTypeOK
  BY BackupTypedOK
<1> QED
  BY <1>1, <1>2, <1>3, PTL DEF BackupSpec
=============================================================================
