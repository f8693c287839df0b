----------------------------- MODULE VaultStore -----------------------------
(***************************************************************************)
(* The encrypted store of one account: crates/keyring-store, vault.rs,     *)
(* repository.rs, activity.rs and manifest.rs, at the granularity at which *)
(* SQLite commits.  The write methods of Session open no transaction, so   *)
(* every SQL statement commits on its own; each action below is one        *)
(* statement with the code that runs up to it.  A method holds the         *)
(* connection mutex from its first statement to its last, so one method    *)
(* (`op') is in progress at a time, and a crash or a failing statement may *)
(* cut it short after any of them.                                         *)
(*                                                                         *)
(* Abstractions: a sealed payload is its revision (each seal draws a fresh *)
(* nonce and every write of a payload increments the revision); a key is   *)
(* the vault it belongs to; a signature is the set it signs.  Time is      *)
(* coarse and does not pass inside a method.  Bounds: MaxRev, MaxTime,     *)
(* MaxCuts.                                                                *)
(***************************************************************************)
EXTENDS Integers, FiniteSets, Sequences

CONSTANTS
    Vaults, Items,     \* identifiers that Uuid::new_v4 may hand out
    NoVault, NoItem,   \* unset fields of `op'
    NoRow,             \* the table holds no row for this identifier
    PurgeAfter,        \* PURGE_AFTER_DAYS, in units of `now'
    ActivityLimit,     \* ACTIVITY_LIMIT
    MaxCuts,           \* bound: methods a crash or a failing statement cuts
    MaxRev, MaxTime    \* bounds: revision of an item, value of `now'

ASSUME ConstantsAssumption ==
    /\ NoVault \notin Vaults
    /\ NoItem \notin Items
    /\ PurgeAfter \in Nat
    /\ ActivityLimit \in Nat \ {0}
    /\ MaxCuts \in Nat
    /\ MaxRev \in Nat
    /\ MaxTime \in Nat

\* SQL NULL in deleted_at; a stamp is a natural number.
Null == -1
Stamp == Nat \cup {Null}

VaultRow == [del : Stamp]
ItemRow == [vault : Vaults, wrap : Vaults, rev : Nat, del : Stamp]

ASSUME RowAssumption == NoRow \notin VaultRow \cup ItemRow

VARIABLES
    vaults,     \* table vaults: deleted_at of each row
    items,      \* table items: vault_id, the vault whose key wraps item_key_ct,
                \* revision, deleted_at
    activity,   \* table activity: for each item, oldest first, the vault whose
                \* activity subkey seals the row
    sig,        \* header.manifest_sig on disk: the live set it signs
    memSig,     \* the same field of VaultFile.header, in memory
    proc,       \* "closed", "open" (VaultFile, no keys) or "unlocked" (Session)
    op,         \* the store method in progress
    minted,     \* identifiers already handed out
    now,
    cuts,       \* methods cut short so far
    sealCut,    \* ghost: a method was cut when the live set was unsigned
    moveCut     \* ghost: items whose move was cut before the last rewrap

disk == <<vaults, items, activity, sig>>
ghosts == <<cuts, sealCut, moveCut>>
vars == <<vaults, items, activity, sig, memSig, proc, op, minted, now,
          cuts, sealCut, moveCut>>

-----------------------------------------------------------------------------
HasVault(v) == vaults[v] # NoRow
HasItem(i) == items[i] # NoRow
LiveVault(v) == HasVault(v) /\ vaults[v].del = Null
Live(i) == HasItem(i) /\ items[i].del = Null
LiveVaults == {v \in Vaults : LiveVault(v)}

\* item_key: the item key opens with the key of the vault the row names.
Opens(i) == HasVault(items[i].vault) /\ items[i].wrap = items[i].vault

\* manifest::collect_entries: identifier and payloads of every live item.
Manifest == {<<i, items[i].rev>> : i \in {j \in Items : Live(j)}}

\* Mutant: a purge that reads NULL as a date long past.
ExpiredWhenNull(stamp) == stamp < now - PurgeAfter

\* Mutant: a purge one unit of time early.
ExpiredOnTheDay(stamp) == stamp # Null /\ stamp <= now - PurgeAfter

\* deleted_at < now - PURGE_AFTER_DAYS, which SQL takes as false for NULL.
Expired(stamp) == stamp # Null /\ stamp < now - PurgeAfter

\* History rows of i that the vault named by its row cannot open.
Unreadable(i) ==
    HasItem(i) /\ \E k \in DOMAIN activity[i] : activity[i][k] # items[i].vault

Steps == {"idle", "reseal", "record", "evict", "move", "rewrap", "dropVault",
          "purgeItems", "purgeActivity", "purgeVaults"}

Idle == [step |-> "idle", item |-> NoItem, todo |-> {}, from |-> NoVault,
         to |-> NoVault, k |-> 0]

\* Reseal, and then record an activity row for i unless i is NoItem.
ThenReseal(i) == [Idle EXCEPT !.step = "reseal", !.item = i]

Ready == proc = "unlocked" /\ op = Idle

-----------------------------------------------------------------------------
(* Vaults.                                                                 *)

\* vault_add: an INSERT; the manifest covers no vault row, so no reseal.
VaultAdd(v) ==
    /\ Ready
    /\ v \notin minted
    /\ vaults' = [vaults EXCEPT ![v] = [del |-> Null]]
    /\ minted' = minted \cup {v}
    /\ UNCHANGED <<items, activity, sig, memSig, proc, op, now, ghosts>>

\* Mutant: the last vault may go.
DeletableEvenLast(v) == LiveVault(v)

\* vault_delete's refusals: VaultNotFound and LastVault.
Deletable(v) == LiveVault(v) /\ Cardinality(LiveVaults) > 1

\* Mutant: the items to move are selected without WHERE vault_id = v.
VaultDeleteMovingAll(v, t) ==
    /\ Ready
    /\ Deletable(v)
    /\ t # v /\ LiveVault(t)
    /\ op' = [Idle EXCEPT !.step = "move", !.from = v, !.to = t,
                 !.todo = {i \in Items : Live(i)}]
    /\ UNCHANGED <<disk, memSig, proc, minted, now, ghosts>>

\* vault_delete(v, Some(t)): the items to move are selected up front.
VaultDeleteMoving(v, t) ==
    /\ Ready
    /\ Deletable(v)
    /\ t # v /\ LiveVault(t)
    /\ op' = [Idle EXCEPT !.step = "move", !.from = v, !.to = t,
                 !.todo = {i \in Items : Live(i) /\ items[i].vault = v}]
    /\ UNCHANGED <<disk, memSig, proc, minted, now, ghosts>>

\* Mutant: the row changes vault, the item key is not wrapped again.
MoveItemKeepingWrap(i) ==
    /\ op.step = "move"
    /\ i \in op.todo
    /\ Opens(i)
    /\ items' = [items EXCEPT ![i].vault = op.to]
    /\ op' = [op EXCEPT !.step = "rewrap", !.item = i, !.k = 1]
    /\ UNCHANGED <<vaults, activity, sig, memSig, proc, minted, now, ghosts>>

\* item_move, first statement: vault_id and item_key_ct change together.
MoveItem(i) ==
    /\ op.step = "move"
    /\ i \in op.todo
    /\ Opens(i)
    /\ items' = [items EXCEPT ![i].vault = op.to, ![i].wrap = op.to]
    /\ op' = [op EXCEPT !.step = "rewrap", !.item = i, !.k = 1]
    /\ UNCHANGED <<vaults, activity, sig, memSig, proc, minted, now, ghosts>>

\* activity::rewrap, one row: opened under the old vault's key, sealed under
\* the new one's, and updated.
RewrapRow ==
    /\ op.step = "rewrap"
    /\ op.k <= Len(activity[op.item])
    /\ activity[op.item][op.k] = op.from
    /\ activity' = [activity EXCEPT ![op.item][op.k] = op.to]
    /\ op' = [op EXCEPT !.k = @ + 1]
    /\ UNCHANGED <<vaults, items, sig, memSig, proc, minted, now, ghosts>>

\* A history row of another key does not open: vault_delete returns the error.
RewrapRefused ==
    /\ op.step = "rewrap"
    /\ op.k <= Len(activity[op.item])
    /\ activity[op.item][op.k] # op.from
    /\ op' = Idle
    /\ UNCHANGED <<disk, memSig, proc, minted, now, ghosts>>

\* Mutant: the newest history row is not rewrapped.
RewrapDoneOneShort ==
    /\ op.step = "rewrap"
    /\ op.k >= Len(activity[op.item])
    /\ op' = [op EXCEPT !.step = "move", !.todo = @ \ {op.item},
                        !.item = NoItem, !.k = 0]
    /\ UNCHANGED <<disk, memSig, proc, minted, now, ghosts>>

RewrapDone ==
    /\ op.step = "rewrap"
    /\ op.k > Len(activity[op.item])
    /\ op' = [op EXCEPT !.step = "move", !.todo = @ \ {op.item},
                        !.item = NoItem, !.k = 0]
    /\ UNCHANGED <<disk, memSig, proc, minted, now, ghosts>>

MoveDone ==
    /\ op.step = "move"
    /\ op.todo = {}
    /\ op' = [op EXCEPT !.step = "dropVault"]
    /\ UNCHANGED <<disk, memSig, proc, minted, now, ghosts>>

\* vault_delete(v, None): one UPDATE soft-deletes every live item of v.
VaultDeleteWithItems(v) ==
    /\ Ready
    /\ Deletable(v)
    /\ items' = [i \in Items |->
                    IF Live(i) /\ items[i].vault = v
                    THEN [items[i] EXCEPT !.del = now] ELSE items[i]]
    /\ op' = [Idle EXCEPT !.step = "dropVault", !.from = v]
    /\ UNCHANGED <<vaults, activity, sig, memSig, proc, minted, now, ghosts>>

\* Last statement of vault_delete; Session::vault_delete reseals after it.
DropVault ==
    /\ op.step = "dropVault"
    /\ vaults' = [vaults EXCEPT ![op.from] = [del |-> now]]
    /\ op' = ThenReseal(NoItem)
    /\ UNCHANGED <<items, activity, sig, memSig, proc, minted, now, ghosts>>

-----------------------------------------------------------------------------
(* Items.                                                                  *)

\* item_upsert without an id.
InsertItem(i, v) ==
    /\ Ready
    /\ LiveVault(v)
    /\ i \notin minted
    /\ items' = [items EXCEPT ![i] =
                    [vault |-> v, wrap |-> v, rev |-> 1, del |-> Null]]
    /\ minted' = minted \cup {i}
    /\ op' = ThenReseal(i)
    /\ UNCHANGED <<vaults, activity, sig, memSig, proc, now, ghosts>>

\* item_upsert with an id: the draft names some live vault, and the row, which
\* may be soft-deleted, stays in the vault it is in.
UpdateItem(i) ==
    /\ Ready
    /\ LiveVaults # {}
    /\ HasItem(i) /\ Opens(i)
    /\ items[i].rev < MaxRev
    /\ items' = [items EXCEPT ![i].rev = @ + 1]
    /\ op' = ThenReseal(i)
    /\ UNCHANGED <<vaults, activity, sig, memSig, proc, minted, now, ghosts>>

\* Mutant: an edit that forgets to reseal.
EditItemUnsealed(i) ==
    /\ Ready
    /\ Live(i) /\ Opens(i)
    /\ items[i].rev < MaxRev
    /\ items' = [items EXCEPT ![i].rev = @ + 1]
    /\ UNCHANGED <<vaults, activity, sig, memSig, proc, op, minted, now, ghosts>>

\* item_edit_meta, item_set_favorite, item_set_totp and item_set_custom_icon
\* when something changes; they write no activity.
EditItem(i) ==
    /\ Ready
    /\ Live(i) /\ Opens(i)
    /\ items[i].rev < MaxRev
    /\ items' = [items EXCEPT ![i].rev = @ + 1]
    /\ op' = ThenReseal(NoItem)
    /\ UNCHANGED <<vaults, activity, sig, memSig, proc, minted, now, ghosts>>

ItemDelete(i) ==
    /\ Ready
    /\ Live(i)
    /\ items' = [items EXCEPT ![i].del = now]
    /\ op' = ThenReseal(NoItem)
    /\ UNCHANGED <<vaults, activity, sig, memSig, proc, minted, now, ghosts>>

\* Mutant: a restore that forgets to reseal.
ItemRestoreUnsealed(i) ==
    /\ Ready
    /\ HasItem(i) /\ items[i].del # Null
    /\ items' = [items EXCEPT ![i].del = Null]
    /\ UNCHANGED <<vaults, activity, sig, memSig, proc, op, minted, now, ghosts>>

\* item_restore asks nothing of the vault the row is in.
ItemRestore(i) ==
    /\ Ready
    /\ HasItem(i) /\ items[i].del # Null
    /\ items' = [items EXCEPT ![i].del = Null]
    /\ op' = ThenReseal(NoItem)
    /\ UNCHANGED <<vaults, activity, sig, memSig, proc, minted, now, ghosts>>

\* Mutant: every reseal is followed by an activity row, whoever asked for it.
ResealAlwaysRecords ==
    /\ op.step = "reseal"
    /\ memSig' = Manifest
    /\ sig' = Manifest
    /\ sealCut' = FALSE
    /\ op' = [op EXCEPT !.step = "record"]
    /\ UNCHANGED <<vaults, items, activity, proc, minted, now, cuts, moveCut>>

\* Session::reseal: sign the live set, then one UPDATE of the header row.
Reseal ==
    /\ op.step = "reseal"
    /\ memSig' = Manifest
    /\ sig' = Manifest
    /\ sealCut' = FALSE
    /\ op' = IF op.item = NoItem THEN Idle ELSE [op EXCEPT !.step = "record"]
    /\ UNCHANGED <<vaults, items, activity, proc, minted, now, cuts, moveCut>>

\* activity::record, the INSERT: sealed for the vault the item is in.
Recorded(i) == activity' = [activity EXCEPT ![i] = Append(@, items[i].vault)]

Record ==
    /\ op.step = "record"
    /\ Recorded(op.item)
    /\ op' = [op EXCEPT !.step = "evict"]
    /\ UNCHANGED <<vaults, items, sig, memSig, proc, minted, now, ghosts>>

\* item_reveal_field and item_copy_field: they read, then activity::record.
RevealOrCopy(i) ==
    /\ Ready
    /\ Live(i) /\ Opens(i)
    /\ Recorded(i)
    /\ op' = [Idle EXCEPT !.step = "evict", !.item = i]
    /\ UNCHANGED <<vaults, items, sig, memSig, proc, minted, now, ghosts>>

\* activity::evict: the newest ActivityLimit rows stay.
Newest(rows) ==
    IF Len(rows) <= ActivityLimit THEN rows
    ELSE SubSeq(rows, Len(rows) - ActivityLimit + 1, Len(rows))

Evict ==
    /\ op.step = "evict"
    /\ activity' = [activity EXCEPT ![op.item] = Newest(@)]
    /\ op' = Idle
    /\ UNCHANGED <<vaults, items, sig, memSig, proc, minted, now, ghosts>>

\* activity::clear for one item, or for all of them.
ActivityClear(S) ==
    /\ Ready
    /\ activity' = [i \in Items |-> IF i \in S THEN <<>> ELSE activity[i]]
    /\ UNCHANGED <<vaults, items, sig, memSig, proc, op, minted, now, ghosts>>

-----------------------------------------------------------------------------
(* Opening, unlocking, purging.                                            *)

\* VaultFile::open: the header is read once and kept in memory.
Open ==
    /\ proc = "closed"
    /\ proc' = "open"
    /\ memSig' = sig
    /\ UNCHANGED <<disk, op, minted, now, ghosts>>

\* VaultFile::unlock with the right password, up to the counter reset: the
\* manifest must verify against the signature held in memory.  Confirming the
\* password again while unlocked runs the same code.
Unlock ==
    /\ proc \in {"open", "unlocked"}
    /\ op = Idle
    /\ memSig = Manifest
    /\ op' = [Idle EXCEPT !.step = "purgeItems"]
    /\ UNCHANGED <<disk, memSig, proc, minted, now, ghosts>>

\* purge_expired, its three DELETE statements.
PurgeItems ==
    /\ op.step = "purgeItems"
    /\ items' = [i \in Items |->
                    IF HasItem(i) /\ Expired(items[i].del) THEN NoRow
                    ELSE items[i]]
    /\ op' = [op EXCEPT !.step = "purgeActivity"]
    /\ UNCHANGED <<vaults, activity, sig, memSig, proc, minted, now, ghosts>>

PurgeActivity ==
    /\ op.step = "purgeActivity"
    /\ activity' = [i \in Items |-> IF HasItem(i) THEN activity[i] ELSE <<>>]
    /\ op' = [op EXCEPT !.step = "purgeVaults"]
    /\ UNCHANGED <<vaults, items, sig, memSig, proc, minted, now, ghosts>>

ExpiredVaults == {v \in Vaults : HasVault(v) /\ Expired(vaults[v].del)}

\* items.vault_id REFERENCES vaults(id), with foreign_keys = ON: the DELETE is
\* refused as a whole if some row, live or not, names one of these vaults.
ForeignKeyHolds == \A i \in Items : HasItem(i) => items[i].vault \notin ExpiredVaults

PurgeVaults ==
    /\ op.step = "purgeVaults"
    /\ op' = Idle
    /\ IF ForeignKeyHolds
       THEN /\ vaults' = [v \in Vaults |->
                             IF v \in ExpiredVaults THEN NoRow ELSE vaults[v]]
            /\ proc' = "unlocked"
       ELSE UNCHANGED <<vaults, proc>>
    /\ UNCHANGED <<items, activity, sig, memSig, minted, now, ghosts>>

\* Dropping SessionKeys; the VaultFile and its header stay.
Lock ==
    /\ Ready
    /\ proc' = "open"
    /\ UNCHANGED <<disk, memSig, op, minted, now, ghosts>>

-----------------------------------------------------------------------------
(* Faults.                                                                 *)

\* A method ends early; the ghosts note what it leaves behind.
CutShort ==
    /\ op # Idle
    /\ cuts < MaxCuts
    /\ cuts' = cuts + 1
    /\ op' = Idle
    /\ sealCut' = (sealCut \/ sig # Manifest)
    /\ moveCut' = moveCut \cup {i \in Items : Unreadable(i)}

\* The pending statement returns an error.  A reseal reads the rows, replaces the
\* signature held in memory and then writes: either end may fail.
StatementFails ==
    /\ CutShort
    /\ \/ UNCHANGED memSig
       \/ op.step = "reseal" /\ memSig' = Manifest
    /\ UNCHANGED <<disk, proc, minted, now>>

\* The process dies in the middle of a method.
Crash ==
    /\ CutShort
    /\ proc' = "closed"
    /\ UNCHANGED <<disk, memSig, minted, now>>

\* The process ends between two methods.
Quit ==
    /\ proc # "closed"
    /\ op = Idle
    /\ proc' = "closed"
    /\ UNCHANGED <<disk, memSig, op, minted, now, ghosts>>

Tick ==
    /\ op = Idle
    /\ now < MaxTime
    /\ now' = now + 1
    /\ UNCHANGED <<disk, memSig, proc, op, minted, ghosts>>

-----------------------------------------------------------------------------
\* VaultFile::create: an empty vault whose empty item set is signed.
Init ==
    /\ vaults = [v \in Vaults |-> NoRow]
    /\ items = [i \in Items |-> NoRow]
    /\ activity = [i \in Items |-> <<>>]
    /\ sig = {} /\ memSig = {}
    /\ proc = "open"
    /\ op = Idle
    /\ minted = {}
    /\ now = 0
    /\ cuts = 0
    /\ sealCut = FALSE
    /\ moveCut = {}

VaultOps ==
    \/ \E v \in Vaults : VaultAdd(v) \/ VaultDeleteWithItems(v)
    \/ \E v, t \in Vaults : VaultDeleteMoving(v, t)
    \/ \E i \in Items : MoveItem(i)
    \/ RewrapRow \/ RewrapRefused \/ RewrapDone \/ MoveDone \/ DropVault

ItemOps ==
    \/ \E i \in Items, v \in Vaults : InsertItem(i, v)
    \/ \E i \in Items : \/ UpdateItem(i) \/ EditItem(i) \/ ItemDelete(i)
                        \/ ItemRestore(i) \/ RevealOrCopy(i)
                        \/ ActivityClear({i})
    \/ ActivityClear(Items)
    \/ Reseal \/ Record \/ Evict

DoorOps ==
    \/ Open \/ Unlock \/ PurgeItems \/ PurgeActivity \/ PurgeVaults
    \/ Lock \/ Quit

Next == VaultOps \/ ItemOps \/ DoorOps \/ StatementFails \/ Crash \/ Tick

Spec == Init /\ [][Next]_vars

-----------------------------------------------------------------------------
(* Properties.                                                             *)

OpType ==
    [step : Steps, item : Items \cup {NoItem}, todo : SUBSET Items,
     from : Vaults \cup {NoVault}, to : Vaults \cup {NoVault}, k : Nat]

\* Every variable, and every field of the method in progress, has its type,
\* and a step that names an item or a vault has one.
TypeOK ==
    /\ vaults \in [Vaults -> VaultRow \cup {NoRow}]
    /\ items \in [Items -> ItemRow \cup {NoRow}]
    /\ activity \in [Items -> Seq(Vaults)]
    /\ sig \in SUBSET (Items \X Nat) /\ memSig \in SUBSET (Items \X Nat)
    /\ proc \in {"closed", "open", "unlocked"}
    /\ op \in OpType
    /\ op.step \in {"record", "evict", "rewrap"} => op.item \in Items
    /\ op.step \in {"move", "rewrap", "dropVault"} => op.from \in Vaults
    /\ op.step \in {"move", "rewrap"} => op.to \in Vaults
    /\ minted \subseteq Items \cup Vaults
    /\ now \in Nat /\ cuts \in Nat
    /\ sealCut \in BOOLEAN
    /\ moveCut \subseteq Items

\* "Every mutation of the live item set goes through" reseal: between methods
\* the signature on disk, and the one in memory, are over the live items,
\* unless a fault cut a method before its reseal and none has run since.
SignatureCoversLiveItems ==
    op = Idle /\ ~sealCut =>
        /\ sig = Manifest
        /\ proc # "closed" => memSig = Manifest

\* No row is ever stranded: its vault row exists and holds the key that wraps
\* the row's own key, through moves, restores, purges and any cut between them.
EveryItemOpens == \A i \in Items : HasItem(i) => Opens(i)

\* The history of an item stays readable through moves between vaults: between
\* methods every row is sealed for the vault the item is in, unless a fault
\* cut a move of that item.
HistoryFollowsItem ==
    op = Idle => \A i \in Items : Unreadable(i) => i \in moveCut

\* A move never meets a history row it cannot open, unless an earlier fault
\* left one: vault_delete does not stop half way on its own account.
RewrapNeverRefused ==
    op.step = "rewrap" /\ op.item \notin moveCut /\ op.k <= Len(activity[op.item])
        => activity[op.item][op.k] = op.from

\* An account that has ever had a vault always has a live one to put items in,
\* whatever deletes, purges and faults happen (vault_delete's refusal).
SomeVaultAlwaysLive == minted \cap Vaults # {} => LiveVaults # {}

\* A purge takes only rows whose 30 days are over, and takes no live item: the
\* signed set is the same after it, so it needs no reseal.
PurgeStep == op.step \in {"purgeItems", "purgeActivity", "purgeVaults"}

PurgeKeepsManifest == [][PurgeStep => Manifest' = Manifest]_vars

\* Only unlock's purge ever removes a row, and only 30 days after the delete.
Gone(i) == HasItem(i) /\ ~HasItem(i)'

RowsOutliveTheirGrace ==
    [][\A i \in Items : Gone(i) =>
            PurgeStep /\ items[i].del # Null /\ now - items[i].del > PurgeAfter]_vars

\* The promise, read off the signed set on disk: each write method takes effect
\* at once, when its reseal commits, and nothing else changes what the account
\* holds.  Kept as long as no method is cut short.
Promise == INSTANCE AtomicVault WITH
    contents <- sig,
    door <- IF proc = "unlocked" THEN "open" ELSE "shut"

ImplementsAtomicVault == Promise!Spec

-----------------------------------------------------------------------------
(* Claims of the repository that the code does not keep; each has a run    *)
(* that shows the counterexample.                                          *)

\* "WAL for crash resilience [...] losing a vault write is not an acceptable
\* trade": whatever the process was doing when it died, the file it left opens.
OpensAfterRestart == proc = "open" /\ op = Idle => memSig = Manifest

\* "a_restored_item_reappears_and_the_vault_still_unlocks": the purge an unlock
\* runs never meets a live item in a vault whose 30 days are over.
PurgeNeverBlocked == op.step = "purgeVaults" => ForeignKeyHolds
=============================================================================
