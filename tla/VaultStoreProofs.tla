-------------------------- MODULE VaultStoreProofs --------------------------
(***************************************************************************)
(* Proofs about VaultStore, for any identifiers, limits and bounds.        *)
(***************************************************************************)
EXTENDS VaultStore, SequenceTheorems, FiniteSetTheorems, TLAPS

(* What a method in progress may count on at each of its steps: an open    *)
(* file, and the rows it works on, which nothing between two statements of *)
(* one method may take away.                                               *)
OpHasItsRows ==
    /\ op.step # "idle" => proc # "closed"
    /\ op.step \in {"move", "rewrap"} =>
           HasVault(op.to) /\ \A i \in op.todo : HasItem(i)
    /\ op.step = "rewrap" => op.k > 0
    /\ op.step \in {"reseal", "record"} /\ op.item # NoItem =>
           op.item \in Items /\ HasItem(op.item)

TypeInv == TypeOK /\ OpHasItsRows

-----------------------------------------------------------------------------
(* Values of `op' and rows of the tables.                                  *)

LEMMA OpValues ==
    /\ Idle \in OpType /\ Idle.step = "idle"
    /\ \A i \in Items \cup {NoItem} :
           /\ ThenReseal(i) \in OpType
           /\ ThenReseal(i).step = "reseal" /\ ThenReseal(i).item = i
  BY DEF Idle, ThenReseal, OpType, Steps

LEMMA RowValues ==
    /\ NoRow \notin ItemRow /\ NoRow \notin VaultRow
    /\ Null \in Stamp
    /\ \A n \in Nat : n \in Stamp
    /\ \A stamp \in Stamp : [del |-> stamp] \in VaultRow
  BY RowAssumption DEF Stamp, VaultRow

(* A row written with another payload, deletion stamp or vault is a row.   *)
LEMMA RowUpdates ==
  ASSUME NEW row \in ItemRow
  PROVE  /\ [row EXCEPT !.rev = @ + 1] \in ItemRow
         /\ \A stamp \in Stamp : [row EXCEPT !.del = stamp] \in ItemRow
         /\ \A v \in Vaults : [row EXCEPT !.vault = v, !.wrap = v] \in ItemRow
<1>1. [row EXCEPT !.rev = @ + 1] \in ItemRow
  BY DEF ItemRow
<1>2. \A stamp \in Stamp : [row EXCEPT !.del = stamp] \in ItemRow
  BY DEF ItemRow
<1>3. ASSUME NEW v \in Vaults PROVE [row EXCEPT !.vault = v, !.wrap = v] \in ItemRow
  BY DEF ItemRow
<1> QED
  BY <1>1, <1>2, <1>3

(* A statement that writes one row keeps the type of the table, and every  *)
(* row that was there.                                                     *)
LEMMA WriteRow ==
  ASSUME items \in [Items -> ItemRow \cup {NoRow}],
         NEW i \in Items, NEW row \in ItemRow,
         items' = [items EXCEPT ![i] = row]
  PROVE  /\ items' \in [Items -> ItemRow \cup {NoRow}]
         /\ HasItem(i)'
         /\ \A j \in Items : HasItem(j) => HasItem(j)'
  BY RowValues DEF HasItem

-----------------------------------------------------------------------------
LEMMA TypeInvInit == Init => TypeInv
<1> SUFFICES ASSUME Init PROVE TypeInv
  OBVIOUS
<1>1. activity \in [Items -> Seq(Vaults)]
  BY DEF Init
<1>2. op \in OpType /\ op.step = "idle"
  BY OpValues DEF Init
<1> QED
  BY <1>1, <1>2 DEF Init, TypeInv, TypeOK, OpHasItsRows

LEMMA TypeInvVaultOps == TypeInv /\ VaultOps => TypeInv'
<1> SUFFICES ASSUME TypeInv, VaultOps PROVE TypeInv'
  OBVIOUS
<1> USE ConstantsAssumption, RowAssumption
    DEF TypeInv, TypeOK, OpHasItsRows, OpType, Steps, HasVault, HasItem, Ready,
        disk, ghosts
<1>1. ASSUME NEW v \in Vaults, VaultAdd(v) PROVE TypeInv'
  BY <1>1 DEF VaultAdd, VaultRow, ItemRow, Stamp, Null, Ready, Idle
<1>2. ASSUME NEW v \in Vaults, VaultDeleteWithItems(v) PROVE TypeInv'
  <2>1. \A i \in Items : Live(i) => [items[i] EXCEPT !.del = now] \in ItemRow
    BY RowUpdates, RowValues DEF Live
  <2>2. items' \in [Items -> ItemRow \cup {NoRow}]
    BY <1>2, <2>1 DEF VaultDeleteWithItems
  <2> QED
    BY <1>2, <2>2 DEF VaultDeleteWithItems, Idle
<1>3. ASSUME NEW v \in Vaults, NEW t \in Vaults, VaultDeleteMoving(v, t) PROVE TypeInv'
  BY <1>3 DEF VaultDeleteMoving, LiveVault, Live, Idle
<1>4. ASSUME NEW i \in Items, MoveItem(i) PROVE TypeInv'
  <2> DEFINE row == [items[i] EXCEPT !.vault = op.to, !.wrap = op.to]
  <2>1. items[i] \in ItemRow
    BY <1>4 DEF MoveItem
  <2>2. row \in ItemRow /\ items' = [items EXCEPT ![i] = row]
    BY <1>4, <2>1, RowUpdates DEF MoveItem
  <2>3. /\ items' \in [Items -> ItemRow \cup {NoRow}]
        /\ \A j \in Items : HasItem(j) => HasItem(j)'
    BY <2>2, WriteRow
  <2>4. op' \in OpType /\ op'.step = "rewrap" /\ op'.item = i
        /\ op'.from = op.from /\ op'.to = op.to /\ op'.todo = op.todo
        /\ op'.k = 1
    BY <1>4 DEF MoveItem
  <2>5. vaults' = vaults /\ proc' = proc /\ proc # "closed" /\ HasVault(op.to)
        /\ op.todo \subseteq Items /\ \A j \in op.todo : HasItem(j)
    BY <1>4 DEF MoveItem
  <2>6. OpHasItsRows'
    BY <2>3, <2>4, <2>5
  <2>7. TypeOK'
    BY <1>4, <2>3, <2>4 DEF MoveItem
  <2> QED
    BY <2>6, <2>7
<1>5. ASSUME RewrapRow PROVE TypeInv'
  <2> DEFINE rows == [activity[op.item] EXCEPT ![op.k] = op.to]
  <2>1. op.k \in 1..Len(activity[op.item]) /\ activity[op.item] \in Seq(Vaults)
    BY <1>5 DEF RewrapRow
  <2>2. rows \in Seq(Vaults)
    BY <1>5, <2>1, ExceptSeq DEF RewrapRow
  <2>3. activity' = [activity EXCEPT ![op.item] = rows]
    BY <1>5 DEF RewrapRow
  <2>4. activity' \in [Items -> Seq(Vaults)]
    BY <2>2, <2>3
  <2>5. op' = [op EXCEPT !.k = op.k + 1] /\ op.k + 1 \in Nat /\ op.k + 1 > 0
    BY <1>5 DEF RewrapRow
  <2> QED
    BY <1>5, <2>4, <2>5 DEF RewrapRow
<1>6. ASSUME RewrapRefused PROVE TypeInv'
  BY <1>6, OpValues DEF RewrapRefused
<1>7. ASSUME RewrapDone PROVE TypeInv'
  BY <1>7 DEF RewrapDone
<1>8. ASSUME MoveDone PROVE TypeInv'
  BY <1>8 DEF MoveDone
<1>9. ASSUME DropVault PROVE TypeInv'
  BY <1>9, OpValues, RowValues DEF DropVault
<1> QED
  BY <1>1, <1>2, <1>3, <1>4, <1>5, <1>6, <1>7, <1>8, <1>9 DEF VaultOps

LEMMA TypeInvItemOps == TypeInv /\ ItemOps => TypeInv'
<1> SUFFICES ASSUME TypeInv, ItemOps PROVE TypeInv'
  OBVIOUS
<1> USE ConstantsAssumption, RowAssumption
    DEF TypeInv, TypeOK, OpHasItsRows, OpType, Steps, HasVault, HasItem, Ready,
        disk, ghosts
<1>1. ASSUME NEW i \in Items, NEW v \in Vaults, InsertItem(i, v) PROVE TypeInv'
  <2>1. [vault |-> v, wrap |-> v, rev |-> 1, del |-> Null] \in ItemRow
    BY RowValues DEF ItemRow
  <2> QED
    BY <1>1, <2>1, WriteRow, OpValues DEF InsertItem
<1>2. ASSUME NEW i \in Items, UpdateItem(i) PROVE TypeInv'
  <2> DEFINE row == [items[i] EXCEPT !.rev = @ + 1]
  <2>1. items[i] \in ItemRow
    BY <1>2 DEF UpdateItem
  <2>2. row \in ItemRow /\ items' = [items EXCEPT ![i] = row]
    BY <1>2, <2>1, RowUpdates, RowValues DEF UpdateItem
  <2>3. op' = ThenReseal(i) /\ UNCHANGED <<vaults, activity, sig, memSig, proc,
                                          minted, now, cuts, sealCut, moveCut>>
    BY <1>2 DEF UpdateItem
  <2>4. proc = "unlocked"
    BY <1>2 DEF UpdateItem
  <2> QED
    BY <2>2, <2>3, <2>4, WriteRow, OpValues
<1>3. ASSUME NEW i \in Items, EditItem(i) PROVE TypeInv'
  <2> DEFINE row == [items[i] EXCEPT !.rev = @ + 1]
  <2>1. items[i] \in ItemRow
    BY <1>3 DEF EditItem, Live
  <2>2. row \in ItemRow /\ items' = [items EXCEPT ![i] = row]
    BY <1>3, <2>1, RowUpdates, RowValues DEF EditItem
  <2> QED
    BY <1>3, <2>2, WriteRow, OpValues DEF EditItem
<1>4. ASSUME NEW i \in Items, ItemDelete(i) PROVE TypeInv'
  <2> DEFINE row == [items[i] EXCEPT !.del = now]
  <2>1. items[i] \in ItemRow
    BY <1>4 DEF ItemDelete, Live
  <2>2. row \in ItemRow /\ items' = [items EXCEPT ![i] = row]
    BY <1>4, <2>1, RowUpdates, RowValues DEF ItemDelete
  <2> QED
    BY <1>4, <2>2, WriteRow, OpValues DEF ItemDelete
<1>5. ASSUME NEW i \in Items, ItemRestore(i) PROVE TypeInv'
  <2> DEFINE row == [items[i] EXCEPT !.del = Null]
  <2>1. items[i] \in ItemRow
    BY <1>5 DEF ItemRestore
  <2>2. row \in ItemRow /\ items' = [items EXCEPT ![i] = row]
    BY <1>5, <2>1, RowUpdates, RowValues DEF ItemRestore
  <2> QED
    BY <1>5, <2>2, WriteRow, OpValues DEF ItemRestore
<1>6. ASSUME NEW i \in Items, RevealOrCopy(i) PROVE TypeInv'
  <2>1. items[i].vault \in Vaults
    BY <1>6 DEF RevealOrCopy, Live, ItemRow
  <2>2. activity' \in [Items -> Seq(Vaults)]
    BY <1>6, <2>1 DEF RevealOrCopy, Recorded
  <2> QED
    BY <1>6, <2>2 DEF RevealOrCopy, Idle
<1>7. ASSUME NEW S \in SUBSET Items, ActivityClear(S) PROVE TypeInv'
  BY <1>7 DEF ActivityClear
<1>8. ASSUME Reseal PROVE TypeInv'
  <2>1. Manifest \in SUBSET (Items \X Nat)
    BY DEF Manifest, Live, ItemRow
  <2>2. CASE op.item = NoItem
    BY <1>8, <2>1, <2>2, OpValues DEF Reseal
  <2>3. CASE op.item # NoItem
    BY <1>8, <2>1, <2>3 DEF Reseal
  <2> QED
    BY <2>2, <2>3
<1>9. ASSUME Record PROVE TypeInv'
  <2>1. op.item \in Items /\ items[op.item].vault \in Vaults
    BY <1>9 DEF Record, ItemRow
  <2>2. activity' \in [Items -> Seq(Vaults)]
    BY <1>9, <2>1 DEF Record, Recorded
  <2> QED
    BY <1>9, <2>1, <2>2 DEF Record
<1>10. ASSUME Evict PROVE TypeInv'
  <2>1. op.item \in Items /\ Newest(activity[op.item]) \in Seq(Vaults)
    BY <1>10 DEF Evict, Newest
  <2> QED
    BY <1>10, <2>1, OpValues DEF Evict
<1> QED
  BY <1>1, <1>2, <1>3, <1>4, <1>5, <1>6, <1>7, <1>8, <1>9, <1>10 DEF ItemOps

LEMMA TypeInvDoorOps == TypeInv /\ DoorOps => TypeInv'
<1> SUFFICES ASSUME TypeInv, DoorOps PROVE TypeInv'
  OBVIOUS
<1> USE ConstantsAssumption, RowAssumption
    DEF TypeInv, TypeOK, OpHasItsRows, OpType, Steps, HasVault, HasItem, Ready,
        disk, ghosts
<1>1. ASSUME Open PROVE TypeInv'
  BY <1>1 DEF Open
<1>2. ASSUME Unlock PROVE TypeInv'
  BY <1>2 DEF Unlock, Idle
<1>3. ASSUME PurgeItems PROVE TypeInv'
  BY <1>3 DEF PurgeItems
<1>4. ASSUME PurgeActivity PROVE TypeInv'
  <2>1. activity' \in [Items -> Seq(Vaults)]
    BY <1>4 DEF PurgeActivity
  <2> QED
    BY <1>4, <2>1 DEF PurgeActivity
<1>5. ASSUME PurgeVaults PROVE TypeInv'
  BY <1>5, OpValues DEF PurgeVaults
<1>6. ASSUME Lock PROVE TypeInv'
  BY <1>6 DEF Lock
<1>7. ASSUME Quit PROVE TypeInv'
  BY <1>7 DEF Quit, Idle
<1> QED
  BY <1>1, <1>2, <1>3, <1>4, <1>5, <1>6, <1>7 DEF DoorOps

LEMMA TypeInvStep == TypeInv /\ [Next]_vars => TypeInv'
<1> SUFFICES ASSUME TypeInv, [Next]_vars PROVE TypeInv'
  OBVIOUS
<1> USE ConstantsAssumption, RowAssumption
<1>1. CASE VaultOps
  BY <1>1, TypeInvVaultOps
<1>2. CASE ItemOps
  BY <1>2, TypeInvItemOps
<1>3. CASE DoorOps
  BY <1>3, TypeInvDoorOps
<1>4. CASE StatementFails
  BY <1>4 DEF StatementFails, CutShort, Manifest, Live, Unreadable, Idle, TypeInv, TypeOK,
              OpHasItsRows, OpType, Steps, HasVault, HasItem, disk, ghosts, ItemRow
<1>5. CASE Crash
  BY <1>5 DEF Crash, CutShort, Unreadable, Idle, TypeInv, TypeOK,
              OpHasItsRows, OpType, Steps, HasVault, HasItem, disk, ghosts
<1>6. CASE Tick
  BY <1>6 DEF Tick, TypeInv, TypeOK, OpHasItsRows, HasVault, HasItem, disk, ghosts
<1>7. CASE UNCHANGED vars
  BY <1>7 DEF vars, ghosts, TypeInv, TypeOK, OpHasItsRows, HasVault, HasItem
<1> QED
  BY <1>1, <1>2, <1>3, <1>4, <1>5, <1>6, <1>7 DEF Next

\* Every variable keeps its type, and no method works on a row that is not there.
THEOREM TypeCorrect == Spec => []TypeOK
<1>1. Spec => []TypeInv
  BY TypeInvInit, TypeInvStep, PTL DEF Spec
<1> QED
  BY <1>1, PTL DEF TypeInv

-----------------------------------------------------------------------------
(* Items open: no step strands a row.                                      *)

LEMMA ItemsOpenStep ==
    TypeInv /\ EveryItemOpens /\ [Next]_vars => EveryItemOpens'
<1> SUFFICES ASSUME TypeInv, EveryItemOpens, [Next]_vars,
                    NEW j \in Items, HasItem(j)'
             PROVE  Opens(j)'
  BY DEF EveryItemOpens
<1>0. HasItem(j) => items[j] \in ItemRow /\ Opens(j) /\ items[j].vault \in Vaults
  BY DEF TypeInv, TypeOK, HasItem, EveryItemOpens, ItemRow
<1> USE DEF Opens, HasVault, HasItem
<1>1. ASSUME NEW v \in Vaults, VaultAdd(v) PROVE Opens(j)'
  BY <1>0, <1>1, RowValues DEF VaultAdd, TypeInv, TypeOK
<1>2. ASSUME NEW v \in Vaults, VaultDeleteWithItems(v) PROVE Opens(j)'
  BY <1>0, <1>2 DEF VaultDeleteWithItems, ItemRow, Live
<1>3. ASSUME NEW i \in Items, MoveItem(i) PROVE Opens(j)'
  BY <1>0, <1>3 DEF MoveItem, ItemRow, TypeInv, TypeOK, OpHasItsRows
<1>4. ASSUME DropVault PROVE Opens(j)'
  BY <1>0, <1>4, RowValues DEF DropVault, TypeInv, TypeOK
<1>5. ASSUME NEW i \in Items, NEW v \in Vaults, InsertItem(i, v) PROVE Opens(j)'
  BY <1>0, <1>5 DEF InsertItem, LiveVault, TypeInv, TypeOK
<1>6. ASSUME NEW i \in Items,
             UpdateItem(i) \/ EditItem(i) \/ ItemDelete(i) \/ ItemRestore(i)
      PROVE  Opens(j)'
  <2>1. items[i] \in ItemRow /\ items[i].wrap = items[i].vault
    BY <1>6 DEF UpdateItem, EditItem, ItemDelete, ItemRestore, Live, TypeInv, TypeOK,
                EveryItemOpens
  <2>2. items'[i].vault = items[i].vault /\ items'[i].wrap = items[i].wrap
    BY <1>6, <2>1 DEF UpdateItem, EditItem, ItemDelete, ItemRestore, ItemRow,
                      TypeInv, TypeOK
  <2>3. HasItem(j) /\ vaults' = vaults /\ (j # i => items'[j] = items[j])
    BY <1>6, <2>1, RowValues DEF UpdateItem, EditItem, ItemDelete, ItemRestore,
                                 TypeInv, TypeOK
  <2> QED
    BY <1>0, <2>2, <2>3
<1>7. ASSUME PurgeItems PROVE Opens(j)'
  BY <1>0, <1>7 DEF PurgeItems
<1>8. ASSUME PurgeVaults PROVE Opens(j)'
  BY <1>0, <1>8 DEF PurgeVaults, ForeignKeyHolds
<1>9. ASSUME UNCHANGED <<vaults, items>> PROVE Opens(j)'
  BY <1>0, <1>9
<1> QED
  BY <1>1, <1>2, <1>3, <1>4, <1>5, <1>6, <1>7, <1>8, <1>9
  DEF Next, VaultOps, ItemOps, DoorOps, VaultDeleteMoving, RewrapRow, RewrapRefused,
      RewrapDone, MoveDone, RevealOrCopy, Recorded, ActivityClear, Reseal, Record,
      Evict, Open, Unlock, PurgeActivity, Lock, Quit, StatementFails, Crash, Tick,
      disk, vars

\* No row of the items table is ever stranded: through moves, restores, purges
\* and cuts its vault row is there, and its key is the one the row names.
THEOREM ItemsAlwaysOpen == Spec => []EveryItemOpens
<1>1. Init => EveryItemOpens
  BY DEF Init, EveryItemOpens, HasItem
<1>2. Spec => []TypeInv
  BY TypeInvInit, TypeInvStep, PTL DEF Spec
<1> QED
  BY <1>1, <1>2, ItemsOpenStep, PTL DEF Spec

-----------------------------------------------------------------------------
(* The signature.  Between the statement that changes the live set and the *)
(* reseal, the header is behind; a deleted vault may be one of two steps.  *)

Sealed ==
    ~sealCut =>
        /\ proc # "closed" => memSig = sig
        /\ op.step \notin {"dropVault", "reseal"} => sig = Manifest

LEMMA SameManifest ==
  ASSUME \A i \in Items : Live(i)' = Live(i),
         \A i \in Items : Live(i) => items'[i].rev = items[i].rev
  PROVE  Manifest' = Manifest
  BY DEF Manifest

LEMMA MoveKeepsManifest ==
  ASSUME TypeInv, NEW i \in Items, MoveItem(i)
  PROVE  Manifest' = Manifest
<1>1. items[i] \in ItemRow
  BY DEF MoveItem, TypeInv, TypeOK, OpHasItsRows, HasItem
<1>2. items'[i].del = items[i].del /\ items'[i].rev = items[i].rev /\ items'[i] # NoRow
  <2> DEFINE row == [items[i] EXCEPT !.vault = op.to, !.wrap = op.to]
  <2>1. items'[i] = row
    BY DEF MoveItem, TypeInv, TypeOK
  <2>2. op.to \in Vaults
    BY DEF MoveItem, TypeInv, OpHasItsRows, TypeOK, OpType
  <2>3. row \in ItemRow /\ row.del = items[i].del /\ row.rev = items[i].rev
    BY <1>1, <2>2 DEF ItemRow
  <2>4. row # NoRow
    BY <2>3, RowValues
  <2> QED
    BY <2>1, <2>3, <2>4
<1>3. \A j \in Items : j # i => items'[j] = items[j]
  BY DEF MoveItem, TypeInv, TypeOK
<1>4. items[i] # NoRow
  BY <1>1, RowValues
<1> QED
  BY <1>2, <1>3, <1>4, SameManifest DEF Live, HasItem

LEMMA PurgeItemsKeepsManifest ==
  ASSUME PurgeItems
  PROVE  Manifest' = Manifest
<1>1. \A j \in Items : Live(j) => items'[j] = items[j]
  BY DEF PurgeItems, Live, Expired, HasItem
<1>2. \A j \in Items : Live(j)' => items'[j] = items[j]
  BY DEF PurgeItems, Live, HasItem
<1> QED
  BY <1>1, <1>2, SameManifest DEF Live, HasItem

LEMMA SealedStep == TypeInv /\ Sealed /\ [Next]_vars => Sealed'
<1> SUFFICES ASSUME TypeInv, Sealed, [Next]_vars PROVE Sealed'
  OBVIOUS
<1>0. sealCut \in BOOLEAN /\ op \in OpType
  BY DEF TypeInv, TypeOK
<1>1. ASSUME NEW i \in Items, MoveItem(i) PROVE Sealed'
  BY <1>0, <1>1, MoveKeepsManifest DEF MoveItem, Sealed, ghosts, OpType
<1>2. ASSUME NEW v \in Vaults, VaultDeleteWithItems(v) PROVE Sealed'
  BY <1>2 DEF VaultDeleteWithItems, Sealed, ghosts, Idle
<1>3. ASSUME DropVault PROVE Sealed'
  BY <1>3, OpValues DEF DropVault, Sealed, ghosts
<1>4. ASSUME NEW i \in Items, UNCHANGED <<sig, memSig, proc, sealCut>>,
             op' = ThenReseal(i) \/ op' = ThenReseal(NoItem)
      PROVE  Sealed'
  BY <1>4, OpValues DEF Sealed
<1>5. ASSUME Reseal PROVE Sealed'
  BY <1>5 DEF Reseal, Sealed, Manifest, Live, HasItem
<1>6. ASSUME Open PROVE Sealed'
  BY <1>6 DEF Open, Sealed, Manifest, Live, HasItem, disk, ghosts
<1>7. ASSUME PurgeItems PROVE Sealed'
  BY <1>0, <1>7, PurgeItemsKeepsManifest DEF PurgeItems, Sealed, ghosts, OpType
<1>8. ASSUME StatementFails \/ Crash PROVE Sealed'
  <2>1. sealCut' = (sealCut \/ sig # Manifest) /\ Manifest' = Manifest /\ sig' = sig
    BY <1>8 DEF StatementFails, Crash, CutShort, disk, Manifest, Live, HasItem
  <2>2. CASE sealCut'
    BY <2>2 DEF Sealed
  <2>3. CASE ~sealCut'
    <3>1. ~sealCut /\ sig = Manifest
      BY <1>0, <2>1, <2>3
    <3> QED
      BY <1>8, <2>1, <3>1 DEF StatementFails, Crash, Sealed
  <2> QED
    BY <2>2, <2>3
<1>9. ASSUME UNCHANGED <<items, sig, memSig, sealCut>>,
             proc' # "closed" => proc # "closed",
             op.step \in {"dropVault", "reseal"} => op' = op
      PROVE  Sealed'
  BY <1>9 DEF Sealed, Manifest, Live, HasItem
<1> QED
<2>1. CASE VaultOps
  <3>1. ASSUME NEW v \in Vaults, VaultAdd(v) PROVE Sealed'
    BY <3>1, <1>9 DEF VaultAdd, ghosts
  <3>2. ASSUME NEW v \in Vaults, NEW t \in Vaults, VaultDeleteMoving(v, t) PROVE Sealed'
    BY <3>2, <1>9, OpValues DEF VaultDeleteMoving, Ready, ghosts, disk
  <3>3. ASSUME RewrapRow \/ RewrapRefused \/ RewrapDone PROVE Sealed'
    BY <3>3, <1>9 DEF RewrapRow, RewrapRefused, RewrapDone, ghosts, disk
  <3>4. ASSUME MoveDone PROVE Sealed'
    BY <3>4, <1>0, <1>9 DEF MoveDone, ghosts, disk
  <3> QED
    BY <2>1, <3>1, <3>2, <3>3, <3>4, <1>1, <1>2, <1>3 DEF VaultOps
<2>2. CASE ItemOps
  <3>1. ASSUME NEW i \in Items, NEW v \in Vaults, InsertItem(i, v) PROVE Sealed'
    BY <3>1, <1>4 DEF InsertItem, ghosts
  <3>2. ASSUME NEW i \in Items,
               UpdateItem(i) \/ EditItem(i) \/ ItemDelete(i) \/ ItemRestore(i)
        PROVE  Sealed'
    BY <3>2, <1>4 DEF UpdateItem, EditItem, ItemDelete, ItemRestore, ghosts
  <3>3. ASSUME NEW i \in Items, RevealOrCopy(i) PROVE Sealed'
    BY <3>3, <1>9, OpValues DEF RevealOrCopy, Ready, ghosts
  <3>4. ASSUME NEW S \in SUBSET Items, ActivityClear(S) PROVE Sealed'
    BY <3>4, <1>9 DEF ActivityClear, ghosts
  <3>5. ASSUME Record \/ Evict PROVE Sealed'
    BY <3>5, <1>9 DEF Record, Evict, ghosts
  <3> QED
    BY <2>2, <3>1, <3>2, <3>3, <3>4, <3>5, <1>5 DEF ItemOps
<2>3. CASE DoorOps
  <3>1. ASSUME Unlock \/ PurgeActivity \/ PurgeVaults \/ Lock \/ Quit PROVE Sealed'
    <4>1. proc' # "closed" => proc # "closed"
      BY <3>1 DEF Unlock, PurgeActivity, PurgeVaults, Lock, Quit, Ready, disk,
                  TypeInv, OpHasItsRows
    <4> QED
      BY <3>1, <4>1, <1>9, OpValues DEF Unlock, PurgeActivity, PurgeVaults, Lock, Quit, ghosts, disk
  <3> QED
    BY <2>3, <3>1, <1>6, <1>7 DEF DoorOps
<2>4. CASE Tick \/ UNCHANGED vars
  BY <2>4, <1>9 DEF Tick, vars, disk, ghosts
<2> QED
  BY <2>1, <2>2, <2>3, <2>4, <1>8 DEF Next

\* Between methods the header signs exactly the live items, on disk and in
\* memory, until a method is cut between a change and its reseal.
THEOREM SignatureCovers == Spec => []SignatureCoversLiveItems
<1>1. Init => Sealed
  BY OpValues DEF Init, Sealed, Manifest, Live, HasItem
<1>2. Spec => []TypeInv
  BY TypeInvInit, TypeInvStep, PTL DEF Spec
<1>3. Spec => []Sealed
  BY <1>1, <1>2, SealedStep, PTL DEF Spec
<1>4. Sealed => SignatureCoversLiveItems
  BY OpValues DEF Sealed, SignatureCoversLiveItems
<1> QED
  BY <1>3, <1>4, PTL

-----------------------------------------------------------------------------
(* A live vault.  The check for the last vault is made at the first        *)
(* statement of a delete and relied upon at its last.                      *)

Housed ==
    /\ minted \cap Vaults # {} => \E v \in Vaults : LiveVault(v)
    /\ op.step \in {"move", "rewrap", "dropVault"} =>
           \E v \in Vaults : v # op.from /\ LiveVault(v)

LEMMA AnotherVault ==
  ASSUME NEW v \in Vaults, Deletable(v)
  PROVE  \E w \in Vaults : w # v /\ LiveVault(w)
<1> SUFFICES ASSUME \A w \in Vaults : LiveVault(w) => w = v PROVE FALSE
  OBVIOUS
<1>1. LiveVaults = {v}
  BY DEF Deletable, LiveVaults
<1>2. Cardinality({v}) = 1
  BY FS_Singleton
<1> QED
  BY <1>1, <1>2 DEF Deletable

LEMMA HousedStep == TypeInv /\ Housed /\ [Next]_vars => Housed'
<1> SUFFICES ASSUME TypeInv, Housed, [Next]_vars PROVE Housed'
  OBVIOUS
<1> USE DEF LiveVault, HasVault
<1>0. op \in OpType /\ vaults \in [Vaults -> VaultRow \cup {NoRow}]
  BY DEF TypeInv, TypeOK
<1>1. ASSUME NEW v \in Vaults, VaultAdd(v) PROVE Housed'
  <2>1. LiveVault(v)'
    BY <1>0, <1>1, RowValues DEF VaultAdd
  <2> QED
    BY <1>1, <2>1, OpValues DEF VaultAdd, Ready, Housed
<1>2. ASSUME NEW v \in Vaults, VaultDeleteWithItems(v) PROVE Housed'
  BY <1>2, AnotherVault DEF VaultDeleteWithItems, Housed, Idle
<1>3. ASSUME NEW v \in Vaults, NEW t \in Vaults, VaultDeleteMoving(v, t) PROVE Housed'
  BY <1>3, AnotherVault DEF VaultDeleteMoving, Housed, Idle, disk
<1>4. ASSUME NEW i \in Items, MoveItem(i) PROVE Housed'
  BY <1>0, <1>4 DEF MoveItem, Housed, OpType
<1>5. ASSUME RewrapRow \/ RewrapDone \/ MoveDone PROVE Housed'
  BY <1>0, <1>5 DEF RewrapRow, RewrapDone, MoveDone, Housed, OpType, disk
<1>6. ASSUME DropVault PROVE Housed'
  <2>1. PICK w \in Vaults : w # op.from /\ LiveVault(w)
    BY <1>6 DEF DropVault, Housed
  <2>2. LiveVault(w)'
    BY <1>0, <1>6, <2>1 DEF DropVault
  <2> QED
    BY <1>6, <2>2, OpValues DEF DropVault, Housed
<1>7. ASSUME PurgeVaults PROVE Housed'
  <2>1. \A v \in Vaults : LiveVault(v) => LiveVault(v)'
    BY <1>7 DEF PurgeVaults, ExpiredVaults, Expired
  <2> QED
    BY <1>7, <2>1, OpValues DEF PurgeVaults, Housed
<1>8. ASSUME UNCHANGED vaults, minted' \cap Vaults \subseteq minted,
             op' = op \/ op'.step \notin {"move", "rewrap", "dropVault"}
      PROVE  Housed'
  BY <1>8 DEF Housed
<1> QED
<2>1. CASE VaultOps
  <3>1. ASSUME RewrapRefused PROVE Housed'
    BY <3>1, <1>8, OpValues DEF RewrapRefused, disk
  <3> QED
    BY <2>1, <3>1, <1>1, <1>2, <1>3, <1>4, <1>5, <1>6 DEF VaultOps
<2>2. CASE ItemOps
  <3>1. ASSUME NEW i \in Items, NEW v \in Vaults, InsertItem(i, v) PROVE Housed'
    <4>1. minted' \cap Vaults # {} => \E w \in Vaults : LiveVault(w)
      BY <3>1 DEF InsertItem
    <4> QED
      BY <3>1, <4>1, OpValues DEF InsertItem, Housed
  <3>2. ASSUME NEW i \in Items,
               \/ UpdateItem(i) \/ EditItem(i) \/ ItemDelete(i) \/ ItemRestore(i)
               \/ RevealOrCopy(i)
        PROVE  Housed'
    BY <3>2, <1>8, OpValues DEF UpdateItem, EditItem, ItemDelete, ItemRestore,
                                RevealOrCopy, Idle
  <3>3. ASSUME NEW S \in SUBSET Items, ActivityClear(S) PROVE Housed'
    BY <3>3, <1>8 DEF ActivityClear
  <3>4. ASSUME Reseal \/ Record \/ Evict PROVE Housed'
    BY <3>4, <1>0, <1>8, OpValues DEF Reseal, Record, Evict, OpType
  <3> QED
    BY <2>2, <3>1, <3>2, <3>3, <3>4 DEF ItemOps
<2>3. CASE DoorOps
  <3>1. ASSUME Open \/ Unlock \/ PurgeItems \/ PurgeActivity \/ Lock \/ Quit PROVE Housed'
    BY <3>1, <1>0, <1>8 DEF Open, Unlock, PurgeItems, PurgeActivity, Lock, Quit, Idle,
                            OpType, disk
  <3> QED
    BY <2>3, <3>1, <1>7 DEF DoorOps
<2>4. CASE StatementFails \/ Crash \/ Tick \/ UNCHANGED vars
  BY <2>4, <1>8, OpValues DEF StatementFails, Crash, CutShort, Tick, vars, disk
<2> QED
  BY <2>1, <2>2, <2>3, <2>4 DEF Next

\* An account that ever had a vault has a live one, whatever is deleted, purged
\* or cut short.
THEOREM VaultAlwaysLive == Spec => []SomeVaultAlwaysLive
<1>1. Init => Housed
  BY OpValues DEF Init, Housed
<1>2. Spec => []TypeInv
  BY TypeInvInit, TypeInvStep, PTL DEF Spec
<1>3. Spec => []Housed
  BY <1>1, <1>2, HousedStep, PTL DEF Spec
<1>4. Housed => SomeVaultAlwaysLive
  BY DEF Housed, SomeVaultAlwaysLive, LiveVaults
<1> QED
  BY <1>3, <1>4, PTL

-----------------------------------------------------------------------------
(* What a purge may remove.                                                *)

LEMMA NothingElsePurges ==
    TypeInv /\ [Next]_vars /\ ~PurgeItems =>
        /\ \A i \in Items : HasItem(i) => HasItem(i)'
        /\ PurgeStep => items' = items
<1> SUFFICES ASSUME TypeInv, [Next]_vars, ~PurgeItems
             PROVE  /\ \A i \in Items : HasItem(i) => HasItem(i)'
                    /\ PurgeStep => items' = items
  OBVIOUS
<1>0. items \in [Items -> ItemRow \cup {NoRow}]
  BY DEF TypeInv, TypeOK
<1> DEFINE Kept == \A i \in Items : HasItem(i) => HasItem(i)'
<1>1. ASSUME NEW i \in Items, MoveItem(i) PROVE Kept /\ ~PurgeStep
  <2>1. items[i] \in ItemRow
    BY <1>0, <1>1 DEF MoveItem, TypeInv, OpHasItsRows, HasItem
  <2>2. op.to \in Vaults /\ ~PurgeStep
    BY <1>1 DEF MoveItem, PurgeStep, TypeInv, TypeOK
  <2>3. \E row \in ItemRow : items' = [items EXCEPT ![i] = row]
    BY <1>1, <2>1, <2>2, RowUpdates DEF MoveItem
  <2> QED
    BY <1>0, <2>2, <2>3, WriteRow
<1>2. ASSUME NEW v \in Vaults, VaultDeleteWithItems(v) PROVE Kept /\ ~PurgeStep
  <2>1. \A i \in Items : Live(i) => [items[i] EXCEPT !.del = now] \in ItemRow
    BY <1>0, RowUpdates, RowValues DEF Live, HasItem, TypeInv, TypeOK
  <2> QED
    BY <1>0, <1>2, <2>1, RowValues, OpValues
    DEF VaultDeleteWithItems, Ready, PurgeStep, HasItem
<1>3. ASSUME NEW i \in Items, NEW v \in Vaults, InsertItem(i, v) PROVE Kept /\ ~PurgeStep
  <2>1. [vault |-> v, wrap |-> v, rev |-> 1, del |-> Null] \in ItemRow
    BY RowValues DEF ItemRow
  <2> QED
    BY <1>0, <1>3, <2>1, WriteRow, OpValues DEF InsertItem, Ready, PurgeStep
<1>4. ASSUME NEW i \in Items,
             UpdateItem(i) \/ EditItem(i) \/ ItemDelete(i) \/ ItemRestore(i)
      PROVE  Kept /\ ~PurgeStep
  <2>1. items[i] \in ItemRow
    BY <1>0, <1>4 DEF UpdateItem, EditItem, ItemDelete, ItemRestore, Live, HasItem
  <2>2. \E row \in ItemRow : items' = [items EXCEPT ![i] = row]
    BY <1>4, <2>1, RowUpdates, RowValues
    DEF UpdateItem, EditItem, ItemDelete, ItemRestore, TypeInv, TypeOK
  <2> QED
    BY <1>0, <1>4, <2>2, WriteRow, OpValues
    DEF UpdateItem, EditItem, ItemDelete, ItemRestore, Ready, PurgeStep
<1>5. ASSUME items' = items PROVE Kept
  BY <1>5 DEF HasItem
<1> QED
  BY <1>1, <1>2, <1>3, <1>4, <1>5
  DEF Next, VaultOps, ItemOps, DoorOps, VaultAdd, VaultDeleteMoving, RewrapRow,
      RewrapRefused, RewrapDone, MoveDone, DropVault, RevealOrCopy, ActivityClear, Reseal,
      Record, Evict, Open, Unlock, PurgeActivity, PurgeVaults, Lock, Quit, StatementFails,
      Crash, Tick, disk, vars

\* No statement of a purge changes what the header signs.
THEOREM PurgeSafe == Spec => PurgeKeepsManifest
<1>1. TypeInv /\ [Next]_vars => [PurgeStep => Manifest' = Manifest]_vars
  <2>1. ASSUME TypeInv, [Next]_vars, PurgeStep, ~PurgeItems PROVE Manifest' = Manifest
    BY <2>1, NothingElsePurges DEF Manifest, Live, HasItem
  <2> QED
    BY <2>1, PurgeItemsKeepsManifest
<1>2. Spec => []TypeInv
  BY TypeInvInit, TypeInvStep, PTL DEF Spec
<1> QED
  BY <1>1, <1>2, PTL DEF Spec, PurgeKeepsManifest

\* A row leaves the table only in a purge, more than PurgeAfter after its
\* item was deleted.
THEOREM GraceKept == Spec => RowsOutliveTheirGrace
<1> DEFINE Grace == \A i \in Items : Gone(i) =>
              PurgeStep /\ items[i].del # Null /\ now - items[i].del > PurgeAfter
<1>1. TypeInv /\ [Next]_vars => [Grace]_vars
  <2>1. ASSUME TypeInv, [Next]_vars, ~PurgeItems PROVE Grace
    BY <2>1, NothingElsePurges DEF Gone
  <2>2. ASSUME TypeInv, PurgeItems, NEW i \in Items, Gone(i)
        PROVE  PurgeStep /\ items[i].del # Null /\ now - items[i].del > PurgeAfter
    <3>1. items[i] \in ItemRow /\ Expired(items[i].del) /\ PurgeStep
      BY <2>2 DEF PurgeItems, Gone, HasItem, PurgeStep, TypeInv, TypeOK
    <3>2. items[i].del \in Nat
      BY <3>1 DEF ItemRow, Stamp, Expired
    <3> QED
      BY <2>2, <3>1, <3>2, ConstantsAssumption DEF Expired, TypeInv, TypeOK
  <2> QED
    BY <2>1, <2>2
<1>2. Spec => []TypeInv
  BY TypeInvInit, TypeInvStep, PTL DEF Spec
<1> QED
  BY <1>1, <1>2, PTL DEF Spec, RowsOutliveTheirGrace

-----------------------------------------------------------------------------
(* The history.  While a move rewraps the rows of its item one by one, the *)
(* rows from op.k on are still sealed for the old vault; the items that    *)
(* remain to be moved are still in it.  An identifier that was never       *)
(* handed out has neither row nor history to be confused with another's.   *)

NothingUnminted == \A i \in Items : i \notin minted => ~HasItem(i) /\ activity[i] = <<>>

MoveUnderWay ==
    /\ op.step = "move" => op.item = NoItem
    /\ op.step \in {"move", "rewrap"} =>
           \A i \in op.todo \ {op.item} : items[i].vault = op.from
    /\ op.step = "rewrap" => HasItem(op.item) /\ items[op.item].vault = op.to

SealedFor(i, k) ==
    IF op.step = "rewrap" /\ op.item = i /\ k >= op.k THEN op.from ELSE items[i].vault

HistoryKept ==
    \A i \in Items : HasItem(i) /\ i \notin moveCut =>
        \A k \in DOMAIN activity[i] : activity[i][k] = SealedFor(i, k)

HistoryInv == NothingUnminted /\ MoveUnderWay /\ HistoryKept

LEMMA RowsOfItems ==
  ASSUME TypeInv, NEW i \in Items, HasItem(i)
  PROVE  items[i] \in ItemRow /\ items[i].vault \in Vaults
  BY DEF TypeInv, TypeOK, HasItem, ItemRow

(* No item changes its vault, and no history grows.                       *)
VaultsKept ==
    /\ minted \subseteq minted'
    /\ moveCut' = moveCut
    /\ \A i \in Items : HasItem(i)' =>
           /\ HasItem(i) \/ (i \notin minted /\ i \in minted')
           /\ HasItem(i) => items'[i].vault = items[i].vault
    /\ \A i \in Items : activity'[i] = activity[i] \/ activity'[i] = <<>>

(* A step of a method that moves nothing.                                  *)
LEMMA HistoryUntouched ==
  ASSUME HistoryInv, VaultsKept,
         \/ op' = op /\ items' = items
         \/ op.step # "rewrap" /\ op'.step \notin {"move", "rewrap"}
  PROVE  HistoryInv'
<1> USE DEF VaultsKept
<1>1. NothingUnminted'
  BY DEF HistoryInv, NothingUnminted
<1>2. MoveUnderWay'
  BY DEF HistoryInv, MoveUnderWay, HasItem
<1>3. ASSUME NEW i \in Items, HasItem(i)', i \notin moveCut, NEW k \in DOMAIN activity'[i]
      PROVE  activity'[i][k] = SealedFor(i, k)'
  <2>1. activity'[i] = activity[i] /\ k \in DOMAIN activity[i]
    BY <1>3
  <2>2. HasItem(i)
    BY <1>3, <2>1 DEF HistoryInv, NothingUnminted
  <2>3. activity[i][k] = SealedFor(i, k)
    BY <1>3, <2>1, <2>2 DEF HistoryInv, HistoryKept
  <2> QED
    BY <1>3, <2>1, <2>2, <2>3 DEF SealedFor
<1> QED
  BY <1>1, <1>2, <1>3 DEF HistoryInv, HistoryKept

LEMMA HistoryVaultOps == TypeInv /\ HistoryInv /\ VaultOps => HistoryInv'
<1> SUFFICES ASSUME TypeInv, HistoryInv, VaultOps PROVE HistoryInv'
  OBVIOUS
<1>0. /\ op \in OpType /\ items \in [Items -> ItemRow \cup {NoRow}]
      /\ activity \in [Items -> Seq(Vaults)] /\ NoItem \notin Items
  BY ConstantsAssumption DEF TypeInv, TypeOK
<1>1. ASSUME NEW v \in Vaults, VaultAdd(v) PROVE HistoryInv'
  BY <1>1, HistoryUntouched DEF VaultAdd, ghosts, HasItem, VaultsKept
<1>2. ASSUME NEW v \in Vaults, VaultDeleteWithItems(v) PROVE HistoryInv'
  <2>1. ASSUME NEW i \in Items PROVE HasItem(i)' => HasItem(i) /\ items'[i].vault = items[i].vault
    BY <1>0, <1>2 DEF VaultDeleteWithItems, HasItem, ItemRow, Live
  <2>2. VaultsKept
    BY <1>2, <2>1 DEF VaultDeleteWithItems, ghosts, VaultsKept
  <2> QED
    BY <1>2, <2>2, HistoryUntouched DEF VaultDeleteWithItems, Ready, Idle
<1>3. ASSUME NEW v \in Vaults, NEW t \in Vaults, VaultDeleteMoving(v, t) PROVE HistoryInv'
  BY <1>0, <1>3 DEF VaultDeleteMoving, Ready, Idle, disk, ghosts, HasItem, HistoryInv,
                    NothingUnminted, MoveUnderWay, HistoryKept, SealedFor
<1>4. ASSUME NEW i \in Items, MoveItem(i) PROVE HistoryInv'
  <2>1. HasItem(i) /\ items[i].vault = op.from /\ op.item = NoItem
    BY <1>0, <1>4 DEF MoveItem, TypeInv, OpHasItsRows, HistoryInv, MoveUnderWay
  <2>2. items[i] \in ItemRow
    BY <2>1, RowsOfItems
  <2>3. /\ items'[i].vault = op.to /\ HasItem(i)'
        /\ \A j \in Items \ {i} : items'[j] = items[j]
    BY <1>0, <1>4, <2>2, RowUpdates, RowValues DEF MoveItem, HasItem, TypeInv, TypeOK, ItemRow
  <2>4. /\ op'.step = "rewrap" /\ op'.item = i /\ op'.k = 1 /\ op'.todo = op.todo
        /\ op'.from = op.from /\ op'.to = op.to
    BY <1>0, <1>4 DEF MoveItem, OpType
  <2>5. UNCHANGED <<activity, minted, moveCut>>
    BY <1>4 DEF MoveItem, ghosts
  <2>6. NothingUnminted'
    BY <2>1, <2>3, <2>5 DEF HistoryInv, NothingUnminted, HasItem
  <2>7. MoveUnderWay'
    <3>1. \A j \in op.todo \ {i} : j \in Items /\ items'[j].vault = op.from
      BY <1>0, <1>4, <2>1, <2>3 DEF MoveItem, HistoryInv, MoveUnderWay, OpType
    <3> QED
      BY <2>3, <2>4, <3>1 DEF MoveUnderWay
  <2>8. ASSUME NEW j \in Items, HasItem(j)', j \notin moveCut, NEW k \in DOMAIN activity[j]
        PROVE  activity[j][k] = SealedFor(j, k)'
    <3>1. HasItem(j) /\ activity[j][k] = items[j].vault
      BY <1>4, <2>1, <2>3, <2>8 DEF HistoryInv, HistoryKept, SealedFor, MoveItem, HasItem
    <3>2. k >= 1
      BY <1>0, <2>8
    <3> QED
      BY <2>1, <2>3, <2>4, <3>1, <3>2 DEF SealedFor
  <2> QED
    BY <2>5, <2>6, <2>7, <2>8 DEF HistoryInv, HistoryKept
<1>5. ASSUME RewrapRow PROVE HistoryInv'
  <2>1. /\ op.item \in Items /\ op.k \in 1..Len(activity[op.item]) /\ op.step = "rewrap"
        /\ op.to = items[op.item].vault
    BY <1>0, <1>5 DEF RewrapRow, TypeInv, TypeOK, OpHasItsRows, OpType, HistoryInv, MoveUnderWay
  <2>2. /\ op' = [op EXCEPT !.k = op.k + 1] /\ op.k \in Nat
        /\ UNCHANGED <<items, minted, moveCut>>
        /\ activity' = [activity EXCEPT ![op.item][op.k] = op.to]
    BY <1>0, <1>5 DEF RewrapRow, ghosts, OpType
  <2>3. /\ op'.step = op.step /\ op'.item = op.item /\ op'.k = op.k + 1
        /\ op'.todo = op.todo /\ op'.from = op.from /\ op'.to = op.to
    BY <1>0, <2>2 DEF OpType
  <2>4. \A j \in Items : DOMAIN activity'[j] = DOMAIN activity[j] /\ (j # op.item => activity'[j] = activity[j])
    BY <1>0, <2>1, <2>2
  <2>5. \A k \in DOMAIN activity[op.item] :
            activity'[op.item][k] = IF k = op.k THEN op.to ELSE activity[op.item][k]
    BY <1>0, <2>1, <2>2
  <2>6. activity[op.item] # <<>>
    BY <2>1
  <2>7. NothingUnminted'
    BY <2>2, <2>4, <2>6 DEF HistoryInv, NothingUnminted, HasItem
  <2>8. MoveUnderWay'
    BY <2>2, <2>3 DEF HistoryInv, MoveUnderWay, HasItem
  <2>9. ASSUME NEW j \in Items, HasItem(j), j \notin moveCut, NEW k \in DOMAIN activity[j]
        PROVE  activity'[j][k] = SealedFor(j, k)'
    <3>1. activity[j][k] = SealedFor(j, k) /\ k \in Nat
      BY <1>0, <2>9 DEF HistoryInv, HistoryKept
    <3> QED
      BY <2>1, <2>2, <2>3, <2>4, <2>5, <2>9, <3>1 DEF SealedFor
  <2> QED
    BY <2>2, <2>4, <2>7, <2>8, <2>9 DEF HistoryInv, HistoryKept, HasItem
<1>6. ASSUME RewrapRefused PROVE HistoryInv'
  <2>1. op.item \in Items /\ op.item \in moveCut
    <3>1. op.item \in Items /\ op.k \in DOMAIN activity[op.item] /\ op.step = "rewrap"
      BY <1>0, <1>6 DEF RewrapRefused, TypeInv, TypeOK, OpHasItsRows, OpType
    <3> QED
      BY <1>0, <1>6, <3>1 DEF RewrapRefused, HistoryInv, HistoryKept, MoveUnderWay, SealedFor, OpType
  <2>2. op' = Idle /\ UNCHANGED <<items, activity, minted, moveCut>>
    BY <1>6 DEF RewrapRefused, disk, ghosts
  <2>3. ASSUME NEW j \in Items, HasItem(j), j \notin moveCut, NEW k \in DOMAIN activity[j]
        PROVE  activity[j][k] = SealedFor(j, k)'
    BY <2>1, <2>2, <2>3, OpValues DEF HistoryInv, HistoryKept, SealedFor
  <2> QED
    BY <2>2, <2>3, OpValues DEF HistoryInv, HistoryKept, NothingUnminted, MoveUnderWay, HasItem
<1>7. ASSUME RewrapDone PROVE HistoryInv'
  <2>1. /\ op'.step = "move" /\ op'.item = NoItem /\ op'.todo = op.todo \ {op.item}
        /\ op'.from = op.from /\ op'.to = op.to /\ op.step = "rewrap" /\ op.k > Len(activity[op.item])
        /\ op.item \in Items /\ op.k \in Nat
    BY <1>0, <1>7 DEF RewrapDone, OpType, TypeInv, TypeOK
  <2>2. UNCHANGED <<items, activity, minted, moveCut>>
    BY <1>7 DEF RewrapDone, disk, ghosts
  <2>3. MoveUnderWay'
    BY <2>1, <2>2 DEF HistoryInv, MoveUnderWay, HasItem
  <2>4. ASSUME NEW j \in Items, HasItem(j), j \notin moveCut, NEW k \in DOMAIN activity[j]
        PROVE  activity[j][k] = SealedFor(j, k)'
    BY <1>0, <2>1, <2>2, <2>4 DEF HistoryInv, HistoryKept, SealedFor
  <2> QED
    BY <2>2, <2>3, <2>4 DEF HistoryInv, HistoryKept, NothingUnminted, HasItem
<1>8. ASSUME MoveDone PROVE HistoryInv'
  <2>1. op'.step = "dropVault" /\ op.step = "move"
    BY <1>0, <1>8 DEF MoveDone, OpType
  <2> QED
    BY <1>8, <2>1, HistoryUntouched DEF MoveDone, disk, ghosts, HasItem, VaultsKept
<1>9. ASSUME DropVault PROVE HistoryInv'
  BY <1>9, OpValues, HistoryUntouched DEF DropVault, ghosts, HasItem, VaultsKept
<1> QED
  BY <1>1, <1>2, <1>3, <1>4, <1>5, <1>6, <1>7, <1>8, <1>9 DEF VaultOps

LEMMA HistoryItemOps == TypeInv /\ HistoryInv /\ ItemOps => HistoryInv'
<1> SUFFICES ASSUME TypeInv, HistoryInv, ItemOps PROVE HistoryInv'
  OBVIOUS
<1>0. /\ op \in OpType /\ items \in [Items -> ItemRow \cup {NoRow}]
      /\ activity \in [Items -> Seq(Vaults)] /\ NoItem \notin Items
  BY ConstantsAssumption DEF TypeInv, TypeOK
<1>1. ASSUME NEW i \in Items, NEW v \in Vaults, InsertItem(i, v) PROVE HistoryInv'
  <2>1. VaultsKept
    BY <1>0, <1>1 DEF InsertItem, VaultsKept, HasItem, ghosts, HistoryInv, NothingUnminted
  <2> QED
    BY <1>1, <2>1, HistoryUntouched, OpValues DEF InsertItem, Ready
<1>2. ASSUME NEW i \in Items,
             UpdateItem(i) \/ EditItem(i) \/ ItemDelete(i) \/ ItemRestore(i)
      PROVE  HistoryInv'
  <2>1. items[i] \in ItemRow
    BY <1>0, <1>2 DEF UpdateItem, EditItem, ItemDelete, ItemRestore, Live, HasItem
  <2>2. items'[i].vault = items[i].vault /\ \A j \in Items \ {i} : items'[j] = items[j]
    BY <1>0, <1>2, <2>1 DEF UpdateItem, EditItem, ItemDelete, ItemRestore, ItemRow
  <2>3. VaultsKept
    BY <1>2, <2>1, <2>2, RowValues
    DEF UpdateItem, EditItem, ItemDelete, ItemRestore, VaultsKept, HasItem, ghosts
  <2> QED
    BY <1>2, <2>3, HistoryUntouched, OpValues DEF UpdateItem, EditItem, ItemDelete, ItemRestore, Ready
<1>3. ASSUME NEW i \in Items, HasItem(i), Recorded(i),
             UNCHANGED <<items, minted, moveCut>>,
             op.step # "rewrap", op'.step \notin {"move", "rewrap"}
      PROVE  HistoryInv'
  <2>1. activity' = [activity EXCEPT ![i] = Append(activity[i], items[i].vault)]
    BY <1>3 DEF Recorded
  <2>2. /\ \A j \in Items \ {i} : activity'[j] = activity[j]
        /\ DOMAIN activity'[i] = 1..(Len(activity[i]) + 1)
        /\ \A k \in 1..Len(activity[i]) : activity'[i][k] = activity[i][k]
        /\ activity'[i][Len(activity[i]) + 1] = items[i].vault
    BY <1>0, <1>3, <2>1, RowsOfItems
  <2>3. ASSUME NEW j \in Items, HasItem(j), j \notin moveCut, NEW k \in DOMAIN activity'[j]
        PROVE  activity'[j][k] = items[j].vault
    <3>1. CASE j # i
      BY <1>3, <2>2, <2>3, <3>1 DEF HistoryInv, HistoryKept, SealedFor
    <3>2. CASE j = i
      <4>1. /\ Len(activity[i]) \in Nat /\ DOMAIN activity[i] = 1..Len(activity[i])
            /\ k \in 1..(Len(activity[i]) + 1)
        BY <1>0, <2>2, <2>3, <3>2
      <4>2. k = Len(activity[i]) + 1 \/ k \in 1..Len(activity[i])
        BY <4>1
      <4> QED
        BY <1>3, <2>2, <2>3, <3>2, <4>1, <4>2 DEF HistoryInv, HistoryKept, SealedFor
    <3> QED
      BY <3>1, <3>2
  <2>4. NothingUnminted'
    BY <1>3, <2>2 DEF HistoryInv, NothingUnminted, HasItem
  <2> QED
    BY <1>3, <2>3, <2>4 DEF HistoryInv, HistoryKept, MoveUnderWay, SealedFor, HasItem
<1>4. ASSUME NEW S \in SUBSET Items, ActivityClear(S) PROVE HistoryInv'
  <2>1. VaultsKept
    BY <1>4 DEF ActivityClear, VaultsKept, ghosts, HasItem
  <2> QED
    BY <1>4, <2>1, HistoryUntouched DEF ActivityClear
<1>5. ASSUME Reseal PROVE HistoryInv'
  <2>1. op.step # "rewrap" /\ op'.step \notin {"move", "rewrap"}
    BY <1>0, <1>5, OpValues DEF Reseal, OpType
  <2> QED
    BY <1>5, <2>1, HistoryUntouched DEF Reseal, VaultsKept, HasItem
<1>6. ASSUME Record PROVE HistoryInv'
  <2>1. op.item \in Items /\ HasItem(op.item) /\ op'.step = "evict"
    BY <1>0, <1>6 DEF Record, OpType, TypeInv, TypeOK, OpHasItsRows
  <2> QED
    BY <1>3, <1>6, <2>1 DEF Record, ghosts
<1>7. ASSUME NEW i \in Items, RevealOrCopy(i) PROVE HistoryInv'
  BY <1>3, <1>7, OpValues DEF RevealOrCopy, Ready, Live, Idle, ghosts
<1>8. ASSUME Evict PROVE HistoryInv'
  <2> DEFINE i == op.item
             cut == Len(activity[i]) - Len(Newest(activity[i]))
  <2>1. i \in Items /\ activity[i] \in Seq(Vaults) /\ op.step = "evict" /\ op' = Idle
    BY <1>0, <1>8 DEF Evict, TypeInv, TypeOK
  <2>2. /\ \A j \in Items \ {i} : activity'[j] = activity[j]
        /\ activity'[i] = Newest(activity[i])
    BY <1>0, <1>8, <2>1 DEF Evict
  <2>3. ASSUME NEW k \in DOMAIN Newest(activity[i])
        PROVE  \E n \in DOMAIN activity[i] : Newest(activity[i])[k] = activity[i][n]
    <3>1. CASE Len(activity[i]) <= ActivityLimit
      BY <2>3, <3>1 DEF Newest
    <3>2. CASE ~(Len(activity[i]) <= ActivityLimit)
      <4> DEFINE m == Len(activity[i]) - ActivityLimit + 1
      <4>1. m \in 1..Len(activity[i]) /\ ActivityLimit \in Nat
        BY <2>1, <3>2, ConstantsAssumption
      <4>2. Newest(activity[i]) = SubSeq(activity[i], m, Len(activity[i]))
        BY <3>2 DEF Newest
      <4>3. k \in 1..(Len(activity[i]) - m + 1)
        BY <2>1, <2>3, <4>1, <4>2
      <4>4. Newest(activity[i])[k] = activity[i][m + k - 1]
        BY <2>1, <4>1, <4>2, <4>3
      <4>5. m + k - 1 \in DOMAIN activity[i]
        BY <2>1, <4>1, <4>3
      <4> QED
        BY <4>4, <4>5
    <3> QED
      BY <3>1, <3>2
  <2>4. activity[i] = <<>> => Newest(activity[i]) = <<>>
    BY ConstantsAssumption DEF Newest
  <2>5. UNCHANGED <<items, minted, moveCut>>
    BY <1>8 DEF Evict, ghosts
  <2>6. NothingUnminted'
    BY <2>2, <2>4, <2>5 DEF HistoryInv, NothingUnminted, HasItem
  <2>7. ASSUME NEW j \in Items, HasItem(j), j \notin moveCut, NEW k \in DOMAIN activity'[j]
        PROVE  activity'[j][k] = items[j].vault
    <3>1. \A n \in DOMAIN activity[j] : activity[j][n] = items[j].vault
      BY <2>1, <2>7 DEF HistoryInv, HistoryKept, SealedFor
    <3> QED
      BY <2>2, <2>3, <2>7, <3>1
  <2> QED
    BY <2>1, <2>5, <2>6, <2>7, OpValues DEF HistoryInv, HistoryKept, MoveUnderWay, SealedFor, HasItem
<1> QED
  BY <1>1, <1>2, <1>4, <1>5, <1>6, <1>7, <1>8 DEF ItemOps

LEMMA HistoryStep == TypeInv /\ HistoryInv /\ [Next]_vars => HistoryInv'
<1> SUFFICES ASSUME TypeInv, HistoryInv, [Next]_vars PROVE HistoryInv'
  OBVIOUS
<1>1. ASSUME DoorOps PROVE HistoryInv'
  <2>1. ASSUME Open \/ Lock \/ Quit PROVE HistoryInv'
    BY <2>1, HistoryUntouched DEF Open, Lock, Quit, disk, ghosts, VaultsKept, HasItem
  <2>2. ASSUME Unlock PROVE HistoryInv'
    BY <2>2, OpValues, HistoryUntouched DEF Unlock, Idle, disk, ghosts, VaultsKept, HasItem
  <2>3. ASSUME PurgeItems PROVE HistoryInv'
    <3>1. op.step # "rewrap" /\ op'.step = "purgeActivity"
      BY <2>3 DEF PurgeItems, TypeInv, TypeOK, OpType
    <3>2. VaultsKept
      BY <2>3 DEF PurgeItems, VaultsKept, HasItem, ghosts
    <3> QED
      BY <3>1, <3>2, HistoryUntouched
  <2>4. ASSUME PurgeActivity PROVE HistoryInv'
    <3>1. op.step # "rewrap" /\ op'.step = "purgeVaults"
      BY <2>4 DEF PurgeActivity, TypeInv, TypeOK, OpType
    <3> QED
      BY <2>4, <3>1, HistoryUntouched DEF PurgeActivity, VaultsKept, HasItem, ghosts
  <2>5. ASSUME PurgeVaults PROVE HistoryInv'
    BY <2>5, OpValues, HistoryUntouched DEF PurgeVaults, VaultsKept, HasItem, ghosts
  <2> QED
    BY <1>1, <2>1, <2>2, <2>3, <2>4, <2>5 DEF DoorOps
<1>2. ASSUME CutShort, UNCHANGED <<items, activity, minted>> PROVE HistoryInv'
  <2>1. ASSUME NEW j \in Items, HasItem(j), j \notin moveCut', NEW k \in DOMAIN activity[j]
        PROVE  activity[j][k] = items[j].vault
    BY <1>2, <2>1 DEF CutShort, Unreadable
  <2> QED
    BY <1>2, <2>1, OpValues
    DEF CutShort, HistoryInv, HistoryKept, MoveUnderWay, NothingUnminted, SealedFor, HasItem
<1>3. ASSUME Tick \/ UNCHANGED vars PROVE HistoryInv'
  BY <1>3, HistoryUntouched DEF Tick, vars, disk, ghosts, VaultsKept, HasItem
<1> QED
  BY <1>1, <1>2, <1>3, HistoryVaultOps, HistoryItemOps
  DEF Next, StatementFails, Crash, disk

LEMMA HistoryAlways == Spec => [](TypeInv /\ HistoryInv)
<1>1. Init => HistoryInv
  BY OpValues DEF Init, HistoryInv, NothingUnminted, MoveUnderWay, HistoryKept, HasItem
<1>2. Spec => []TypeInv
  BY TypeInvInit, TypeInvStep, PTL DEF Spec
<1> QED
  BY <1>1, <1>2, HistoryStep, PTL DEF Spec

\* Between methods every history row of an item is sealed for the vault the item is
\* in, through any number of moves, purges and evictions, unless a move was cut.
THEOREM HistoryStaysReadable == Spec => []HistoryFollowsItem
<1>1. HistoryInv => HistoryFollowsItem
  BY OpValues DEF HistoryInv, HistoryKept, SealedFor, HistoryFollowsItem, Unreadable
<1> QED
  BY <1>1, HistoryAlways, PTL

\* A move opens every history row it meets with the key of the vault it empties.
THEOREM MovesNeverStop == Spec => []RewrapNeverRefused
<1>1. TypeInv /\ HistoryInv => RewrapNeverRefused
  <2> SUFFICES ASSUME TypeInv, HistoryInv, op.step = "rewrap", op.item \notin moveCut,
                      op.k <= Len(activity[op.item])
               PROVE  activity[op.item][op.k] = op.from
    BY DEF RewrapNeverRefused
  <2>1. op.item \in Items /\ HasItem(op.item) /\ op.k \in DOMAIN activity[op.item]
    BY DEF TypeInv, TypeOK, OpHasItsRows, OpType, HistoryInv, MoveUnderWay
  <2> QED
    BY <2>1 DEF HistoryInv, HistoryKept, SealedFor, TypeInv, TypeOK, OpType
<1> QED
  BY <1>1, HistoryAlways, PTL

-----------------------------------------------------------------------------
(* The promise.  A write method waits for its reseal with the session held *)
(* and with one abstract write between the header and the live items.      *)

OneWrite(old, new) ==
    \/ new \subseteq old
    \/ \E entry \in new :
           entry[1] \notin Promise!Names(old) /\ new = old \cup {entry}
    \/ \E before \in old, after \in new :
           before[1] = after[1] /\ new = (old \ {before}) \cup {after}

WritePending ==
    /\ op.step \in {"move", "rewrap", "dropVault", "reseal"} => proc = "unlocked"
    /\ ~sealCut /\ op.step = "dropVault" => Manifest \subseteq sig
    /\ ~sealCut /\ op.step = "reseal" => OneWrite(sig, Manifest)

StoreInv == TypeInv /\ Sealed /\ HistoryInv /\ WritePending

EntryOf(i) == IF Live(i) THEN {<<i, items[i].rev>>} ELSE {}

(* A statement that writes one row changes one entry.                      *)
LEMMA OneEntry ==
  ASSUME NEW i \in Items, \A j \in Items \ {i} : items'[j] = items[j]
  PROVE  \E rest : /\ Manifest = rest \cup EntryOf(i)
                   /\ Manifest' = rest \cup EntryOf(i)'
                   /\ i \notin Promise!Names(rest)
<1> DEFINE rest == {<<j, items[j].rev>> : j \in {k \in Items \ {i} : Live(k)}}
<1>1. Manifest = rest \cup EntryOf(i)
  BY DEF Manifest, EntryOf
<1>2. Manifest' = rest \cup EntryOf(i)'
  BY DEF Manifest, EntryOf, Live, HasItem
<1>3. i \notin Promise!Names(rest)
  BY DEF Promise!Names
<1> QED
  BY <1>1, <1>2, <1>3

LEMMA EntryWritten ==
  ASSUME NEW i \in Items, \A j \in Items \ {i} : items'[j] = items[j],
         sig = Manifest
  PROVE  OneWrite(sig, Manifest')
<1>1. PICK rest : /\ Manifest = rest \cup EntryOf(i)
                  /\ Manifest' = rest \cup EntryOf(i)'
                  /\ i \notin Promise!Names(rest)
  BY OneEntry
<1>2. CASE ~Live(i)'
  BY <1>1, <1>2 DEF EntryOf, OneWrite
<1>3. CASE Live(i)' /\ ~Live(i)
  BY <1>1, <1>3 DEF EntryOf, OneWrite
<1>4. CASE Live(i)' /\ Live(i)
  <2> DEFINE old == <<i, items[i].rev>>
             new == <<i, items'[i].rev>>
  <2>1. old \notin rest
    BY <1>1 DEF Promise!Names
  <2>2. sig = rest \cup {old} /\ Manifest' = rest \cup {new}
    BY <1>1, <1>4 DEF EntryOf
  <2>3. Manifest' = (sig \ {old}) \cup {new} /\ old \in sig /\ new \in Manifest'
    BY <2>1, <2>2
  <2> QED
    BY <2>3 DEF OneWrite
<1> QED
  BY <1>2, <1>3, <1>4

LEMMA WritePendingStep == StoreInv /\ [Next]_vars => WritePending'
<1> SUFFICES ASSUME StoreInv, [Next]_vars PROVE WritePending'
  OBVIOUS
<1>0. /\ op \in OpType /\ items \in [Items -> ItemRow \cup {NoRow}] /\ sealCut \in BOOLEAN
  BY DEF StoreInv, TypeInv, TypeOK
<1>1. ASSUME NEW v \in Vaults, VaultDeleteWithItems(v) PROVE WritePending'
  <2>1. \A i \in Items : Live(i)' => items'[i] = items[i] /\ Live(i)
    <3>1. \A i \in Items : Live(i) => items[i] \in ItemRow
      BY <1>0 DEF Live, HasItem
    <3> QED
      BY <1>1, <3>1 DEF VaultDeleteWithItems, Live, HasItem, ItemRow, Null, StoreInv, TypeInv, TypeOK
  <2>2. Manifest' \subseteq Manifest
    BY <2>1 DEF Manifest
  <2>3. op = Idle /\ op'.step = "dropVault" /\ proc' = "unlocked" /\ sig' = sig
    BY <1>1 DEF VaultDeleteWithItems, Ready, Idle
  <2>4. ~sealCut' => sig = Manifest
    BY <1>1, <2>3, OpValues DEF VaultDeleteWithItems, ghosts, StoreInv, Sealed
  <2> QED
    BY <2>2, <2>3, <2>4 DEF WritePending
<1>2. ASSUME NEW i \in Items, MoveItem(i) PROVE WritePending'
  <2>1. op.step = "move" /\ op'.step = "rewrap"
    BY <1>0, <1>2 DEF MoveItem, OpType
  <2> QED
    BY <1>2, <2>1 DEF MoveItem, WritePending, StoreInv
<1>3. ASSUME RewrapRow \/ RewrapDone PROVE WritePending'
  <2>1. op.step = "rewrap" /\ op'.step \in {"rewrap", "move"} /\ proc' = proc
    BY <1>0, <1>3 DEF RewrapRow, RewrapDone, OpType
  <2> QED
    BY <2>1 DEF WritePending, StoreInv
<1>4. ASSUME MoveDone PROVE WritePending'
  <2>1. op.step = "move" /\ op'.step = "dropVault" /\ Manifest' = Manifest
    BY <1>0, <1>4 DEF MoveDone, OpType, disk, Manifest, Live, HasItem
  <2> QED
    BY <1>4, <2>1 DEF MoveDone, disk, ghosts, WritePending, StoreInv, Sealed
<1>5. ASSUME DropVault PROVE WritePending'
  <2>1. op'.step = "reseal" /\ Manifest' = Manifest
    BY <1>5, OpValues DEF DropVault, Manifest, Live, HasItem
  <2> QED
    BY <1>5, <2>1 DEF DropVault, ghosts, WritePending, StoreInv, OneWrite
<1>6. ASSUME NEW i \in Items, \A j \in Items \ {i} : items'[j] = items[j],
             Ready, UNCHANGED <<sig, proc, sealCut>>, op'.step = "reseal"
      PROVE  WritePending'
  <2>1. ~sealCut => sig = Manifest
    BY <1>6, OpValues DEF Ready, StoreInv, Sealed
  <2>2. ~sealCut => OneWrite(sig, Manifest')
    BY <1>6, <2>1, EntryWritten
  <2> QED
    BY <1>6, <2>2 DEF WritePending, Ready, OneWrite
<1>7. ASSUME NEW i \in Items, NEW v \in Vaults, InsertItem(i, v) PROVE WritePending'
  BY <1>0, <1>6, <1>7, OpValues DEF InsertItem, ghosts
<1>8. ASSUME NEW i \in Items,
             UpdateItem(i) \/ EditItem(i) \/ ItemDelete(i) \/ ItemRestore(i)
      PROVE  WritePending'
  BY <1>0, <1>6, <1>8, OpValues DEF UpdateItem, EditItem, ItemDelete, ItemRestore, ghosts
<1>9. ASSUME op'.step \notin {"move", "rewrap", "dropVault", "reseal"} PROVE WritePending'
  BY <1>9 DEF WritePending
<1>10. ASSUME NEW v \in Vaults, NEW t \in Vaults, VaultDeleteMoving(v, t) PROVE WritePending'
  BY <1>10 DEF VaultDeleteMoving, Ready, Idle, WritePending
<1>11. ASSUME UNCHANGED <<items, sig, op, sealCut>>, proc' = proc \/ op = Idle
       PROVE  WritePending'
  BY <1>11, OpValues DEF WritePending, StoreInv, Manifest, Live, HasItem
<1> QED
<2>1. CASE VaultOps
  <3>1. ASSUME NEW v \in Vaults, VaultAdd(v) PROVE WritePending'
    BY <3>1, <1>11 DEF VaultAdd, ghosts
  <3>2. ASSUME RewrapRefused PROVE WritePending'
    BY <3>2, <1>9, OpValues DEF RewrapRefused
  <3> QED
    BY <2>1, <3>1, <3>2, <1>1, <1>2, <1>3, <1>4, <1>5, <1>10 DEF VaultOps
<2>2. CASE ItemOps
  <3>1. ASSUME NEW S \in SUBSET Items, ActivityClear(S) PROVE WritePending'
    BY <3>1, <1>11 DEF ActivityClear, ghosts
  <3>2. ASSUME Reseal \/ Record \/ Evict PROVE WritePending'
    BY <1>0, <3>2, <1>9, OpValues DEF Reseal, Record, Evict, OpType
  <3>3. ASSUME NEW i \in Items, RevealOrCopy(i) PROVE WritePending'
    BY <3>3, <1>9 DEF RevealOrCopy, Idle
  <3> QED
    BY <2>2, <3>1, <3>2, <3>3, <1>7, <1>8 DEF ItemOps
<2>3. CASE DoorOps
  <3>1. ASSUME Lock \/ Quit \/ Open PROVE WritePending'
    <4>1. proc' = proc \/ op = Idle \/ op.step = "idle"
      BY <3>1 DEF Lock, Quit, Open, Ready, StoreInv, TypeInv, OpHasItsRows
    <4> QED
      BY <3>1, <4>1, <1>9, <1>11, OpValues DEF Lock, Quit, Open, Ready, disk, ghosts
  <3>2. ASSUME Unlock \/ PurgeItems \/ PurgeActivity \/ PurgeVaults PROVE WritePending'
    BY <1>0, <3>2, <1>9, OpValues DEF Unlock, PurgeItems, PurgeActivity, PurgeVaults, OpType, Idle
  <3> QED
    BY <2>3, <3>1, <3>2 DEF DoorOps
<2>4. CASE StatementFails \/ Crash
  BY <2>4, <1>9, OpValues DEF StatementFails, Crash, CutShort
<2>5. CASE Tick \/ UNCHANGED vars
  BY <2>5, <1>11 DEF Tick, vars, disk, ghosts
<2> QED
  BY <2>1, <2>2, <2>3, <2>4, <2>5 DEF Next

LEMMA ImplementsStep ==
    StoreInv /\ ~sealCut /\ [Next]_vars => [Promise!Next]_(Promise!abstractVars)
<1> SUFFICES ASSUME StoreInv, ~sealCut, [Next]_vars
             PROVE  [Promise!Next]_(Promise!abstractVars)
  OBVIOUS
<1>1. ASSUME sig' = sig PROVE Promise!Next
  BY <1>1 DEF Promise!Next, Promise!TurnKey
<1>2. ASSUME Reseal PROVE Promise!Next
  <2>1. /\ proc = "unlocked" /\ proc' = "unlocked"
        /\ OneWrite(sig, sig')
    BY <1>2 DEF Reseal, StoreInv, WritePending
  <2> QED
    BY <2>1 DEF OneWrite, Promise!Next, Promise!Write, Promise!Put, Promise!Edit,
                Promise!Remove, Promise!Names
<1> QED
  BY <1>1, <1>2
  DEF Next, VaultOps, ItemOps, DoorOps, VaultAdd, VaultDeleteMoving, VaultDeleteWithItems,
      MoveItem, RewrapRow, RewrapRefused, RewrapDone, MoveDone, DropVault, InsertItem, UpdateItem,
      EditItem, ItemDelete, ItemRestore, RevealOrCopy, ActivityClear, Record, Evict, Open, Unlock,
      PurgeItems, PurgeActivity, PurgeVaults, Lock, Quit, StatementFails, Crash, Tick, disk, vars

\* The write methods, at the granularity of SQL statements, implement the atomic
\* vault: each takes effect in one step, at its reseal, and purges, moves, locks
\* and restarts change nothing; as long as no method is cut while the live set is
\* unsigned.
THEOREM UncutStoreIsAtomic == Spec /\ []~sealCut => ImplementsAtomicVault
<1>1. Init => StoreInv
  BY TypeInvInit, OpValues
  DEF Init, StoreInv, Sealed, HistoryInv, NothingUnminted, MoveUnderWay, HistoryKept,
      WritePending, Manifest, Live, HasItem
<1>2. StoreInv /\ [Next]_vars => StoreInv'
  BY TypeInvStep, SealedStep, HistoryStep, WritePendingStep DEF StoreInv
<1>3. Init => Promise!Init
  BY DEF Init, Promise!Init
<1> QED
  BY <1>1, <1>2, <1>3, ImplementsStep, PTL DEF Spec, ImplementsAtomicVault, Promise!Spec
=============================================================================
