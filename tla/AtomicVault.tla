---------------------------- MODULE AtomicVault -----------------------------
(***************************************************************************)
(* What the store promises its caller, with no trace of SQL statements,    *)
(* signatures or headers: an account holds a set of live items, each at a  *)
(* revision; the set changes only while the door is open, one method at a  *)
(* time and each method in one step; locking, unlocking, moving items      *)
(* between vaults, purging and restarting never change it.                 *)
(***************************************************************************)

VARIABLES
    contents,   \* set of entries <<item, revision>>
    door        \* "open" while a session holds the keys

abstractVars == <<contents, door>>

Names(entries) == {entry[1] : entry \in entries}

Init == contents = {} /\ door = "shut"

\* A new item, or a deleted one put back.
Put(entry) ==
    /\ entry[1] \notin Names(contents)
    /\ contents' = contents \cup {entry}

\* An edit replaces the entry of an item by one for the same item.
Edit(old, new) ==
    /\ old[1] = new[1]
    /\ contents' = (contents \ {old}) \cup {new}

\* Deleting an item, or a vault with everything in it.
Remove == contents' \subseteq contents

Write ==
    /\ door = "open"
    /\ \/ \E entry \in contents' \ contents : Put(entry)
       \/ \E old \in contents, new \in contents' \ contents : Edit(old, new)
       \/ Remove
    /\ UNCHANGED door

TurnKey == door' \in {"open", "shut"} /\ UNCHANGED contents

Next == Write \/ TurnKey

Spec == Init /\ [][Next]_abstractVars
=============================================================================
