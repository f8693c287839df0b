---------------------------- MODULE Subsequences ----------------------------
(***************************************************************************)
(* What is left of a list when elements are dropped: Vec::retain and       *)
(* Iterator::filter.  As SelectSeq of the standard modules, by the         *)
(* positions kept instead of by recursion.                                 *)
(***************************************************************************)
EXTENDS Integers, FiniteSets

\* The positions in increasing order.
InOrder(kept) ==
    CHOOSE f \in [1..Cardinality(kept) -> kept] : \A i, j \in DOMAIN f : i < j => f[i] < f[j]

\* What s has at the positions kept, in its order.
Only(s, kept) ==
    LET at == InOrder(kept) IN [k \in DOMAIN at |-> s[at[k]]]
=============================================================================
