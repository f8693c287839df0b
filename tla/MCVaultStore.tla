---------------------------- MODULE MCVaultStore ----------------------------
(* Small instances of VaultStore for TLC.                                  *)
EXTENDS VaultStore, TLC

\* No action and no property tells two items or two vaults apart.
Symmetry == Permutations(Items) \cup Permutations(Vaults)
=============================================================================
