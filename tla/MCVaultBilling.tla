--------------------------- MODULE MCVaultBilling ---------------------------
(***************************************************************************)
(* Small instances of VaultBilling.                                        *)
(***************************************************************************)
EXTENDS VaultBilling, TLC

RequestSymmetry == Permutations(Requests)
=============================================================================
