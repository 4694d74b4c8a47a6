----------------------------- MODULE MCAccounts -----------------------------
(***************************************************************************)
(* Small instances of Accounts for TLC.                                    *)
(***************************************************************************)
EXTENDS Accounts, TLC

Symmetry ==
  Permutations(Username) \cup Permutations(Password) \cup Permutations(Request)
=============================================================================
