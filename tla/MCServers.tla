----------------------------- MODULE MCServers ------------------------------
(***************************************************************************)
(* Small instances of Servers for TLC.                                     *)
(***************************************************************************)
EXTENDS Servers, TLC

Symmetry == Permutations(Account) \cup Permutations(Request)
=============================================================================
