---------------------------- MODULE MCNamespaces ----------------------------
(***************************************************************************)
(* Small instances of Namespaces for TLC.                                  *)
(***************************************************************************)
EXTENDS Namespaces, TLC

Symmetry == Permutations(Request)
=============================================================================
