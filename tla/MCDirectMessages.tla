-------------------------- MODULE MCDirectMessages --------------------------
(***************************************************************************)
(* Small instances of DirectMessages for TLC.                              *)
(***************************************************************************)
EXTENDS DirectMessages, TLC

\* Handlers and texts are interchangeable; so are the accounts.
Symmetry == Permutations(Request) \cup Permutations(Content)
            \cup Permutations(Account)
=============================================================================
