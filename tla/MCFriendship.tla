---------------------------- MODULE MCFriendship ----------------------------
(***************************************************************************)
(* Small instances of Friendship for TLC.                                  *)
(***************************************************************************)
EXTENDS Friendship, TLC

Symmetry == Permutations(Account) \cup Permutations(Invitation)
=============================================================================
