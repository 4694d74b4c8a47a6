--------------------------- MODULE RoleLifecycle ----------------------------
(***************************************************************************)
(* What the servers component promises about the role in which its guards  *)
(* see an account on a server, however many subscriptions the account has  *)
(* and whatever handlers race: a server has one owner at most, who stays   *)
(* the owner; nobody is appointed before there is one; nobody leaves       *)
(* straight from an invitation; and nobody who has a role is without one   *)
(* again.                                                                  *)
(***************************************************************************)
CONSTANTS
  Server,         \* the ids a server can have
  Account         \* the users

VARIABLE role     \* the role of every account on every server

Role ==
  {"none", "owner", "admin", "member", "pending", "removed", "leave"}

Init == role = [s \in Server |-> [a \in Account |-> "none"]]

Owned(s) == \E a \in Account : role[s][a] = "owner"

\* An account goes from one of some roles to another, in one step.
Become(s, a, from, to) ==
  /\ role[s][a] \in from
  /\ role' = [role EXCEPT ![s][a] = to]

\* Whoever may still be moved: everybody seen on the server but its owner.
Movable == Role \ {"none", "owner"}

Found(s, a) == ~ Owned(s) /\ Become(s, a, {"none"}, "owner")

Invite(s, a) == Become(s, a, {"none"}, "pending")

Appoint(s, a) ==
  Owned(s) /\ \E to \in {"admin", "member"} : Become(s, a, Movable, to)

Remove(s, a) == Become(s, a, Movable, "removed")

Leave(s, a) == Become(s, a, Movable \ {"pending"}, "leave")

\* Every step changes the role of one account.
Next ==
  \E s \in Server, a \in Account :
    /\ role'[s][a] # role[s][a]
    /\ \/ Found(s, a)
       \/ Invite(s, a)
       \/ Appoint(s, a)
       \/ Remove(s, a)
       \/ Leave(s, a)

Spec == Init /\ [][Next]_role
=============================================================================
