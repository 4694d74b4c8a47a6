------------------------ MODULE InvitationLifecycle ------------------------
(***************************************************************************)
(* What the friends component promises about one invitation, whoever asks  *)
(* for it and through whichever channel: it is answered at most once, only *)
(* while it is pending, a friendship ends at most once, and nothing is     *)
(* ever reopened.                                                          *)
(***************************************************************************)
EXTENDS Naturals

CONSTANT Invitation     \* the ids an invitation can have

VARIABLE status         \* the status of every invitation there ever was

Answers == {"accepted", "rejected", "canceled", "withdrawn"}

Status == {"none", "pending", "removed"} \cup Answers

Init == status = [i \in Invitation |-> "none"]

\* Some invitations go from one status to another, in one step.
Move(ids, from, to) ==
  /\ \A i \in ids : status[i] = from
  /\ status' = [i \in Invitation |-> IF i \in ids THEN to ELSE status[i]]

Send == \E i \in Invitation : Move({i}, "none", "pending")

Answer == \E ids \in SUBSET Invitation, to \in Answers : Move(ids, "pending", to)

Remove == \E ids \in SUBSET Invitation : Move(ids, "accepted", "removed")

Next == Send \/ Answer \/ Remove

Spec == Init /\ [][Next]_status
=============================================================================
