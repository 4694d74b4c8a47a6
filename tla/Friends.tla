------------------------------ MODULE Friends ------------------------------
(***************************************************************************)
(* Friend invitations: FriendsGateway with its three guards (WebSocket)    *)
(* and FriendsController (HTTP), which work on the same table by different *)
(* rules.  One step per database statement; handlers interleave.           *)
(***************************************************************************)
EXTENDS Repository

CONSTANTS
  Account,          \* the users
  Request,          \* the handlers that can be in flight at one time
  Channel,          \* the ways in: a subset of {"ws", "http"}
  MaxInvitations    \* bound: invitation ids the database hands out

ASSUME FriendsAssumption ==
  /\ Channel \subseteq {"ws", "http"}
  /\ MaxInvitations \in Nat

VARIABLES
  invitations,      \* the table friends_invitations
  nextInvitation,   \* its serial
  reqs,             \* where each handler is suspended, and what it knows
  emitted           \* the answer event last sent to the sender, if any

vars == <<invitations, nextInvitation, reqs, emitted>>

RequestStatus == {"pending", "accepted", "rejected", "canceled", "removed"}

InvitationRow ==
  [sender : Account, receiver : Account, request_status : RequestStatus]

\* since is history: the serial when the handler arrived.
SendHandler ==
  [pc : {"ws_sent", "ws_received", "add_accepted", "add_pending",
         "add_received", "insert"},
   via : {"ws", "http"}, sender : Account, receiver : Account, since : Nat]

\* touched is history: the rows the handler has answered.
AnswerHandler ==
  [pc : {"guard", "update", "read"}, via : {"ws", "http"},
   sender : Account, receiver : Account,
   to : {"accepted", "rejected", "canceled"}, touched : SUBSET Nat]

OtherHandler ==
  [pc : {"withdraw", "remove"}, sender : Account, receiver : Account]

Idle == [pc |-> "idle"]

TypeOK ==
  /\ nextInvitation \in Nat \ {0}
  /\ invitations \in [DOMAIN invitations -> InvitationRow]
  /\ DOMAIN invitations \subseteq 1 .. (nextInvitation - 1)
  /\ reqs \in [Request -> SendHandler \cup AnswerHandler \cup OtherHandler
                            \cup {Idle}]
  /\ emitted \in SUBSET [to : {"accepted", "rejected", "canceled"},
                         payload : Nat, touched : SUBSET Nat]

\* The rows from one account to another with one of these statuses.
Rows(table, sender, receiver, statuses) ==
  {i \in DOMAIN table :
     /\ table[i].sender = sender
     /\ table[i].receiver = receiver
     /\ table[i].request_status \in statuses}
-----------------------------------------------------------------------------
Init ==
  /\ invitations = NoRows
  /\ nextInvitation = 1
  /\ reqs = [r \in Request |-> Idle]
  /\ emitted = {}

KeepTable == UNCHANGED <<invitations, nextInvitation, emitted>>

Finish(r) == reqs' = [reqs EXCEPT ![r] = Idle]

Goto(r, label) == reqs' = [reqs EXCEPT ![r].pc = label]

(***************************************************************************)
(* Sending an invitation.                                                  *)
(***************************************************************************)
\* Both channels refuse an invitation to oneself before they look anything up.
StartSend(r) ==
  /\ reqs[r] = Idle
  /\ \E me, him \in Account, via \in Channel :
       /\ me # him
       /\ reqs' = [reqs EXCEPT ![r] =
            [pc |-> IF via = "ws" THEN "ws_sent" ELSE "add_accepted",
             via |-> via, sender |-> me, receiver |-> him,
             since |-> nextInvitation]]
  /\ KeepTable

Active(i) == invitations[i].request_status \in {"accepted", "pending"}

\* CanYouSendFriendRequestGuard: the first row from me to him, of whatever
\* status, decides; only without any is the other direction looked at.
GuardSent(r) ==
  LET found == FindOne(Rows(invitations, reqs[r].sender, reqs[r].receiver,
                            RequestStatus)) IN
  /\ reqs[r].pc = "ws_sent"
  /\ \/ found = Null /\ Goto(r, "ws_received")
     \/ found # Null /\ Active(found) /\ Finish(r)
     \/ found # Null /\ ~ Active(found) /\ Goto(r, "insert")
  /\ KeepTable

GuardReceived(r) ==
  LET found == FindOne(Rows(invitations, reqs[r].receiver, reqs[r].sender,
                            RequestStatus)) IN
  /\ reqs[r].pc = "ws_received"
  /\ IF found # Null /\ Active(found) THEN Finish(r) ELSE Goto(r, "insert")
  /\ KeepTable

\* addFriend: the three checks of the controller, each with its own lookup.
CheckAccepted(r) ==
  /\ reqs[r].pc = "add_accepted"
  /\ IF Rows(invitations, reqs[r].sender, reqs[r].receiver, {"accepted"}) # {}
     THEN Finish(r) ELSE Goto(r, "add_pending")
  /\ KeepTable

CheckPending(r) ==
  /\ reqs[r].pc = "add_pending"
  /\ IF Rows(invitations, reqs[r].sender, reqs[r].receiver, {"pending"}) # {}
     THEN Finish(r) ELSE Goto(r, "add_received")
  /\ KeepTable

\* Slip: the third check repeats the direction of the second.
CheckSentAgain(r) ==
  /\ reqs[r].pc = "add_received"
  /\ IF Rows(invitations, reqs[r].sender, reqs[r].receiver, {"pending"}) # {}
     THEN Finish(r) ELSE Goto(r, "insert")
  /\ KeepTable

CheckReceived(r) ==
  /\ reqs[r].pc = "add_received"
  /\ IF Rows(invitations, reqs[r].receiver, reqs[r].sender, {"pending"}) # {}
     THEN Finish(r) ELSE Goto(r, "insert")
  /\ KeepTable

\* Slip: the serial is not advanced.
CreateWithSameId(r) ==
  /\ reqs[r].pc = "insert"
  /\ nextInvitation <= MaxInvitations
  /\ invitations' = Insert(invitations, nextInvitation,
       [sender |-> reqs[r].sender, receiver |-> reqs[r].receiver,
        request_status |-> "pending"])
  /\ Finish(r)
  /\ UNCHANGED <<nextInvitation, emitted>>

\* create: the new row has the default status.
CreateInvitation(r) ==
  /\ reqs[r].pc = "insert"
  /\ nextInvitation <= MaxInvitations
  /\ invitations' = Insert(invitations, nextInvitation,
       [sender |-> reqs[r].sender, receiver |-> reqs[r].receiver,
        request_status |-> "pending"])
  /\ nextInvitation' = nextInvitation + 1
  /\ Finish(r)
  /\ UNCHANGED emitted

(***************************************************************************)
(* Answering one: the receiver accepts or rejects, the sender cancels.     *)
(***************************************************************************)
\* On the WebSocket a guard looks first; the controller updates at once and
\* does not cancel by an update (it withdraws, below).
StartAnswer(r) ==
  /\ reqs[r] = Idle
  /\ \E sender, receiver \in Account, via \in Channel,
        to \in {"accepted", "rejected", "canceled"} :
       /\ sender # receiver
       /\ via = "http" => to # "canceled"
       /\ reqs' = [reqs EXCEPT ![r] =
            [pc |-> IF via = "ws" THEN "guard" ELSE "update", via |-> via,
             sender |-> sender, receiver |-> receiver, to |-> to,
             touched |-> {}]]
  /\ KeepTable

GuardAnswer(r) ==
  /\ reqs[r].pc = "guard"
  /\ IF Rows(invitations, reqs[r].sender, reqs[r].receiver, {"pending"}) = {}
     THEN Finish(r) ELSE Goto(r, "update")
  /\ KeepTable

\* Slip: the where clause trusts the guard and drops the status.
UpdateAnyStatus(r) ==
  LET ids == Rows(invitations, reqs[r].sender, reqs[r].receiver,
                  RequestStatus) IN
  /\ reqs[r].pc = "update"
  /\ invitations' = Update(invitations, ids,
       "request_status", reqs[r].to)
  /\ IF ids = {} \/ reqs[r].via = "http" THEN Finish(r)
     ELSE reqs' = [reqs EXCEPT ![r].pc = "read", ![r].touched = ids]
  /\ UNCHANGED <<nextInvitation, emitted>>

\* findOneAndUpdate of the pending rows: none is an exception.
UpdateAnswer(r) ==
  LET ids == Rows(invitations, reqs[r].sender, reqs[r].receiver, {"pending"}) IN
  /\ reqs[r].pc = "update"
  /\ invitations' = Update(invitations, ids,
       "request_status", reqs[r].to)
  /\ IF ids = {} \/ reqs[r].via = "http" THEN Finish(r)
     ELSE reqs' = [reqs EXCEPT ![r].pc = "read", ![r].touched = ids]
  /\ UNCHANGED <<nextInvitation, emitted>>

\* The gateway reads a row with the new status back and emits it to both.
EmitAnswer(r) ==
  /\ reqs[r].pc = "read"
  /\ emitted' = {[to |-> reqs[r].to, touched |-> reqs[r].touched,
       payload |-> FindOne(Rows(invitations, reqs[r].sender,
                                reqs[r].receiver, {reqs[r].to}))]}
  /\ Finish(r)
  /\ UNCHANGED <<invitations, nextInvitation>>

(***************************************************************************)
(* The two statements only the controller has.                             *)
(***************************************************************************)
StartOther(r) ==
  /\ reqs[r] = Idle
  /\ "http" \in Channel
  /\ \E sender, receiver \in Account, label \in {"withdraw", "remove"} :
       reqs' = [reqs EXCEPT ![r] =
         [pc |-> label, sender |-> sender, receiver |-> receiver]]
  /\ KeepTable

\* Slip: every invitation between the two is deleted.
WithdrawAnyStatus(r) ==
  /\ reqs[r].pc = "withdraw"
  /\ invitations' = Delete(invitations,
       Rows(invitations, reqs[r].sender, reqs[r].receiver, RequestStatus))
  /\ Finish(r)
  /\ UNCHANGED <<nextInvitation, emitted>>

\* cancelFriendRequest: the sender's pending rows are deleted, none is fine.
Withdraw(r) ==
  /\ reqs[r].pc = "withdraw"
  /\ invitations' = Delete(invitations,
       Rows(invitations, reqs[r].sender, reqs[r].receiver, {"pending"}))
  /\ Finish(r)
  /\ UNCHANGED <<nextInvitation, emitted>>

\* removeFriend: the rows the user once sent; none is an exception.
RemoveFriend(r) ==
  /\ reqs[r].pc = "remove"
  /\ invitations' = Update(invitations,
       Rows(invitations, reqs[r].sender, reqs[r].receiver, {"accepted"}),
       "request_status", "removed")
  /\ Finish(r)
  /\ UNCHANGED <<nextInvitation, emitted>>

\* A statement fails, and with it the handler.
Fail(r) ==
  /\ reqs[r] # Idle
  /\ Finish(r)
  /\ KeepTable
-----------------------------------------------------------------------------
Send(r) ==
  \/ StartSend(r) \/ GuardSent(r) \/ GuardReceived(r) \/ CheckAccepted(r)
  \/ CheckPending(r) \/ CheckReceived(r) \/ CreateInvitation(r)

Answer(r) ==
  StartAnswer(r) \/ GuardAnswer(r) \/ UpdateAnswer(r) \/ EmitAnswer(r)

Other(r) == StartOther(r) \/ Withdraw(r) \/ RemoveFriend(r)

Next == \E r \in Request : Send(r) \/ Answer(r) \/ Other(r) \/ Fail(r)

Spec == Init /\ [][Next]_vars
-----------------------------------------------------------------------------
(***************************************************************************)
(* The table implements the lifecycle of an invitation.  A row that was    *)
(* inserted and is gone was withdrawn.                                     *)
(***************************************************************************)
Ids == 1 .. MaxInvitations

StatusOf(i) ==
  IF i \in DOMAIN invitations THEN invitations[i].request_status
  ELSE IF i < nextInvitation THEN "withdrawn" ELSE "none"

Lifecycle == INSTANCE InvitationLifecycle
  WITH Invitation <- Ids, status <- [i \in Ids |-> StatusOf(i)]

\* Whatever handlers of both channels race for an invitation, it is answered
\* at most once, while pending, and no final status is ever left.
ImplementsLifecycle == Lifecycle!Spec

Together(i, a, b) == {invitations[i].sender, invitations[i].receiver} = {a, b}

Finals == {"rejected", "canceled", "removed"}

(***************************************************************************)
(* A second pending invitation of two accounts is inserted only when the   *)
(* first one was inserted after this handler arrived: the separate checks  *)
(* of addFriend miss nothing that was pending all along.  On the WebSocket *)
(* there is one exception more: an invitation of the two that ended before *)
(* hides the pending one from the guard, which looks at the first row.     *)
(***************************************************************************)
SecondPendingOnlyByRace ==
  \A r \in Request : reqs[r].pc = "insert" =>
    LET pair == {i \in DOMAIN invitations :
                   Together(i, reqs[r].sender, reqs[r].receiver)}
    IN  \/ \A i \in pair :
             invitations[i].request_status = "pending" => i >= reqs[r].since
        \/ /\ reqs[r].via = "ws"
           /\ \E j \in pair : invitations[j].request_status \in Finals

(***************************************************************************)
(* The event of a rejected or canceled invitation carries a row, and none  *)
(* younger than those that were answered: nothing takes the status away    *)
(* between the update and the read.                                        *)
(***************************************************************************)
AnswerEventsCarryARow ==
  \A e \in emitted : e.to # "accepted" =>
    /\ e.payload # Null
    /\ \A i \in e.touched : e.payload <= i

(***************************************************************************)
(* Two accounts share at most one pending invitation ("this friend request *)
(* is already pending", can.you.send.friend.request.guard.ts:46).          *)
(***************************************************************************)
OnePendingPerPair ==
  \A i, j \in DOMAIN invitations :
    /\ invitations[i].request_status = "pending"
    /\ invitations[j].request_status = "pending"
    /\ Together(i, invitations[j].sender, invitations[j].receiver)
    => i = j
=============================================================================
