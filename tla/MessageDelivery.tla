--------------------------- MODULE MessageDelivery --------------------------
(***************************************************************************)
(* How the messages of one user reach the sockets of that user:            *)
(* handleConnection and emitUnreadMessages of MessagesGateway when a       *)
(* socket connects, against sendMessage, which stores a message and then   *)
(* emits it to the room of the receiver.  Joining the room, listing the    *)
(* table and being sent new messages live are three different moments.     *)
(***************************************************************************)
EXTENDS Naturals

CONSTANTS
  Message,         \* the messages that will be sent to the user
  Conversation,
  ConversationOf,  \* the conversation of each message
  Socket           \* the sockets the user may have open

ASSUME ConversationAssumption ==
  ConversationOf \in [Message -> Conversation]

VARIABLES
  live,        \* the conversations not deleted
  sent,        \* the messages inserted so far
  delivered,   \* the messages whose column delivered is true
  unsent,      \* inserted, their sender's handler has not yet emitted them
  room,        \* the sockets in the room user:messages:<id>
  conns,       \* the handleConnection of each socket
  got          \* the messages the client on each socket has received

vars == <<live, sent, delivered, unsent, room, conns, got>>

\* The rows of the table: deleting a conversation cascades to its messages.
Stored == {m \in sent : ConversationOf[m] \in live}

\* list is what find answered; todo the part of it still to be acknowledged.
Connecting ==
  [pc : {"fetch"}] \cup
  [pc : {"loop"}, list : SUBSET Message, todo : SUBSET Message]

Idle == [pc |-> "idle"]

TypeOK ==
  /\ live \subseteq Conversation
  /\ sent \subseteq Message
  /\ delivered \subseteq sent
  /\ unsent \subseteq sent
  /\ room \subseteq Socket
  /\ conns \in [Socket -> Connecting \cup {Idle}]
  /\ got \in [Socket -> SUBSET sent]
-----------------------------------------------------------------------------
Init ==
  /\ live = Conversation
  /\ sent = {} /\ delivered = {} /\ unsent = {}
  /\ room = {}
  /\ conns = [s \in Socket |-> Idle]
  /\ got = [s \in Socket |-> {}]

\* server.to(room).emit: every socket in the room receives ms.
EmitToRoom(ms) ==
  got' = [s \in Socket |-> IF s \in room THEN got[s] \cup ms ELSE got[s]]

\* The socket leaves the room, and what its client knew is no longer watched.
Leave(s) ==
  /\ room' = room \ {s}
  /\ got' = [got EXCEPT ![s] = {}]

(***************************************************************************)
(* sendMessage of some other user (module DirectMessages): the INSERT, and *)
(* later the emit of receive:direct-message.                               *)
(***************************************************************************)
\* Slip: the emit does not wait for the INSERT.
CreateLater(m) ==
  /\ m \notin sent
  /\ ConversationOf[m] \in live
  /\ unsent' = unsent \cup {m}
  /\ UNCHANGED <<live, sent, delivered, room, conns, got>>

\* create of the message, under a conversation that still exists.
CreateMessage(m) ==
  /\ m \notin sent
  /\ ConversationOf[m] \in live
  /\ sent' = sent \cup {m}
  /\ unsent' = unsent \cup {m}
  /\ UNCHANGED <<live, delivered, room, conns, got>>

EmitMessage(m) ==
  /\ m \in unsent
  /\ unsent' = unsent \ {m}
  /\ EmitToRoom({m})
  /\ UNCHANGED <<live, sent, delivered, room, conns>>

(***************************************************************************)
(* handleConnection.                                                       *)
(***************************************************************************)
\* The token is verified; client.join and the query of emitUnreadMessages
\* follow without an await between them.
Connect(s) ==
  /\ conns[s] = Idle
  /\ s \notin room
  /\ room' = room \cup {s}
  /\ conns' = [conns EXCEPT ![s] = [pc |-> "fetch"]]
  /\ UNCHANGED <<live, sent, delivered, unsent, got>>

\* Slip: only undelivered messages are listed.
FetchUndelivered(s) ==
  /\ conns[s].pc = "fetch"
  /\ conns' = [conns EXCEPT ![s] =
       [pc |-> "loop", list |-> Stored \ delivered,
        todo |-> Stored \ delivered]]
  /\ UNCHANGED <<live, sent, delivered, unsent, room, got>>

\* find({ receiver }): every stored message of the user, in no given order.
Fetch(s) ==
  /\ conns[s].pc = "fetch"
  /\ conns' = [conns EXCEPT ![s] =
       [pc |-> "loop", list |-> Stored, todo |-> Stored \ delivered]]
  /\ UNCHANGED <<live, sent, delivered, unsent, room, got>>

\* Slip: one update acknowledges the whole list.
AcknowledgeOnce(s) ==
  /\ conns[s].pc = "loop"
  /\ \E m \in conns[s].todo :
       /\ m \in Stored
       /\ delivered' = delivered \cup {m}
       /\ conns' = [conns EXCEPT ![s].todo = {}]
  /\ UNCHANGED <<live, sent, unsent, room, got>>

\* One turn of the loop: findOneAndUpdate of delivered, and the event to the
\* author.
Acknowledge(s) ==
  /\ conns[s].pc = "loop"
  /\ \E m \in conns[s].todo :
       /\ m \in Stored
       /\ delivered' = delivered \cup {m}
       /\ conns' = [conns EXCEPT ![s].todo = @ \ {m}]
  /\ UNCHANGED <<live, sent, unsent, room, got>>

\* The next message of the loop was deleted since it was listed: the UPDATE
\* affects no row, findOneAndUpdate throws, and handleConnection disconnects
\* the client.
AcknowledgeDeleted(s) ==
  /\ conns[s].pc = "loop"
  /\ conns[s].todo \ Stored # {}
  /\ conns' = [conns EXCEPT ![s] = Idle]
  /\ Leave(s)
  /\ UNCHANGED <<live, sent, delivered, unsent>>

\* Every listed message is acknowledged: the list goes to the whole room.
EmitUnreadMessages(s) ==
  /\ conns[s].pc = "loop"
  /\ conns[s].todo = {}
  /\ conns' = [conns EXCEPT ![s] = Idle]
  /\ EmitToRoom(conns[s].list)
  /\ UNCHANGED <<live, sent, delivered, unsent, room>>

\* A statement of handleConnection fails: ws_error, and client.disconnect().
Fail(s) ==
  /\ conns[s] # Idle
  /\ conns' = [conns EXCEPT ![s] = Idle]
  /\ Leave(s)
  /\ UNCHANGED <<live, sent, delivered, unsent>>

\* The client goes away.  handleDisconnect only logs: a handleConnection that
\* is still running carries on without its socket.
Disconnect(s) ==
  /\ s \in room
  /\ Leave(s)
  /\ UNCHANGED <<live, sent, delivered, unsent, conns>>

(***************************************************************************)
(* What else changes these rows.                                           *)
(***************************************************************************)
\* mark:message-as-delivered (module MarkMessages), sent by a client about a
\* message it has received.  The other flag, marked, is read by no handler: the
\* query of emitUnreadMessages has no condition on it.
MarkDelivered(m) ==
  /\ m \in Stored
  /\ \E s \in room : m \in got[s]
  /\ delivered' = delivered \cup {m}
  /\ UNCHANGED <<live, sent, unsent, room, conns, got>>

\* deleteConversation of DmsController (module DirectMessages), with its
\* messages by cascade.
DeleteConversation(c) ==
  /\ c \in live
  /\ live' = live \ {c}
  /\ delivered' = {m \in delivered : ConversationOf[m] # c}
  /\ UNCHANGED <<sent, unsent, room, conns, got>>

\* The process restarts: handlers, rooms and pending emits are lost, the
\* tables are not.
Restart ==
  /\ room' = {}
  /\ conns' = [s \in Socket |-> Idle]
  /\ got' = [s \in Socket |-> {}]
  /\ unsent' = {}
  /\ UNCHANGED <<live, sent, delivered>>
-----------------------------------------------------------------------------
Handle(s) ==
  Fetch(s) \/ Acknowledge(s) \/ AcknowledgeDeleted(s) \/ EmitUnreadMessages(s)

Users ==
  \/ \E s \in Socket : Connect(s) \/ Disconnect(s)
  \/ \E m \in Message : CreateMessage(m) \/ MarkDelivered(m)
  \/ \E c \in Conversation : DeleteConversation(c)

Server ==
  \/ \E s \in Socket : Handle(s)
  \/ \E m \in Message : EmitMessage(m)

Next == Users \/ Server \/ (\E s \in Socket : Fail(s)) \/ Restart

Spec == Init /\ [][Next]_vars

\* Node resumes every handler whose statement was answered, and a statement
\* that does not fail is answered.  Users owe nothing.
ServerFairness ==
  /\ \A s \in Socket : WF_vars(Handle(s))
  /\ \A m \in Message : WF_vars(EmitMessage(m))

FairSpec == Spec /\ ServerFairness

\* No statement fails and no client leaves: what is left is what the code
\* itself decides.
Stay ==
  \/ \E s \in Socket : Connect(s)
  \/ \E m \in Message : CreateMessage(m) \/ MarkDelivered(m)
  \/ \E c \in Conversation : DeleteConversation(c)
  \/ Server

StaySpec == Init /\ [][Stay]_vars /\ ServerFairness
-----------------------------------------------------------------------------
(***************************************************************************)
(* Nothing falls between the list and the live events: a socket whose      *)
(* connection was handled has every stored message of the user, except     *)
(* those that a sender's handler is still about to emit to the room.       *)
(***************************************************************************)
NothingMissed ==
  \A s \in room : conns[s] = Idle => Stored \ unsent \subseteq got[s]

(***************************************************************************)
(* The list is sent once its messages are delivered: whatever is no longer *)
(* to be acknowledged has its flag in the table, unless it was deleted.    *)
(***************************************************************************)
ListIsDelivered ==
  \A s \in Socket : conns[s].pc = "loop" =>
    (conns[s].list \ conns[s].todo) \cap Stored \subseteq delivered

(***************************************************************************)
(* A stored message reaches every socket of the user that stays connected, *)
(* whichever of the two paths carries it.                                  *)
(***************************************************************************)
MessagesArrive ==
  \A s \in Socket, m \in Message :
    (s \in room /\ m \in Stored) ~>
      (m \in got[s] \/ s \notin room \/ m \notin Stored)

(***************************************************************************)
(* A client that connects and stays receives every message that stays: the *)
(* list "will guarantee that the sender will receive all unread and        *)
(* undelivered messages" (messages.gateway.ts:95).                         *)
(***************************************************************************)
UnreadReachTheClient ==
  \A s \in Socket, m \in Message :
    (s \in room /\ m \in Stored) ~> (m \in got[s] \/ m \notin Stored)
=============================================================================
