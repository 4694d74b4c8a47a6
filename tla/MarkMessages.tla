---------------------------- MODULE MarkMessages ----------------------------
(***************************************************************************)
(* mark:messages-as-read and mark:message-as-delivered of MessagesGateway, *)
(* with the guards both run: WsIsYourConversationGuard, which stores the   *)
(* conversation it found in client.data, and                               *)
(* WsIsMessageBelongToConversationGuard, which stores the message there.   *)
(* client.data belongs to the socket, not to the event, and the handler    *)
(* reads it back after the ValidationPipe has awaited its own lookups.     *)
(***************************************************************************)
EXTENDS Naturals, FiniteSets

CONSTANTS
  Account, Conversation, Message,   \* users and stored rows
  Initiator, Recipient,             \* the participants of each conversation
  ConversationOf, Creator,          \* the immutable columns of each message
  Receiver,
  Socket,                           \* the sockets of the messages namespace
  Owner,                            \* the user authenticated on each socket
  Request,                          \* the events that can be in flight
  MaxPerSocket,                     \* bound: events in flight on one socket
  None                              \* a field of client.data not set yet

\* The rows are such as sendMessage leaves them: theorem MessageSafety of
\* DirectMessagesProofs.
ASSUME PopulationAssumption ==
  /\ Initiator \in [Conversation -> Account]
  /\ Recipient \in [Conversation -> Account]
  /\ ConversationOf \in [Message -> Conversation]
  /\ Creator \in [Message -> Account]
  /\ Receiver \in [Message -> Account]
  /\ \A m \in Message :
       {Creator[m], Receiver[m]} =
         {Initiator[ConversationOf[m]], Recipient[ConversationOf[m]]}

ASSUME SocketAssumption ==
  /\ Owner \in [Socket -> Account]
  /\ MaxPerSocket \in Nat
  /\ None \notin Conversation \cup Message

VARIABLES
  live,       \* the conversations not deleted, with all their messages
  marked,     \* the rows whose column marked is true
  delivered,  \* the rows whose column delivered is true
  data,       \* client.data of each socket
  reqs,       \* where each event is suspended, and what it holds
  emitted,    \* the event just sent to the room of a user, if any
  alone,      \* history: the events that met no other one of their socket in
              \* the guards
  written     \* history: the flags ever set, of rows deleted since as well

vars == <<live, marked, delivered, data, reqs, emitted, alone, written>>

Kind == {"read", "delivered"}

\* conversation and message are what the payload asks for.  From "update" on
\* they are accompanied by what the handler destructured from client.data, and
\* by the flags of the row findOneAndUpdate has read back, if there was a row.
Guarding ==
  [pc : {"conversation", "message", "validate"}, kind : Kind, socket : Socket,
   conversation : Conversation, message : Message]

Handling ==
  [pc : {"update", "read", "emit"}, kind : Kind, socket : Socket,
   conversation : Conversation, message : Message,
   inConversation : Conversation \cup {None}, theMessage : Message \cup {None},
   row : SUBSET SUBSET Kind]

Idle == [pc |-> "idle"]

Event ==
  [kind : Kind, to : Account, reader : Account, conversation : Conversation,
   message : Message, row : SUBSET SUBSET Kind, asked : Message,
   lone : BOOLEAN]

TypeOK ==
  /\ live \subseteq Conversation
  /\ marked \subseteq Message
  /\ delivered \subseteq Message
  /\ data \in [Socket -> [conversation : Conversation \cup {None},
                          message : Message \cup {None}]]
  /\ reqs \in [Request -> Guarding \cup Handling \cup {Idle}]
  /\ emitted \in SUBSET Event
  /\ alone \subseteq Request
  /\ written \subseteq Kind \X Message

Exists(m) == ConversationOf[m] \in live

\* The columns of a row that are true.
Flags(m) ==
  {k \in Kind : m \in IF k = "read" THEN marked ELSE delivered}

\* A participant other than a; a itself in a conversation with oneself.
Other(a, c) == IF a = Initiator[c] THEN Recipient[c] ELSE Initiator[c]
-----------------------------------------------------------------------------
Init ==
  /\ live = Conversation
  /\ marked = {}
  /\ delivered = {}
  /\ data = [s \in Socket |-> [conversation |-> None, message |-> None]]
  /\ reqs = [r \in Request |-> Idle]
  /\ emitted = {}
  /\ alone = {}
  /\ written = {}

InFlight(s) == {r \in Request : reqs[r] # Idle /\ reqs[r].socket = s}

InGuards(s) ==
  {r \in InFlight(s) : reqs[r].pc \in {"conversation", "message", "validate"}}

\* The event arrives; WsAuthGuard only rewrites the same user.
Arrive(r) ==
  /\ reqs[r] = Idle
  /\ \E k \in Kind, s \in Socket, c \in Conversation, m \in Message :
       /\ Cardinality(InFlight(s)) < MaxPerSocket
       /\ reqs' = [reqs EXCEPT ![r] =
                     [pc |-> "conversation", kind |-> k, socket |-> s,
                      conversation |-> c, message |-> m]]
       /\ alone' = IF InGuards(s) = {} THEN alone \cup {r}
                   ELSE alone \ (InGuards(s) \cup {r})
  /\ UNCHANGED <<live, marked, delivered, data, written>>

\* WsIsYourConversationGuard: the lookup as initiator and the one as recipient
\* name the same id, so one step stands for both.  The next guard takes its
\* conversation from client.data before anything else can run.
IsYourConversation(r) ==
  LET s == reqs[r].socket
      c == reqs[r].conversation
      me == Owner[s] IN
  /\ reqs[r].pc = "conversation"
  /\ c \in live
  /\ me \in {Initiator[c], Recipient[c]}
  /\ data' = [data EXCEPT ![s].conversation = c]
  /\ reqs' = [reqs EXCEPT ![r].pc = "message"]
  /\ UNCHANGED <<live, marked, delivered, alone, written>>

\* Slip: the guard does not ask who wrote the message.
MessageOfConversation(r) ==
  LET s == reqs[r].socket
      m == reqs[r].message IN
  /\ reqs[r].pc = "message"
  /\ Exists(m)
  /\ ConversationOf[m] = reqs[r].conversation
  /\ data' = [data EXCEPT ![s].message = m]
  /\ reqs' = [reqs EXCEPT ![r].pc = "validate"]
  /\ UNCHANGED <<live, marked, delivered, alone, written>>

\* Slip: the guard keeps a message that client.data already has.
KeepFirstMessage(r) ==
  LET s == reqs[r].socket
      m == reqs[r].message IN
  /\ reqs[r].pc = "message"
  /\ Exists(m)
  /\ ConversationOf[m] = reqs[r].conversation
  /\ Creator[m] # Owner[s]
  /\ data' = IF data[s].message = None THEN [data EXCEPT ![s].message = m]
             ELSE data
  /\ reqs' = [reqs EXCEPT ![r].pc = "validate"]
  /\ UNCHANGED <<live, marked, delivered, alone, written>>

\* WsIsMessageBelongToConversationGuard: a message of that conversation which
\* the user did not write.
IsMessageOfConversation(r) ==
  LET s == reqs[r].socket
      m == reqs[r].message IN
  /\ reqs[r].pc = "message"
  /\ Exists(m)
  /\ ConversationOf[m] = reqs[r].conversation
  /\ Creator[m] # Owner[s]
  /\ data' = [data EXCEPT ![s].message = m]
  /\ reqs' = [reqs EXCEPT ![r].pc = "validate"]
  /\ UNCHANGED <<live, marked, delivered, alone, written>>

\* The DTO's IsExistMessage and IsExistConversation pass; the handler starts
\* and destructures client.data.
Validate(r) ==
  LET s == reqs[r].socket IN
  /\ reqs[r].pc = "validate"
  /\ Exists(reqs[r].message)
  /\ reqs' = [reqs EXCEPT ![r] =
       [pc |-> "update", kind |-> reqs[r].kind, socket |-> s,
        conversation |-> reqs[r].conversation, message |-> reqs[r].message,
        inConversation |-> data[s].conversation,
        theMessage |-> data[s].message, row |-> {}]]
  /\ UNCHANGED <<live, marked, delivered, data, alone, written>>

\* What the awaited lookup of each stage has to find for the event to go on.
Passes(r) ==
  CASE reqs[r].pc = "conversation" ->
         /\ reqs[r].conversation \in live
         /\ Owner[reqs[r].socket] \in {Initiator[reqs[r].conversation],
                                       Recipient[reqs[r].conversation]}
    [] reqs[r].pc = "message" ->
         /\ Exists(reqs[r].message)
         /\ ConversationOf[reqs[r].message] = reqs[r].conversation
         /\ Creator[reqs[r].message] # Owner[reqs[r].socket]
    [] reqs[r].pc = "validate" -> Exists(reqs[r].message)
    [] reqs[r].pc = "update" -> Exists(reqs[r].theMessage)
    [] OTHER -> TRUE

\* A guard or a validator refuses the event, or the UPDATE affects no row and
\* findOneAndUpdate throws: the client gets an exception, nothing is emitted.
Refuse(r) ==
  /\ reqs[r] # Idle
  /\ ~ Passes(r)
  /\ reqs' = [reqs EXCEPT ![r] = Idle]
  /\ alone' = alone \ {r}
  /\ UNCHANGED <<live, marked, delivered, data, written>>

\* The UPDATE of findOneAndUpdate: it sets the flag of the rows with these ids.
SetFlags(kind, ids) ==
  /\ marked' = IF kind = "read" THEN marked \cup ids ELSE marked
  /\ delivered' = IF kind = "delivered" THEN delivered \cup ids ELSE delivered
  /\ written' = written \cup ({kind} \X ids)

\* Slip: nobody looks how many rows the UPDATE has affected.
SetFlagUnchecked(r) ==
  LET m == reqs[r].theMessage IN
  /\ reqs[r].pc = "update"
  /\ SetFlags(reqs[r].kind, IF Exists(m) THEN {m} ELSE {})
  /\ reqs' = [reqs EXCEPT ![r].pc = "read"]
  /\ UNCHANGED <<live, data, alone>>

\* Slip: the where clause has the id of the conversation.
SetFlagOfConversation(r) ==
  /\ reqs[r].pc = "update"
  /\ Exists(reqs[r].theMessage)
  /\ SetFlags(reqs[r].kind, {reqs[r].inConversation})
  /\ reqs' = [reqs EXCEPT ![r].pc = "read"]
  /\ UNCHANGED <<live, data, alone>>

\* findOneAndUpdate of the flag, by the id of the message alone.
SetFlag(r) ==
  LET m == reqs[r].theMessage IN
  /\ reqs[r].pc = "update"
  /\ Exists(m)
  /\ SetFlags(reqs[r].kind, {m})
  /\ reqs' = [reqs EXCEPT ![r].pc = "read"]
  /\ UNCHANGED <<live, data, alone>>

\* Its second statement reads the row back, and answers null when the row has
\* been deleted since.
ReadBack(r) ==
  LET m == reqs[r].theMessage IN
  /\ reqs[r].pc = "read"
  /\ reqs' = [reqs EXCEPT ![r].pc = "emit",
                          ![r].row = IF Exists(m) THEN {Flags(m)} ELSE {}]
  /\ UNCHANGED <<live, marked, delivered, data, alone, written>>

\* The event goes to the room of the other participant of the conversation
\* that client.data had, with the row as it was read back.
Emit(r) ==
  LET q == reqs[r]
      me == Owner[q.socket] IN
  /\ q.pc = "emit"
  /\ emitted' =
       {[kind |-> q.kind, to |-> Other(me, q.inConversation), reader |-> me,
         conversation |-> q.inConversation, message |-> q.theMessage,
         row |-> q.row, asked |-> q.message, lone |-> r \in alone]}
  /\ reqs' = [reqs EXCEPT ![r] = Idle]
  /\ alone' = alone \ {r}
  /\ UNCHANGED <<live, marked, delivered, data, written>>

\* A statement fails, and with it the handler.
Fail(r) ==
  /\ reqs[r] # Idle
  /\ reqs' = [reqs EXCEPT ![r] = Idle]
  /\ alone' = alone \ {r}
  /\ UNCHANGED <<live, marked, delivered, data, written>>

\* A participant deletes the conversation, and its messages by cascade, with
\* deleteConversation of DmsController (module DirectMessages).
DeleteConversation(c) ==
  /\ c \in live
  /\ live' = live \ {c}
  /\ marked' = {m \in marked : ConversationOf[m] # c}
  /\ delivered' = {m \in delivered : ConversationOf[m] # c}
  /\ UNCHANGED <<data, reqs, alone, written>>
-----------------------------------------------------------------------------
Silent(r) ==
  \/ Arrive(r) \/ IsYourConversation(r) \/ IsMessageOfConversation(r)
  \/ Validate(r) \/ Refuse(r) \/ SetFlag(r) \/ ReadBack(r) \/ Fail(r)

Next ==
  \/ \E r \in Request : Emit(r)
  \/ /\ \/ \E r \in Request : Silent(r)
        \/ \E c \in Conversation : DeleteConversation(c)
     /\ emitted' = {}

Spec == Init /\ [][Next]_vars
-----------------------------------------------------------------------------
(***************************************************************************)
(* Only the receiver of a message marks it: whatever events of the same    *)
(* socket overwrote client.data, the message a handler is about to update  *)
(* was sent to the user of its own socket.                                 *)
(***************************************************************************)
OnlyReceiverMarks ==
  \A r \in Request :
    reqs[r].pc = "update" => Receiver[reqs[r].theMessage] = Owner[reqs[r].socket]

(***************************************************************************)
(* No event runs ahead of the table: a message announced as read, or as    *)
(* delivered, has had that flag, and the row sent with the event shows it. *)
(* Only a deletion comes between: an event without its row, or of a flag   *)
(* that is not in the table, is about a message deleted since the update.  *)
(***************************************************************************)
EventsTellTheTruth ==
  \A e \in emitted :
    /\ <<e.kind, e.message>> \in written
    /\ \A flags \in e.row : e.kind \in flags
    /\ Exists(e.message) => e.row # {} /\ e.kind \in Flags(e.message)

(***************************************************************************)
(* The event reaches the author of the message, about the conversation the *)
(* message is in ("@emits mark:messages-as-read to the recipient",         *)
(* messages.gateway.ts:204).                                               *)
(***************************************************************************)
EventsReachTheAuthor ==
  \A e \in emitted :
    /\ e.to = Creator[e.message]
    /\ e.conversation = ConversationOf[e.message]

(***************************************************************************)
(* An event that met no other one of its socket in the guards acts on the  *)
(* message its payload named, and is announced to that message's author:   *)
(* what client.data holds is no older than the event.                      *)
(***************************************************************************)
LoneEventsAnswerTheirRequest ==
  \A e \in emitted : e.lone =>
    /\ e.message = e.asked
    /\ e.conversation = ConversationOf[e.asked]
    /\ e.to = Creator[e.asked]
=============================================================================
