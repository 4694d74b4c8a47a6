--------------------------- MODULE DirectMessages ---------------------------
(***************************************************************************)
(* Conversations and direct messages: sendMessage of MessagesGateway with  *)
(* DmsService.findOrCreateDm, and deleteConversation of DmsController with *)
(* its IsYourConversationGuard.                                            *)
(*                                                                         *)
(* A handler is suspended at every await, so it takes one step of this     *)
(* module per database statement, and the statements of concurrent         *)
(* handlers interleave.  No handler opens a transaction: a handler that    *)
(* fails leaves behind what it has already written.                        *)
(***************************************************************************)
EXTENDS Repository

CONSTANTS
  Account,            \* the users; an account is never deleted
  Request,            \* the handlers that can be in flight at one time
  Content,            \* message texts
  MaxConversations,   \* bound: conversation ids the database hands out
  MaxMessages         \* bound: message ids the database hands out

CONSTANT NoContent    \* last_message of a new conversation (nullable column)

ASSUME BoundsAssumption ==
  /\ MaxConversations \in Nat
  /\ MaxMessages \in Nat

ASSUME ContentAssumption == NoContent \notin Content

VARIABLES
  conversations,      \* the table direct_conversations
  nextConversation,   \* its serial
  messages,           \* the table direct_conversation_messages
  nextMessage,        \* its serial
  reqs,               \* what each handler knows, and where it is suspended
  lost,               \* history: the conversations whose last_message is left
                      \* from a handler that failed before storing its message
  raced               \* history: the conversations whose last_message was
                      \* written while another handler had written it and had
                      \* not stored its message, and never alone since

vars ==
  <<conversations, nextConversation, messages, nextMessage, reqs, lost, raced>>

ConversationRow ==
  [initiator : Account, recipient : Account, last : Content \cup {NoContent}]

MessageRow ==
  [conversation : Nat \ {0}, creator : Account, receiver : Account,
   content : Content]

\* A sendMessage in flight.  since is history: the serial of conversations when
\* the handler began to look for an existing conversation.
SendHandler ==
  [pc : {"find_initiated", "find_received", "insert", "touch", "store"},
   me : Account, him : Account, content : Content,
   conversation : Nat, since : Nat]

\* A deleteConversation in flight, before and after its guard's lookup.
DeleteHandler ==
  [pc : {"check", "delete"}, me : Account, conversation : Nat]

Idle == [pc |-> "idle"]

Participants(row) == {row.initiator, row.recipient}

TypeOK ==
  /\ nextConversation \in Nat \ {0}
  /\ nextMessage \in Nat \ {0}
  /\ conversations \in [DOMAIN conversations -> ConversationRow]
  /\ DOMAIN conversations \subseteq 1 .. (nextConversation - 1)
  /\ messages \in [DOMAIN messages -> MessageRow]
  /\ DOMAIN messages \subseteq 1 .. (nextMessage - 1)
  /\ reqs \in [Request -> SendHandler \cup DeleteHandler \cup {Idle}]
  /\ lost \subseteq DOMAIN conversations
  /\ raced \subseteq DOMAIN conversations
-----------------------------------------------------------------------------
Init ==
  /\ conversations = NoRows
  /\ nextConversation = 1
  /\ messages = NoRows
  /\ nextMessage = 1
  /\ reqs = [r \in Request |-> Idle]
  /\ lost = {}
  /\ raced = {}

\* Slip: the recipient is missing from the where clause.
BetweenAnyRecipient(table, initiator, recipient) ==
  {c \in DOMAIN table : table[c].initiator = initiator}

\* The rows with this initiator and this recipient.
Between(table, initiator, recipient) ==
  {c \in DOMAIN table :
     table[c].initiator = initiator /\ table[c].recipient = recipient}

\* A handler has written last_message of c and not yet its message.
Storing(c) ==
  {r \in Request : reqs[r].pc = "store" /\ reqs[r].conversation = c}

(***************************************************************************)
(* send:direct-message.  The guards have let the message pass: which       *)
(* senders AllowToMessageHimGuard admits does not depend on these tables,  *)
(* so any sender may start.  The DTO allows a user to write to himself.    *)
(***************************************************************************)
StartSend(r) ==
  /\ reqs[r] = Idle
  /\ \E me, him \in Account, content \in Content :
       reqs' = [reqs EXCEPT ![r] =
                  [pc |-> "find_initiated", me |-> me, him |-> him,
                   content |-> content, conversation |-> Null,
                   since |-> nextConversation]]
  /\ UNCHANGED <<conversations, nextConversation, messages, nextMessage, lost, raced>>

\* findExistingConversation, first half: the conversations I initiated.
FindInitiated(r) ==
  LET found == FindOne(Between(conversations, reqs[r].me, reqs[r].him)) IN
  /\ reqs[r].pc = "find_initiated"
  /\ reqs' = [reqs EXCEPT
       ![r].pc = IF found = Null THEN "find_received" ELSE "touch",
       ![r].conversation = found]
  /\ UNCHANGED <<conversations, nextConversation, messages, nextMessage, lost, raced>>

\* Slip: the second lookup repeats the direction of the first.
FindInitiatedAgain(r) ==
  LET found == FindOne(Between(conversations, reqs[r].me, reqs[r].him)) IN
  /\ reqs[r].pc = "find_received"
  /\ reqs' = [reqs EXCEPT
       ![r].pc = IF found = Null THEN "insert" ELSE "touch",
       ![r].conversation = found]
  /\ UNCHANGED <<conversations, nextConversation, messages, nextMessage, lost, raced>>

\* findExistingConversation, second half: those he initiated with me.
FindReceived(r) ==
  LET found == FindOne(Between(conversations, reqs[r].him, reqs[r].me)) IN
  /\ reqs[r].pc = "find_received"
  /\ reqs' = [reqs EXCEPT
       ![r].pc = IF found = Null THEN "insert" ELSE "touch",
       ![r].conversation = found]
  /\ UNCHANGED <<conversations, nextConversation, messages, nextMessage, lost, raced>>

\* Slip: an id is handed out twice.
CreateWithSameId(r) ==
  /\ reqs[r].pc = "insert"
  /\ conversations' = Insert(conversations, nextConversation,
       [initiator |-> reqs[r].me, recipient |-> reqs[r].him,
        last |-> NoContent])
  /\ reqs' = [reqs EXCEPT ![r].pc = "touch",
                          ![r].conversation = nextConversation]
  /\ UNCHANGED <<nextConversation, messages, nextMessage, lost, raced>>

\* createNewConversation: nothing makes the pair of accounts unique.
CreateNewConversation(r) ==
  /\ reqs[r].pc = "insert"
  /\ nextConversation <= MaxConversations
  /\ conversations' = Insert(conversations, nextConversation,
       [initiator |-> reqs[r].me, recipient |-> reqs[r].him,
        last |-> NoContent])
  /\ nextConversation' = nextConversation + 1
  /\ reqs' = [reqs EXCEPT ![r].pc = "touch",
                          ![r].conversation = nextConversation]
  /\ UNCHANGED <<messages, nextMessage, lost, raced>>

\* Slip: a conversation that has a preview keeps it.
SetFirstMessage(r) ==
  LET c == reqs[r].conversation IN
  /\ reqs[r].pc = "touch"
  /\ c \in DOMAIN conversations
  /\ conversations' = IF conversations[c].last # NoContent THEN conversations
                      ELSE Update(conversations, {c}, "last", reqs[r].content)
  /\ lost' = lost \ {c}
  /\ raced' = IF Storing(c) = {} THEN raced \ {c} ELSE raced \cup {c}
  /\ reqs' = [reqs EXCEPT ![r].pc = "store"]
  /\ UNCHANGED <<nextConversation, messages, nextMessage>>

\* findOneAndUpdate of last_message, when the row is still there.
SetLastMessage(r) ==
  LET c == reqs[r].conversation IN
  /\ reqs[r].pc = "touch"
  /\ c \in DOMAIN conversations
  /\ conversations' = Update(conversations, {c}, "last", reqs[r].content)
  /\ lost' = lost \ {c}
  /\ raced' = IF Storing(c) = {} THEN raced \ {c} ELSE raced \cup {c}
  /\ reqs' = [reqs EXCEPT ![r].pc = "store"]
  /\ UNCHANGED <<nextConversation, messages, nextMessage>>

\* create of the message.  The reply and the emit that follows it are the end
\* of the handler; the receiving socket is the subject of MessageDelivery.
CreateMessage(r) ==
  /\ reqs[r].pc = "store"
  /\ nextMessage <= MaxMessages
  /\ reqs[r].conversation \in DOMAIN conversations
  /\ messages' = Insert(messages, nextMessage,
       [conversation |-> reqs[r].conversation,
        creator |-> reqs[r].me, receiver |-> reqs[r].him,
        content |-> reqs[r].content])
  /\ nextMessage' = nextMessage + 1
  /\ reqs' = [reqs EXCEPT ![r] = Idle]
  /\ UNCHANGED <<conversations, nextConversation, lost, raced>>

\* The conversation was deleted under the handler: the UPDATE affects no row
\* and findOneAndUpdate throws, or the INSERT violates the foreign key.
ConversationGone(r) ==
  /\ reqs[r].pc \in {"touch", "store"}
  /\ reqs[r].conversation \notin DOMAIN conversations
  /\ reqs' = [reqs EXCEPT ![r] = Idle]
  /\ UNCHANGED <<conversations, nextConversation, messages, nextMessage, lost, raced>>

(***************************************************************************)
(* DELETE dms/:conversation_id.                                            *)
(***************************************************************************)
StartDelete(r) ==
  /\ reqs[r] = Idle
  /\ \E me \in Account, c \in 1 .. (nextConversation - 1) :
       reqs' = [reqs EXCEPT ![r] = [pc |-> "check", me |-> me,
                                    conversation |-> c]]
  /\ UNCHANGED <<conversations, nextConversation, messages, nextMessage, lost, raced>>

\* The guard looks the id up with me as initiator, then as recipient.  The
\* participants of a row never change, so the two lookups are one step.
IsYourConversation(r) ==
  LET c == reqs[r].conversation IN
  /\ reqs[r].pc = "check"
  /\ reqs' = IF c \in DOMAIN conversations /\ reqs[r].me \in Participants(conversations[c])
             THEN [reqs EXCEPT ![r].pc = "delete"]
             ELSE [reqs EXCEPT ![r] = Idle]
  /\ UNCHANGED <<conversations, nextConversation, messages, nextMessage, lost, raced>>

\* findOneAndDelete; the foreign key of the messages is ON DELETE CASCADE.
DeleteConversation(r) ==
  LET c == reqs[r].conversation IN
  /\ reqs[r].pc = "delete"
  /\ conversations' = Delete(conversations, {c})
  /\ messages' = Delete(messages,
       {m \in DOMAIN messages : messages[m].conversation = c})
  /\ lost' = lost \ {c}
  /\ raced' = raced \ {c}
  /\ reqs' = [reqs EXCEPT ![r] = Idle]
  /\ UNCHANGED <<nextConversation, nextMessage>>

\* A statement fails (connection, pool, server restart): the service throws and
\* the handler ends where it is, with what it has already written.
Fail(r) ==
  /\ reqs[r] # Idle
  /\ reqs' = [reqs EXCEPT ![r] = Idle]
  /\ lost' = lost \cup {c \in DOMAIN conversations :
                          /\ r \in Storing(c)
                          /\ conversations[c].last = reqs[r].content}
  /\ UNCHANGED <<conversations, nextConversation, messages, nextMessage, raced>>
-----------------------------------------------------------------------------
Send(r) ==
  \/ StartSend(r) \/ FindInitiated(r) \/ FindReceived(r)
  \/ CreateNewConversation(r) \/ SetLastMessage(r)
  \/ CreateMessage(r) \/ ConversationGone(r)

Remove(r) == StartDelete(r) \/ IsYourConversation(r) \/ DeleteConversation(r)

Next == \E r \in Request : Send(r) \/ Remove(r) \/ Fail(r)

Spec == Init /\ [][Next]_vars
-----------------------------------------------------------------------------
(***************************************************************************)
(* Every stored message belongs to a stored conversation whose two         *)
(* participants are exactly its creator and its receiver, whatever was     *)
(* deleted or created between the lookup of the conversation and the       *)
(* insertion of the message.                                               *)
(***************************************************************************)
MessagesBelongToParticipants ==
  \A m \in DOMAIN messages :
    LET c == messages[m].conversation IN
    /\ c \in DOMAIN conversations
    /\ Participants(conversations[c]) = {messages[m].creator, messages[m].receiver}

(***************************************************************************)
(* findOrCreateDm inserts a second conversation of two accounts only when  *)
(* a concurrent handler inserted the first one after this handler began to *)
(* look: a conversation that was there when the lookup began is found, in  *)
(* whichever direction it was initiated.                                   *)
(***************************************************************************)
DuplicateOnlyByRace ==
  \A r \in Request : reqs[r].pc = "insert" =>
    \A c \in DOMAIN conversations :
      Participants(conversations[c]) = {reqs[r].me, reqs[r].him} => c >= reqs[r].since

MessagesOf(c) == {m \in DOMAIN messages : messages[m].conversation = c}

(***************************************************************************)
(* The preview of a conversation is the text of its newest message, or of  *)
(* one that a handler is about to store.  Two things only can spoil that,  *)
(* and until the next undisturbed message: the handler that wrote the      *)
(* preview fails before its INSERT, or two handlers were between the two   *)
(* statements at once, and then it is still the text of some message.      *)
(***************************************************************************)
PreviewIsNewest ==
  \A c \in DOMAIN conversations :
    LET last == conversations[c].last IN
    \/ last = NoContent /\ MessagesOf(c) = {}
    \/ \E m \in MessagesOf(c) :
         /\ messages[m].content = last
         /\ c \in raced \/ \A n \in MessagesOf(c) : n <= m
    \/ \E r \in Storing(c) : reqs[r].content = last
    \/ c \in lost
=============================================================================
