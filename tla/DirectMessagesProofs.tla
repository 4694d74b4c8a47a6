------------------------ MODULE DirectMessagesProofs ------------------------
(***************************************************************************)
(* Type correctness of DirectMessages and the safety of its messages, for  *)
(* every set of accounts and every number of concurrent handlers.          *)
(***************************************************************************)
EXTENDS DirectMessages, RepositoryProofs

\* A handler that holds a conversation holds one between its two accounts, as
\* long as nobody deletes it; a serial is never handed out again.
HandlersHoldTheirPair ==
  \A r \in Request : reqs[r].pc \in {"touch", "store"} =>
    /\ reqs[r].conversation \in 1 .. (nextConversation - 1)
    /\ reqs[r].conversation \in DOMAIN conversations =>
         Participants(conversations[reqs[r].conversation]) = {reqs[r].me, reqs[r].him}

\* What a handler has already ruled out while it looks for a conversation.
SearchIsExhaustive ==
  \A r \in Request :
    /\ reqs[r].pc \in {"find_initiated", "find_received", "insert"} =>
         reqs[r].since <= nextConversation
    /\ reqs[r].pc \in {"find_received", "insert"} =>
         \A c \in Between(conversations, reqs[r].me, reqs[r].him) : c >= reqs[r].since
    /\ reqs[r].pc = "insert" =>
         \A c \in Between(conversations, reqs[r].him, reqs[r].me) : c >= reqs[r].since

IInv ==
  /\ TypeOK
  /\ HandlersHoldTheirPair
  /\ SearchIsExhaustive
  /\ MessagesBelongToParticipants

LEMMA InitIInv == Init => IInv
  BY BoundsAssumption DEF Init, IInv, TypeOK, HandlersHoldTheirPair, SearchIsExhaustive,
    MessagesBelongToParticipants, NoRows, Idle

\* The two lookups read rows that exist, under ids that the serial handed out.
LEMMA BetweenType ==
  ASSUME TypeOK, NEW a \in Account, NEW b \in Account
  PROVE  /\ Between(conversations, a, b) \in SUBSET (Nat \ {0})
         /\ Between(conversations, a, b) \subseteq DOMAIN conversations
         /\ \A c \in Between(conversations, a, b) : Participants(conversations[c]) = {a, b}
  BY DEF TypeOK, Between, Participants

\* An action that only moves one handler keeps the tables, so it is enough to
\* look at what that handler now claims.
LEMMA SendingType ==
  ASSUME TypeOK, NEW r \in Request,
         reqs[r].pc \in {"find_initiated", "find_received", "insert", "touch", "store"}
  PROVE  reqs[r] \in SendHandler
  BY DEF TypeOK, DeleteHandler, Idle

LEMMA StartSendStep ==
  ASSUME IInv, NEW r \in Request, StartSend(r)
  PROVE  IInv'
<1>1. PICK me \in Account, him \in Account, content \in Content :
        reqs' = [reqs EXCEPT ![r] =
                   [pc |-> "find_initiated", me |-> me, him |-> him,
                    content |-> content, conversation |-> Null,
                    since |-> nextConversation]]
  BY DEF StartSend
<1>2. TypeOK'
  BY <1>1 DEF IInv, TypeOK, StartSend, SendHandler, Null
<1>3. HandlersHoldTheirPair'
  BY <1>1 DEF IInv, TypeOK, StartSend, HandlersHoldTheirPair, Participants
<1>4. SearchIsExhaustive'
  BY <1>1 DEF IInv, TypeOK, StartSend, SearchIsExhaustive, Between
<1>5. MessagesBelongToParticipants'
  BY DEF IInv, StartSend, MessagesBelongToParticipants, Participants
<1> QED
  BY <1>2, <1>3, <1>4, <1>5 DEF IInv

LEMMA FindInitiatedStep ==
  ASSUME IInv, NEW r \in Request, FindInitiated(r)
  PROVE  IInv'
<1> DEFINE found == FindOne(Between(conversations, reqs[r].me, reqs[r].him))
<1>1. reqs[r] \in SendHandler
  BY SendingType DEF IInv, FindInitiated
<1>2. /\ found \in Between(conversations, reqs[r].me, reqs[r].him) \cup {Null}
      /\ found = Null <=> Between(conversations, reqs[r].me, reqs[r].him) = {}
  BY <1>1, BetweenType, FindOneType DEF IInv, SendHandler
<1>3. found # Null => /\ found \in 1 .. (nextConversation - 1)
                      /\ Participants(conversations[found]) = {reqs[r].me, reqs[r].him}
  BY <1>1, <1>2, BetweenType DEF IInv, TypeOK, SendHandler
<1>4. reqs' = [reqs EXCEPT
        ![r].pc = IF found = Null THEN "find_received" ELSE "touch",
        ![r].conversation = found]
  BY DEF FindInitiated
<1>5. found \in Nat
  BY <1>2, <1>3 DEF Null
<1> HIDE DEF found
<1>6. reqs'[r] \in SendHandler
  BY <1>1, <1>4, <1>5 DEF IInv, TypeOK, SendHandler
<1>7. TypeOK'
  BY <1>4, <1>6 DEF IInv, TypeOK, FindInitiated
<1>a. /\ UNCHANGED <<conversations, nextConversation>>
      /\ reqs'[r].pc = IF found = Null THEN "find_received" ELSE "touch"
      /\ reqs'[r].conversation = found
      /\ reqs'[r].me = reqs[r].me /\ reqs'[r].him = reqs[r].him
      /\ reqs'[r].since = reqs[r].since
      /\ \A q \in Request : q # r => reqs'[q] = reqs[q]
  BY <1>1, <1>4 DEF IInv, TypeOK, FindInitiated, SendHandler
<1>8. HandlersHoldTheirPair'
  <2> SUFFICES ASSUME NEW q \in Request, reqs'[q].pc \in {"touch", "store"}
               PROVE  /\ reqs'[q].conversation \in 1 .. (nextConversation - 1)
                      /\ reqs'[q].conversation \in DOMAIN conversations =>
                           Participants(conversations[reqs'[q].conversation]) = {reqs'[q].me, reqs'[q].him}
    BY <1>a DEF HandlersHoldTheirPair, Participants
  <2>1. CASE q = r
    BY <1>3, <1>a, <2>1
  <2>2. CASE q # r
    BY <1>a, <2>2 DEF IInv, HandlersHoldTheirPair
  <2> QED
    BY <2>1, <2>2
<1>9. SearchIsExhaustive'
  <2> SUFFICES ASSUME NEW q \in Request
               PROVE  /\ reqs'[q].pc \in {"find_initiated", "find_received", "insert"} =>
                           reqs'[q].since <= nextConversation
                      /\ reqs'[q].pc \in {"find_received", "insert"} =>
                           \A c \in Between(conversations, reqs'[q].me, reqs'[q].him) : c >= reqs'[q].since
                      /\ reqs'[q].pc = "insert" =>
                           \A c \in Between(conversations, reqs'[q].him, reqs'[q].me) : c >= reqs'[q].since
    BY <1>a DEF SearchIsExhaustive, Between
  <2>1. CASE q = r
    <3>1. /\ reqs[r].since <= nextConversation
      BY DEF IInv, SearchIsExhaustive, FindInitiated
    <3> QED
      BY <1>2, <1>a, <2>1, <3>1
  <2>2. CASE q # r
    BY <1>a, <2>2 DEF IInv, SearchIsExhaustive
  <2> QED
    BY <2>1, <2>2
<1>10. MessagesBelongToParticipants'
  BY DEF IInv, FindInitiated, MessagesBelongToParticipants, Participants
<1> QED
  BY <1>7, <1>8, <1>9, <1>10 DEF IInv

LEMMA FindReceivedStep ==
  ASSUME IInv, NEW r \in Request, FindReceived(r)
  PROVE  IInv'
<1> DEFINE found == FindOne(Between(conversations, reqs[r].him, reqs[r].me))
<1>1. reqs[r] \in SendHandler
  BY SendingType DEF IInv, FindReceived
<1>2. /\ found \in Between(conversations, reqs[r].him, reqs[r].me) \cup {Null}
      /\ found = Null <=> Between(conversations, reqs[r].him, reqs[r].me) = {}
  BY <1>1, BetweenType, FindOneType DEF IInv, SendHandler
<1>3. found # Null => /\ found \in 1 .. (nextConversation - 1)
                      /\ Participants(conversations[found]) = {reqs[r].me, reqs[r].him}
  BY <1>1, <1>2, BetweenType DEF IInv, TypeOK, SendHandler
<1>4. reqs' = [reqs EXCEPT
        ![r].pc = IF found = Null THEN "insert" ELSE "touch",
        ![r].conversation = found]
  BY DEF FindReceived
<1>5. found \in Nat
  BY <1>2, <1>3 DEF Null
<1> HIDE DEF found
<1>6. reqs'[r] \in SendHandler
  BY <1>1, <1>4, <1>5 DEF IInv, TypeOK, SendHandler
<1>7. TypeOK'
  BY <1>4, <1>6 DEF IInv, TypeOK, FindReceived
<1>a. /\ UNCHANGED <<conversations, nextConversation>>
      /\ reqs'[r].pc = IF found = Null THEN "insert" ELSE "touch"
      /\ reqs'[r].conversation = found
      /\ reqs'[r].me = reqs[r].me /\ reqs'[r].him = reqs[r].him
      /\ reqs'[r].since = reqs[r].since
      /\ \A q \in Request : q # r => reqs'[q] = reqs[q]
  BY <1>1, <1>4 DEF IInv, TypeOK, FindReceived, SendHandler
<1>8. HandlersHoldTheirPair'
  <2> SUFFICES ASSUME NEW q \in Request, reqs'[q].pc \in {"touch", "store"}
               PROVE  /\ reqs'[q].conversation \in 1 .. (nextConversation - 1)
                      /\ reqs'[q].conversation \in DOMAIN conversations =>
                           Participants(conversations[reqs'[q].conversation]) = {reqs'[q].me, reqs'[q].him}
    BY <1>a DEF HandlersHoldTheirPair, Participants
  <2>1. CASE q = r
    BY <1>3, <1>a, <2>1
  <2>2. CASE q # r
    BY <1>a, <2>2 DEF IInv, HandlersHoldTheirPair
  <2> QED
    BY <2>1, <2>2
<1>9. SearchIsExhaustive'
  <2> SUFFICES ASSUME NEW q \in Request
               PROVE  /\ reqs'[q].pc \in {"find_initiated", "find_received", "insert"} =>
                           reqs'[q].since <= nextConversation
                      /\ reqs'[q].pc \in {"find_received", "insert"} =>
                           \A c \in Between(conversations, reqs'[q].me, reqs'[q].him) : c >= reqs'[q].since
                      /\ reqs'[q].pc = "insert" =>
                           \A c \in Between(conversations, reqs'[q].him, reqs'[q].me) : c >= reqs'[q].since
    BY <1>a DEF SearchIsExhaustive, Between
  <2>1. CASE q = r
    <3>1. /\ reqs[r].since <= nextConversation
          /\ \A c \in Between(conversations, reqs[r].me, reqs[r].him) : c >= reqs[r].since
      BY DEF IInv, SearchIsExhaustive, FindReceived
    <3> QED
      BY <1>2, <1>a, <2>1, <3>1
  <2>2. CASE q # r
    BY <1>a, <2>2 DEF IInv, SearchIsExhaustive
  <2> QED
    BY <2>1, <2>2
<1>10. MessagesBelongToParticipants'
  BY DEF IInv, FindReceived, MessagesBelongToParticipants, Participants
<1> QED
  BY <1>7, <1>8, <1>9, <1>10 DEF IInv

\* The new row gets a fresh id, so no handler and no message refers to it yet.
LEMMA CreateNewConversationStep ==
  ASSUME IInv, NEW r \in Request, CreateNewConversation(r)
  PROVE  IInv'
<1> DEFINE row == [initiator |-> reqs[r].me, recipient |-> reqs[r].him,
                   last |-> NoContent]
<1>1. reqs[r] \in SendHandler
  BY SendingType DEF IInv, CreateNewConversation
<1>2. nextConversation \notin DOMAIN conversations
  BY DEF IInv, TypeOK
<1>3. /\ DOMAIN conversations' = DOMAIN conversations \cup {nextConversation}
      /\ conversations'[nextConversation] = row
      /\ \A c \in DOMAIN conversations : conversations'[c] = conversations[c]
      /\ conversations' \in [DOMAIN conversations' -> ConversationRow]
  BY <1>1, <1>2 DEF IInv, TypeOK, CreateNewConversation, Insert, SendHandler, ConversationRow
<1>4. /\ nextConversation' = nextConversation + 1
      /\ UNCHANGED <<messages, nextMessage>>
      /\ reqs'[r].pc = "touch"
      /\ reqs'[r].conversation = nextConversation
      /\ reqs'[r].me = reqs[r].me /\ reqs'[r].him = reqs[r].him
      /\ reqs'[r].since = reqs[r].since
      /\ \A q \in Request : q # r => reqs'[q] = reqs[q]
  BY <1>1 DEF IInv, TypeOK, CreateNewConversation, SendHandler
<1>5. /\ \A c \in DOMAIN conversations : Participants(conversations'[c]) = Participants(conversations[c])
      /\ Participants(conversations'[nextConversation]) = {reqs[r].me, reqs[r].him}
  BY <1>3, <1>4 DEF Participants
<1>6. nextConversation \in Nat \ {0}
  BY DEF IInv, TypeOK
<1>7. TypeOK'
  <2>1. reqs' \in [Request -> SendHandler \cup DeleteHandler \cup {Idle}]
    BY <1>1, <1>6 DEF IInv, TypeOK, CreateNewConversation, SendHandler
  <2> QED
    BY <1>3, <1>4, <1>6, <2>1 DEF IInv, TypeOK, CreateNewConversation
<1>8. HandlersHoldTheirPair'
  <2> SUFFICES ASSUME NEW q \in Request, reqs'[q].pc \in {"touch", "store"}
               PROVE  /\ reqs'[q].conversation \in 1 .. (nextConversation' - 1)
                      /\ reqs'[q].conversation \in DOMAIN conversations' =>
                           Participants(conversations'[reqs'[q].conversation]) = {reqs'[q].me, reqs'[q].him}
    BY DEF HandlersHoldTheirPair
  <2>1. CASE q = r
    BY <1>4, <1>5, <1>6, <2>1
  <2>2. CASE q # r
    <3>1. /\ reqs[q].conversation \in 1 .. (nextConversation - 1)
          /\ reqs[q].conversation \in DOMAIN conversations =>
               Participants(conversations[reqs[q].conversation]) = {reqs[q].me, reqs[q].him}
      BY <1>4, <2>2 DEF IInv, HandlersHoldTheirPair
    <3>2. reqs[q].conversation # nextConversation
      BY <1>6, <3>1
    <3> QED
      BY <1>3, <1>4, <1>5, <1>6, <2>2, <3>1, <3>2
  <2> QED
    BY <2>1, <2>2
<1>9. SearchIsExhaustive'
  <2>1. \A a, b \in Account :
          Between(conversations', a, b) \subseteq Between(conversations, a, b) \cup {nextConversation}
    BY <1>3 DEF Between
  <2> SUFFICES ASSUME NEW q \in Request,
                      reqs'[q].pc \in {"find_initiated", "find_received", "insert"}
               PROVE  /\ reqs'[q].since <= nextConversation'
                      /\ reqs'[q].pc \in {"find_received", "insert"} =>
                           \A c \in Between(conversations', reqs'[q].me, reqs'[q].him) : c >= reqs'[q].since
                      /\ reqs'[q].pc = "insert" =>
                           \A c \in Between(conversations', reqs'[q].him, reqs'[q].me) : c >= reqs'[q].since
    BY DEF SearchIsExhaustive
  <2>2. q # r /\ reqs'[q] = reqs[q]
    BY <1>4
  <2>3. reqs[q] \in SendHandler
    BY <2>2, SendingType DEF IInv
  <2>4. /\ reqs[q].me \in Account /\ reqs[q].him \in Account
        /\ reqs[q].since \in Nat
        /\ reqs[q].since <= nextConversation
    BY <2>2, <2>3 DEF IInv, SearchIsExhaustive, SendHandler
  <2>5. /\ reqs[q].pc \in {"find_received", "insert"} =>
             \A c \in Between(conversations, reqs[q].me, reqs[q].him) : c >= reqs[q].since
        /\ reqs[q].pc = "insert" =>
             \A c \in Between(conversations, reqs[q].him, reqs[q].me) : c >= reqs[q].since
    BY DEF IInv, SearchIsExhaustive
  <2>6. nextConversation >= reqs[q].since /\ reqs[q].since <= nextConversation'
    BY <1>4, <1>6, <2>4
  <2> QED
    BY <2>1, <2>2, <2>4, <2>5, <2>6
<1>10. MessagesBelongToParticipants'
  BY <1>3, <1>4, <1>5 DEF IInv, MessagesBelongToParticipants
<1> QED
  BY <1>7, <1>8, <1>9, <1>10 DEF IInv

LEMMA SetLastMessageStep ==
  ASSUME IInv, NEW r \in Request, SetLastMessage(r)
  PROVE  IInv'
<1>1. reqs[r] \in SendHandler
  BY SendingType DEF IInv, SetLastMessage
<1>2. /\ DOMAIN conversations' = DOMAIN conversations
      /\ \A c \in DOMAIN conversations :
           /\ conversations'[c] \in ConversationRow
           /\ conversations'[c].initiator = conversations[c].initiator
           /\ conversations'[c].recipient = conversations[c].recipient
      /\ conversations' \in [DOMAIN conversations' -> ConversationRow]
  <2>1. reqs[r].content \in Content
    BY <1>1 DEF SendHandler
  <2> QED
    BY <2>1 DEF IInv, TypeOK, SetLastMessage, Update, ConversationRow
<1>3. /\ UNCHANGED <<nextConversation, messages, nextMessage>>
      /\ reqs'[r].pc = "store"
      /\ reqs'[r].conversation = reqs[r].conversation
      /\ reqs'[r].me = reqs[r].me /\ reqs'[r].him = reqs[r].him
      /\ \A q \in Request : q # r => reqs'[q] = reqs[q]
      /\ reqs[r].pc = "touch"
  BY <1>1 DEF IInv, TypeOK, SetLastMessage, SendHandler
<1>4. /\ \A c \in DOMAIN conversations : Participants(conversations'[c]) = Participants(conversations[c])
      /\ \A a, b \in Account : Between(conversations', a, b) = Between(conversations, a, b)
  BY <1>2 DEF Participants, Between
<1>5. TypeOK'
  <2>1. reqs' \in [Request -> SendHandler \cup DeleteHandler \cup {Idle}]
    BY <1>1 DEF IInv, TypeOK, SetLastMessage, SendHandler
  <2> QED
    BY <1>2, <1>3, <2>1 DEF IInv, TypeOK, SetLastMessage
<1>6. HandlersHoldTheirPair'
  BY <1>2, <1>3, <1>4 DEF IInv, HandlersHoldTheirPair
<1>7. SearchIsExhaustive'
  <2>1. ASSUME NEW q \in Request,
               reqs'[q].pc \in {"find_initiated", "find_received", "insert"}
        PROVE  /\ reqs'[q] = reqs[q]
               /\ reqs[q].me \in Account /\ reqs[q].him \in Account
    <3>1. q # r /\ reqs'[q] = reqs[q]
      BY <1>3, <2>1
    <3> QED
      BY <2>1, <3>1, SendingType DEF IInv, SendHandler
  <2> QED
    BY <1>3, <1>4, <2>1 DEF IInv, SearchIsExhaustive
<1>8. MessagesBelongToParticipants'
  BY <1>2, <1>3, <1>4 DEF IInv, MessagesBelongToParticipants
<1> QED
  BY <1>5, <1>6, <1>7, <1>8 DEF IInv

\* The conversation is still there, so the pair the handler holds is its pair.
LEMMA CreateMessageStep ==
  ASSUME IInv, NEW r \in Request, CreateMessage(r)
  PROVE  IInv'
<1> DEFINE row == [conversation |-> reqs[r].conversation,
                   creator |-> reqs[r].me, receiver |-> reqs[r].him,
                   content |-> reqs[r].content]
<1>1. reqs[r] \in SendHandler
  BY SendingType DEF IInv, CreateMessage
<1>2. /\ reqs[r].conversation \in DOMAIN conversations
      /\ reqs[r].conversation \in Nat \ {0}
      /\ Participants(conversations[reqs[r].conversation]) = {reqs[r].me, reqs[r].him}
  BY DEF IInv, TypeOK, CreateMessage, HandlersHoldTheirPair
<1>3. /\ DOMAIN messages' = DOMAIN messages \cup {nextMessage}
      /\ messages'[nextMessage] = row
      /\ \A m \in DOMAIN messages : m # nextMessage => messages'[m] = messages[m]
      /\ messages' \in [DOMAIN messages' -> MessageRow]
  BY <1>1, <1>2 DEF IInv, TypeOK, CreateMessage, Insert, SendHandler, MessageRow
<1>4. /\ UNCHANGED <<conversations, nextConversation>>
      /\ nextMessage' = nextMessage + 1
      /\ reqs' = [reqs EXCEPT ![r] = Idle]
  BY DEF CreateMessage
<1>5. TypeOK'
  BY <1>3, <1>4 DEF IInv, TypeOK, CreateMessage
<1>6. HandlersHoldTheirPair'
  BY <1>4 DEF IInv, TypeOK, HandlersHoldTheirPair, Participants, Idle
<1>7. SearchIsExhaustive'
  BY <1>4 DEF IInv, TypeOK, SearchIsExhaustive, Between, Idle
<1>8. MessagesBelongToParticipants'
  BY <1>2, <1>3, <1>4 DEF IInv, MessagesBelongToParticipants, Participants
<1> QED
  BY <1>5, <1>6, <1>7, <1>8 DEF IInv

\* A handler that ends, or that is not a sendMessage, holds nothing.
LEMMA NoSendStep ==
  ASSUME IInv, NEW r \in Request,
         NEW h \in DeleteHandler \cup {Idle},
         reqs' = [reqs EXCEPT ![r] = h],
         UNCHANGED <<conversations, nextConversation, messages, nextMessage>>,
         lost' \subseteq DOMAIN conversations, raced' = raced
  PROVE  IInv'
<1>1. h.pc \in {"check", "delete", "idle"}
  BY DEF DeleteHandler, Idle
<1>2. reqs'[r].pc = h.pc /\ \A q \in Request : q # r => reqs'[q] = reqs[q]
  BY DEF IInv, TypeOK
<1>3. TypeOK'
  BY DEF IInv, TypeOK
<1>4. HandlersHoldTheirPair'
  BY <1>1, <1>2 DEF IInv, HandlersHoldTheirPair, Participants
<1>5. SearchIsExhaustive'
  BY <1>1, <1>2 DEF IInv, SearchIsExhaustive, Between
<1>6. MessagesBelongToParticipants'
  BY DEF IInv, MessagesBelongToParticipants, Participants
<1> QED
  BY <1>3, <1>4, <1>5, <1>6 DEF IInv

LEMMA RemoveStep ==
  ASSUME IInv, NEW r \in Request,
         StartDelete(r) \/ IsYourConversation(r) \/ ConversationGone(r) \/ Fail(r)
  PROVE  IInv'
<1>1. CASE StartDelete(r)
  <2>1. PICK me \in Account, c \in 1 .. (nextConversation - 1) :
          reqs' = [reqs EXCEPT ![r] = [pc |-> "check", me |-> me, conversation |-> c]]
    BY <1>1 DEF StartDelete
  <2>2. [pc |-> "check", me |-> me, conversation |-> c] \in DeleteHandler
    BY DEF DeleteHandler
  <2> QED
    BY <1>1, <2>1, <2>2, NoSendStep DEF StartDelete, IInv, TypeOK
<1>2. CASE IsYourConversation(r)
  <2>1. reqs[r] \in DeleteHandler
    BY <1>2 DEF IInv, TypeOK, IsYourConversation, SendHandler, Idle
  <2> DEFINE h == [reqs[r] EXCEPT !.pc = "delete"]
  <2>2. h \in DeleteHandler
    BY <2>1 DEF DeleteHandler
  <2>3. reqs' = [reqs EXCEPT ![r] = h] \/ reqs' = [reqs EXCEPT ![r] = Idle]
    BY <1>2 DEF IsYourConversation, IInv, TypeOK
  <2> QED
    BY <1>2, <2>2, <2>3, NoSendStep DEF IsYourConversation, IInv, TypeOK
<1>3. CASE ConversationGone(r)
  BY <1>3, NoSendStep DEF ConversationGone, IInv, TypeOK
<1>4. CASE Fail(r)
  BY <1>4, NoSendStep DEF Fail, IInv, TypeOK
<1> QED
  BY <1>1, <1>2, <1>3, <1>4

\* The cascade takes the messages of the deleted conversation with it.
LEMMA DeleteConversationStep ==
  ASSUME IInv, NEW r \in Request, DeleteConversation(r)
  PROVE  IInv'
<1> DEFINE gone == reqs[r].conversation
<1>1. /\ DOMAIN conversations' = DOMAIN conversations \ {gone}
      /\ \A c \in DOMAIN conversations' : conversations'[c] = conversations[c]
      /\ conversations' \in [DOMAIN conversations' -> ConversationRow]
  BY DEF IInv, TypeOK, DeleteConversation, Delete
<1>2. /\ DOMAIN messages' = {m \in DOMAIN messages : messages[m].conversation # gone}
      /\ \A m \in DOMAIN messages' : messages'[m] = messages[m]
      /\ messages' \in [DOMAIN messages' -> MessageRow]
  BY DEF IInv, TypeOK, DeleteConversation, Delete
<1>3. /\ UNCHANGED <<nextConversation, nextMessage>>
      /\ reqs'[r] = Idle
      /\ \A q \in Request : q # r => reqs'[q] = reqs[q]
      /\ reqs' \in [Request -> SendHandler \cup DeleteHandler \cup {Idle}]
  BY DEF IInv, TypeOK, DeleteConversation
<1>a. /\ lost' \subseteq DOMAIN conversations'
      /\ raced' \subseteq DOMAIN conversations'
  <2>1. /\ lost \subseteq DOMAIN conversations /\ lost' = lost \ {gone}
        /\ raced \subseteq DOMAIN conversations /\ raced' = raced \ {gone}
    BY DEF IInv, TypeOK, DeleteConversation
  <2> HIDE DEF gone
  <2> QED
    BY <1>1, <2>1
<1> HIDE DEF gone
<1>4. \A c \in DOMAIN conversations' : Participants(conversations'[c]) = Participants(conversations[c])
  BY <1>1 DEF Participants
<1>5. TypeOK'
  BY <1>1, <1>2, <1>3, <1>a DEF IInv, TypeOK
<1>6. HandlersHoldTheirPair'
  <2> SUFFICES ASSUME NEW q \in Request, reqs'[q].pc \in {"touch", "store"}
               PROVE  /\ reqs'[q].conversation \in 1 .. (nextConversation' - 1)
                      /\ reqs'[q].conversation \in DOMAIN conversations' =>
                           Participants(conversations'[reqs'[q].conversation])
                             = {reqs'[q].me, reqs'[q].him}
    BY DEF HandlersHoldTheirPair
  <2>1. q # r
    BY <1>3 DEF Idle
  <2>2. reqs'[q] = reqs[q]
    BY <1>3, <2>1
  <2> QED
    BY <1>1, <1>3, <1>4, <2>2 DEF IInv, HandlersHoldTheirPair
<1>7. SearchIsExhaustive'
  <2>1. \A a, b : Between(conversations', a, b) \subseteq Between(conversations, a, b)
    BY <1>1 DEF Between
  <2> QED
    BY <1>3, <2>1 DEF IInv, SearchIsExhaustive, Idle
<1>8. MessagesBelongToParticipants'
  BY <1>1, <1>2, <1>4 DEF IInv, MessagesBelongToParticipants
<1> QED
  BY <1>5, <1>6, <1>7, <1>8 DEF IInv

LEMMA StutterStep ==
  ASSUME IInv, UNCHANGED vars
  PROVE  IInv'
BY DEF vars, IInv, TypeOK, HandlersHoldTheirPair, SearchIsExhaustive,
       MessagesBelongToParticipants, Participants, Between

\* The conjunction above is inductive, whatever number of handlers interleave.
THEOREM Invariance == Spec => []IInv
<1>1. IInv /\ [Next]_vars => IInv'
  <2> SUFFICES ASSUME IInv, [Next]_vars
               PROVE  IInv'
    OBVIOUS
  <2>1. ASSUME NEW r \in Request, Send(r)
        PROVE  IInv'
    BY <2>1, StartSendStep, FindInitiatedStep, FindReceivedStep,
       CreateNewConversationStep, SetLastMessageStep, CreateMessageStep,
       RemoveStep DEF Send
  <2>2. ASSUME NEW r \in Request, Remove(r) \/ Fail(r)
        PROVE  IInv'
    BY <2>2, RemoveStep, DeleteConversationStep DEF Remove
  <2>3. CASE UNCHANGED vars
    BY <2>3, StutterStep
  <2> QED
    BY <2>1, <2>2, <2>3 DEF Next
<1> QED
  BY InitIInv, <1>1, PTL DEF Spec

\* The tables hold well-formed rows under ids that the serials handed out.
THEOREM TypeCorrectness == Spec => []TypeOK
<1>1. IInv => TypeOK
  BY DEF IInv
<1> QED
  BY <1>1, Invariance, PTL

\* Every message lies in a conversation of exactly its creator and receiver.
THEOREM MessageSafety == Spec => []MessagesBelongToParticipants
<1>1. IInv => MessagesBelongToParticipants
  BY DEF IInv
<1> QED
  BY <1>1, Invariance, PTL

\* A conversation that existed when the lookup of findOrCreateDm began keeps
\* the handler from creating another one, however the handlers interleave.
THEOREM DuplicatesNeedARace == Spec => []DuplicateOnlyByRace
<1>1. IInv => DuplicateOnlyByRace
  <2> SUFFICES ASSUME IInv, NEW r \in Request, reqs[r].pc = "insert",
                      NEW c \in DOMAIN conversations,
                      Participants(conversations[c]) = {reqs[r].me, reqs[r].him}
               PROVE  c >= reqs[r].since
    BY DEF DuplicateOnlyByRace
  <2>1. \/ c \in Between(conversations, reqs[r].me, reqs[r].him)
        \/ c \in Between(conversations, reqs[r].him, reqs[r].me)
    BY DEF Participants, Between
  <2> QED
    BY <2>1 DEF IInv, SearchIsExhaustive
<1> QED
  BY <1>1, Invariance, PTL

(***************************************************************************)
(* The preview.  A handler writes last_message before its message, so what *)
(* backs a preview is handed from the handler to the message, or to the    *)
(* history of what failed.  A handler that was alone between its two       *)
(* statements finds its own text in the preview, and its message is newest.*)
(***************************************************************************)
Backed(c) ==
  LET last == conversations[c].last IN
  \/ last = NoContent /\ MessagesOf(c) = {}
  \/ \E m \in MessagesOf(c) :
       /\ messages[m].content = last
       /\ c \in raced \/ \A n \in MessagesOf(c) : n <= m
  \/ \E r \in Storing(c) : reqs[r].content = last
  \/ c \in lost

Alone(c) ==
  /\ Storing(c) # {} => conversations[c].last # NoContent
  /\ c \notin raced => \A r \in Storing(c) :
       /\ reqs[r].content = conversations[c].last
       /\ Storing(c) = {r}

PreviewInv == \A c \in DOMAIN conversations : Backed(c) /\ Alone(c)

LEMMA PreviewFollows == PreviewInv => PreviewIsNewest
  BY DEF PreviewInv, PreviewIsNewest, Backed

\* A step that leaves the preview, the messages and the handlers in the middle
\* of storing as they were.
LEMMA PreviewStays ==
  ASSUME NEW c \in DOMAIN conversations, PreviewInv,
         conversations'[c].last = conversations[c].last,
         MessagesOf(c)' = MessagesOf(c),
         \A m \in MessagesOf(c) : messages'[m] = messages[m],
         Storing(c)' = Storing(c),
         \A r \in Storing(c) : reqs'[r] = reqs[r],
         c \in lost => c \in lost',
         c \in raced' <=> c \in raced
  PROVE  Backed(c)' /\ Alone(c)'
<1>1. Backed(c) /\ Alone(c)
  BY DEF PreviewInv
<1>2. Backed(c)'
  BY <1>1 DEF Backed
<1>3. Alone(c)'
  BY <1>1 DEF Alone
<1> QED
  BY <1>2, <1>3

\* The handlers that are not in the middle of storing leave the previews alone.
LEMMA PreviewNotStoring ==
  ASSUME IInv, PreviewInv, NEW r \in Request, reqs[r].pc # "store",
         NEW h, h.pc # "store", reqs' = [reqs EXCEPT ![r] = h],
         UNCHANGED <<conversations, messages, lost, raced>>
  PROVE  PreviewInv'
<1> SUFFICES ASSUME NEW c \in DOMAIN conversations
             PROVE  Backed(c)' /\ Alone(c)'
  BY DEF PreviewInv
<1>1. /\ reqs'[r].pc # "store"
      /\ \A q \in Request : q # r => reqs'[q] = reqs[q]
  BY DEF IInv, TypeOK
<1>2. Storing(c)' = Storing(c) /\ \A q \in Storing(c) : reqs'[q] = reqs[q]
  BY <1>1 DEF Storing
<1> QED
  BY <1>2, PreviewStays DEF MessagesOf

\* The new conversation has an id that no message and no handler has.
LEMMA PreviewCreateConversation ==
  ASSUME IInv, PreviewInv, NEW r \in Request, CreateNewConversation(r)
  PROVE  PreviewInv'
<1>1. nextConversation \notin DOMAIN conversations
  BY DEF IInv, TypeOK
<1>2. /\ DOMAIN conversations' = DOMAIN conversations \cup {nextConversation}
      /\ conversations'[nextConversation].last = NoContent
      /\ \A c \in DOMAIN conversations : conversations'[c] = conversations[c]
  BY <1>1 DEF CreateNewConversation, Insert
<1>3. /\ reqs[r].pc # "store" /\ reqs'[r].pc # "store"
      /\ \A q \in Request : q # r => reqs'[q] = reqs[q]
      /\ UNCHANGED <<messages, lost, raced>>
  <2>1. reqs[r] \in SendHandler
    BY SendingType DEF IInv, CreateNewConversation
  <2> QED
    BY <2>1 DEF CreateNewConversation, IInv, TypeOK, SendHandler
<1>4. \A c : Storing(c)' = Storing(c) /\ MessagesOf(c)' = MessagesOf(c)
  BY <1>3 DEF Storing, MessagesOf
<1> SUFFICES ASSUME NEW c \in DOMAIN conversations'
             PROVE  Backed(c)' /\ Alone(c)'
  BY DEF PreviewInv
<1>5. CASE c = nextConversation
  <2>1. MessagesOf(c) = {}
    BY <1>1, <1>5 DEF MessagesOf, IInv, MessagesBelongToParticipants
  <2>2. Storing(c) = {}
    BY <1>5 DEF Storing, IInv, TypeOK, HandlersHoldTheirPair
  <2> QED
    BY <1>2, <1>4, <1>5, <2>1, <2>2 DEF Backed, Alone
<1>6. CASE c # nextConversation
  <2>1. c \in DOMAIN conversations
    BY <1>2, <1>6
  <2>2. \A q \in Storing(c) : reqs'[q] = reqs[q]
    BY <1>3 DEF Storing
  <2> QED
    BY <1>2, <1>3, <1>4, <2>1, <2>2, PreviewStays
<1> QED
  BY <1>5, <1>6

\* From here on the handler itself backs the preview.
LEMMA PreviewSetLastMessage ==
  ASSUME IInv, PreviewInv, NEW r \in Request, SetLastMessage(r)
  PROVE  PreviewInv'
<1> DEFINE mine == reqs[r].conversation
<1>1. reqs[r] \in SendHandler
  BY SendingType DEF IInv, SetLastMessage
<1>2. /\ reqs'[r].pc = "store" /\ reqs'[r].conversation = mine
      /\ reqs'[r].content = reqs[r].content
      /\ \A q \in Request : q # r => reqs'[q] = reqs[q]
      /\ reqs[r].pc = "touch"
      /\ messages' = messages /\ lost' = lost \ {mine}
      /\ raced' = IF Storing(mine) = {} THEN raced \ {mine} ELSE raced \cup {mine}
      /\ DOMAIN conversations' = DOMAIN conversations
  BY <1>1 DEF SetLastMessage, SendHandler, IInv, TypeOK, Update
<1>3. \A c \in DOMAIN conversations :
        conversations'[c].last = IF c = mine THEN reqs[r].content
                                 ELSE conversations[c].last
  BY DEF SetLastMessage, Update, IInv, TypeOK, ConversationRow
<1>4. reqs[r].content # NoContent
  BY <1>1, ContentAssumption DEF SendHandler
<1> HIDE DEF mine
<1>5. \A c : /\ Storing(c)' = IF c = mine THEN Storing(c) \cup {r} ELSE Storing(c)
             /\ MessagesOf(c)' = MessagesOf(c)
  BY <1>2 DEF Storing, MessagesOf
<1> SUFFICES ASSUME NEW c \in DOMAIN conversations
             PROVE  Backed(c)' /\ Alone(c)'
  BY <1>2 DEF PreviewInv
<1>6. CASE c = mine
  <2>1. Backed(c)'
    BY <1>2, <1>3, <1>5, <1>6 DEF Backed
  <2>2. CASE Storing(c) = {}
    BY <1>2, <1>3, <1>4, <1>5, <1>6, <2>2, <2>1 DEF Alone
  <2>3. CASE Storing(c) # {}
    BY <1>2, <1>3, <1>4, <1>5, <1>6, <2>3, <2>1 DEF Alone
  <2> QED
    BY <2>2, <2>3, <2>1
<1>7. CASE c # mine
  <2>1. \A q \in Storing(c) : reqs'[q] = reqs[q]
    BY <1>2 DEF Storing
  <2>2. c \in raced' <=> c \in raced
    BY <1>2, <1>7
  <2> QED
    BY <1>2, <1>3, <1>5, <1>7, <2>1, <2>2, PreviewStays
<1> QED
  BY <1>6, <1>7

\* What the handler backed, its message backs, and no message is newer.
LEMMA PreviewCreateMessage ==
  ASSUME IInv, PreviewInv, NEW r \in Request, CreateMessage(r)
  PROVE  PreviewInv'
<1> DEFINE mine == reqs[r].conversation
<1>1. /\ nextMessage \in DOMAIN messages' /\ nextMessage \notin DOMAIN messages
      /\ DOMAIN messages' = DOMAIN messages \cup {nextMessage}
      /\ \A m \in DOMAIN messages : m <= nextMessage
      /\ nextMessage <= nextMessage
      /\ messages'[nextMessage].conversation = mine
      /\ messages'[nextMessage].content = reqs[r].content
      /\ \A m \in DOMAIN messages : messages'[m] = messages[m]
  BY DEF CreateMessage, Insert, IInv, TypeOK
<1>2. /\ UNCHANGED <<conversations, lost, raced>>
      /\ \A q \in Request : q # r => reqs'[q] = reqs[q]
      /\ reqs'[r].pc # "store" /\ r \in Storing(mine)
      /\ mine \in DOMAIN conversations
  BY DEF CreateMessage, IInv, TypeOK, Idle, Storing
<1> HIDE DEF mine
<1>3. \A c : /\ Storing(c)' = Storing(c) \ {r}
             /\ MessagesOf(c)' = IF c = mine THEN MessagesOf(c) \cup {nextMessage}
                                 ELSE MessagesOf(c)
             /\ \A m \in MessagesOf(c) : messages'[m] = messages[m]
             /\ \A q \in Storing(c) : q # r => reqs'[q] = reqs[q]
  BY <1>1, <1>2 DEF Storing, MessagesOf
<1> SUFFICES ASSUME NEW c \in DOMAIN conversations
             PROVE  Backed(c)' /\ Alone(c)'
  BY <1>2 DEF PreviewInv
<1>4. Backed(c) /\ Alone(c)
  BY DEF PreviewInv
<1>5. Alone(c)'
  BY <1>2, <1>3, <1>4 DEF Alone
<1>6. CASE c = mine
  <2>1. conversations[c].last # NoContent
    BY <1>2, <1>4, <1>6 DEF Alone
  <2>2. ASSUME reqs[r].content = conversations[c].last
        PROVE  Backed(c)'
    <3>1. \A n \in MessagesOf(c)' : n <= nextMessage
      BY <1>1, <1>3, <1>6 DEF MessagesOf
    <3>2. nextMessage \in MessagesOf(c)'
      BY <1>3, <1>6
    <3> QED
      BY <1>1, <1>2, <2>2, <3>1, <3>2 DEF Backed
  <2>3. ASSUME reqs[r].content # conversations[c].last
        PROVE  Backed(c)'
    <3>1. c \in raced
      BY <1>2, <1>4, <1>6, <2>3 DEF Alone
    <3> QED
      BY <1>2, <1>3, <1>4, <2>1, <2>3, <3>1 DEF Backed
  <2> QED
    BY <1>5, <2>2, <2>3
<1>7. CASE c # mine
  <2>1. r \notin Storing(c)
    BY <1>2, <1>7 DEF Storing
  <2>2. Storing(c)' = Storing(c) /\ \A q \in Storing(c) : reqs'[q] = reqs[q]
    BY <1>3, <2>1
  <2>3. MessagesOf(c)' = MessagesOf(c)
    BY <1>3, <1>7
  <2> QED
    BY <1>2, <1>3, <2>2, <2>3, PreviewStays
<1> QED
  BY <1>6, <1>7

\* A handler that ends because its conversation is gone, or that fails.
LEMMA PreviewEnd ==
  ASSUME IInv, PreviewInv, NEW r \in Request,
         ConversationGone(r) \/ Fail(r)
  PROVE  PreviewInv'
<1>1. /\ UNCHANGED <<conversations, messages, raced>> /\ lost \subseteq lost'
      /\ \A q \in Request : q # r => reqs'[q] = reqs[q]
      /\ reqs'[r].pc # "store"
  BY DEF ConversationGone, Fail, IInv, TypeOK, Idle
<1>2. \A c : /\ Storing(c)' = Storing(c) \ {r}
             /\ MessagesOf(c)' = MessagesOf(c)
             /\ \A q \in Storing(c) : q # r => reqs'[q] = reqs[q]
  BY <1>1 DEF Storing, MessagesOf
<1> SUFFICES ASSUME NEW c \in DOMAIN conversations
             PROVE  Backed(c)' /\ Alone(c)'
  BY <1>1 DEF PreviewInv
<1>3. Backed(c) /\ Alone(c)
  BY DEF PreviewInv
<1>4. Alone(c)'
  BY <1>1, <1>2, <1>3 DEF Alone
<1>5. CASE r \in Storing(c) /\ reqs[r].content = conversations[c].last
  <2>1. Fail(r)
    BY <1>5 DEF ConversationGone, Storing
  <2>2. c \in lost'
    BY <1>5, <2>1 DEF Fail
  <2> QED
    BY <1>4, <2>2 DEF Backed
<1>6. CASE ~ (r \in Storing(c) /\ reqs[r].content = conversations[c].last)
  BY <1>1, <1>2, <1>3, <1>4, <1>6 DEF Backed
<1> QED
  BY <1>5, <1>6

LEMMA PreviewDeleteConversation ==
  ASSUME IInv, PreviewInv, NEW r \in Request, DeleteConversation(r)
  PROVE  PreviewInv'
<1> DEFINE gone == reqs[r].conversation
<1>1. /\ DOMAIN conversations' = DOMAIN conversations \ {gone}
      /\ \A c \in DOMAIN conversations' : conversations'[c] = conversations[c]
      /\ DOMAIN messages' = {m \in DOMAIN messages : messages[m].conversation # gone}
      /\ \A m \in DOMAIN messages' : messages'[m] = messages[m]
      /\ lost' = lost \ {gone} /\ raced' = raced \ {gone}
      /\ reqs[r].pc = "delete" /\ reqs'[r].pc # "store"
      /\ \A q \in Request : q # r => reqs'[q] = reqs[q]
  BY DEF DeleteConversation, Delete, IInv, TypeOK, Idle
<1> HIDE DEF gone
<1> SUFFICES ASSUME NEW c \in DOMAIN conversations'
             PROVE  Backed(c)' /\ Alone(c)'
  BY DEF PreviewInv
<1>2. c \in DOMAIN conversations /\ c # gone
  BY <1>1
<1>3. Storing(c)' = Storing(c) /\ \A q \in Storing(c) : reqs'[q] = reqs[q]
  BY <1>1 DEF Storing
<1>4. /\ MessagesOf(c)' = MessagesOf(c)
      /\ \A m \in MessagesOf(c) : messages'[m] = messages[m]
  BY <1>1, <1>2 DEF MessagesOf
<1> QED
  BY <1>1, <1>2, <1>3, <1>4, PreviewStays

\* However handlers interleave and fail, the preview of a conversation is the
\* text of its newest message or of one about to be stored, unless its last
\* writer failed or was not alone.
THEOREM PreviewsAreNewest == Spec => []PreviewIsNewest
<1>1. Init => PreviewInv
  BY DEF Init, PreviewInv, NoRows
<1>2. IInv /\ PreviewInv /\ [Next]_vars => PreviewInv'
  <2> SUFFICES ASSUME IInv, PreviewInv, [Next]_vars
               PROVE  PreviewInv'
    OBVIOUS
  <2>1. ASSUME NEW r \in Request,
               StartSend(r) \/ StartDelete(r) \/ FindInitiated(r)
                 \/ FindReceived(r) \/ IsYourConversation(r)
        PROVE  PreviewInv'
    <3>1. PICK h : reqs' = [reqs EXCEPT ![r] = h]
      BY <2>1 DEF StartSend, StartDelete, FindInitiated, FindReceived,
         IsYourConversation, IInv, TypeOK
    <3>2. /\ reqs[r].pc # "store"
          /\ UNCHANGED <<conversations, messages, lost, raced>>
      BY <2>1 DEF StartSend, StartDelete, FindInitiated, FindReceived,
         IsYourConversation, Idle
    <3>3. h.pc # "store"
      <4>1. reqs'[r] = h
        BY <3>1 DEF IInv, TypeOK
      <4>2. FindInitiated(r) \/ FindReceived(r) => reqs[r] \in SendHandler
        BY SendingType DEF IInv, FindInitiated, FindReceived
      <4>3. IsYourConversation(r) => reqs[r] \in DeleteHandler
        BY DEF IsYourConversation, IInv, TypeOK, SendHandler, Idle
      <4>4. reqs'[r].pc # "store"
        BY <2>1, <4>2, <4>3 DEF StartSend, StartDelete, FindInitiated,
           FindReceived, IsYourConversation, IInv, TypeOK, SendHandler,
           DeleteHandler, Idle
      <4> QED
        BY <4>1, <4>4
    <3> QED
      BY <3>1, <3>2, <3>3, PreviewNotStoring
  <2>2. ASSUME NEW r \in Request, Send(r) \/ Remove(r) \/ Fail(r)
        PROVE  PreviewInv'
    BY <2>1, <2>2, PreviewCreateConversation, PreviewSetLastMessage,
       PreviewCreateMessage, PreviewEnd, PreviewDeleteConversation
       DEF Send, Remove
  <2>3. CASE UNCHANGED vars
    BY <2>3 DEF vars, PreviewInv, Backed, Alone, MessagesOf, Storing
  <2> QED
    BY <2>2, <2>3 DEF Next
<1>3. PreviewInv => PreviewIsNewest
  BY PreviewFollows
<1> QED
  BY <1>1, <1>2, <1>3, Invariance, PTL DEF Spec
=============================================================================
