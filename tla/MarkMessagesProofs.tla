------------------------- MODULE MarkMessagesProofs -------------------------
(***************************************************************************)
(* What the shared client.data can never spoil, for any number of events   *)
(* in flight on any number of sockets.                                     *)
(***************************************************************************)
EXTENDS MarkMessages, TLAPS

\* The part of client.data the handlers rely on: whatever event wrote the
\* message there, it is mail of the user of the socket.
DataHoldsOwnMail ==
  \A s \in Socket :
    data[s].message # None => Receiver[data[s].message] = Owner[s]

\* What each stage of an event has established.
Sound(q) ==
  /\ q.pc = "message" =>
       /\ Owner[q.socket] \in {Initiator[q.conversation], Recipient[q.conversation]}
       /\ data[q.socket].conversation # None
  /\ q.pc = "validate" =>
       /\ data[q.socket].conversation # None
       /\ data[q.socket].message # None
  /\ q.pc \in {"update", "read", "emit"} =>
       /\ q.theMessage # None /\ q.inConversation # None
       /\ Receiver[q.theMessage] = Owner[q.socket]
  /\ q.pc \in {"read", "emit"} =>
       /\ <<q.kind, q.theMessage>> \in written
       /\ Exists(q.theMessage) => q.kind \in Flags(q.theMessage)
  /\ q.pc = "emit" =>
       /\ \A flags \in q.row : q.kind \in flags
       /\ Exists(q.theMessage) => q.row # {}

StagesAreSound == \A r \in Request : Sound(reqs[r])

IInv == TypeOK /\ DataHoldsOwnMail /\ StagesAreSound /\ EventsTellTheTruth

\* The message of a conversation that one participant did not write was sent
\* to that participant.
LEMMA ReceiverOfOthersMail ==
  ASSUME NEW m \in Message, NEW a \in Account,
         a \in {Initiator[ConversationOf[m]], Recipient[ConversationOf[m]]},
         Creator[m] # a
  PROVE  Receiver[m] = a
  BY PopulationAssumption

LEMMA InitIInv == Init => IInv
  BY DEF Init, IInv, TypeOK, DataHoldsOwnMail, StagesAreSound,
     Sound, EventsTellTheTruth, Idle

\* An event that ends or that arrives claims nothing yet.
LEMMA FreshStep ==
  ASSUME IInv, NEW r \in Request, NEW h \in Guarding \cup {Idle},
         h.pc \in {"idle", "conversation"},
         reqs' = [reqs EXCEPT ![r] = h],
         UNCHANGED <<live, marked, delivered, data, written>>,
         alone' \subseteq Request,
         emitted' \in SUBSET Event, EventsTellTheTruth'
  PROVE  IInv'
<1>1. reqs'[r].pc = h.pc /\ \A q \in Request : q # r => reqs'[q] = reqs[q]
  BY DEF IInv, TypeOK
<1>2. TypeOK'
  BY DEF IInv, TypeOK
<1>3. DataHoldsOwnMail'
  BY DEF IInv, DataHoldsOwnMail
<1>4. StagesAreSound'
  BY <1>1 DEF IInv, StagesAreSound, Sound, Exists, Flags
<1> QED
  BY <1>2, <1>3, <1>4 DEF IInv

\* What one event has established survives a step of another: client.data is
\* never emptied, and flags go only with the conversation.
LEMMA SoundStays ==
  ASSUME IInv, NEW q \in Request, reqs'[q] = reqs[q],
         \A t \in Socket :
           /\ data[t].conversation # None => data'[t].conversation # None
           /\ data[t].message # None => data'[t].message # None,
         live' \subseteq live, written \subseteq written',
         \A n : ConversationOf[n] \in live' =>
           /\ n \in marked => n \in marked'
           /\ n \in delivered => n \in delivered'
  PROVE  Sound(reqs[q])'
<1> DEFINE m == reqs[q].theMessage
<1>1. Sound(reqs[q])
  BY DEF IInv, StagesAreSound
<1>2. reqs[q].pc \in {"message", "validate"} => reqs[q].socket \in Socket
  BY DEF IInv, TypeOK, Guarding, Handling, Idle
<1>3. /\ Exists(m)' => Exists(m)
      /\ Exists(m)' /\ reqs[q].kind \in Flags(m) => reqs[q].kind \in Flags(m)'
  BY DEF Exists, Flags
<1> QED
  BY <1>1, <1>2, <1>3 DEF Sound

\* Nothing is announced, nothing is claimed.
LEMMA SilentStep ==
  ASSUME emitted' = {}
  PROVE  EventsTellTheTruth'
  BY DEF EventsTellTheTruth

LEMMA IsYourConversationStep ==
  ASSUME IInv, NEW r \in Request, IsYourConversation(r), emitted' = {}
  PROVE  IInv'
<1> DEFINE s == reqs[r].socket
           c == reqs[r].conversation
<1>1. /\ reqs[r] \in Guarding /\ s \in Socket /\ c \in Conversation
      /\ c # None
  BY SocketAssumption DEF IInv, TypeOK, IsYourConversation, Guarding, Handling, Idle
<1>2. /\ Owner[s] \in {Initiator[c], Recipient[c]}
      /\ data' = [data EXCEPT ![s].conversation = c]
      /\ reqs' = [reqs EXCEPT ![r].pc = "message"]
      /\ UNCHANGED <<live, marked, delivered, alone, written>>
  BY DEF IsYourConversation
<1>3. /\ reqs'[r].pc = "message" /\ reqs'[r].socket = s
      /\ reqs'[r].conversation = c
      /\ \A q \in Request : q # r => reqs'[q] = reqs[q]
  BY <1>1, <1>2 DEF IInv, TypeOK, Guarding
<1>4. /\ data'[s].conversation = c
      /\ \A t \in Socket : data'[t].message = data[t].message
      /\ \A t \in Socket : data[t].conversation # None => data'[t].conversation # None
  BY <1>1, <1>2 DEF IInv, TypeOK
<1>5. TypeOK'
  <2>1. reqs' \in [Request -> Guarding \cup Handling \cup {Idle}]
    BY <1>1, <1>2 DEF IInv, TypeOK, Guarding
  <2> QED
    BY <1>1, <1>2, <2>1 DEF IInv, TypeOK
<1>6. DataHoldsOwnMail'
  BY <1>4 DEF IInv, DataHoldsOwnMail
<1>7. StagesAreSound'
  <2>1. Sound(reqs[r])'
    BY <1>1, <1>2, <1>3, <1>4 DEF Sound, Exists, Flags
  <2>2. ASSUME NEW q \in Request, q # r
        PROVE  Sound(reqs[q])'
    BY <1>1, <1>2, <1>3, <1>4, <2>2, SoundStays
  <2> QED
    BY <2>1, <2>2 DEF StagesAreSound
<1>8. EventsTellTheTruth'
  BY SilentStep
<1> QED
  BY <1>5, <1>6, <1>7, <1>8 DEF IInv

LEMMA IsMessageOfConversationStep ==
  ASSUME IInv, NEW r \in Request, IsMessageOfConversation(r), emitted' = {}
  PROVE  IInv'
<1> DEFINE s == reqs[r].socket
           m == reqs[r].message
<1>1. /\ reqs[r] \in Guarding /\ s \in Socket /\ m \in Message /\ m # None
      /\ reqs[r].pc = "message" /\ Owner[s] \in Account
  <2>1. reqs[r].pc = "message"
    BY DEF IsMessageOfConversation
  <2>2. reqs[r] \in Guarding
    BY <2>1 DEF IInv, TypeOK, Handling, Idle
  <2>3. s \in Socket /\ m \in Message
    BY <2>2 DEF Guarding
  <2> QED
    BY <2>1, <2>2, <2>3, SocketAssumption
<1>2. /\ ConversationOf[m] = reqs[r].conversation /\ Creator[m] # Owner[s]
      /\ data' = [data EXCEPT ![s].message = m]
      /\ reqs' = [reqs EXCEPT ![r].pc = "validate"]
      /\ UNCHANGED <<live, marked, delivered, alone, written>>
  BY DEF IsMessageOfConversation
<1>3. Receiver[m] = Owner[s] /\ data[s].conversation # None
  <2>1. Sound(reqs[r])
    BY DEF IInv, StagesAreSound
  <2>2. /\ Owner[s] \in {Initiator[ConversationOf[m]], Recipient[ConversationOf[m]]}
        /\ data[s].conversation # None
    BY <1>1, <1>2, <2>1 DEF Sound, Exists, Flags
  <2> QED
    BY <1>1, <1>2, <2>2, ReceiverOfOthersMail
<1>4. /\ reqs'[r].pc = "validate" /\ reqs'[r].socket = s
      /\ \A q \in Request : q # r => reqs'[q] = reqs[q]
  BY <1>1, <1>2 DEF IInv, TypeOK, Guarding
<1>5. /\ data'[s].message = m
      /\ \A t \in Socket : data'[t].conversation = data[t].conversation
      /\ \A t \in Socket : t # s => data'[t].message = data[t].message
  BY <1>1, <1>2 DEF IInv, TypeOK
<1>6. TypeOK'
  <2>1. reqs' \in [Request -> Guarding \cup Handling \cup {Idle}]
    BY <1>1, <1>2 DEF IInv, TypeOK, Guarding
  <2> QED
    BY <1>1, <1>2, <2>1 DEF IInv, TypeOK
<1>7. DataHoldsOwnMail'
  BY <1>1, <1>3, <1>5 DEF IInv, DataHoldsOwnMail
<1>8. StagesAreSound'
  <2>1. Sound(reqs[r])'
    BY <1>1, <1>3, <1>4, <1>5 DEF Sound, Exists, Flags
  <2>2. ASSUME NEW q \in Request, q # r
        PROVE  Sound(reqs[q])'
    BY <1>1, <1>2, <1>4, <1>5, <2>2, SoundStays
  <2> QED
    BY <2>1, <2>2 DEF StagesAreSound
<1>9. EventsTellTheTruth'
  BY SilentStep
<1> QED
  BY <1>6, <1>7, <1>8, <1>9 DEF IInv

LEMMA ValidateStep ==
  ASSUME IInv, NEW r \in Request, Validate(r), emitted' = {}
  PROVE  IInv'
<1> DEFINE s == reqs[r].socket
           h == [pc |-> "update", kind |-> reqs[r].kind, socket |-> s,
                 conversation |-> reqs[r].conversation, message |-> reqs[r].message,
                 inConversation |-> data[s].conversation,
                 theMessage |-> data[s].message, row |-> {}]
<1>1. reqs[r] \in Guarding /\ s \in Socket
  BY DEF IInv, TypeOK, Validate, Guarding, Handling, Idle
<1>2. /\ reqs' = [reqs EXCEPT ![r] = h]
      /\ UNCHANGED <<live, marked, delivered, data, alone, written>>
      /\ reqs[r].pc = "validate"
  BY DEF Validate
<1>3. h \in Handling
  BY <1>1 DEF IInv, TypeOK, Guarding, Handling
<1>4. Sound(h)
  BY <1>1, <1>2 DEF IInv, StagesAreSound, Sound, DataHoldsOwnMail
<1>a. h.pc = "update"
  OBVIOUS
<1> HIDE DEF h
<1>5. TypeOK'
  BY <1>2, <1>3 DEF IInv, TypeOK
<1>6. DataHoldsOwnMail' /\ EventsTellTheTruth'
  BY <1>2 DEF IInv, DataHoldsOwnMail, EventsTellTheTruth
<1>7. StagesAreSound'
  <2>1. Sound(reqs[r])'
    <3>1. reqs'[r] = h /\ h.pc = "update"
      BY <1>2, <1>a DEF IInv, TypeOK
    <3> QED
      BY <1>4, <3>1 DEF Sound
  <2>2. ASSUME NEW q \in Request, q # r
        PROVE  Sound(reqs[q])'
    BY <1>2, <2>2, SoundStays DEF IInv, TypeOK
  <2> QED
    BY <2>1, <2>2 DEF StagesAreSound
<1> QED
  BY <1>5, <1>6, <1>7 DEF IInv

\* Flags are only ever set, so what the other handlers have written stays.
LEMMA SetFlagStep ==
  ASSUME IInv, NEW r \in Request, SetFlag(r), emitted' = {}
  PROVE  IInv'
<1> DEFINE m == reqs[r].theMessage
           k == reqs[r].kind
<1>1. /\ reqs[r] \in Handling /\ reqs[r].pc = "update" /\ Sound(reqs[r])
      /\ m \in Message /\ k \in Kind
  <2>1. reqs[r].pc = "update" /\ Sound(reqs[r])
    BY DEF IInv, StagesAreSound, SetFlag
  <2>2. reqs[r] \in Handling
    BY <2>1 DEF IInv, TypeOK, Guarding, Idle
  <2> QED
    BY <2>1, <2>2 DEF Sound, Handling
<1>2. /\ marked \subseteq marked' /\ marked' \subseteq Message
      /\ delivered \subseteq delivered' /\ delivered' \subseteq Message
      /\ written \subseteq written' /\ written' \subseteq Kind \X Message
      /\ <<k, m>> \in written'
      /\ m \in IF k = "read" THEN marked' ELSE delivered'
  BY <1>1 DEF IInv, TypeOK, SetFlag, SetFlags, Kind
<1>3. /\ reqs' = [reqs EXCEPT ![r].pc = "read"]
      /\ UNCHANGED <<live, data, alone>>
  BY DEF SetFlag
<1>4. /\ reqs'[r] = [reqs[r] EXCEPT !.pc = "read"]
      /\ \A q \in Request : q # r => reqs'[q] = reqs[q]
      /\ reqs'[r] \in Handling
  BY <1>1, <1>3 DEF IInv, TypeOK, Handling
<1>5. TypeOK'
  BY <1>2, <1>3, <1>4 DEF IInv, TypeOK
<1>6. DataHoldsOwnMail' /\ EventsTellTheTruth'
  BY <1>3, SilentStep DEF IInv, DataHoldsOwnMail
<1>7. StagesAreSound'
  <2>1. Sound(reqs[r])'
    BY <1>1, <1>2, <1>3, <1>4 DEF Sound, Handling, Flags
  <2>2. ASSUME NEW q \in Request, q # r
        PROVE  Sound(reqs[q])'
    BY <1>2, <1>3, <1>4, <2>2, SoundStays
  <2> QED
    BY <2>1, <2>2 DEF StagesAreSound
<1> QED
  BY <1>5, <1>6, <1>7 DEF IInv

\* The row that is read back has the flag set before; without a row there is
\* no conversation either.
LEMMA ReadBackStep ==
  ASSUME IInv, NEW r \in Request, ReadBack(r), emitted' = {}
  PROVE  IInv'
<1> DEFINE m == reqs[r].theMessage
           row == IF Exists(m) THEN {Flags(m)} ELSE {}
<1>1. /\ reqs[r] \in Handling /\ reqs[r].pc = "read" /\ Sound(reqs[r])
      /\ row \in SUBSET SUBSET Kind
  BY DEF IInv, TypeOK, StagesAreSound, ReadBack, Guarding, Handling, Idle, Flags
<1>2. /\ reqs' = [reqs EXCEPT ![r].pc = "emit", ![r].row = row]
      /\ UNCHANGED <<live, marked, delivered, data, alone, written>>
  BY DEF ReadBack
<1>3. /\ reqs'[r] = [reqs[r] EXCEPT !.pc = "emit", !.row = row]
      /\ \A q \in Request : q # r => reqs'[q] = reqs[q]
      /\ reqs'[r] \in Handling
  BY <1>1, <1>2 DEF IInv, TypeOK, Handling
<1>4. TypeOK'
  BY <1>2, <1>3 DEF IInv, TypeOK
<1>5. DataHoldsOwnMail' /\ EventsTellTheTruth'
  BY <1>2, SilentStep DEF IInv, DataHoldsOwnMail
<1>6. \A n : Exists(n)' = Exists(n) /\ Flags(n)' = Flags(n)
  BY <1>2 DEF Exists, Flags
<1>7. StagesAreSound'
  <2>1. Sound(reqs[r])'
    <3>1. /\ reqs'[r].pc = "emit" /\ reqs'[r].row = row
          /\ reqs'[r].kind = reqs[r].kind /\ reqs'[r].socket = reqs[r].socket
          /\ reqs'[r].theMessage = reqs[r].theMessage
          /\ reqs'[r].inConversation = reqs[r].inConversation
      BY <1>1, <1>3 DEF Handling
    <3>2. /\ \A flags \in row : reqs[r].kind \in flags
          /\ Exists(m) => row # {}
      BY <1>1 DEF Sound
    <3> HIDE DEF row
    <3>3. (Exists(reqs[r].theMessage) => reqs[r].row # {})'
      BY <1>2, <3>1, <3>2 DEF Exists
    <3>4. (Exists(reqs[r].theMessage) =>
             reqs[r].kind \in Flags(reqs[r].theMessage))'
      <4>1. Exists(m) => reqs[r].kind \in Flags(m)
        BY <1>1 DEF Sound
      <4>2. UNCHANGED <<live, marked, delivered>>
        BY <1>2
      <4> QED
        BY <3>1, <4>1, <4>2 DEF Exists, Flags
    <3>5. /\ (<<reqs[r].kind, reqs[r].theMessage>> \in written)'
          /\ (\A flags \in reqs[r].row : reqs[r].kind \in flags)'
      <4>1. <<reqs[r].kind, m>> \in written
        BY <1>1 DEF Sound
      <4>2. written' = written
        BY <1>2
      <4> QED
        BY <3>1, <3>2, <4>1, <4>2
    <3>6. /\ reqs'[r].theMessage # None /\ reqs'[r].inConversation # None
          /\ Receiver[reqs'[r].theMessage] = Owner[reqs'[r].socket]
      BY <1>1, <3>1 DEF Sound
    <3> QED
      BY <3>1, <3>3, <3>4, <3>5, <3>6 DEF Sound
  <2>2. ASSUME NEW q \in Request, q # r
        PROVE  Sound(reqs[q])'
    BY <1>2, <1>3, <2>2, SoundStays
  <2> QED
    BY <2>1, <2>2 DEF StagesAreSound
<1> QED
  BY <1>4, <1>5, <1>7 DEF IInv

LEMMA EmitStep ==
  ASSUME IInv, NEW r \in Request, Emit(r)
  PROVE  IInv'
<1> DEFINE q == reqs[r]
           me == Owner[q.socket]
           e == [kind |-> q.kind, to |-> Other(me, q.inConversation),
                 reader |-> me, conversation |-> q.inConversation,
                 message |-> q.theMessage, row |-> q.row, asked |-> q.message,
                 lone |-> r \in alone]
<1>1. /\ q \in Handling /\ q.pc = "emit" /\ Sound(q)
      /\ q.socket \in Socket /\ q.inConversation \in Conversation
      /\ q.theMessage \in Message
  BY DEF IInv, TypeOK, StagesAreSound, Sound, Emit, Guarding, Handling, Idle
<1>2. /\ emitted' = {e}
      /\ reqs' = [reqs EXCEPT ![r] = Idle]
      /\ alone' \subseteq Request
      /\ UNCHANGED <<live, marked, delivered, data, written>>
  BY DEF Emit, IInv, TypeOK
<1>3. e \in Event
  BY <1>1, PopulationAssumption, SocketAssumption DEF Event, Other, Handling
<1>4. EventsTellTheTruth'
  <2>1. /\ e.kind = q.kind /\ e.message = q.theMessage /\ e.row = q.row
        /\ <<q.kind, q.theMessage>> \in written
        /\ \A flags \in q.row : q.kind \in flags
        /\ Exists(q.theMessage) => q.row # {} /\ q.kind \in Flags(q.theMessage)
    BY <1>1 DEF Sound
  <2> HIDE DEF e
  <2> QED
    BY <1>2, <2>1 DEF EventsTellTheTruth, Exists, Flags
<1> QED
  BY <1>2, <1>3, <1>4, FreshStep DEF Idle

\* The cascade takes the flags of the messages that exist no longer.
LEMMA DeleteStep ==
  ASSUME IInv, NEW c \in Conversation, DeleteConversation(c), emitted' = {}
  PROVE  IInv'
<1>1. /\ live' = live \ {c}
      /\ marked' = {m \in marked : ConversationOf[m] # c}
      /\ delivered' = {m \in delivered : ConversationOf[m] # c}
      /\ UNCHANGED <<data, reqs, alone, written>>
  BY DEF DeleteConversation
<1>2. TypeOK'
  BY <1>1 DEF IInv, TypeOK
<1>3. DataHoldsOwnMail' /\ EventsTellTheTruth'
  BY <1>1, SilentStep DEF IInv, DataHoldsOwnMail
<1>4. StagesAreSound'
  BY <1>1, SoundStays DEF StagesAreSound
<1> QED
  BY <1>2, <1>3, <1>4 DEF IInv

\* The conjunction is inductive.
THEOREM Invariance == Spec => []IInv
<1>1. IInv /\ [Next]_vars => IInv'
  <2> SUFFICES ASSUME IInv, [Next]_vars
               PROVE  IInv'
    OBVIOUS
  <2>1. ASSUME NEW r \in Request, Arrive(r), emitted' = {}
        PROVE  IInv'
    <3>1. PICK k \in Kind, s \in Socket, c \in Conversation, m \in Message :
            reqs' = [reqs EXCEPT ![r] =
                       [pc |-> "conversation", kind |-> k, socket |-> s,
                        conversation |-> c, message |-> m]]
      BY <2>1 DEF Arrive
    <3> DEFINE h == [pc |-> "conversation", kind |-> k, socket |-> s,
                     conversation |-> c, message |-> m]
    <3>2. h \in Guarding /\ h.pc = "conversation"
      BY DEF Guarding
    <3>3. /\ UNCHANGED <<live, marked, delivered, data, written>>
          /\ alone' \subseteq Request
      BY <2>1 DEF Arrive, IInv, TypeOK
    <3> QED
      BY <2>1, <3>1, <3>2, <3>3, FreshStep, SilentStep
  <2>2. ASSUME NEW r \in Request, Refuse(r) \/ Fail(r), emitted' = {}
        PROVE  IInv'
    <3>1. /\ reqs' = [reqs EXCEPT ![r] = Idle]
          /\ UNCHANGED <<live, marked, delivered, data, written>>
          /\ alone' \subseteq Request
      BY <2>2 DEF Refuse, Fail, IInv, TypeOK
    <3> QED
      BY <2>2, <3>1, FreshStep, SilentStep DEF Idle
  <2>3. CASE UNCHANGED vars
    BY <2>3 DEF vars, IInv, TypeOK, DataHoldsOwnMail, StagesAreSound, Sound,
       EventsTellTheTruth, Exists, Flags
  <2> QED
    BY <2>1, <2>2, <2>3, IsYourConversationStep,
       IsMessageOfConversationStep, ValidateStep, SetFlagStep, ReadBackStep,
       EmitStep, DeleteStep DEF Next, Silent
<1> QED
  BY InitIInv, <1>1, PTL DEF Spec

\* Whatever overwrote client.data, a handler only marks mail of its own user.
THEOREM MarkingIsTheReceivers == Spec => []OnlyReceiverMarks
<1>1. IInv => OnlyReceiverMarks
  BY DEF IInv, StagesAreSound, Sound, OnlyReceiverMarks
<1> QED
  BY <1>1, Invariance, PTL

\* A message announced as read or delivered has had that flag, shows it in the
\* row sent along, and lacks it only when it was deleted since.
THEOREM Truthfulness == Spec => []EventsTellTheTruth
<1>1. IInv => EventsTellTheTruth
  BY DEF IInv
<1> QED
  BY <1>1, Invariance, PTL

\* Type correctness of the tables, of client.data and of the handlers.
THEOREM TypeCorrectness == Spec => []TypeOK
<1>1. IInv => TypeOK
  BY DEF IInv
<1> QED
  BY <1>1, Invariance, PTL
-----------------------------------------------------------------------------
\* An event in the guards that is alone has no company there.
InGuard(r) == reqs[r].pc \in {"conversation", "message", "validate"}

LoneExcludes ==
  \A r \in alone, q \in Request :
    q # r /\ InGuard(r) /\ InGuard(q) => reqs[q].socket # reqs[r].socket

\* What the guards have established about the message an event asks for.
Checked(q) ==
  /\ ConversationOf[q.message] = q.conversation
  /\ Creator[q.message] # Owner[q.socket]
  /\ Owner[q.socket] \in {Initiator[q.conversation], Recipient[q.conversation]}

\* As long as an event is alone, client.data holds what it has put there.
LoneSound(q) ==
  /\ q.pc = "message" => data[q.socket].conversation = q.conversation
  /\ q.pc = "validate" =>
       /\ data[q.socket].conversation = q.conversation
       /\ data[q.socket].message = q.message
       /\ Checked(q)
  /\ q.pc \in {"update", "read", "emit"} =>
       /\ q.inConversation = q.conversation
       /\ q.theMessage = q.message
       /\ Checked(q)

LonesAreSound == \A r \in alone : LoneSound(reqs[r])

LoneInv == LoneExcludes /\ LonesAreSound /\ LoneEventsAnswerTheirRequest

\* A step that puts one event outside the guards, or further on in them, keeps
\* the lone ones apart.
LEMMA ExcludesStep ==
  ASSUME IInv, LoneExcludes, NEW r \in Request, alone' \subseteq alone,
         \A q \in Request : q # r => reqs'[q] = reqs[q],
         InGuard(r)' => InGuard(r) /\ reqs'[r].socket = reqs[r].socket
  PROVE  LoneExcludes'
  BY DEF LoneExcludes, InGuard, IInv, TypeOK

\* The two guards write client.data of their own socket, where no lone event
\* but their own can be in the guards.
LEMMA LoneGuardStep ==
  ASSUME IInv, LoneInv, NEW r \in Request, emitted' = {},
         IsYourConversation(r) \/ IsMessageOfConversation(r)
  PROVE  LoneInv'
<1> DEFINE s == reqs[r].socket
<1>1. /\ reqs[r].pc \in {"conversation", "message"}
      /\ alone' = alone
  BY DEF IsYourConversation, IsMessageOfConversation
<1>2. /\ reqs[r] \in Guarding /\ s \in Socket
      /\ reqs[r].conversation \in Conversation /\ reqs[r].message \in Message
  <2>1. reqs[r] \in Guarding
    BY <1>1 DEF IInv, TypeOK, Handling, Idle
  <2> QED
    BY <2>1 DEF Guarding
<1>3. /\ \A q \in Request : q # r => reqs'[q] = reqs[q]
      /\ reqs'[r].socket = s
      /\ reqs'[r].conversation = reqs[r].conversation
      /\ reqs'[r].message = reqs[r].message
      /\ reqs'[r].pc = IF reqs[r].pc = "conversation" THEN "message" ELSE "validate"
  BY <1>2 DEF IInv, TypeOK, Guarding, IsYourConversation, IsMessageOfConversation
<1>4. \A t \in Socket : t # s => data'[t] = data[t]
  BY <1>2 DEF IInv, TypeOK, IsYourConversation, IsMessageOfConversation
<1>5. LoneExcludes'
  BY <1>1, <1>3, ExcludesStep DEF LoneInv, InGuard
<1>6. ASSUME NEW q \in alone, q # r
      PROVE  LoneSound(reqs[q])'
  <2>1. q \in Request /\ LoneSound(reqs[q]) /\ reqs'[q] = reqs[q]
    BY <1>3, <1>6 DEF IInv, TypeOK, LoneInv, LonesAreSound
  <2>2. CASE reqs[q].pc \in {"message", "validate"}
    <3>1. reqs[q].socket # s
      BY <1>1, <1>6, <2>1, <2>2 DEF LoneInv, LoneExcludes, InGuard
    <3>2. reqs[q].socket \in Socket
      <4>1. reqs[q] \in Guarding
        BY <2>1, <2>2 DEF IInv, TypeOK, Handling, Idle
      <4> QED
        BY <4>1 DEF Guarding
    <3> QED
      BY <1>4, <2>1, <3>1, <3>2 DEF LoneSound, Checked
  <2>3. CASE reqs[q].pc \notin {"message", "validate"}
    BY <2>1, <2>3 DEF LoneSound, Checked
  <2> QED
    BY <2>2, <2>3
<1>7. ASSUME r \in alone
      PROVE  LoneSound(reqs[r])'
  <2>1. CASE reqs[r].pc = "conversation"
    <3>1. data'[s].conversation = reqs[r].conversation
      BY <1>2, <2>1 DEF IInv, TypeOK, IsYourConversation, IsMessageOfConversation
    <3> QED
      BY <1>3, <2>1, <3>1 DEF LoneSound
  <2>2. CASE reqs[r].pc = "message"
    <3>1. IsMessageOfConversation(r)
      BY <2>2 DEF IsYourConversation
    <3>2. /\ data'[s].message = reqs[r].message
          /\ data'[s].conversation = data[s].conversation
          /\ ConversationOf[reqs[r].message] = reqs[r].conversation
          /\ Creator[reqs[r].message] # Owner[s]
      BY <1>2, <3>1 DEF IInv, TypeOK, IsMessageOfConversation
    <3>3. /\ data[s].conversation = reqs[r].conversation
          /\ Owner[s] \in {Initiator[reqs[r].conversation],
                           Recipient[reqs[r].conversation]}
      BY <1>7, <2>2 DEF IInv, StagesAreSound, Sound, LoneInv, LonesAreSound,
         LoneSound
    <3> QED
      BY <1>3, <2>2, <3>2, <3>3 DEF LoneSound, Checked
  <2> QED
    BY <1>1, <2>1, <2>2
<1>8. LonesAreSound'
  BY <1>1, <1>6, <1>7 DEF LonesAreSound
<1>9. LoneEventsAnswerTheirRequest'
  BY DEF LoneEventsAnswerTheirRequest
<1> QED
  BY <1>5, <1>8, <1>9 DEF LoneInv

LEMMA LoneArriveStep ==
  ASSUME IInv, LoneInv, NEW r \in Request, Arrive(r), emitted' = {}
  PROVE  LoneInv'
<1>1. PICK k \in Kind, s \in Socket, c \in Conversation, m \in Message :
        /\ reqs' = [reqs EXCEPT ![r] =
                     [pc |-> "conversation", kind |-> k, socket |-> s,
                      conversation |-> c, message |-> m]]
        /\ alone' = IF InGuards(s) = {} THEN alone \cup {r}
                    ELSE alone \ (InGuards(s) \cup {r})
  BY DEF Arrive
<1>2. reqs[r] = Idle /\ data' = data
  BY DEF Arrive
<1>3. /\ \A q \in Request : q # r => reqs'[q] = reqs[q]
      /\ reqs'[r].pc = "conversation" /\ reqs'[r].socket = s
  BY <1>1 DEF IInv, TypeOK
<1>4. \A q \in Request : InGuard(q) /\ reqs[q].socket = s => q \in InGuards(s)
  BY DEF InGuard, InGuards, InFlight, Idle
<1>5. LoneExcludes'
  <2> SUFFICES ASSUME NEW p \in alone', NEW q \in Request,
                      q # p, InGuard(p)', InGuard(q)'
               PROVE  reqs'[q].socket # reqs'[p].socket
    BY DEF LoneExcludes
  <2>1. p \in Request
    BY <1>1 DEF IInv, TypeOK
  <2>2. CASE p = r
    <3>1. InGuards(s) = {}
      BY <1>1, <2>2
    <3> QED
      BY <1>3, <1>4, <2>2, <3>1 DEF InGuard
  <2>3. CASE q = r
    BY <1>1, <1>3, <1>4, <2>1, <2>3 DEF InGuard
  <2>4. CASE p # r /\ q # r
    BY <1>1, <1>3, <2>1, <2>4 DEF LoneInv, LoneExcludes, InGuard
  <2> QED
    BY <2>2, <2>3, <2>4
<1>6. LonesAreSound'
  <2> SUFFICES ASSUME NEW p \in alone'
               PROVE  LoneSound(reqs[p])'
    BY DEF LonesAreSound
  <2>1. CASE p = r
    BY <1>3, <2>1 DEF LoneSound
  <2>2. CASE p # r
    <3>1. p \in alone /\ p \in Request
      BY <1>1, <2>2 DEF IInv, TypeOK
    <3> QED
      BY <1>2, <1>3, <2>2, <3>1 DEF LoneInv, LonesAreSound, LoneSound, Checked
  <2> QED
    BY <2>1, <2>2
<1>7. LoneEventsAnswerTheirRequest'
  BY DEF LoneEventsAnswerTheirRequest
<1> QED
  BY <1>5, <1>6, <1>7 DEF LoneInv

LEMMA LoneValidateStep ==
  ASSUME IInv, LoneInv, NEW r \in Request, Validate(r), emitted' = {}
  PROVE  LoneInv'
<1>1. /\ reqs[r].pc = "validate"
      /\ UNCHANGED <<data, alone>>
  BY DEF Validate
<1>2. reqs[r] \in Guarding
  BY <1>1 DEF IInv, TypeOK, Handling, Idle
<1>3. /\ \A q \in Request : q # r => reqs'[q] = reqs[q]
      /\ reqs'[r].pc = "update"
      /\ reqs'[r].socket = reqs[r].socket
      /\ reqs'[r].conversation = reqs[r].conversation
      /\ reqs'[r].message = reqs[r].message
      /\ reqs'[r].inConversation = data[reqs[r].socket].conversation
      /\ reqs'[r].theMessage = data[reqs[r].socket].message
  BY DEF IInv, TypeOK, Validate
<1>4. LoneExcludes'
  BY <1>1, <1>3, ExcludesStep DEF LoneInv, InGuard
<1>5. LonesAreSound'
  <2>1. ASSUME NEW q \in alone, q # r
        PROVE  LoneSound(reqs[q])'
    <3>1. q \in Request /\ LoneSound(reqs[q]) /\ reqs'[q] = reqs[q]
      BY <1>3, <2>1 DEF IInv, TypeOK, LoneInv, LonesAreSound
    <3> QED
      BY <1>1, <3>1 DEF LoneSound, Checked
  <2>2. ASSUME r \in alone
        PROVE  LoneSound(reqs[r])'
    <3>1. LoneSound(reqs[r])
      BY <2>2 DEF LoneInv, LonesAreSound
    <3> QED
      BY <1>1, <1>3, <3>1 DEF LoneSound, Checked
  <2> QED
    BY <1>1, <2>1, <2>2 DEF LonesAreSound
<1>6. LoneEventsAnswerTheirRequest'
  BY DEF LoneEventsAnswerTheirRequest
<1> QED
  BY <1>4, <1>5, <1>6 DEF LoneInv

LEMMA LoneHandlerStep ==
  ASSUME IInv, LoneInv, NEW r \in Request, SetFlag(r) \/ ReadBack(r),
         emitted' = {}
  PROVE  LoneInv'
<1>1. /\ reqs[r].pc \in {"update", "read"}
      /\ UNCHANGED <<data, alone>>
  BY DEF SetFlag, ReadBack
<1>2. reqs[r] \in Handling
  BY <1>1 DEF IInv, TypeOK, Guarding, Idle
<1>3. /\ \A q \in Request : q # r => reqs'[q] = reqs[q]
      /\ reqs'[r].pc \in {"read", "emit"}
      /\ reqs'[r].socket = reqs[r].socket
      /\ reqs'[r].conversation = reqs[r].conversation
      /\ reqs'[r].message = reqs[r].message
      /\ reqs'[r].inConversation = reqs[r].inConversation
      /\ reqs'[r].theMessage = reqs[r].theMessage
  BY <1>1, <1>2 DEF IInv, TypeOK, Handling, SetFlag, ReadBack
<1>4. LoneExcludes'
  BY <1>1, <1>3, ExcludesStep DEF LoneInv, InGuard
<1>5. LonesAreSound'
  <2>1. ASSUME NEW q \in alone, q # r
        PROVE  LoneSound(reqs[q])'
    <3>1. q \in Request /\ LoneSound(reqs[q]) /\ reqs'[q] = reqs[q]
      BY <1>3, <2>1 DEF IInv, TypeOK, LoneInv, LonesAreSound
    <3> QED
      BY <1>1, <3>1 DEF LoneSound, Checked
  <2>2. ASSUME r \in alone
        PROVE  LoneSound(reqs[r])'
    <3>1. LoneSound(reqs[r])
      BY <2>2 DEF LoneInv, LonesAreSound
    <3> QED
      BY <1>1, <1>3, <3>1 DEF LoneSound, Checked
  <2> QED
    BY <1>1, <2>1, <2>2 DEF LonesAreSound
<1>6. LoneEventsAnswerTheirRequest'
  BY DEF LoneEventsAnswerTheirRequest
<1> QED
  BY <1>4, <1>5, <1>6 DEF LoneInv

\* An event that ends, with or without an emit, leaves the others as they are.
LEMMA LoneEndStep ==
  ASSUME IInv, LoneInv, NEW r \in Request,
         reqs' = [reqs EXCEPT ![r] = Idle],
         alone' = alone \ {r},
         UNCHANGED data
  PROVE  LoneExcludes' /\ LonesAreSound'
<1>1. /\ \A q \in Request : q # r => reqs'[q] = reqs[q]
      /\ reqs'[r].pc = "idle"
  BY DEF IInv, TypeOK, Idle
<1>2. LoneExcludes'
  BY <1>1, ExcludesStep DEF LoneInv, InGuard
<1>3. LonesAreSound'
  BY <1>1 DEF IInv, TypeOK, LoneInv, LonesAreSound, LoneSound, Checked
<1> QED
  BY <1>2, <1>3

LEMMA AuthorIsOther ==
  ASSUME NEW m \in Message, NEW a \in Account,
         a \in {Initiator[ConversationOf[m]], Recipient[ConversationOf[m]]},
         Creator[m] # a
  PROVE  Other(a, ConversationOf[m]) = Creator[m]
<1>1. {Creator[m], Receiver[m]} =
        {Initiator[ConversationOf[m]], Recipient[ConversationOf[m]]}
  BY PopulationAssumption
<1> QED
  BY <1>1 DEF Other

LEMMA LoneEmitStep ==
  ASSUME IInv, LoneInv, NEW r \in Request, Emit(r)
  PROVE  LoneInv'
<1> DEFINE q == reqs[r]
           me == Owner[q.socket]
<1>1. /\ q \in Handling /\ q.pc = "emit"
      /\ q.message \in Message /\ me \in Account
  BY SocketAssumption DEF IInv, TypeOK, Emit, Guarding, Handling, Idle
<1>2. LoneExcludes' /\ LonesAreSound'
  BY LoneEndStep DEF Emit
<1>3. LoneEventsAnswerTheirRequest'
  <2> SUFFICES ASSUME NEW e \in emitted', e.lone
               PROVE  /\ e.message = e.asked
                      /\ e.conversation = ConversationOf[e.asked]
                      /\ e.to = Creator[e.asked]
    BY DEF LoneEventsAnswerTheirRequest
  <2>0. e = [kind |-> q.kind, to |-> Other(me, q.inConversation), reader |-> me,
             conversation |-> q.inConversation, message |-> q.theMessage,
             row |-> q.row, asked |-> q.message, lone |-> r \in alone]
    BY DEF Emit
  <2>1. /\ e.message = q.theMessage
        /\ e.asked = q.message /\ e.conversation = q.inConversation
        /\ e.to = Other(me, q.inConversation)
    BY <2>0
  <2>2. /\ q.inConversation = q.conversation
        /\ q.theMessage = q.message
        /\ Checked(q)
    <3>1. r \in alone
      BY <2>0, Zenon
    <3> QED
      BY <1>1, <3>1 DEF LoneInv, LonesAreSound, LoneSound
  <2>3. Other(me, ConversationOf[q.message]) = Creator[q.message]
    BY <1>1, <2>2, AuthorIsOther DEF Checked
  <2> QED
    BY <2>1, <2>2, <2>3 DEF Checked
<1> QED
  BY <1>2, <1>3 DEF LoneInv

THEOREM LoneInvariance == Spec => []LoneInv
<1>1. Init => LoneInv
  BY DEF Init, LoneInv, LoneExcludes, LonesAreSound, LoneEventsAnswerTheirRequest
<1>2. IInv /\ LoneInv /\ [Next]_vars => LoneInv'
  <2> SUFFICES ASSUME IInv, LoneInv, [Next]_vars
               PROVE  LoneInv'
    OBVIOUS
  <2>1. ASSUME NEW r \in Request, Refuse(r) \/ Fail(r), emitted' = {}
        PROVE  LoneInv'
    <3>1. LoneExcludes' /\ LonesAreSound'
      BY <2>1, LoneEndStep DEF Refuse, Fail
    <3>2. LoneEventsAnswerTheirRequest'
      BY <2>1 DEF LoneEventsAnswerTheirRequest
    <3> QED
      BY <3>1, <3>2 DEF LoneInv
  <2>2. CASE UNCHANGED <<data, reqs, alone>> /\ emitted' \subseteq emitted
    BY <2>2 DEF LoneInv, LoneExcludes, InGuard, LonesAreSound, LoneSound,
       Checked, LoneEventsAnswerTheirRequest
  <2> QED
    BY <2>1, <2>2, LoneArriveStep, LoneGuardStep, LoneValidateStep,
       LoneHandlerStep, LoneEmitStep DEF Next, Silent, DeleteConversation, vars
<1> QED
  BY <1>1, <1>2, Invariance, PTL DEF Spec

\* An event that met no other one in the guards of its socket is answered with
\* the message it asked for, to the author of that message.
THEOREM LoneEventsAreAnswered == Spec => []LoneEventsAnswerTheirRequest
<1>1. LoneInv => LoneEventsAnswerTheirRequest
  BY DEF LoneInv
<1> QED
  BY <1>1, LoneInvariance, PTL
=============================================================================
